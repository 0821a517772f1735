------------------------------ MODULE MCPrograms ------------------------------
(***************************************************************************)
(* The programs beside the bike server: the poll and select servers, the   *)
(* web server, the semaphore programs and the test clients.  A behaviour   *)
(* is one of them; names that two of the modules have in common stand for  *)
(* whichever runs, and what the others use stays undefined.                *)
(***************************************************************************)
EXTENDS Integers, FiniteSets, TLC

CONSTANTS EchoClients, None, WebClients, Listener, FirstClient, MaxLines,
    TestClients, Codes, MaxCommands

(* None is neither a client nor a character.                               *)
ASSUME EchoAssumption ==
    IsFiniteSet(EchoClients) /\ None \notin EchoClients /\ None \notin Int

(* The listening descriptor is no client's.                                *)
ASSUME ListenerAssumption == Listener \notin WebClients

(* A code is a number of six digits, an unset one 0.                       *)
ASSUME CodesAssumption == Codes \subseteq Nat \ {0}

VARIABLES
    which,          (* "echo", "web", "relay" or "clients" *)
    server, link, error, inbox, outbox, pc,                     \* echo and web
    alive, ch, client, events, ready, left, letter,             \* echo
    mixed, spoilt, wrong, reset,
    returned, revs, watched, handler, name,                     \* web
    asked, split, misfit,
    typed,                                                      \* relay and clients
    program, line, buff, sem1, sem2, mainpc, pc1, pc2, told,    \* relay
    icode, requests, responses, open, m2c, asker, unheard,      \* clients
    mangled, hasty, refused, overtaken

both == <<server, link, error, inbox, outbox, pc>>
echoVars == <<alive, ch, client, events, ready, left, letter, mixed, spoilt, wrong, reset>>
webVars == <<returned, revs, watched, handler, name, asked, split, misfit>>
relayVars == <<program, line, buff, sem1, sem2, mainpc, pc1, pc2, told>>
clientVars == <<icode, requests, responses, open, m2c, asker, unheard, mangled, hasty,
                refused, overtaken>>
vars == <<which, both, echoVars, webVars, typed, relayVars, clientVars>>

Echo == INSTANCE EchoServers WITH Clients <- EchoClients
Web == INSTANCE WebServer WITH
    Clients <- WebClients,
    MaxRequests <- [c \in WebClients |-> IF c = FirstClient THEN 2 ELSE 1],
    OddClients <- {FirstClient}
Relay == INSTANCE LineRelay
Test == INSTANCE TestClients WITH Clients <- TestClients

(* What a program that does not run leaves undefined.                      *)
Unused == 0
NoServer ==
    /\ server = Unused /\ link = Unused /\ error = Unused /\ inbox = Unused
    /\ outbox = Unused /\ pc = Unused
NoEcho ==
    /\ alive = Unused /\ ch = Unused /\ client = Unused /\ events = Unused
    /\ ready = Unused /\ left = Unused /\ letter = Unused /\ mixed = Unused
    /\ spoilt = Unused /\ wrong = Unused /\ reset = Unused
NoWeb ==
    /\ returned = Unused /\ revs = Unused /\ watched = Unused /\ handler = Unused
    /\ name = Unused /\ asked = Unused /\ split = Unused
    /\ misfit = Unused
NoRelay ==
    /\ program = Unused /\ line = Unused /\ buff = Unused
    /\ sem1 = Unused /\ sem2 = Unused /\ mainpc = Unused /\ pc1 = Unused
    /\ pc2 = Unused /\ told = Unused
NoClients ==
    /\ icode = Unused /\ requests = Unused /\ responses = Unused /\ open = Unused
    /\ m2c = Unused /\ asker = Unused /\ unheard = Unused /\ mangled = Unused
    /\ hasty = Unused /\ refused = Unused /\ overtaken = Unused

Init ==
    \/ which = "echo" /\ Echo!Init /\ NoWeb /\ typed = Unused /\ NoRelay /\ NoClients
    \/ which = "web" /\ Web!Init /\ NoEcho /\ typed = Unused /\ NoRelay /\ NoClients
    \/ which = "relay" /\ Relay!Init /\ NoServer /\ NoEcho /\ NoWeb /\ NoClients
    \/ which = "clients" /\ Test!Init /\ NoServer /\ NoEcho /\ NoWeb /\ NoRelay

(* A step of the program that runs                                         *)
Echoes(step) ==
    which = "echo" /\ step /\ UNCHANGED <<which, webVars, typed, relayVars, clientVars>>
Serves(step) ==
    which = "web" /\ step /\ UNCHANGED <<which, echoVars, typed, relayVars, clientVars>>
Relays(step) ==
    which = "relay" /\ step /\ UNCHANGED <<which, both, echoVars, webVars, clientVars>>
Asks(step) ==
    which = "clients" /\ step /\ UNCHANGED <<which, both, echoVars, webVars, relayVars>>

Next == Echoes(Echo!Next) \/ Serves(Web!Next) \/ Relays(Relay!Next) \/ Asks(Test!Next)

(* The servers and the threads run on, and so do clients that a server has *)
(* to do with; nothing makes a client connect or a user type.              *)
Fairness ==
    /\ WF_vars(Echoes(Echo!Server))
    /\ \A c \in EchoClients : WF_vars(Echoes(Echo!Client(c)))
    /\ WF_vars(Serves(Web!Server))
    /\ \A c \in WebClients : WF_vars(Serves(Web!Receive(c)))
    /\ WF_vars(Relays(Relay!Main))
    /\ WF_vars(Relays(Relay!First))
    /\ WF_vars(Relays(Relay!Second))

Spec == Init /\ [][Next]_vars /\ Fairness

-------------------------------------------------------------------------------
(* Properties, each of the program that it names.                          *)

(* The poll server sends a client the wrong character only after reading   *)
(* another's in between, the select server never (poll/server.c:49).       *)
WrongOnlyIfMixed == which = "echo" => Echo!WrongOnlyIfMixed

(* A character that a client waits for an answer to is not yet read, in ch *)
(* or sent back, and its descriptor is watched accordingly.                *)
OnePlace == which = "echo" => Echo!OnePlace

(* Only a client killed with its reply unread ends the poll server.        *)
DiesOnlyByReset == which = "echo" => Echo!DiesOnlyByReset

(* Every client of an echo server is served to its end, and its descriptor *)
(* given back.                                                             *)
AllServed ==
    \A c \in EchoClients :
        which = "echo" /\ link[c] = "backlog" ~> which = "echo" /\ Echo!Served(c)

(* A browser whose requests TCP does not cut, and whose forms fit, receives *)
(* the pages that fit.                                                      *)
PagesFit == which = "web" => Web!PagesFit

(* Nothing ends the web server but a request that was cut, a form that      *)
(* overwrites data.ptr and the missing return of stat_init.                 *)
EndsOnlyBy == which = "web" => Web!EndsOnlyBy

(* A browser is answered and its connection closed, as long as the web     *)
(* server runs.                                                            *)
BrowsersServed ==
    \A c \in WebClients :
        /\ which = "web" /\ pc[c] = "wait" ~> which = "web" /\ Web!Answered(c)
        /\ which = "web" /\ pc[c] = "left" ~> which = "web" /\ Web!Released(c)

(* In both semaphore programs the printing thread ends, and main returns   *)
(* unless the second thread was never told of the last line.               *)
ThreadsEnd ==
    which = "relay" /\ mainpc \in {"join1", "join2"} ~> which = "relay" /\ Relay!Joined

(* mytest.c:111 says of the joins that they merely wait for the two        *)
(* threads to end, and in both programs main goes on after them.           *)
JoinReturns ==
    which = "relay" /\ mainpc \in {"join1", "join2"} ~> which = "relay" /\ mainpc = "done"

(* A code is refused only to a test client that did not wait for its code, *)
(* read a response in pieces or behind another, or was overtaken by        *)
(* another client with its number.                                         *)
RefusedForAReason == which = "clients" => Test!RefusedForAReason
===============================================================================
