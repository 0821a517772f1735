------------------------------ MODULE EchoServers ------------------------------
(***************************************************************************)
(* The servers of src/multiplexing/poll and src/multiplexing/select with   *)
(* the client program that belongs to both: a client sends one character   *)
(* and waits for its successor, twice, the second time starting from what  *)
(* it was sent.  The server is one thread with one variable, ch, for the   *)
(* characters of all its clients; the poll server reads a character in one *)
(* turn of its loop and writes it in a later one.                          *)
(*                                                                         *)
(* ch is declared in the body of the loop and never initialized: what it   *)
(* holds from one turn to the next is what its stack slot keeps, and main  *)
(* has nothing else that the compiler could put there.  Characters are     *)
(* numbered from 'A', which is 0.                                          *)
(*                                                                         *)
(* A client may be killed.  With a reply unread its kernel resets the      *)
(* connection: a read then fails once, and after that writes raise         *)
(* SIGPIPE, which ends the server, and reads find the end of the stream.   *)
(***************************************************************************)
EXTENDS Integers, FiniteSetsExt

CONSTANTS
    Clients,
    None            (* no character, no client *)

Fds == 1..Cardinality(Clients)
server_sockfd == 0          (* the lowest descriptor *)

VARIABLES
    server,         (* "poll" or "select" *)
    alive,          (* whether the server still runs *)
    ch,             (* its character *)
    client,         (* the connection of each descriptor *)
    events,         (* fds[].events: "in" or "out" *)
    ready,          (* the descriptors that the last poll or select reported *)
    link,           (* the server's end of each connection *)
    error,          (* "pending": reset; "broken": writes raise SIGPIPE *)
    inbox,          (* the character a client has sent and nobody has read *)
    outbox,         (* the reply a client has not read *)
    pc,             (* where each client is *)
    left,           (* exchanges a client has still to finish *)
    letter,         (* the client's own ch *)
    mixed,          (* history: ch has changed since the client's was read *)
    spoilt,         (* history: clients answered while mixed *)
    wrong,          (* history: clients that got another character *)
    reset           (* history: clients killed with a reply unread *)

clientVars == <<pc, left, letter, wrong, reset>>
slotVars == <<client, events, link>>
history == <<mixed, spoilt>>
vars == <<server, alive, ch, slotVars, ready, error, inbox, outbox, clientVars, history>>

Init ==
    /\ server \in {"poll", "select"} /\ alive = TRUE /\ ch = 0
    /\ client = [f \in Fds |-> None] /\ events = [f \in Fds |-> "in"] /\ ready = {}
    /\ link = [c \in Clients |-> "new"] /\ error = [c \in Clients |-> "none"]
    /\ inbox = [c \in Clients |-> None] /\ outbox = [c \in Clients |-> None]
    /\ pc = [c \in Clients |-> "connect"] /\ left = [c \in Clients |-> 2]
    /\ letter = [c \in Clients |-> 0]
    /\ mixed = {} /\ spoilt = {} /\ wrong = {} /\ reset = {}

Hung(c) == pc[c] \in {"ended", "killed"}
Backlog == {c \in Clients : link[c] = "backlog"}

-------------------------------------------------------------------------------
(* The client program *)

Connect(c) ==
    /\ alive /\ pc[c] = "connect"
    /\ pc' = [pc EXCEPT ![c] = "write"]
    /\ link' = [link EXCEPT ![c] = "backlog"]
    /\ UNCHANGED <<server, alive, ch, client, events, ready, error, inbox, outbox,
                   left, letter, wrong, reset, history>>

Write(c) ==
    /\ alive /\ pc[c] = "write"
    /\ inbox' = [inbox EXCEPT ![c] = letter[c]]
    /\ pc' = [pc EXCEPT ![c] = "read"]
    /\ UNCHANGED <<server, alive, ch, slotVars, ready, error, outbox,
                   left, letter, wrong, reset, history>>

(* The reply comes; after the second the client closes its socket.         *)
Read(c) ==
    /\ pc[c] = "read" /\ outbox[c] # None
    /\ wrong' = IF outbox[c] = letter[c] + 1 THEN wrong ELSE wrong \cup {c}
    /\ letter' = [letter EXCEPT ![c] = outbox[c]]
    /\ outbox' = [outbox EXCEPT ![c] = None]
    /\ left' = [left EXCEPT ![c] = @ - 1]
    /\ pc' = [pc EXCEPT ![c] = IF left[c] = 1 THEN "ended" ELSE "write"]
    /\ UNCHANGED <<server, alive, ch, slotVars, ready, error, inbox, reset, history>>

(* A dead server's sockets are closed: the calls of the client fail.       *)
FindServerGone(c) ==
    /\ ~alive /\ pc[c] \in {"write", "read"}
    /\ pc' = [pc EXCEPT ![c] = "ended"]
    /\ UNCHANGED <<server, alive, ch, slotVars, ready, error, inbox, outbox,
                   left, letter, wrong, reset, history>>

Kill(c) ==
    /\ pc[c] \in {"write", "read"}
    /\ pc' = [pc EXCEPT ![c] = "killed"]
    /\ error' = [error EXCEPT ![c] = IF outbox[c] # None THEN "pending" ELSE @]
    /\ reset' = IF outbox[c] # None THEN reset \cup {c} ELSE reset
    /\ outbox' = [outbox EXCEPT ![c] = None]
    /\ UNCHANGED <<server, alive, ch, slotVars, ready, inbox, left, letter, wrong, history>>

-------------------------------------------------------------------------------
(* The servers *)

Readable(c) == inbox[c] # None \/ Hung(c)

Reported ==
    {f \in Fds : client[f] # None /\ (events[f] = "out" \/ Readable(client[f]))}
        \cup (IF Backlog = {} THEN {} ELSE {server_sockfd})

(* poll, or select; the descriptors are then scanned in ascending order.   *)
Await ==
    /\ alive /\ ready = {}
    /\ Reported # {}
    /\ ready' = Reported
    /\ UNCHANGED <<server, alive, ch, slotVars, error, inbox, outbox, clientVars, history>>

Scan(f) == alive /\ ready # {} /\ f = Min(ready) /\ ready' = ready \ {f}

MutAccept ==                \* does not add the descriptor to the set
    /\ Scan(server_sockfd)
    /\ \E c \in Backlog : link' = [link EXCEPT ![c] = "open"]
    /\ UNCHANGED <<server, alive, ch, client, events, error, inbox, outbox, clientVars, history>>

(* The new descriptor, the lowest that is free, is not in this round.      *)
Accept ==
    /\ Scan(server_sockfd)
    /\ \E c \in Backlog :
          LET f == Min({g \in Fds : client[g] = None}) IN
          /\ client' = [client EXCEPT ![f] = c]
          /\ events' = [events EXCEPT ![f] = "in"]
          /\ link' = [link EXCEPT ![c] = "open"]
    /\ UNCHANGED <<server, alive, ch, error, inbox, outbox, clientVars, history>>

Close(f) ==
    /\ client' = [client EXCEPT ![f] = None]
    /\ events' = [events EXCEPT ![f] = "in"]
    /\ link' = [link EXCEPT ![client[f]] = "closed"]
    /\ UNCHANGED <<alive, ch, error, inbox, outbox, history>>

(* Clients that wait for a write: ch changes under them.                   *)
Waiting == {client[g] : g \in {h \in Fds : client[h] # None /\ events[h] = "out"}}

MutServe(f) ==              \* takes the end of the stream for a character
    LET c == client[f] IN
    /\ ch' = IF inbox[c] # None THEN inbox[c] + 1 ELSE ch + 1
    /\ inbox' = [inbox EXCEPT ![c] = None]
    /\ error' = [error EXCEPT ![c] = IF @ = "pending" THEN "broken" ELSE @]
    /\ events' = [events EXCEPT ![f] = "out"]
    /\ mixed' = (mixed \cup Waiting) \ {c}
    /\ UNCHANGED <<alive, client, link, outbox, spoilt>>

(* POLLIN of the poll server: a failed read leaves ch as it was, and is    *)
(* taken for a character.                                                  *)
Serve(f) ==
    LET c == client[f] IN
    /\ inbox[c] # None \/ error[c] = "pending"
    /\ ch' = IF inbox[c] # None THEN inbox[c] + 1 ELSE ch + 1
    /\ inbox' = [inbox EXCEPT ![c] = None]
    /\ error' = [error EXCEPT ![c] = IF inbox[c] # None THEN @ ELSE "broken"]
    /\ events' = [events EXCEPT ![f] = "out"]
    /\ mixed' = (mixed \cup Waiting) \ {c}
    /\ UNCHANGED <<alive, client, link, outbox, spoilt>>

(* write of one character.  A peer that has closed answers with a reset; a *)
(* reset that nobody has seen makes one write fail.                        *)
Send(c, reply) ==
    IF error[c] = "broken" THEN alive' = FALSE /\ UNCHANGED <<error, outbox>>
    ELSE /\ error' = [error EXCEPT ![c] = IF Hung(c) THEN "broken" ELSE @]
         /\ outbox' = [outbox EXCEPT ![c] = IF Hung(c) THEN @ ELSE reply]
         /\ UNCHANGED alive

MutReply(f) ==              \* leaves the descriptor waiting for POLLOUT
    /\ Send(client[f], ch)
    /\ spoilt' = IF client[f] \in mixed THEN spoilt \cup {client[f]} ELSE spoilt
    /\ UNCHANGED <<ch, client, events, link, inbox, mixed>>

MutReplyNext(f) ==          \* increments once more
    /\ Send(client[f], ch + 1)
    /\ events' = [events EXCEPT ![f] = "in"]
    /\ spoilt' = IF client[f] \in mixed THEN spoilt \cup {client[f]} ELSE spoilt
    /\ UNCHANGED <<ch, client, link, inbox, mixed>>

(* POLLOUT of the poll server *)
Reply(f) ==
    /\ Send(client[f], ch)
    /\ events' = [events EXCEPT ![f] = "in"]
    /\ spoilt' = IF client[f] \in mixed THEN spoilt \cup {client[f]} ELSE spoilt
    /\ UNCHANGED <<ch, client, link, inbox, mixed>>

ServePoll(f) ==
    \/ events[f] = "in" /\ Serve(f)
    \/ /\ events[f] = "in" /\ inbox[client[f]] = None /\ error[client[f]] # "pending"
       /\ Close(f)
    \/ events[f] = "out" /\ Reply(f)

(* The select server asks FIONREAD first, and answers at once.             *)
ServeSelect(f) ==
    LET c == client[f] IN
    \/ inbox[c] = None /\ Close(f)
    \/ /\ inbox[c] # None
       /\ ch' = inbox[c] + 1
       /\ inbox' = [inbox EXCEPT ![c] = None]
       /\ Send(c, inbox[c] + 1)
       /\ UNCHANGED <<slotVars, history>>

Handle(f) ==
    /\ Scan(f)
    /\ IF server = "poll" THEN ServePoll(f) ELSE ServeSelect(f)
    /\ UNCHANGED <<server, clientVars>>

-------------------------------------------------------------------------------
Client(c) == Write(c) \/ Read(c) \/ FindServerGone(c)
Server == Await \/ Accept \/ \E f \in Fds : Handle(f)
Next == Server \/ \E c \in Clients : Client(c) \/ Connect(c) \/ Kill(c)

-------------------------------------------------------------------------------
(* Properties *)

(* A client gets another character than the successor of its own only if   *)
(* the poll server read somebody else's between reading and writing for it *)
(* (poll/server.c:49, :107); the select server never mixes them up.        *)
WrongOnlyIfMixed == wrong \subseteq (IF server = "poll" THEN spoilt ELSE {})

(* A character that its client waits for an answer to is in one place: not *)
(* yet read, in ch, or sent back; and the descriptor is watched for what   *)
(* comes next (server.c:104, :108).                                        *)
OnePlace ==
    \A f \in Fds : client[f] # None /\ pc[client[f]] = "read" /\ alive =>
        LET c == client[f] IN
        \/ inbox[c] # None /\ outbox[c] = None /\ events[f] = "in"
        \/ inbox[c] = None /\ outbox[c] = None /\ events[f] = "out"
        \/ inbox[c] = None /\ outbox[c] # None /\ events[f] = "in"

(* Only a client killed with its reply unread takes a server with it, and  *)
(* only the poll server, which reads without asking (poll/server.c:88).    *)
DiesOnlyByReset ==
    ~alive => server = "poll" /\ \E c \in reset : link[c] = "open"

(* What every client that connects comes to, whoever else is served or     *)
(* killed: it has had its replies, and its descriptor is given back.       *)
Served(c) == ~alive \/ (Hung(c) /\ link[c] = "closed")
===============================================================================
