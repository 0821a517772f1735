------------------------------- MODULE WebServer -------------------------------
(***************************************************************************)
(* The web server of src/multiplexing/epoll/epoll_web_server: one thread,  *)
(* one ConnectStat for each connection, which holds the handler that will  *)
(* write the next page and the name that the form was last filled in with. *)
(*                                                                         *)
(* do_http_request takes whatever one read returns for one request, so it  *)
(* matters how TCP cuts a request.  A "get" and a "commit" (POST /commit)  *)
(* arrive whole; a commit may also arrive as its header ("head") and its   *)
(* form ("form"), or cut inside its header ("part", "rest").  Segments     *)
(* that wait together are read together.                                   *)
(*                                                                         *)
(* The handler copies a name of letters and digits, of any length, into    *)
(* the 64 bytes of stat->name, and the age into those of stat->age after   *)
(* it.  What matters of a form is its shape:                               *)
(*   "fits"     at most 63 letters and digits;                             *)
(*   "foreign"  begins with another character: nothing is copied;          *)
(*   "mangled"  copied up to another character, or running into stat->age; *)
(*   "huge"     132 bytes or more (an age: 68), which reaches _ev.data.ptr *)
(*              and then the handler and the heap beyond the ConnectStat.  *)
(*                                                                         *)
(* stat_init has no return statement: what main gets is the pointer only   *)
(* if the compiler happened to leave it in the register.                   *)
(***************************************************************************)
EXTENDS Integers, SequencesExt

CONSTANTS
    Clients,
    MaxRequests,        (* how many requests each client makes *)
    OddClients,         (* those of which one may be cut or not fit *)
    Listener            (* listen_sock, which is no client *)

Blank == 0              (* the form was sent without a name *)
Garbled == -1           (* name and age as a mangled form leaves them *)
Shapes == {"fits", "foreign", "mangled", "huge"}

VARIABLES
    returned,   (* stat_init returns its pointer *)
    server,     (* "runs", the signal that killed it, or "overrun": after a
                   form has overwritten data.ptr nothing is defined *)
    revs,       (* the events of epoll_wait that are still to be handled *)
    link,       (* the server's end of each connection *)
    watched,    (* _ev.events: "in" or "out" *)
    handler,    (* stat->handler, "none" until the first request *)
    name,       (* stat->name *)
    error,      (* "pending": reset; "broken": writes raise SIGPIPE *)
    inbox,      (* segments sent and not read; some may still be on their way *)
    outbox,     (* pages to be received *)
    pc,         (* where each client is *)
    asked,      (* the requests of each client *)
    split,      (* history: clients that had a request cut *)
    misfit      (* history: clients that received a page for something else *)

statVars == <<link, watched, handler, name>>
clientVars == <<pc, asked, split, misfit>>
vars == <<returned, server, revs, statVars, error, inbox, outbox, clientVars>>

Init ==
    /\ returned \in BOOLEAN /\ server = "runs" /\ revs = {}
    /\ link = [c \in Clients |-> "new"] /\ watched = [c \in Clients |-> "in"]
    /\ handler = [c \in Clients |-> "none"] /\ name = [c \in Clients |-> Blank]
    /\ error = [c \in Clients |-> "none"]
    /\ inbox = [c \in Clients |-> <<>>] /\ outbox = [c \in Clients |-> <<>>]
    /\ pc = [c \in Clients |-> "out"] /\ asked = [c \in Clients |-> <<>>]
    /\ split = {} /\ misfit = {}

Segment(kind, n, shape) == [kind |-> kind, name |-> n, shape |-> shape]
Page(kind, n) == [page |-> kind, name |-> n]

Hung(c) == pc[c] = "left"
Running == server = "runs"

-------------------------------------------------------------------------------
(* Browsers *)

Connect(c) ==
    /\ Running /\ pc[c] = "out"
    /\ pc' = [pc EXCEPT ![c] = "idle"]
    /\ link' = [link EXCEPT ![c] = "backlog"]
    /\ UNCHANGED <<returned, server, revs, watched, handler, name, error, inbox,
                   outbox, asked, split, misfit>>

(* The ways in which a request with the form n can be cut.                 *)
Cuts(n, shape) ==
    {<<Segment("commit", n, shape)>>,
     <<Segment("head", Blank, "fits"), Segment("form", n, shape)>>,
     <<Segment("part", Blank, "fits"), Segment("rest", n, shape)>>}

(* The shapes of the forms that a client has sent.                         *)
Sent(c) == {asked[c][i].shape : i \in 1..Len(asked[c])}
Modest == {c \in Clients : Sent(c) \subseteq {"fits"}}

Ask(c, request) ==
    /\ Running /\ pc[c] = "idle" /\ Len(asked[c]) < MaxRequests[c]
    /\ Len(request) > 1 \/ Last(request).shape # "fits" => c \in (OddClients \cap Modest) \ split
    /\ pc' = [pc EXCEPT ![c] = "wait"]
    /\ asked' = [asked EXCEPT ![c] = Append(@, Last(request))]
    /\ inbox' = [inbox EXCEPT ![c] = @ \o request]
    /\ split' = IF Len(request) > 1 THEN split \cup {c} ELSE split
    /\ UNCHANGED <<returned, server, revs, statVars, error, outbox, misfit>>

(* The last name that the client has given on this connection.             *)
LastName(c) ==
    LET given == {i \in 1..Len(asked[c]) : asked[c][i].name # Blank}
    IN  IF given = {} THEN Blank ELSE asked[c][Max(given)].name

Fitting(c) ==
    IF Last(asked[c]).kind = "get" THEN Page("welcome", Blank) ELSE Page("commit", LastName(c))

Receive(c) ==
    /\ Running /\ pc[c] = "wait" /\ outbox[c] # <<>>
    /\ misfit' = IF Head(outbox[c]) = Fitting(c) THEN misfit ELSE misfit \cup {c}
    /\ outbox' = [outbox EXCEPT ![c] = Tail(@)]
    /\ pc' = [pc EXCEPT ![c] = "idle"]
    /\ UNCHANGED <<returned, server, revs, statVars, error, inbox, asked, split>>

(* The user closes the page; what has not been received resets the link.   *)
Leave(c) ==
    /\ Running /\ pc[c] \in {"idle", "wait"}
    /\ error' = [error EXCEPT ![c] = IF outbox[c] # <<>> THEN "pending" ELSE @]
    /\ outbox' = [outbox EXCEPT ![c] = <<>>]
    /\ pc' = [pc EXCEPT ![c] = "left"]
    /\ UNCHANGED <<returned, server, revs, statVars, inbox, asked, split, misfit>>

-------------------------------------------------------------------------------
(* The server *)

Reported ==
    {c \in Clients : /\ link[c] = "open"
                     /\ watched[c] = "out" \/ inbox[c] # <<>> \/ Hung(c)}

epoll_wait ==
    LET ready == {<<c, watched[c]>> : c \in Reported}
                   \cup {<<Listener, "in">> : c \in {d \in Clients : link[d] = "backlog"}}
    IN
    /\ Running /\ revs = {}
    /\ ready # {}
    /\ revs' = ready
    /\ server' = IF returned THEN server ELSE "SIGSEGV"
    /\ UNCHANGED <<returned, statVars, error, inbox, outbox, clientVars>>

(* accept and connect_handle *)
connect_handle(c) ==
    /\ link[c] = "backlog"
    /\ link' = [link EXCEPT ![c] = "open"]
    /\ watched' = [watched EXCEPT ![c] = "in"]
    /\ UNCHANGED <<server, handler, name, error, inbox, outbox>>

(* The first form in what was read: the "name=" and "age=" that are found. *)
Form(data) ==
    LET filled == {i \in 1..Len(data) : data[i].kind \in {"commit", "form", "rest"}}
    IN  IF filled = {} THEN Segment("form", Blank, "fits") ELSE data[Min(filled)]

MutStore(c, data) == Form(data).name     \* an empty field clears the name

(* A name is copied only if a letter or digit begins it.                   *)
Store(c, data) ==
    CASE Form(data).shape = "mangled" -> Garbled
      [] Form(data).shape = "fits" /\ Form(data).name # Blank -> Form(data).name
      [] OTHER -> name[c]

(* A commit whose header does not end in what was read: strstr returns     *)
(* NULL and is called on it.                                               *)
HeaderCut(data) == Head(data).kind = "part" /\ Len(data) = 1

IsCommit(data) == Head(data).kind \in {"commit", "head", "part"}
Overruns(data) == IsCommit(data) /\ Form(data).shape = "huge"

MutParse(c, data) ==        \* only a form sets the handler
    /\ ~HeaderCut(data) /\ ~Overruns(data)
    /\ handler' = [handler EXCEPT ![c] = IF IsCommit(data) THEN "commit" ELSE @]
    /\ name' = [name EXCEPT ![c] = IF IsCommit(data) THEN Store(c, data) ELSE @]
    /\ watched' = [watched EXCEPT ![c] = "out"]
    /\ UNCHANGED <<server, link, error, outbox>>

Parse(c, data) ==
    /\ ~HeaderCut(data) /\ ~Overruns(data)
    /\ handler' = [handler EXCEPT ![c] = IF IsCommit(data) THEN "commit" ELSE "welcome"]
    /\ name' = [name EXCEPT ![c] = IF IsCommit(data) THEN Store(c, data) ELSE @]
    /\ watched' = [watched EXCEPT ![c] = "out"]
    /\ UNCHANGED <<server, link, error, outbox>>

ParseFails(data) ==
    /\ HeaderCut(data)
    /\ server' = "SIGSEGV"
    /\ UNCHANGED <<statVars, error, outbox>>

(* The copy overwrites the pointer that line 291 gives to epoll, from      *)
(* which the next event of this connection takes its ConnectStat.          *)
ParseOverruns(data) ==
    /\ Overruns(data)
    /\ server' = "overrun"
    /\ UNCHANGED <<statVars, error, outbox>>

(* read returns -1 for the reset and tells of it no more.                  *)
ReadFails(c) ==
    /\ inbox[c] = <<>> /\ error[c] = "pending"
    /\ error' = [error EXCEPT ![c] = "broken"]
    /\ UNCHANGED <<server, statVars, inbox, outbox>>

MutReadEnds(c) ==           \* takes the end for an error
    /\ inbox[c] = <<>> /\ error[c] # "pending"
    /\ UNCHANGED <<server, statVars, error, inbox, outbox>>

(* read returns 0: the descriptor leaves epoll, the ConnectStat is freed.  *)
ReadEnds(c) ==
    /\ inbox[c] = <<>> /\ error[c] # "pending"
    /\ link' = [link EXCEPT ![c] = "closed"]
    /\ handler' = [handler EXCEPT ![c] = "none"]
    /\ UNCHANGED <<server, watched, name, error, inbox, outbox>>

(* One read returns the first k segments, those that have come.            *)
do_http_request(c) ==
    \/ \E k \in 1..Len(inbox[c]) :
          /\ inbox' = [inbox EXCEPT ![c] = SubSeq(@, k + 1, Len(@))]
          /\ LET data == SubSeq(inbox[c], 1, k)
             IN  Parse(c, data) \/ ParseFails(data) \/ ParseOverruns(data)
    \/ ReadFails(c) \/ ReadEnds(c)

(* welcome_response_handler or commit_respone_handler: the page is written *)
(* and the next request awaited.                                           *)
do_http_respone(c) ==
    LET page == IF handler[c] = "commit" THEN Page("commit", name[c]) ELSE Page("welcome", Blank)
    IN
    IF error[c] = "broken" THEN server' = "SIGPIPE" /\ UNCHANGED <<statVars, error, inbox, outbox>>
    ELSE /\ watched' = [watched EXCEPT ![c] = "in"]
         /\ outbox' = [outbox EXCEPT ![c] = IF pc[c] = "left" THEN @ ELSE Append(@, page)]
         /\ error' = [error EXCEPT ![c] = IF pc[c] = "left" THEN "broken" ELSE @]
         /\ UNCHANGED <<server, link, handler, name, inbox>>

Handle ==
    /\ Running
    /\ \E e \in revs :
          /\ revs' = revs \ {e}
          /\ CASE e[1] = Listener -> \E c \in Clients : connect_handle(c)
               [] e[1] # Listener /\ e[2] = "in" -> do_http_request(e[1])
               [] e[1] # Listener /\ e[2] = "out" -> do_http_respone(e[1])
    /\ UNCHANGED <<returned, clientVars>>

-------------------------------------------------------------------------------
(* A form is left empty or has a name of its own, of any shape; those of   *)
(* two of the shapes are not cut as well.                                  *)
Requests(c) ==
    LET n == Len(asked[c]) + 1 IN
    {<<Segment("get", Blank, "fits")>>}
        \cup Cuts(Blank, "fits") \cup Cuts(n, "fits") \cup Cuts(n, "huge")
        \cup {<<Segment("commit", n, shape)>> : shape \in {"foreign", "mangled"}}

Server == epoll_wait \/ Handle
Next ==
    \/ Server
    \/ \E c \in Clients : \/ Connect(c) \/ Receive(c) \/ Leave(c)
                          \/ \E r \in Requests(c) : Ask(c, r)

-------------------------------------------------------------------------------
(* Properties *)

(* As long as TCP has cut none of its requests and its forms fit the fields *)
(* of a ConnectStat (lines 21 and 22, which the copies of 261 and 272 do    *)
(* not look at), a client receives for each request the page that fits,     *)
(* with the name that it gave last, whatever the others send: the name of   *)
(* an earlier form stands where a form is left empty (line 260).            *)
PagesFit == misfit \cap Modest \subseteq split

(* Nothing ends the server, by whichever signal, but the missing return of *)
(* stat_init, a request that was cut (a commit whose header was not        *)
(* complete is searched with a null pointer, line 255, and a cut request   *)
(* gets two pages, the second after the client has left) or a form that    *)
(* runs over data.ptr.  A name that runs into the age alone does not end   *)
(* it, and the handler that line 222 calls is never unset.                 *)
EndsOnlyBy ==
    /\ server = "SIGSEGV" => ~returned \/ split # {}
    /\ server = "SIGPIPE" => split # {}
    /\ server = "overrun" => \E c \in Clients : "huge" \in Sent(c)
    /\ \A c \in Clients : watched[c] = "out" => link[c] = "open" /\ handler[c] # "none"

(* What a waiting client whose requests are not cut comes to, and a        *)
(* connection that the client has left.                                    *)
Answered(c) == pc[c] \in {"idle", "left"} \/ ~Running \/ c \in split
Released(c) == link[c] = "closed" \/ ~Running
===============================================================================
