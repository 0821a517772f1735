----------------------------- MODULE EpollFramework -----------------------------
(***************************************************************************)
(* The event framework of src/multiplexing/epoll/epoll_framework (comm.c,  *)
(* comm_epoll.c) and the echo server of its main.c: one thread that waits  *)
(* in epoll, calls the handlers registered for each descriptor, and once   *)
(* per second closes the connections whose timeout has run out.            *)
(*                                                                         *)
(* Times are relative to sys_curtime: left is what F->timeout lies ahead   *)
(* of it, in ticks of which the waits 10 and 30 are Short and Long.  The   *)
(* listening socket is the descriptor Listener, registered for ever.       *)
(***************************************************************************)
EXTENDS Integers, FiniteSets

CONSTANTS
    Conns,          (* the connections clients make *)
    Fds,            (* descriptor numbers of connections *)
    Listener,       (* the listening socket *)
    Stats,          (* addresses the allocator uses for a ConnectStat *)
    None,
    Short, Long,    (* 10 and 30 seconds *)
    MaxMsgs         (* messages a client sends *)

ASSUME FdsAssumption == Fds \subseteq Nat \ {0} /\ Listener \notin Fds
ASSUME StatsAssumption == Cardinality(Stats) >= Cardinality(Fds)
ASSUME TimesAssumption == Short \in Nat \ {0} /\ Long \in Nat /\ Short <= Long
ASSUME MaxMsgsAssumption == MaxMsgs \in Nat

VARIABLES
    link,           (* "new", "backlog", "open" or "closed" for each connection *)
    peer,           (* the other end: "here", "shut" or "reset" *)
    sent, unread,   (* messages sent, and of them in the receive buffer *)
    sock,           (* the connection each descriptor is open for *)
    fd_table,       (* handlers with their data, and the timeout *)
    epoll_state,    (* what the framework believes epoll to watch for *)
    kernel,         (* what epoll does watch for *)
    heap,           (* the ConnectStat at each address *)
    mainpc,         (* where the main loop is *)
    events, half,   (* events not handled yet; one whose read half is done *)
    due,            (* a second has gone by since the last timeout check *)
    started,        (* getCurrentTime has been called *)
    promised,       (* history: left, had sys_curtime been right from the start *)
    first,          (* history: accepted before the clock was read *)
    early, lost     (* history: closed before their time; a reply overwritten *)

clientVars == <<link, peer, sent, unread>>
fdVars == <<sock, fd_table, epoll_state, kernel, heap>>
loopVars == <<mainpc, events, half, due, started>>
history == <<promised, first, early, lost>>
vars == <<clientVars, fdVars, loopVars, history>>

NoHandler == [call |-> "none", data |-> None]
Handler(name, s) == [call |-> name, data |-> s]
NoTimeout == -1
ConnectStats == [conn : Conns, reply : BOOLEAN]
Handlers(names) == {NoHandler} \cup [call : names, data : Stats]
Entries ==
    [read : Handlers({"echo"}), write : Handlers({"welcome", "reply"}),
     timeout_data : Stats \cup {None}, left : NoTimeout..Long]
Events ==
    [fd : Fds \cup {Listener}, conn : Conns \cup {None},
     hup : BOOLEAN, in : BOOLEAN, out : BOOLEAN]
ASSUME NoneAssumption == None \notin Conns \cup Stats \cup ConnectStats \cup Events

Cleared == [read |-> NoHandler, write |-> NoHandler, timeout_data |-> None, left |-> NoTimeout]

Init ==
    /\ link = [c \in Conns |-> "new"] /\ peer = [c \in Conns |-> "here"]
    /\ sent = [c \in Conns |-> 0] /\ unread = [c \in Conns |-> 0]
    /\ sock = [f \in Fds |-> None]
    /\ fd_table = [f \in Fds |-> Cleared]
    /\ epoll_state = [f \in Fds |-> {}] /\ kernel = [f \in Fds |-> {}]
    /\ heap = [s \in Stats |-> None]
    /\ mainpc = "wait" /\ events = {} /\ half = None
    /\ due = FALSE /\ started = FALSE
    /\ promised = [f \in Fds |-> 0]
    /\ first = {} /\ early = {} /\ lost = {}

-------------------------------------------------------------------------------
(* The clients *)

Connect(c) ==
    /\ link[c] = "new"
    /\ link' = [link EXCEPT ![c] = "backlog"]
    /\ UNCHANGED <<peer, sent, unread, fdVars, loopVars, history>>

Send(c) ==
    /\ link[c] = "open" /\ peer[c] = "here" /\ sent[c] < MaxMsgs
    /\ sent' = [sent EXCEPT ![c] = @ + 1]
    /\ unread' = [unread EXCEPT ![c] = @ + 1]
    /\ UNCHANGED <<link, peer, fdVars, loopVars, history>>

(* The client ends its side, or resets the connection.                     *)
Leave(c) ==
    /\ link[c] = "open" /\ peer[c] = "here"
    /\ \E how \in {"shut", "reset"} : peer' = [peer EXCEPT ![c] = how]
    /\ UNCHANGED <<link, sent, unread, fdVars, loopVars, history>>

-------------------------------------------------------------------------------
(* epollSetEvents(fd, ...), with what epoll_ctl makes of ADD, MOD and DEL. *)
epollSetEvents(fd, want) ==
    /\ epoll_state' = [epoll_state EXCEPT ![fd] = want]
    /\ kernel' = [kernel EXCEPT ![fd] =
                    CASE want = epoll_state[fd] -> @
                      [] want = {} -> {}
                      [] epoll_state[fd] = {} -> IF @ = {} THEN want ELSE @
                      [] OTHER -> IF @ = {} THEN {} ELSE want]

MutAwaitBoth(fd, way, handler, timeout) ==     \* goes on watching the other direction
    /\ fd_table' = [fd_table EXCEPT
          ![fd] = [@ EXCEPT ![way] = handler, !.timeout_data = handler.data,
                            !.left = timeout]]
    /\ epollSetEvents(fd, epoll_state[fd] \cup {way})
    /\ promised' = [promised EXCEPT ![fd] = timeout]

(* commUpdateReadHandler or commUpdateWriteHandler, and commSetTimeout: a  *)
(* descriptor is watched in one direction at a time.                       *)
Await(fd, way, handler, timeout) ==
    /\ fd_table' = [fd_table EXCEPT
          ![fd] = [@ EXCEPT ![way] = handler, !.timeout_data = handler.data,
                            !.left = timeout]]
    /\ epollSetEvents(fd, {way})
    /\ promised' = [promised EXCEPT ![fd] = timeout]

MutCloseKeepsState(fds, freed) ==     \* does not tell epoll
    /\ fd_table' = [f \in Fds |-> IF f \in fds THEN Cleared ELSE fd_table[f]]
    /\ UNCHANGED epoll_state
    /\ kernel' = [f \in Fds |-> IF f \in fds THEN {} ELSE kernel[f]]
    /\ sock' = [f \in Fds |-> IF f \in fds THEN None ELSE sock[f]]
    /\ heap' = [s \in Stats |-> IF s \in freed THEN None ELSE heap[s]]
    /\ link' = [c \in Conns |-> IF \E f \in fds : sock[f] = c THEN "closed" ELSE link[c]]

(* comm_close of some descriptors and free of their data; close takes a    *)
(* descriptor out of the epoll set as well.                                *)
CloseAndFree(fds, freed) ==
    /\ fd_table' = [f \in Fds |-> IF f \in fds THEN Cleared ELSE fd_table[f]]
    /\ epoll_state' = [f \in Fds |-> IF f \in fds THEN {} ELSE epoll_state[f]]
    /\ kernel' = [f \in Fds |-> IF f \in fds THEN {} ELSE kernel[f]]
    /\ sock' = [f \in Fds |-> IF f \in fds THEN None ELSE sock[f]]
    /\ heap' = [s \in Stats |-> IF s \in freed THEN None ELSE heap[s]]
    /\ link' = [c \in Conns |-> IF \E f \in fds : sock[f] = c THEN "closed" ELSE link[c]]

-------------------------------------------------------------------------------
(* The handlers of the echo server.  Each is called with the data that was *)
(* registered with it; a handler that fails returns and leaves everything  *)
(* as it is.                                                               *)

HandlerFails == UNCHANGED <<clientVars, fdVars, history>>

(* accept may fail, for want of a descriptor for instance.                 *)
accept_connection ==
    LET Free == {f \in Fds : sock[f] = None} IN
    \/ /\ \E fd \in Free, c \in Conns, s \in Stats :
             /\ \A f \in Free : fd <= f
             /\ link[c] = "backlog" /\ heap[s] = None
             /\ link' = [link EXCEPT ![c] = "open"]
             /\ sock' = [sock EXCEPT ![fd] = c]
             /\ heap' = [heap EXCEPT ![s] = [conn |-> c, reply |-> FALSE]]
             /\ Await(fd, "write", Handler("welcome", s), Long)
             /\ first' = IF started THEN first ELSE first \cup {c}
       /\ UNCHANGED <<peer, sent, unread, early, lost>>
    \/ HandlerFails

MutWelcome(fd, s) ==        \* disarms the timeout
    \/ /\ peer[sock[fd]] # "reset"
       /\ Await(fd, "read", Handler("echo", s), NoTimeout)
       /\ UNCHANGED <<clientVars, sock, heap, first, early, lost>>
    \/ HandlerFails

do_welcome_handler(fd, s) ==
    \/ /\ peer[sock[fd]] # "reset"
       /\ Await(fd, "read", Handler("echo", s), Short)
       /\ UNCHANGED <<clientVars, sock, heap, first, early, lost>>
    \/ HandlerFails

MutEchoQuitsAll(fd, s) ==   \* quit ends every connection
    LET c == sock[fd] IN
    \/ /\ unread[c] > 0
       /\ unread' = [unread EXCEPT ![c] = @ - 1]
       /\ \/ CloseAndFree(Fds, Stats) /\ UNCHANGED <<peer, sent, history>>
          \/ /\ heap' = [heap EXCEPT ![s].reply = TRUE]
             /\ Await(fd, "write", Handler("reply", s), Short)
             /\ lost' = IF heap[s].reply THEN lost \cup {c} ELSE lost
             /\ UNCHANGED <<link, peer, sent, sock, first, early>>
    \/ /\ unread[c] = 0 /\ peer[c] # "here"
       /\ CloseAndFree({fd}, {s})
       /\ UNCHANGED <<peer, sent, unread, history>>
    \/ unread[c] = 0 /\ peer[c] # "shut" /\ HandlerFails

(* A message is read: it is quit, or it is kept as the next reply.         *)
do_echo_handler(fd, s) ==
    LET c == sock[fd] IN
    \/ /\ unread[c] > 0
       /\ unread' = [unread EXCEPT ![c] = @ - 1]
       /\ \/ CloseAndFree({fd}, {s}) /\ UNCHANGED <<peer, sent, history>>
          \/ /\ heap' = [heap EXCEPT ![s].reply = TRUE]
             /\ Await(fd, "write", Handler("reply", s), Short)
             /\ lost' = IF heap[s].reply THEN lost \cup {c} ELSE lost
             /\ UNCHANGED <<link, peer, sent, sock, first, early>>
    \/ /\ unread[c] = 0 /\ peer[c] # "here"
       /\ CloseAndFree({fd}, {s})
       /\ UNCHANGED <<peer, sent, unread, history>>
    \/ unread[c] = 0 /\ peer[c] # "shut" /\ HandlerFails

do_echo_response(fd, s) ==
    \/ /\ peer[sock[fd]] # "reset"
       /\ heap' = [heap EXCEPT ![s].reply = FALSE]
       /\ Await(fd, "read", Handler("echo", s), Short)
       /\ UNCHANGED <<clientVars, sock, first, early, lost>>
    \/ HandlerFails

Call(fd, handler) ==
    \/ handler.call = "welcome" /\ do_welcome_handler(fd, handler.data)
    \/ handler.call = "echo" /\ do_echo_handler(fd, handler.data)
    \/ handler.call = "reply" /\ do_echo_response(fd, handler.data)
    \/ handler.call = "none" /\ UNCHANGED <<clientVars, fdVars, history>>

-------------------------------------------------------------------------------
(* The main loop *)

(* What epoll has to report of a descriptor it watches: a hang-up always.  *)
Event(fd) ==
    LET c == sock[fd] IN
    [fd |-> fd, conn |-> c, hup |-> peer[c] = "reset",
     in |-> "read" \in kernel[fd] /\ (unread[c] > 0 \/ peer[c] # "here"),
     out |-> "write" \in kernel[fd]]
Ready ==
    {e \in {Event(f) : f \in {g \in Fds : kernel[g] # {}}} : e.in \/ e.out \/ e.hup}
ListenerReady ==
    IF \E c \in Conns : link[c] = "backlog"
    THEN {[fd |-> Listener, conn |-> None, hup |-> FALSE, in |-> TRUE, out |-> FALSE]}
    ELSE {}

(* do_epoll_select: the wait, which ends after a second if nothing happens *)
epoll_wait ==
    /\ mainpc = "wait"
    /\ events' = Ready \cup ListenerReady
    /\ mainpc' = IF events' = {} THEN "time" ELSE "handle"
    /\ UNCHANGED <<clientVars, fdVars, half, due, started, history>>

(* comm_call_handlers: the read handler for anything but EPOLLOUT ...      *)
ReadHalf(e) ==
    /\ mainpc = "handle"
    /\ events' = events \ {e}
    /\ half' = e
    /\ mainpc' = "half"
    /\ IF e.fd = Listener THEN accept_connection
       ELSE IF e.in \/ e.hup THEN Call(e.fd, fd_table[e.fd].read)
       ELSE Call(e.fd, NoHandler)
    /\ UNCHANGED <<due, started>>

(* ... then the write handler for anything but EPOLLIN, if there still is  *)
(* one.                                                                    *)
WriteHalf ==
    /\ mainpc = "half"
    /\ half' = None
    /\ mainpc' = IF events = {} THEN "time" ELSE "handle"
    /\ IF half.fd # Listener /\ (half.out \/ half.hup)
       THEN Call(half.fd, fd_table[half.fd].write)
       ELSE UNCHANGED <<clientVars, fdVars, history>>
    /\ UNCHANGED <<events, due, started>>

Later(left, d) == IF left > d THEN left - d ELSE 0

(* getCurrentTime at the end of comm_select: sys_curtime goes on by what   *)
(* the round took, from 0 to the time of day in the first round.           *)
getCurrentTime(d) ==
    /\ mainpc = "time"
    /\ fd_table' = [f \in Fds |->
          IF fd_table[f].left = NoTimeout THEN fd_table[f]
          ELSE [fd_table[f] EXCEPT !.left = IF started THEN Later(@, d) ELSE 0]]
    /\ promised' = [f \in Fds |-> Later(promised[f], d)]
    /\ due' = (due \/ d > 0 \/ ~started)
    /\ started' = TRUE
    /\ mainpc' = "check"
    /\ UNCHANGED <<clientVars, sock, epoll_state, kernel, heap, events, half, first, early, lost>>

MutCheckTimeouts ==         \* looks one tick ahead
    LET expired == {f \in Fds : fd_table[f].left \in {0, 1}} IN
    /\ mainpc = "check"
    /\ mainpc' = "wait"
    /\ due' = FALSE
    /\ IF due
       THEN /\ CloseAndFree(expired, {fd_table[f].timeout_data : f \in expired})
            /\ early' = early \cup {sock[f] : f \in {g \in expired : promised[g] > 0}}
            /\ UNCHANGED <<peer, sent, unread, promised, first, lost>>
       ELSE UNCHANGED <<clientVars, fdVars, history>>
    /\ UNCHANGED <<events, half, started>>

(* checkTimeouts, when it is due: do_echo_timeout of every descriptor      *)
(* whose timeout has come.                                                 *)
checkTimeouts ==
    LET expired == {f \in Fds : fd_table[f].left = 0} IN
    /\ mainpc = "check"
    /\ mainpc' = "wait"
    /\ due' = FALSE
    /\ IF due
       THEN /\ CloseAndFree(expired, {fd_table[f].timeout_data : f \in expired})
            /\ early' = early \cup {sock[f] : f \in {g \in expired : promised[g] > 0}}
            /\ UNCHANGED <<peer, sent, unread, promised, first, lost>>
       ELSE UNCHANGED <<clientVars, fdVars, history>>
    /\ UNCHANGED <<events, half, started>>

Next ==
    \/ \E c \in Conns : Connect(c) \/ Send(c) \/ Leave(c)
    \/ epoll_wait
    \/ \E e \in events : ReadHalf(e)
    \/ WriteHalf
    \/ \E d \in {0, 1} : getCurrentTime(d)
    \/ checkTimeouts

(* The loop never stops, and time goes by.                                 *)
Fairness ==
    /\ WF_vars(epoll_wait \/ (\E e \in events : ReadHalf(e)) \/ WriteHalf
                  \/ (\E d \in {0, 1} : getCurrentTime(d)) \/ checkTimeouts)
    /\ SF_vars(getCurrentTime(1))

Spec == Init /\ [][Next]_vars
FairSpec == Spec /\ Fairness

-------------------------------------------------------------------------------
(* Properties *)

(* Every variable has its type.  Checked as a part of NothingIsStale.      *)
TypeOK ==
    /\ link \in [Conns -> {"new", "backlog", "open", "closed"}]
    /\ peer \in [Conns -> {"here", "shut", "reset"}]
    /\ sent \in [Conns -> 0..MaxMsgs] /\ unread \in [Conns -> Nat]
    /\ \A c \in Conns : unread[c] <= sent[c]
    /\ sock \in [Fds -> Conns \cup {None}]
    /\ fd_table \in [Fds -> Entries]
    /\ epoll_state \in [Fds -> SUBSET {"read", "write"}]
    /\ kernel \in [Fds -> SUBSET {"read", "write"}]
    /\ heap \in [Stats -> ConnectStats \cup {None}]
    /\ mainpc \in {"wait", "handle", "half", "time", "check"}
    /\ events \subseteq Events /\ (events # {} => mainpc \in {"handle", "half"})
    /\ half \in Events \cup {None} /\ (half # None <=> mainpc = "half")
    /\ due \in BOOLEAN /\ started \in BOOLEAN
    /\ promised \in [Fds -> 0..Long]
    /\ first \cup early \cup lost \subseteq Conns

(* A descriptor that is closed has nothing registered (comm.c:26), so that *)
(* the next connection with its number starts clean; on an open one every  *)
(* handler has the ConnectStat of this very connection, which is alive,    *)
(* and a timeout is armed.  Nothing else is allocated.                     *)
EntriesAreCurrent ==
    /\ \A f \in Fds :
          LET e == fd_table[f]
              Mine(s) == s \in Stats /\ heap[s] # None /\ heap[s].conn = sock[f]
          IN  IF sock[f] = None THEN e = Cleared /\ epoll_state[f] = {}
              ELSE /\ \A h \in {e.read, e.write} : h = NoHandler \/ Mine(h.data)
                   /\ Mine(e.timeout_data) /\ e.left # NoTimeout
    /\ \A s \in Stats : heap[s] # None =>
          \E f \in Fds : sock[f] = heap[s].conn /\ fd_table[f].timeout_data = s

(* An open connection is watched in exactly the direction in which it has  *)
(* something to do, epoll agrees, and the handler for it is registered     *)
(* (comm.c:104-119): nobody waits for an event that epoll is not asked for.*)
InterestFits ==
    \A f \in Fds : sock[f] # None =>
        LET e == fd_table[f] IN
        /\ kernel[f] = epoll_state[f]
        /\ \/ kernel[f] = {"read"} /\ e.read.call = "echo" /\ ~heap[e.read.data].reply
           \/ /\ kernel[f] = {"write"}
              /\ e.write.call = IF heap[e.write.data].reply THEN "reply" ELSE "welcome"

(* An event reported by epoll is handled for the connection it was         *)
(* reported for, although handlers close descriptors and accept may give   *)
(* their numbers away in the same round (comm_epoll.c:134).                *)
EventsAreCurrent ==
    /\ \A e \in events : e.fd # Listener => sock[e.fd] = e.conn
    /\ mainpc = "half" /\ half.fd # Listener => sock[half.fd] \in {half.conn, None}

(* Neither a handler, a timeout nor an event belongs to a connection that  *)
(* is no more (comm.c:26, comm_epoll.c:134).                               *)
NothingIsStale == TypeOK /\ EntriesAreCurrent /\ EventsAreCurrent

(* A reply that is still to be written is overwritten by the next message  *)
(* only if the peer is gone: EPOLLHUP calls the read handler of a          *)
(* descriptor that is watched for writing (comm_epoll.c:136).              *)
RepliesNotLost == \A c \in lost : peer[c] = "reset"

(* Only a connection accepted before the clock was read for the first time *)
(* (comm.c:183) is closed before its time.                                 *)
EarlyOnlyAtStart == early \subseteq first

(* A connection that says nothing, or whose peer has gone, is closed.      *)
SilentIsClosed == \A c \in Conns : link[c] = "open" ~> link[c] = "closed"
===============================================================================
