------------------------------ MODULE BikeServer ------------------------------
(***************************************************************************)
(* The server of src/src: the main thread (libevent callbacks of           *)
(* NetworkInterface, then the drain of the response queue), the worker     *)
(* threads (DispatchMsgService::svc) behind the promises of TaskPool, and  *)
(* the ConnectSession objects on the heap, which events carry by address   *)
(* through the pool and back.                                              *)
(*                                                                         *)
(* A client writes whole requests here (Connection has the bytes), before  *)
(* or after the response to the one before.  A freed address may be given  *)
(* to the next session.  Once the program has used freed memory or a null  *)
(* pool anything may happen, so the model stops there with fault set.      *)
(***************************************************************************)
EXTENDS Integers, Sequences, FiniteSets

CONSTANTS
    Clients,        (* the connections clients make *)
    MaxRequests,    (* requests a client makes on its connection *)
    Addrs,          (* addresses the allocator uses for sessions *)
    None,           (* no address; a free address *)
    Workers,        (* the threads of the pool *)
    MaxQueue        (* tp->max_queue *)

VARIABLES
    st, order, phase,   (* the thread pool; a request stands for its task *)
    link,           (* each connection: "new", "open" or "gone" *)
    cs,             (* the session its callbacks are given *)
    heap,           (* the session at each address, or None *)
    arrived,        (* requests that have arrived on the connection *)
    dispatched,     (* ... and been made events *)
    args,           (* the session address in each event *)
    responses,      (* response_events *)
    mainpc,         (* the half of network_dispatch the main thread is in *)
    got,            (* the responses each client has received *)
    fault,          (* undefined behaviour has been reached *)
    dropped         (* history: a connection ended with its request in flight *)

poolVars == <<st, order, phase>>
linkVars == <<link, cs, heap, arrived, dispatched>>
vars == <<poolVars, linkVars, args, responses, mainpc, got, fault, dropped>>

Requests == Clients \X (1..MaxRequests)
Client(e) == e[1]

Pool == INSTANCE TaskPool WITH Tasks <- Requests

Session(c, stat) == [owner |-> c, session_stat |-> stat]
Sessions == [owner : Clients, session_stat : {"SS_REQUEST", "SS_RESPONSE"}]

ASSUME NoneAssumption == None \notin Addrs \cup Sessions
ASSUME MaxRequestsAssumption == MaxRequests \in Nat

Init ==
    /\ Pool!Init
    /\ link = [c \in Clients |-> "new"]
    /\ cs = [c \in Clients |-> None]
    /\ heap = [a \in Addrs |-> None]
    /\ arrived = [c \in Clients |-> 0]
    /\ dispatched = [c \in Clients |-> 0]
    /\ args = [e \in Requests |-> None]
    /\ responses = <<>>
    /\ mainpc = "dispatch"
    /\ got = [c \in Clients |-> <<>>]
    /\ fault = FALSE
    /\ dropped = FALSE

(* The event of a request is in the pool or in the response queue.         *)
Queued(e) == \E i \in DOMAIN responses : responses[i] = e
InFlight(e) == st[e] \in {"queued", "running"} \/ Queued(e)

-------------------------------------------------------------------------------
(* DispatchMsgService::open; main does not look at what it returns.        *)
open ==
    /\ Pool!Open
    /\ UNCHANGED <<linkVars, args, responses, mainpc, got, fault, dropped>>

(* The callbacks of event_base_loop, on the main thread                    *)

InCallbacks == phase # "starting" /\ mainpc = "dispatch"

listener_cb(c, a) ==
    /\ InCallbacks
    /\ link[c] = "new"
    /\ heap[a] = None
    /\ link' = [link EXCEPT ![c] = "open"]
    /\ cs' = [cs EXCEPT ![c] = a]
    /\ heap' = [heap EXCEPT ![a] = Session(c, "SS_REQUEST")]
    /\ UNCHANGED <<poolVars, arrived, dispatched, args, responses, mainpc, got, fault, dropped>>

(* A request arrives.                                                      *)
Arrives(c) ==
    /\ InCallbacks
    /\ link[c] = "open"
    /\ arrived[c] < MaxRequests
    /\ arrived' = [arrived EXCEPT ![c] = @ + 1]

(* bufferevent_free and session_free                                       *)
FreeSession(c) ==
    /\ link' = [link EXCEPT ![c] = "gone"]
    /\ heap' = [heap EXCEPT ![cs[c]] = None]
    /\ dropped' = (dropped \/ \E e \in Requests : Client(e) = c /\ InFlight(e))
    /\ UNCHANGED <<poolVars, cs, dispatched, args, responses, mainpc, got, fault>>

(* handle_request while a response is due: the request stays unread.       *)
WrongState(c) ==
    /\ Arrives(c)
    /\ heap[cs[c]].session_stat # "SS_REQUEST"
    /\ UNCHANGED <<poolVars, link, cs, heap, dispatched, args, responses, mainpc, got, fault, dropped>>

(* handle_request makes the oldest unread request an event, remembers the  *)
(* session in it and gives it to enqueue, whose result it ignores; without *)
(* a pool thread_task_post follows a null pointer.                         *)
DispatchRequest(c) ==
    LET e == <<c, dispatched[c] + 1>> IN
    /\ Arrives(c)
    /\ heap[cs[c]].session_stat = "SS_REQUEST"
    /\ heap' = [heap EXCEPT ![cs[c]] = Session(c, "SS_RESPONSE")]
    /\ dispatched' = [dispatched EXCEPT ![c] = @ + 1]
    /\ args' = [args EXCEPT ![e] = cs[c]]
    /\ \/ (Pool!Accept(e) \/ Pool!Refuse(e)) /\ UNCHANGED fault
       \/ phase = "failed" /\ fault' = TRUE /\ UNCHANGED poolVars
    /\ UNCHANGED <<link, cs, responses, mainpc, got, dropped>>

(* handle_request finds no request in what has arrived.                    *)
RejectRequest(c) ==
    /\ Arrives(c)
    /\ heap[cs[c]].session_stat = "SS_REQUEST"
    /\ FreeSession(c)

MutHandleError(c) ==        \* spares sessions that wait for a response
    /\ InCallbacks
    /\ link[c] = "open"
    /\ heap[cs[c]].session_stat = "SS_REQUEST"
    /\ FreeSession(c)
    /\ UNCHANGED arrived

(* handle_error: end of file, an error, or 20 s without traffic, be the    *)
(* session's request with a worker or not.                                 *)
handle_error(c) ==
    /\ InCallbacks
    /\ link[c] = "open"
    /\ FreeSession(c)
    /\ UNCHANGED arrived

-------------------------------------------------------------------------------
(* The workers *)

Start ==
    /\ Pool!Start
    /\ UNCHANGED <<linkVars, args, responses, mainpc, got, fault, dropped>>

MutSvc(e) ==                \* queues the response in either branch
    /\ Pool!Finish(e)
    /\ responses' = responses \o <<e, e>>
    /\ UNCHANGED <<linkVars, args, mainpc, got, fault, dropped>>

(* DispatchMsgService::svc: the subscribed handler makes a response, which *)
(* inherits the session address and is queued; the task is over.           *)
svc(e) ==
    /\ Pool!Finish(e)
    /\ responses' = Append(responses, e)
    /\ UNCHANGED <<linkVars, args, mainpc, got, fault, dropped>>

-------------------------------------------------------------------------------
(* handleAllResponseEvent, on the main thread after event_base_loop        *)

BeginDrain ==
    /\ InCallbacks
    /\ mainpc' = "drain"
    /\ UNCHANGED <<poolVars, linkVars, args, responses, got, fault, dropped>>

MutSendResponse ==          \* does not reset the session
    LET e == Head(responses) IN
    /\ mainpc = "drain"
    /\ responses # <<>>
    /\ responses' = Tail(responses)
    /\ IF heap[args[e]] = None
       THEN fault' = TRUE /\ UNCHANGED <<heap, got>>
       ELSE LET c == heap[args[e]].owner IN
            /\ got' = [got EXCEPT ![c] = Append(@, e)]
            /\ UNCHANGED <<heap, fault>>
    /\ UNCHANGED <<poolVars, link, cs, arrived, dispatched, args, mainpc, dropped>>

(* The next response is written to whatever session its address holds now, *)
(* and that session is reset; the address may hold none.                   *)
SendResponse ==
    LET e == Head(responses) IN
    /\ mainpc = "drain"
    /\ responses # <<>>
    /\ responses' = Tail(responses)
    /\ IF heap[args[e]] = None
       THEN fault' = TRUE /\ UNCHANGED <<heap, got>>
       ELSE LET c == heap[args[e]].owner IN
            /\ got' = [got EXCEPT ![c] = Append(@, e)]
            /\ heap' = [heap EXCEPT ![args[e]] = Session(c, "SS_REQUEST")]
            /\ UNCHANGED fault
    /\ UNCHANGED <<poolVars, link, cs, arrived, dispatched, args, mainpc, dropped>>

(* The queue is empty: back to event_base_loop, after one second of sleep. *)
EndDrain ==
    /\ mainpc = "drain"
    /\ responses = <<>>
    /\ mainpc' = "dispatch"
    /\ UNCHANGED <<poolVars, linkVars, args, responses, got, fault, dropped>>

-------------------------------------------------------------------------------
Next ==
    \/ ~fault /\ \/ open
                 \/ \E c \in Clients, a \in Addrs : listener_cb(c, a)
                 \/ \E c \in Clients : \/ WrongState(c) \/ DispatchRequest(c)
                                       \/ RejectRequest(c) \/ handle_error(c)
                 \/ Start
                 \/ \E e \in Requests : svc(e)
                 \/ BeginDrain \/ SendResponse \/ EndDrain
    \/ fault /\ UNCHANGED vars

Refused(c) == \E e \in Requests : Client(e) = c /\ st[e] = "rejected"

(* The threads of the pool and the main loop keep running.  The timeout of *)
(* a connection that will never be answered runs out while the main thread *)
(* is elsewhere as well and is then served by each event_base_loop, hence  *)
(* the strong fairness.                                                    *)
Fairness ==
    /\ WF_vars(~fault /\ Start)
    /\ \A e \in Requests : WF_vars(~fault /\ svc(e))
    /\ WF_vars(~fault /\ (BeginDrain \/ SendResponse \/ EndDrain))
    /\ \A c \in Clients : SF_vars(~fault /\ Refused(c) /\ handle_error(c))

Spec == Init /\ [][Next]_vars
FairSpec == Spec /\ Fairness

-------------------------------------------------------------------------------
(* Properties *)

(* Every variable has its type; an event in the pool carries an address.   *)
(* Checked as a part of SessionTracksRequest.                              *)
TypeOK ==
    /\ st \in [Requests -> Pool!TaskStates]
    /\ order \in Seq(Requests)
    /\ phase \in Pool!Phases
    /\ link \in [Clients -> {"new", "open", "gone"}]
    /\ cs \in [Clients -> Addrs \cup {None}]
    /\ heap \in [Addrs -> Sessions \cup {None}]
    /\ arrived \in [Clients -> 0..MaxRequests]
    /\ dispatched \in [Clients -> Nat]
    /\ \A c \in Clients : dispatched[c] <= arrived[c]
    /\ args \in [Requests -> Addrs \cup {None}]
    /\ \A e \in Requests : st[e] # "new" => args[e] # None
    /\ responses \in Seq(Requests)
    /\ mainpc \in {"dispatch", "drain"}
    /\ got \in [Clients -> Seq(Requests)]
    /\ fault \in BOOLEAN /\ dropped \in BOOLEAN

(* While no connection has ended with a request in flight: a client        *)
(* receives the responses to its own requests, in their order, each once.  *)
OwnResponsesInOrder ==
    ~dropped => \A c \in Clients : got[c] = [i \in 1..Len(got[c]) |-> <<c, i>>]

(* While no connection has ended with a request in flight: an open         *)
(* connection has its own session, which is in SS_RESPONSE exactly while   *)
(* its last request is with the pool or in the response queue, or was      *)
(* refused; and the only undefined behaviour left is the pool that could   *)
(* not be created.                                                         *)
SessionTracksRequest ==
    /\ TypeOK
    /\ fault /\ ~dropped => phase = "failed"
    /\ \A c \in Clients : link[c] = "open" /\ ~fault /\ ~dropped =>
           LET s == heap[cs[c]]
               last == <<c, dispatched[c]>>
           IN  /\ s # None /\ s.owner = c
               /\ s.session_stat = "SS_RESPONSE" <=>
                      dispatched[c] > 0 /\ (InFlight(last) \/ st[last] = "rejected")
               /\ \A e \in Requests : Client(e) = c /\ InFlight(e) => e = last

(* However connections end, a request is answered at most once, to one     *)
(* client, only after a worker has processed it, and to another client     *)
(* than the one that made it only because that one's connection was closed.*)
AnsweredOnce ==
    /\ \A c, d \in Clients : \A i \in DOMAIN got[c], j \in DOMAIN got[d] :
           got[c][i] = got[d][j] => c = d /\ i = j
    /\ \A c \in Clients : \A i \in DOMAIN got[c] :
           /\ st[got[c][i]] = "done" /\ ~Queued(got[c][i])
           /\ Client(got[c][i]) # c => link[Client(got[c][i])] = "gone"

(* Comments at DispatchMsgService.cpp:76 and :274 and NetworkInterface.cpp *)
(* :210: the event brings the session of its request back, for the         *)
(* response to be written to.                                              *)
ResponseFindsItsSession ==
    \A i \in DOMAIN responses :
        LET s == heap[args[responses[i]]]
        IN  s # None /\ s.owner = Client(responses[i])

(* However connections end, every request comes to an end, short of         *)
(* undefined behaviour: one the pool has accepted is answered or its       *)
(* connection is closed, and so is the connection of one that the full     *)
(* queue refused, which nobody will answer.                                *)
EveryRequestEnds ==
    \A e \in Requests :
        st[e] \in {"queued", "rejected"}
            ~> \/ \E i \in DOMAIN got[Client(e)] : got[Client(e)][i] = e
               \/ link[Client(e)] = "gone"
               \/ fault
===============================================================================
