------------------------------- MODULE Dispatch -------------------------------
(***************************************************************************)
(* The life of DispatchMsgService (src/src/DispatchMsgService.cpp): the    *)
(* main thread subscribes the one handler, opens the service, enqueues     *)
(* requests and takes responses, and closes the service, while workers of  *)
(* the pool are anywhere inside svc; and the event numbers that all of     *)
(* them draw from one counter without a lock.                              *)
(*                                                                         *)
(* The order of the calls is that of main.cpp.  Its loop has no exit, so   *)
(* the lines after it are modelled as they would run if it had one.  Once  *)
(* a null pool, a destroyed mutex or a destroyed handler has been used     *)
(* anything may happen: the model stops there with fault set.              *)
(***************************************************************************)
EXTENDS Integers, Sequences, FiniteSets, SequencesExt

CONSTANTS
    Requests,       (* the requests that arrive *)
    Workers,        (* the threads of the pool *)
    MaxQueue        (* tp->max_queue *)

ASSUME RequestsAssumption == Requests # {}

VARIABLES
    st, order, phase,   (* the thread pool *)
    main,           (* where the main thread is *)
    svr_exit,
    live,           (* what exists: "subscribers", "queue_mutex", "pm_" *)
    responses,      (* response_events *)
    sent,           (* requests whose response was given to the network *)
    svc_pc,         (* where each request is in svc *)
    sn,             (* the counter of generateSeqNo *)
    drawn,          (* what a thread has read from it and not yet written back *)
    number,         (* the number of each event *)
    fault,          (* undefined behaviour has been reached *)
    raced           (* history: two threads were in generateSeqNo at a time *)

poolVars == <<st, order, phase>>
counterVars == <<sn, drawn, number, raced>>
vars == <<poolVars, main, svr_exit, live, responses, sent, svc_pc, counterVars, fault>>

Pool == INSTANCE TaskPool WITH Tasks <- Requests

(* Each request is an event, and its response another.                     *)
Events == Requests \X {"request", "response"}
NoNumber == -1

Init ==
    /\ Pool!Init
    /\ main = "construct"
    /\ svr_exit = FALSE
    /\ live = {}
    /\ responses = <<>>
    /\ sent = {}
    /\ svc_pc = [e \in Requests |-> "none"]
    /\ sn = 0
    /\ drawn = [e \in Events |-> NoNumber]
    /\ number = [e \in Events |-> NoNumber]
    /\ fault = FALSE
    /\ raced = FALSE

-------------------------------------------------------------------------------
(* generateSeqNo: sn++ is a read and a write, under no lock.               *)

ReadCounter(e) ==
    /\ drawn' = [drawn EXCEPT ![e] = sn]
    /\ raced' = (raced \/ \E d \in Events : drawn[d] # NoNumber)
    /\ UNCHANGED <<sn, number>>

WriteCounter(e) ==
    /\ sn' = drawn[e] + 1
    /\ number' = [number EXCEPT ![e] = drawn[e]]
    /\ drawn' = [drawn EXCEPT ![e] = NoNumber]
    /\ UNCHANGED raced

-------------------------------------------------------------------------------
(* The main thread *)

(* UserEventHandler::UserEventHandler: subscribe, twice, and create pm_    *)
Construct ==
    /\ main = "construct"
    /\ main' = "open"
    /\ live' = live \cup {"subscribers", "pm_"}
    /\ UNCHANGED <<poolVars, svr_exit, responses, sent, svc_pc, counterVars, fault>>

(* DispatchMsgService::open; main does not look at what it returns.        *)
open ==
    /\ main = "open"
    /\ Pool!Open
    /\ main' = "loop"
    /\ live' = live \cup {"queue_mutex"}
    /\ UNCHANGED <<svr_exit, responses, sent, svc_pc, counterVars, fault>>

(* parseEvent begins to make the event of a request ...                    *)
ParseEvent(e) ==
    /\ main = "loop"
    /\ number[<<e, "request">>] = NoNumber
    /\ \A d \in Requests : drawn[<<d, "request">>] = NoNumber
    /\ ReadCounter(<<e, "request">>)
    /\ UNCHANGED <<poolVars, main, svr_exit, live, responses, sent, svc_pc, fault>>

(* ... and gives it to enqueue, which needs a pool.                        *)
enqueue(e) ==
    /\ drawn[<<e, "request">>] # NoNumber
    /\ WriteCounter(<<e, "request">>)
    /\ \/ (Pool!Accept(e) \/ Pool!Refuse(e)) /\ UNCHANGED fault
       \/ phase = "failed" /\ fault' = TRUE /\ UNCHANGED poolVars
    /\ UNCHANGED <<main, svr_exit, live, responses, sent, svc_pc>>

(* The main thread is between two calls.                                   *)
Idle == main = "loop" /\ \A e \in Requests : drawn[<<e, "request">>] = NoNumber

(* handleAllResponseEvent takes the oldest response.                       *)
handleAllResponseEvent ==
    /\ Idle
    /\ responses # <<>>
    /\ sent' = sent \cup {Head(responses)}
    /\ responses' = Tail(responses)
    /\ UNCHANGED <<poolVars, main, svr_exit, live, svc_pc, counterVars, fault>>

-------------------------------------------------------------------------------
(* DispatchMsgService::close, one statement at a time *)

MutCloseExit ==             \* the mutex goes before the pool
    /\ Idle
    /\ main' = "destroy"
    /\ svr_exit' = TRUE
    /\ live' = live \ {"queue_mutex"}
    /\ UNCHANGED <<poolVars, responses, sent, svc_pc, counterVars, fault>>

CloseExit ==
    /\ Idle
    /\ main' = "destroy"
    /\ svr_exit' = TRUE
    /\ UNCHANGED <<poolVars, live, responses, sent, svc_pc, counterVars, fault>>

(* thread_pool_destroy is called, with a null pointer if there is no pool. *)
CloseDestroys ==
    /\ main = "destroy"
    /\ \/ Pool!Close /\ UNCHANGED fault
       \/ phase = "failed" /\ fault' = TRUE /\ UNCHANGED poolVars
    /\ UNCHANGED <<main, svr_exit, live, responses, sent, svc_pc, counterVars>>

(* It returns, having destroyed the pool or given up; close goes on in     *)
(* either case.                                                            *)
PoolDestroyed ==
    /\ main = "destroy"
    /\ Pool!Closed \/ Pool!GiveUp
    /\ main' = "unlock"
    /\ UNCHANGED <<svr_exit, live, responses, sent, svc_pc, counterVars, fault>>

CloseMutex ==
    /\ main = "unlock"
    /\ main' = "clear"
    /\ live' = live \ {"queue_mutex"}
    /\ UNCHANGED <<poolVars, svr_exit, responses, sent, svc_pc, counterVars, fault>>

CloseSubscribers ==
    /\ main = "clear"
    /\ main' = "closed"
    /\ live' = live \ {"subscribers"}
    /\ UNCHANGED <<poolVars, svr_exit, responses, sent, svc_pc, counterVars, fault>>

(* ~UserEventHandler as main returns: there is nothing left to             *)
(* unsubscribe, pm_ is destroyed; then the process ends.                   *)
Destruct ==
    /\ main \in {"closed", "destructed"}
    /\ main' = IF main = "closed" THEN "destructed" ELSE "returned"
    /\ live' = live \ {"pm_"}
    /\ UNCHANGED <<poolVars, svr_exit, responses, sent, svc_pc, counterVars, fault>>

-------------------------------------------------------------------------------
(* DispatchMsgService::svc *)

At(e, where) == st[e] = "running" /\ svc_pc[e] = where

(* A worker takes the oldest task and calls svc.                           *)
Start ==
    /\ Pool!Start
    /\ svc_pc' = [svc_pc EXCEPT ![Head(order)] = "check"]
    /\ UNCHANGED <<main, svr_exit, live, responses, sent, counterVars, fault>>

(* svr_exit_ is read, under no lock.                                       *)
CheckExit(e) ==
    /\ At(e, "check")
    /\ svc_pc' = [svc_pc EXCEPT ![e] = IF svr_exit THEN "none" ELSE "process"]
    /\ IF svr_exit THEN Pool!Finish(e) ELSE UNCHANGED poolVars
    /\ UNCHANGED <<main, svr_exit, live, responses, sent, counterVars, fault>>

(* process finds the handlers of the event; or none, and svc makes an      *)
(* ExitRspEv.                                                              *)
process(e) ==
    /\ At(e, "process")
    /\ IF "subscribers" \in live
       THEN svc_pc' = [svc_pc EXCEPT ![e] = "handle"] /\ UNCHANGED counterVars
       ELSE /\ svc_pc' = [svc_pc EXCEPT ![e] = "number"]
            /\ ReadCounter(<<e, "response">>)
    /\ UNCHANGED <<poolVars, main, svr_exit, live, responses, sent, fault>>

(* The handler takes pm_ and makes the response, and process moves on in   *)
(* the list of handlers it has found.                                      *)
handle(e) ==
    /\ At(e, "handle")
    /\ IF {"subscribers", "pm_"} \subseteq live
       THEN /\ svc_pc' = [svc_pc EXCEPT ![e] = "number"]
            /\ ReadCounter(<<e, "response">>)
            /\ UNCHANGED fault
       ELSE /\ fault' = TRUE
            /\ UNCHANGED <<svc_pc, counterVars>>
    /\ UNCHANGED <<poolVars, main, svr_exit, live, responses, sent>>

NumberResponse(e) ==
    /\ At(e, "number")
    /\ WriteCounter(<<e, "response">>)
    /\ svc_pc' = [svc_pc EXCEPT ![e] = "push"]
    /\ UNCHANGED <<poolVars, main, svr_exit, live, responses, sent, fault>>

MutPush(e) ==               \* room for one response only
    /\ At(e, "push")
    /\ "queue_mutex" \in live
    /\ responses' = <<e>>
    /\ svc_pc' = [svc_pc EXCEPT ![e] = "none"]
    /\ Pool!Finish(e)
    /\ UNCHANGED <<main, svr_exit, live, sent, counterVars, fault>>

(* The response is queued under queue_mutex, if there still is one.        *)
push(e) ==
    /\ At(e, "push")
    /\ IF "queue_mutex" \in live
       THEN /\ responses' = Append(responses, e)
            /\ svc_pc' = [svc_pc EXCEPT ![e] = "none"]
            /\ Pool!Finish(e)
            /\ UNCHANGED fault
       ELSE /\ fault' = TRUE
            /\ UNCHANGED <<poolVars, responses, svc_pc>>
    /\ UNCHANGED <<main, svr_exit, live, sent, counterVars>>

-------------------------------------------------------------------------------
svc(e) == CheckExit(e) \/ process(e) \/ handle(e) \/ NumberResponse(e) \/ push(e)

close ==
    \/ CloseExit \/ CloseDestroys \/ PoolDestroyed
    \/ CloseMutex \/ CloseSubscribers

Ended == fault \/ main = "returned"

Next ==
    \/ ~Ended /\ \/ Construct \/ open \/ close \/ Destruct
                 \/ handleAllResponseEvent
                 \/ \E e \in Requests : ParseEvent(e) \/ enqueue(e) \/ svc(e)
                 \/ Start
    \/ Ended /\ UNCHANGED vars

(* The workers run, and so does the main thread, which serves responses in *)
(* its loop and goes on with a call it has begun; nobody has to send       *)
(* requests or to leave the loop.                                          *)
Fairness ==
    /\ WF_vars(~Ended /\ Start)
    /\ \A e \in Requests : WF_vars(~Ended /\ svc(e))
    /\ WF_vars(~Ended /\ handleAllResponseEvent)
    /\ WF_vars(~Ended /\ \E e \in Requests : enqueue(e))
    /\ WF_vars(~Ended /\ close /\ main # "loop")

Spec == Init /\ [][Next]_vars /\ Fairness

-------------------------------------------------------------------------------
(* Properties *)

TypeOK ==
    /\ st \in [Requests -> Pool!TaskStates]
    /\ order \in Seq(Requests)
    /\ phase \in Pool!Phases
    /\ main \in {"construct", "open", "loop", "destroy", "unlock", "clear",
                 "closed", "destructed", "returned"}
    /\ svr_exit \in BOOLEAN /\ fault \in BOOLEAN /\ raced \in BOOLEAN
    /\ live \subseteq {"subscribers", "queue_mutex", "pm_"}
    /\ responses \in Seq(Requests)
    /\ sent \subseteq Requests
    /\ svc_pc \in [Requests -> {"none", "check", "process", "handle", "number", "push"}]
    /\ sn \in Nat
    /\ drawn \in [Events -> Nat \cup {NoNumber}]
    /\ number \in [Events -> Nat \cup {NoNumber}]

(* Every variable has its type.  However late workers are when the service *)
(* is closed, none of them, and not the main thread, uses a mutex, a       *)
(* subscription or a handler that is gone, and no request that a worker    *)
(* has finished lacks its response for another reason than svr_exit_:      *)
(* thread_pool_destroy stands before the rest of close.  What is left are  *)
(* the pool that could not be created and the one whose destruction gave   *)
(* up because its exit task did not fit into the queue.                    *)
CloseIsClean ==
    /\ TypeOK
    /\ fault => phase \in {"failed", "abandoned"}
    /\ \A e \in Requests :
          st[e] = "done" => e \in sent \cup ToSet(responses) \/ svr_exit

(* ievent.h:12 says of the number that it tells events of one kind apart:  *)
(* no two requests and no two responses have the same.                     *)
NumbersTellApart ==
    \A d, e \in Events :
        d[2] = e[2] /\ number[d] = number[e] /\ number[d] # NoNumber => d = e

(* A request that the pool accepted has its response sent unless the       *)
(* service is being closed, and a close that was begun comes to its end.   *)
EventsAreSettled ==
    /\ \A e \in Requests : st[e] = "queued" ~> e \in sent \/ svr_exit \/ fault
    /\ svr_exit ~> main \in {"closed", "destructed", "returned"} \/ fault
===============================================================================
