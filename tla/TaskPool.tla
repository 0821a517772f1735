------------------------------- MODULE TaskPool -------------------------------
(***************************************************************************)
(* What the thread pool of src/src/thread_pool.cpp promises to the thread  *)
(* that posts tasks, without the mutex, the condition variable, the        *)
(* counter "waiting" or the exit tasks: a task is either accepted or       *)
(* refused when it is posted; accepted tasks are started in the order of   *)
(* acceptance, each by one thread and once; a refusal needs a full queue;  *)
(* the pool reports its destruction only after every accepted task has     *)
(* returned.                                                               *)
(***************************************************************************)
EXTENDS Integers, Sequences, FiniteSets

CONSTANTS
    Workers,    (* the threads of the pool *)
    Tasks,      (* the tasks that clients may post *)
    MaxQueue    (* tp->max_queue *)

VARIABLES
    st,         (* what became of each task *)
    order,      (* the accepted tasks no thread has started, oldest first *)
    phase       (* the life of the pool *)

avars == <<st, order, phase>>

TaskStates == {"new", "queued", "running", "done", "rejected"}
Phases == {"starting", "failed", "open", "closing", "abandoned", "closed"}

InState(s) == {t \in Tasks : st[t] = s}

Init ==
    /\ st = [t \in Tasks |-> "new"]
    /\ order = <<>>
    /\ phase = "starting"

(* thread_pool_init returns a pool, or NULL *)
Open ==
    /\ phase = "starting"
    /\ phase' \in {"open", "failed"}
    /\ UNCHANGED <<st, order>>

(* thread_task_post returns T_OK *)
Accept(t) ==
    /\ phase = "open"
    /\ st[t] = "new"
    /\ st' = [st EXCEPT ![t] = "queued"]
    /\ order' = Append(order, t)
    /\ UNCHANGED phase

(* thread_task_post returns T_ERROR: only when the queue is at its limit *)
Refuse(t) ==
    /\ phase = "open"
    /\ st[t] = "new"
    /\ Len(order) >= MaxQueue
    /\ st' = [st EXCEPT ![t] = "rejected"]
    /\ UNCHANGED <<order, phase>>

(* a thread of the pool starts the oldest accepted task *)
Start ==
    /\ order # <<>>
    /\ Cardinality(InState("running")) < Cardinality(Workers)
    /\ st' = [st EXCEPT ![Head(order)] = "running"]
    /\ order' = Tail(order)
    /\ UNCHANGED phase

(* the handler of a task returns *)
Finish(t) ==
    /\ st[t] = "running"
    /\ st' = [st EXCEPT ![t] = "done"]
    /\ UNCHANGED <<order, phase>>

(* thread_pool_destroy is called *)
Close ==
    /\ phase = "open"
    /\ phase' = "closing"
    /\ UNCHANGED <<st, order>>

(* ... and returns with the pool freed, when all accepted work is over *)
Closed ==
    /\ phase = "closing"
    /\ order = <<>>
    /\ InState("running") = {}
    /\ phase' = "closed"
    /\ UNCHANGED <<st, order>>

(* ... or gives up because its exit task does not fit into the queue *)
GiveUp ==
    /\ phase = "closing"
    /\ Len(order) >= MaxQueue
    /\ phase' = "abandoned"
    /\ UNCHANGED <<st, order>>

Next ==
    \/ Open
    \/ \E t \in Tasks : Accept(t) \/ Refuse(t) \/ Finish(t)
    \/ Start
    \/ Close \/ Closed \/ GiveUp

(* The pool keeps working: a task that can be started is, and handlers     *)
(* return.  Nothing obliges a client to post.                              *)
Fairness ==
    /\ WF_avars(Start)
    /\ \A t \in Tasks : WF_avars(Finish(t))
    /\ WF_avars(Closed \/ GiveUp)

Spec == Init /\ [][Next]_avars /\ Fairness
===============================================================================
