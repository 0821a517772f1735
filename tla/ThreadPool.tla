------------------------------ MODULE ThreadPool ------------------------------
(***************************************************************************)
(* The thread pool of src/src/thread_pool.cpp (DispatchMsgService runs     *)
(* every request on it): one owner thread that creates the pool, posts     *)
(* tasks and destroys the pool, and the worker threads of                  *)
(* thread_pool_cycle.                                                      *)
(*                                                                         *)
(* Every access to the queue, to "waiting" and to the task counter is made *)
(* with tp->mtx held, so a critical section is one step; it is split where *)
(* the code itself gives the mutex up, inside thread_cond_wait.  The queue *)
(* is the sequence its linked list denotes.                                *)
(***************************************************************************)
EXTENDS Integers, Sequences, FiniteSets

CONSTANTS
    Workers,    (* the threads; tp->threads is their number *)
    Tasks,      (* the heap tasks of thread_task_alloc *)
    Pill,       (* the exit task on the stack of thread_pool_destroy *)
    NoTask,     (* a worker holds no task *)
    MaxQueue    (* tp->max_queue *)

Threads == Cardinality(Workers)
AllTasks == Tasks \cup {Pill}

ASSUME WorkersAssumption == IsFiniteSet(Workers) /\ Workers # {}
ASSUME MaxQueueAssumption == MaxQueue \in Nat \ {0}
ASSUME TasksAssumption ==
    /\ IsFiniteSet(Tasks)
    /\ Pill \notin Tasks
    /\ NoTask \notin AllTasks

VARIABLES
    pool,       (* the memory of thread_pool_t *)
    owner,      (* where the owner thread is *)
    n,          (* the loop variable of thread_pool_init and _destroy *)
    lock,       (* the flag the owner spins on in thread_pool_destroy *)
    queue,      (* tp->queue, from first to last *)
    waiting,    (* tp->waiting *)
    nextId,     (* thread_pool_task_id *)
    id,         (* task->id *)
    pc,         (* where each worker is in thread_pool_cycle *)
    held,       (* the local variable "task" of each worker *)
    st          (* the life of each heap task *)

vars == <<pool, owner, n, lock, queue, waiting, nextId, id, pc, held, st>>
ownerVars == <<pool, owner, n>>
idVars == <<nextId, id>>

OwnerStates == {"init", "failed", "open", "post", "spin", "abandoned", "destroyed"}
WorkerStates == {"unborn", "lock", "wait", "woken", "run", "exited"}
TaskStates == {"new", "queued", "running", "done", "rejected"}

At(S) == {w \in Workers : pc[w] \in S}

(* Workers that have done "waiting--" and not yet taken a task.            *)
Committed == At({"wait", "woken"})

Init ==
    /\ pool = "live"
    /\ owner = "init"
    /\ n = 0
    /\ lock = 0
    /\ queue = <<>>
    /\ waiting = 0
    /\ nextId = 0
    /\ id = [t \in AllTasks |-> 0]
    /\ pc = [w \in Workers |-> "unborn"]
    /\ held = [w \in Workers |-> NoTask]
    /\ st = [t \in Tasks |-> "new"]

-------------------------------------------------------------------------------
(* thread_pool_init, one pthread_create at a time *)

CreateThread(w) ==
    /\ owner = "init"
    /\ pc[w] = "unborn"
    /\ pc' = [pc EXCEPT ![w] = "lock"]
    /\ n' = n + 1
    /\ UNCHANGED <<pool, owner, lock, queue, waiting, idVars, held, st>>

(* A call of thread_pool_init fails: it frees the pool and returns NULL,   *)
(* whatever threads it has already started.                                *)
CreateFails ==
    /\ owner = "init"
    /\ n < Threads
    /\ owner' = "failed"
    /\ pool' = "freed"
    /\ UNCHANGED <<n, lock, queue, waiting, idVars, pc, held, st>>

InitReturns ==
    /\ owner = "init"
    /\ n = Threads
    /\ owner' = "open"
    /\ UNCHANGED <<pool, n, lock, queue, waiting, idVars, pc, held, st>>

-------------------------------------------------------------------------------
(* thread_task_post *)

MutOverflow == waiting > MaxQueue       \* off by one

Overflow == waiting >= MaxQueue

MutSignal ==                \* signals only when the queue was empty
    \/ (At({"wait"}) = {} \/ queue # <<>>) /\ UNCHANGED pc
    \/ queue = <<>> /\ \E w \in At({"wait"}) : pc' = [pc EXCEPT ![w] = "woken"]

(* pthread_cond_signal: wakes a thread blocked on the condition variable,  *)
(* if there is one.                                                        *)
Signal ==
    \/ At({"wait"}) = {} /\ UNCHANGED pc
    \/ \E w \in At({"wait"}) : pc' = [pc EXCEPT ![w] = "woken"]

MutEnqueue(t) ==            \* links the task at the head of the list
    /\ ~Overflow
    /\ id' = [id EXCEPT ![t] = nextId]
    /\ nextId' = nextId + 1
    /\ Signal
    /\ queue' = <<t>> \o queue
    /\ waiting' = waiting + 1

Enqueue(t) ==
    /\ ~Overflow
    /\ id' = [id EXCEPT ![t] = nextId]
    /\ nextId' = nextId + 1
    /\ Signal
    /\ queue' = Append(queue, t)
    /\ waiting' = waiting + 1

Post(t) ==
    /\ owner = "open"
    /\ st[t] = "new"
    /\ Enqueue(t)
    /\ st' = [st EXCEPT ![t] = "queued"]
    /\ UNCHANGED <<ownerVars, lock, held>>

PostOverflows(t) ==
    /\ owner = "open"
    /\ st[t] = "new"
    /\ Overflow
    /\ st' = [st EXCEPT ![t] = "rejected"]
    /\ UNCHANGED <<ownerVars, lock, queue, waiting, idVars, pc, held>>

-------------------------------------------------------------------------------
(* thread_pool_destroy *)

Destroy ==
    /\ owner = "open"
    /\ owner' = "post"
    /\ n' = 0
    /\ UNCHANGED <<pool, lock, queue, waiting, idVars, pc, held, st>>

MutPostPill ==              \* does not wait for the exit task to be run
    /\ owner = "post"
    /\ n < Threads
    /\ lock' = 1
    /\ Enqueue(Pill)
    /\ n' = n + 1
    /\ UNCHANGED <<pool, owner, held, st>>

PostPill ==
    /\ owner = "post"
    /\ n < Threads
    /\ lock' = 1
    /\ Enqueue(Pill)
    /\ owner' = "spin"
    /\ UNCHANGED <<pool, n, held, st>>

(* The exit task is refused: return without freeing anything.              *)
PillOverflows ==
    /\ owner = "post"
    /\ n < Threads
    /\ lock' = 1
    /\ Overflow
    /\ owner' = "abandoned"
    /\ UNCHANGED <<pool, n, queue, waiting, idVars, pc, held, st>>

SpinEnds ==
    /\ owner = "spin"
    /\ lock = 0
    /\ owner' = "post"
    /\ n' = n + 1
    /\ UNCHANGED <<pool, lock, queue, waiting, idVars, pc, held, st>>

FreePool ==
    /\ owner = "post"
    /\ n = Threads
    /\ pool' = "freed"
    /\ owner' = "destroyed"
    /\ UNCHANGED <<n, lock, queue, waiting, idVars, pc, held, st>>

-------------------------------------------------------------------------------
(* thread_pool_cycle *)

MutTake(w) ==               \* keeps the task linked
    /\ queue # <<>>
    /\ held' = [held EXCEPT ![w] = Head(queue)]
    /\ queue' = queue
    /\ pc' = [pc EXCEPT ![w] = "run"]
    /\ st' = IF Head(queue) = Pill THEN st
             ELSE [st EXCEPT ![Head(queue)] = "running"]

(* The queue is not empty: unlink its first task and leave the critical    *)
(* section.                                                                *)
Take(w) ==
    /\ queue # <<>>
    /\ held' = [held EXCEPT ![w] = Head(queue)]
    /\ queue' = Tail(queue)
    /\ pc' = [pc EXCEPT ![w] = "run"]
    /\ st' = IF Head(queue) = Pill THEN st
             ELSE [st EXCEPT ![Head(queue)] = "running"]

(* thread_cond_wait, entered with an empty queue *)
Sleep(w) ==
    /\ queue = <<>>
    /\ pc' = [pc EXCEPT ![w] = "wait"]
    /\ UNCHANGED <<queue, held, st>>

(* The mutex is taken for the first time in this turn of the loop.         *)
Enter(w) ==
    /\ pool = "live"
    /\ pc[w] = "lock"
    /\ waiting' = waiting - 1
    /\ Take(w) \/ Sleep(w)
    /\ UNCHANGED <<ownerVars, lock, idVars>>

MutResume(w) ==             \* "waiting--" inside the wait loop
    /\ pool = "live"
    /\ pc[w] = "woken"
    /\ waiting' = waiting - 1
    /\ Take(w) \/ Sleep(w)
    /\ UNCHANGED <<ownerVars, lock, idVars>>

(* thread_cond_wait returns with the mutex taken again.                    *)
Resume(w) ==
    /\ pool = "live"
    /\ pc[w] = "woken"
    /\ Take(w) \/ Sleep(w)
    /\ UNCHANGED <<ownerVars, lock, waiting, idVars>>

(* A wait may end without a signal.                                        *)
SpuriousWakeup(w) ==
    /\ pool = "live"
    /\ pc[w] = "wait"
    /\ pc' = [pc EXCEPT ![w] = "woken"]
    /\ UNCHANGED <<ownerVars, lock, queue, waiting, idVars, held, st>>

(* The handler of a heap task returns and the task is freed.               *)
RunTask(w) ==
    /\ pc[w] = "run"
    /\ held[w] \in Tasks
    /\ st' = [st EXCEPT ![held[w]] = "done"]
    /\ held' = [held EXCEPT ![w] = NoTask]
    /\ pc' = [pc EXCEPT ![w] = "lock"]
    /\ UNCHANGED <<ownerVars, lock, queue, waiting, idVars>>

MutRunPill(w) ==            \* clears the flag but goes on with the loop
    /\ pc[w] = "run"
    /\ held[w] = Pill
    /\ lock' = 0
    /\ held' = [held EXCEPT ![w] = NoTask]
    /\ pc' = [pc EXCEPT ![w] = "lock"]
    /\ UNCHANGED <<ownerVars, queue, waiting, idVars, st>>

(* thread_pool_exit_handler: the thread never comes back to the loop.      *)
RunPill(w) ==
    /\ pc[w] = "run"
    /\ held[w] = Pill
    /\ lock' = 0
    /\ held' = [held EXCEPT ![w] = NoTask]
    /\ pc' = [pc EXCEPT ![w] = "exited"]
    /\ UNCHANGED <<ownerVars, queue, waiting, idVars, st>>

-------------------------------------------------------------------------------
OwnerStep ==
    \/ \E w \in Workers : CreateThread(w)
    \/ CreateFails \/ InitReturns
    \/ \E t \in Tasks : Post(t) \/ PostOverflows(t)
    \/ Destroy \/ PostPill \/ PillOverflows \/ SpinEnds \/ FreePool

WorkerStep(w) == Enter(w) \/ Resume(w) \/ RunTask(w) \/ RunPill(w)

(* The owner is done with the pool and every living thread sleeps, or has  *)
(* no pool to sleep in.                                                    *)
Finished ==
    /\ owner \in {"failed", "abandoned", "destroyed"}
    /\ pool = "live" => At({"lock", "woken", "run"}) = {}
    /\ UNCHANGED vars

Next ==
    \/ OwnerStep
    \/ \E w \in Workers : WorkerStep(w) \/ SpuriousWakeup(w)
    \/ Finished

(* Every thread that can run does, and the owner, once it has called       *)
(* thread_pool_init or thread_pool_destroy, runs until the call returns.   *)
Fairness ==
    /\ \A w \in Workers : WF_vars(WorkerStep(w))
    /\ WF_vars(\E w \in Workers : CreateThread(w))
    /\ WF_vars(CreateFails \/ InitReturns)
    /\ WF_vars(PostPill \/ PillOverflows \/ SpinEnds \/ FreePool)

Spec == Init /\ [][Next]_vars
FairSpec == Spec /\ Fairness

-------------------------------------------------------------------------------
(* Properties *)

Linked(t) == \E i \in DOMAIN queue : queue[i] = t
HeldBySome(t) == \E w \in Workers : held[w] = t

(* Every variable has its type; "waiting" is signed, goes below zero by at *)
(* most one per thread, and never passes the limit that thread_task_post   *)
(* compares it with.                                                       *)
TypeOK ==
    /\ pool \in {"live", "freed"}
    /\ owner \in OwnerStates
    /\ n \in 0..Threads
    /\ lock \in {0, 1}
    /\ queue \in Seq(AllTasks)
    /\ waiting \in (-Threads)..MaxQueue
    /\ nextId \in Nat
    /\ id \in [AllTasks -> Nat]
    /\ pc \in [Workers -> WorkerStates]
    /\ held \in [Workers -> AllTasks \cup {NoTask}]
    /\ st \in [Tasks -> TaskStates]

(* The counter "waiting" is not the number of queued tasks: a worker       *)
(* subtracts its one before it waits for a task, so the counter is the     *)
(* length of the queue less the workers that have subtracted and not taken.*)
WaitingIsAccurate == waiting = Len(queue) - Cardinality(Committed)

(* What the overflow test of thread_task_post bounds: the queue exceeds    *)
(* max_queue by no more than the workers about to take from it.            *)
QueueBound == Len(queue) <= MaxQueue + Cardinality(Committed)

(* No wakeup is lost although the signal precedes the append and a running *)
(* worker can overtake the one that was woken: while a thread sleeps,      *)
(* every queued task has a thread of its own on the way to the queue.      *)
NoLostWakeup ==
    At({"wait"}) # {} => Len(queue) <= Cardinality(At({"lock", "woken"}))

(* A task is linked once while it is queued, is held by one worker while   *)
(* it runs, and no queue or worker refers to a task that was freed         *)
(* (thread_task_free) or refused; the exit task, posted once per thread    *)
(* from the same stack variable, is never linked twice either.             *)
ExactlyOnce ==
    /\ \A i, j \in DOMAIN queue : queue[i] = queue[j] => i = j
    /\ \A v, w \in Workers : held[v] = held[w] /\ held[v] # NoTask => v = w
    /\ \A t \in Tasks : Linked(t) <=> st[t] = "queued"
    /\ \A t \in Tasks : HeldBySome(t) <=> st[t] = "running"

(* Tasks leave the queue in the order thread_task_post numbered them,      *)
(* whichever worker takes them.                                            *)
PostOrder ==
    /\ \A i, j \in DOMAIN queue : i < j => id[queue[i]] < id[queue[j]]
    /\ \A t \in Tasks : st[t] \in {"running", "done"} =>
           \A i \in DOMAIN queue : id[t] < id[queue[i]]

(* The exit task and its flag live on the stack of thread_pool_destroy: no *)
(* worker can reach them unless that call is spinning on the flag.         *)
StackTaskInScope ==
    Linked(Pill) \/ HeldBySome(Pill) => owner = "spin" /\ lock = 1

(* When thread_pool_destroy has freed the pool, every accepted task has    *)
(* been run to its end and no thread is left that could touch the pool.    *)
DestroyDrains ==
    owner = "destroyed" =>
        /\ queue = <<>>
        /\ \A w \in Workers : pc[w] = "exited"
        /\ \A t \in Tasks : st[t] \notin {"queued", "running"}

-------------------------------------------------------------------------------
(* The pool implements TaskPool: the exit task, always the last of the     *)
(* queue, is invisible to the clients.                                     *)

TaskOrder ==
    IF queue # <<>> /\ queue[Len(queue)] = Pill
    THEN SubSeq(queue, 1, Len(queue) - 1)
    ELSE queue

Phase ==
    CASE owner = "init" -> "starting"
      [] owner \in {"post", "spin"} -> "closing"
      [] owner = "destroyed" -> "closed"
      [] OTHER -> owner

TP == INSTANCE TaskPool WITH order <- TaskOrder, phase <- Phase

(* Everything TaskPool promises, its liveness included: every accepted     *)
(* task is run, and thread_pool_destroy, with its spin loop, returns.      *)
Implements == TP!Spec
===============================================================================
