--------------------------- MODULE ThreadPoolProofs ---------------------------
(***************************************************************************)
(* Proofs about ThreadPool for every number of threads, every set of tasks *)
(* and every queue limit.                                                  *)
(***************************************************************************)
EXTENDS ThreadPool, TLAPS, FiniteSetTheorems, SequenceTheorems

-------------------------------------------------------------------------------
(* The number of workers at some places of the loop *)

(* At(S) for any function p in the place of pc, so that a lemma about it   *)
(* can be used before and after a step.                                    *)
Where(p, S) == {w \in Workers : p[w] \in S}
Count(p, S) == Cardinality(Where(p, S))

Idle == {"wait", "woken"}
Coming == {"lock", "woken"}
Asleep == {"wait"}
Unborn == {"unborn"}

(* The number of threads of the pool is positive.                          *)
LEMMA ThreadsType == Threads \in Nat \ {0}
BY WorkersAssumption, FS_CardinalityType, FS_EmptySet DEF Threads

(* The workers at any places are finitely many, at most all of them.       *)
LEMMA CountType ==
    ASSUME NEW p, NEW S
    PROVE  /\ IsFiniteSet(Where(p, S))
           /\ Count(p, S) \in 0..Threads
           /\ Count(p, S) = 0 <=> Where(p, S) = {}
           /\ Count(p, S) = Threads <=> Where(p, S) = Workers
<1>1. Where(p, S) \in SUBSET Workers
  BY DEF Where
<1>2. /\ IsFiniteSet(Where(p, S))
      /\ Cardinality(Where(p, S)) <= Cardinality(Workers)
      /\ Cardinality(Workers) = Cardinality(Where(p, S)) => Workers = Where(p, S)
  BY <1>1, FS_Subset, WorkersAssumption
<1>3. Cardinality(Where(p, S)) \in Nat /\ Cardinality(Workers) \in Nat
  BY <1>2, FS_CardinalityType, WorkersAssumption
<1>4. Cardinality(Where(p, S)) = 0 <=> Where(p, S) = {}
  BY <1>2, FS_EmptySet
<1> QED
  BY <1>2, <1>3, <1>4 DEF Threads, Count

(* From p to q, one worker moves from a to b.                              *)
Moved(p, q, a, b) == \A S :
    /\ a \notin S /\ b \in S => Count(q, S) = Count(p, S) + 1
    /\ a \in S /\ b \notin S => Count(q, S) = Count(p, S) - 1
    /\ (a \in S <=> b \in S) => Count(q, S) = Count(p, S)

(* A step of one worker changes the number of workers at given places by   *)
(* its own coming and going.                                               *)
LEMMA CountStep ==
    ASSUME NEW p \in [Workers -> WorkerStates],
           NEW w \in Workers, NEW s,
           NEW q, q = [p EXCEPT ![w] = s]
    PROVE  Moved(p, q, p[w], s)
<1> SUFFICES ASSUME NEW S
             PROVE  /\ p[w] \notin S /\ s \in S => Count(q, S) = Count(p, S) + 1
                    /\ p[w] \in S /\ s \notin S => Count(q, S) = Count(p, S) - 1
                    /\ (p[w] \in S <=> s \in S) => Count(q, S) = Count(p, S)
  BY DEF Moved
<1>1. Where(q, S) = IF s \in S THEN Where(p, S) \cup {w} ELSE Where(p, S) \ {w}
  BY DEF Where
<1>2. w \in Where(p, S) <=> p[w] \in S
  BY DEF Where
<1>3. IsFiniteSet(Where(p, S)) /\ Count(p, S) \in Int
  BY CountType, ThreadsType
<1>4. /\ Cardinality(Where(p, S) \cup {w}) =
            IF w \in Where(p, S) THEN Count(p, S) ELSE Count(p, S) + 1
      /\ Cardinality(Where(p, S) \ {w}) =
            IF w \in Where(p, S) THEN Count(p, S) - 1 ELSE Count(p, S)
  BY <1>3, FS_AddElement, FS_RemoveElement DEF Count
<1>5. Count(q, S) = Cardinality(Where(q, S))
  BY DEF Count
<1>6. Where(p, S) \cup {w} = Where(p, S) \/ w \notin Where(p, S)
  OBVIOUS
<1>7. Where(p, S) \ {w} = Where(p, S) \/ w \in Where(p, S)
  OBVIOUS
<1> QED
  BY <1>1, <1>2, <1>3, <1>4, <1>5, <1>6, <1>7 DEF Count

-------------------------------------------------------------------------------
(* The counter, the limit and the wakeups *)

(* The parts of the state that are typed and no more in this section.      *)
OtherTypes ==
    /\ pool \in {"live", "freed"}
    /\ owner \in OwnerStates
    /\ lock \in {0, 1}
    /\ nextId \in Nat
    /\ id \in [AllTasks -> Nat]
    /\ held \in [Workers -> AllTasks \cup {NoTask}]
    /\ st \in [Tasks -> TaskStates]

(* TypeOK, WaitingIsAccurate and NoLostWakeup for the variables of the     *)
(* critical sections.                                                      *)
Counters ==
    /\ pc \in [Workers -> WorkerStates]
    /\ queue \in Seq(AllTasks)
    /\ waiting \in Int /\ waiting <= MaxQueue
    /\ waiting = Len(queue) - Count(pc, Idle)
    /\ Count(pc, Asleep) # 0 => Len(queue) <= Count(pc, Coming)

(* While thread_pool_init runs, its loop variable counts the threads that  *)
(* have been started; thread_pool_destroy spins only inside its loop.      *)
Born ==
    /\ n \in 0..Threads
    /\ owner = "init" => n + Count(pc, Unborn) = Threads
    /\ owner = "spin" => n < Threads

Counting == OtherTypes /\ Counters /\ Born

(* The invariant holds when thread_pool_init starts.                       *)
LEMMA CountingInit == Init => Counting
<1> SUFFICES ASSUME Init PROVE Counting
  OBVIOUS
<1>1. Where(pc, Idle) = {} /\ Where(pc, Asleep) = {} /\ Where(pc, Unborn) = Workers
  BY DEF Init, Where, Idle, Asleep, Unborn
<1>2. Count(pc, Idle) = 0 /\ Count(pc, Asleep) = 0 /\ Count(pc, Unborn) = Threads
  BY <1>1, CountType
<1>3. OtherTypes
  BY DEF Init, OtherTypes, OwnerStates, TaskStates
<1>4. Counters
  BY <1>2, MaxQueueAssumption DEF Init, Counters, WorkerStates
<1>5. Born
  BY <1>2, ThreadsType DEF Init, Born
<1> QED
  BY <1>3, <1>4, <1>5 DEF Counting

(* A signal leaves the number of idle workers alone and either finds no    *)
(* sleeper or sends one to the queue.                                      *)
LEMMA SignalCounts ==
    ASSUME pc \in [Workers -> WorkerStates], Signal
    PROVE  /\ pc' \in [Workers -> WorkerStates]
           /\ Count(pc', Idle) = Count(pc, Idle)
           /\ Count(pc', Unborn) = Count(pc, Unborn)
           /\ \/ Count(pc', Asleep) = 0
              \/ /\ Count(pc', Coming) = Count(pc, Coming) + 1
                 /\ Count(pc, Asleep) # 0
<1>1. CASE At({"wait"}) = {} /\ UNCHANGED pc
  <2>1. Where(pc', Asleep) = {}
    BY <1>1 DEF At, Where, Asleep
  <2> QED
    BY <1>1, <2>1, CountType
<1>2. CASE \E w \in At({"wait"}) : pc' = [pc EXCEPT ![w] = "woken"]
  <2>1. PICK w \in Workers : pc[w] = "wait" /\ pc' = [pc EXCEPT ![w] = "woken"]
    BY <1>2 DEF At
  <2>2. "woken" \in WorkerStates
    BY DEF WorkerStates
  <2>3. /\ pc' \in [Workers -> WorkerStates]
        /\ Count(pc', Idle) = Count(pc, Idle)
        /\ Count(pc', Unborn) = Count(pc, Unborn)
        /\ Count(pc', Coming) = Count(pc, Coming) + 1
    <3>1. Moved(pc, pc', "wait", "woken")
      BY <2>1, CountStep
    <3> QED
      BY <2>1, <2>2, <3>1 DEF Moved, Idle, Unborn, Coming
  <2>4. Where(pc, Asleep) # {}
    BY <2>1 DEF Where, Asleep
  <2> QED
    BY <2>3, <2>4, CountType
<1> QED
  BY <1>1, <1>2 DEF Signal

(* Appending a task and signalling the condition keeps the counters right. *)
LEMMA EnqueueCounts ==
    ASSUME Counters, NEW t \in AllTasks, Enqueue(t)
    PROVE  Counters'
<1>1. /\ queue' \in Seq(AllTasks)
      /\ Len(queue') = Len(queue) + 1
      /\ Len(queue) \in Nat
  BY DEF Counters, Enqueue
<1>2. \A S : Count(pc, S) \in Int
  BY CountType, ThreadsType
<1>3. waiting < MaxQueue /\ waiting' = waiting + 1 /\ waiting \in Int
  BY MaxQueueAssumption DEF Counters, Enqueue, Overflow
<1>4. /\ pc' \in [Workers -> WorkerStates]
      /\ Count(pc', Idle) = Count(pc, Idle)
      /\ \/ Count(pc', Asleep) = 0
         \/ Count(pc', Coming) = Count(pc, Coming) + 1 /\ Count(pc, Asleep) # 0
  BY SignalCounts DEF Counters, Enqueue
<1> QED
  BY <1>1, <1>2, <1>3, <1>4, MaxQueueAssumption DEF Counters

(* A worker that enters the critical section, or comes back to it from the *)
(* wait, keeps the counters right, whether it finds a task or not.         *)
LEMMA CriticalCounts ==
    ASSUME Counters, NEW w \in Workers, Take(w) \/ Sleep(w),
           \/ pc[w] = "lock" /\ waiting' = waiting - 1
           \/ pc[w] = "woken" /\ waiting' = waiting
    PROVE  Counters'
<1>1. \A p, S : Count(p, S) \in Nat
  BY CountType, ThreadsType
<1>2. pc \in [Workers -> WorkerStates] /\ Len(queue) \in Nat
  BY DEF Counters
<1>3. "wait" \in WorkerStates /\ "run" \in WorkerStates
  BY DEF WorkerStates
<1>4. CASE Take(w)
  <2>1. /\ queue' \in Seq(AllTasks)
        /\ Len(queue') = Len(queue) - 1
        /\ pc' = [pc EXCEPT ![w] = "run"]
    BY <1>4 DEF Take, Counters
  <2>2. /\ pc' \in [Workers -> WorkerStates]
        /\ pc[w] = "woken" => Count(pc', Idle) = Count(pc, Idle) - 1
        /\ pc[w] = "lock" => Count(pc', Idle) = Count(pc, Idle)
        /\ Count(pc', Coming) = Count(pc, Coming) - 1
        /\ Count(pc', Asleep) = Count(pc, Asleep)
    <3>1. Moved(pc, pc', pc[w], "run")
      BY <1>2, <2>1, CountStep
    <3> QED
      BY <1>2, <1>3, <2>1, <3>1 DEF Moved, Idle, Coming, Asleep
  <2>3. /\ Count(pc, Idle) \in Nat /\ Count(pc', Idle) \in Nat
        /\ Count(pc, Coming) \in Nat /\ Count(pc, Asleep) \in Nat
    BY <1>1
  <2>4. /\ waiting \in Int /\ waiting =< MaxQueue /\ waiting = Len(queue) - Count(pc, Idle)
        /\ Count(pc, Asleep) # 0 => Len(queue) =< Count(pc, Coming)
    BY DEF Counters
  <2>5. waiting' \in Int /\ waiting' =< MaxQueue /\ waiting' = Len(queue') - Count(pc', Idle)
    BY <1>2, <2>1, <2>2, <2>3, <2>4, MaxQueueAssumption
  <2>6. Count(pc', Asleep) # 0 => Len(queue') =< Count(pc', Coming)
    BY <1>2, <2>1, <2>2, <2>3, <2>4
  <2> QED
    BY <2>1, <2>2, <2>5, <2>6 DEF Counters
<1>5. CASE Sleep(w)
  <2>1. queue = <<>> /\ queue' = queue /\ pc' = [pc EXCEPT ![w] = "wait"]
    BY <1>5 DEF Sleep
  <2>2. /\ pc' \in [Workers -> WorkerStates]
        /\ pc[w] = "woken" => Count(pc', Idle) = Count(pc, Idle)
        /\ pc[w] = "lock" => Count(pc', Idle) = Count(pc, Idle) + 1
    <3>1. Moved(pc, pc', pc[w], "wait")
      BY <1>2, <2>1, CountStep
    <3> QED
      BY <1>2, <1>3, <2>1, <3>1 DEF Moved, Idle
  <2> QED
    BY <1>1, <1>2, <2>1, <2>2, MaxQueueAssumption DEF Counters
<1> QED
  BY <1>4, <1>5
(* Every step keeps the invariant.                                         *)
LEMMA CountingStep == Counting /\ [Next]_vars => Counting'
<1> SUFFICES ASSUME Counting, [Next]_vars PROVE Counting'
  OBVIOUS
<1>1. OtherTypes /\ Counters /\ Born
  BY DEF Counting
<1>2. \A p, S : Count(p, S) \in Nat
  BY CountType, ThreadsType
<1>3. /\ pc \in [Workers -> WorkerStates]
      /\ Threads \in Nat /\ n \in Nat
      /\ waiting \in Int /\ Len(queue) \in Nat
  BY <1>1, ThreadsType DEF Counters, Born
<1>4. ASSUME NEW t \in AllTasks PROVE t # NoTask
  BY TasksAssumption
<1>5. ASSUME NEW w \in Workers, CreateThread(w) PROVE Counting'
  <2>1. Moved(pc, pc', "unborn", "lock") /\ pc' \in [Workers -> WorkerStates]
    BY <1>3, <1>5, CountStep DEF CreateThread, WorkerStates
  <2>2. /\ Count(pc', Idle) = Count(pc, Idle)
        /\ Count(pc', Asleep) = Count(pc, Asleep)
        /\ Count(pc', Coming) = Count(pc, Coming) + 1
        /\ Count(pc', Unborn) = Count(pc, Unborn) - 1
    BY <2>1 DEF Moved, Idle, Asleep, Coming, Unborn
  <2>3. Counters'
    BY <1>1, <1>2, <1>3, <1>5, <2>1, <2>2 DEF CreateThread, idVars, Counters
  <2>4. Born'
    BY <1>1, <1>2, <1>3, <1>5, <2>2 DEF CreateThread, Born
  <2>5. OtherTypes'
    BY <1>1, <1>5 DEF CreateThread, idVars, OtherTypes
  <2> QED
    BY <2>3, <2>4, <2>5 DEF Counting
<1>6. CASE CreateFails \/ InitReturns \/ Destroy \/ SpinEnds \/ FreePool \/ PillOverflows
  <2>1. Counters'
    BY <1>1, <1>6 DEF CreateFails, InitReturns, Destroy, SpinEnds, FreePool,
                      PillOverflows, idVars, Counters
  <2>2. Born'
    <3>1. owner' # "init" /\ owner' # "spin"
      BY <1>6 DEF CreateFails, InitReturns, Destroy, SpinEnds, FreePool, PillOverflows
    <3>2. n' \in 0..Threads
      BY <1>1, <1>3, <1>6 DEF CreateFails, InitReturns, Destroy, SpinEnds, FreePool,
                              PillOverflows, Born
    <3> QED
      BY <3>1, <3>2 DEF Born
  <2>3. OtherTypes'
    BY <1>1, <1>6 DEF CreateFails, InitReturns, Destroy, SpinEnds, FreePool,
                      PillOverflows, idVars, OtherTypes, OwnerStates
  <2> QED
    BY <2>1, <2>2, <2>3 DEF Counting
<1>7. ASSUME NEW t \in Tasks, Post(t) PROVE Counting'
  <2>1. t \in AllTasks
    BY DEF AllTasks
  <2>2. Counters'
    BY <1>1, <1>7, <2>1, EnqueueCounts DEF Post
  <2>3. Born'
    BY <1>1, <1>7 DEF Post, ownerVars, Born
  <2>4. OtherTypes'
    BY <1>1, <1>7, <2>1 DEF Post, Enqueue, ownerVars, OtherTypes, TaskStates
  <2> QED
    BY <2>2, <2>3, <2>4 DEF Counting
<1>8. ASSUME NEW t \in Tasks, PostOverflows(t) PROVE Counting'
  <2>1. Counters' /\ Born'
    BY <1>1, <1>8 DEF PostOverflows, ownerVars, idVars, Counters, Born
  <2>2. OtherTypes'
    BY <1>1, <1>8 DEF PostOverflows, ownerVars, idVars, OtherTypes, TaskStates
  <2> QED
    BY <2>1, <2>2 DEF Counting
<1>9. CASE PostPill
  <2>1. Counters'
    BY <1>1, <1>9, EnqueueCounts DEF PostPill, AllTasks
  <2>2. Born'
    BY <1>1, <1>9 DEF PostPill, Born
  <2>3. OtherTypes'
    BY <1>1, <1>9 DEF PostPill, Enqueue, OtherTypes, OwnerStates, AllTasks
  <2> QED
    BY <2>1, <2>2, <2>3 DEF Counting
<1>10. ASSUME NEW w \in Workers, Enter(w) \/ Resume(w) PROVE Counting'
  <2>1. Take(w) \/ Sleep(w)
    BY <1>10 DEF Enter, Resume
  <2>2. Counters'
    BY <1>1, <1>10, <2>1, CriticalCounts DEF Enter, Resume
  <2>3. Born'
    <3>1. pc[w] # "unborn" /\ UNCHANGED <<owner, n>>
      BY <1>10 DEF Enter, Resume, ownerVars
    <3>2. PICK s \in {"run", "wait"} : pc' = [pc EXCEPT ![w] = s]
      BY <2>1 DEF Take, Sleep
    <3>3. Moved(pc, pc', pc[w], s)
      BY <1>3, <3>2, CountStep
    <3>4. Count(pc', Unborn) = Count(pc, Unborn)
      BY <3>1, <3>2, <3>3 DEF Moved, Unborn
    <3> QED
      BY <1>1, <3>1, <3>4 DEF Born
  <2>4. OtherTypes'
    <3>1. UNCHANGED <<pool, owner, lock, nextId, id>>
      BY <1>10 DEF Enter, Resume, ownerVars, idVars
    <3>2. CASE Take(w)
      <4>1. Head(queue) \in AllTasks
        BY <1>1, <3>2 DEF Counters, Take
      <4>2. held' \in [Workers -> AllTasks \cup {NoTask}]
        BY <1>1, <3>2, <4>1 DEF Take, OtherTypes
      <4>3. st' \in [Tasks -> TaskStates]
        BY <1>1, <3>2, <4>1 DEF Take, OtherTypes, TaskStates
      <4> QED
        BY <1>1, <3>1, <4>2, <4>3 DEF OtherTypes
    <3>3. CASE Sleep(w)
      BY <1>1, <3>1, <3>3 DEF Sleep, OtherTypes
    <3> QED
      BY <2>1, <3>2, <3>3
  <2> QED
    BY <2>2, <2>3, <2>4 DEF Counting
<1>11. ASSUME NEW w \in Workers, SpuriousWakeup(w) PROVE Counting'
  <2>1. Moved(pc, pc', "wait", "woken") /\ pc' \in [Workers -> WorkerStates]
    BY <1>3, <1>11, CountStep DEF SpuriousWakeup, WorkerStates
  <2>2. /\ Count(pc', Idle) = Count(pc, Idle)
        /\ Count(pc', Asleep) = Count(pc, Asleep) - 1
        /\ Count(pc', Coming) = Count(pc, Coming) + 1
        /\ Count(pc', Unborn) = Count(pc, Unborn)
    BY <2>1 DEF Moved, Idle, Asleep, Coming, Unborn
  <2>3. Where(pc, Asleep) # {}
    BY <1>11 DEF SpuriousWakeup, Where, Asleep
  <2>4. Count(pc, Asleep) # 0
    BY <2>3, CountType
  <2>5. Counters'
    BY <1>1, <1>2, <1>3, <1>11, <2>1, <2>2, <2>4 DEF SpuriousWakeup, Counters
  <2>6. Born' /\ OtherTypes'
    BY <1>1, <1>11, <2>2 DEF SpuriousWakeup, ownerVars, idVars, Born, OtherTypes
  <2> QED
    BY <2>5, <2>6 DEF Counting
<1>12. ASSUME NEW w \in Workers, RunTask(w) \/ RunPill(w) PROVE Counting'
  <2>1. PICK s \in {"lock", "exited"} : pc' = [pc EXCEPT ![w] = s]
    BY <1>12 DEF RunTask, RunPill
  <2>2. pc[w] = "run"
    BY <1>12 DEF RunTask, RunPill
  <2>3. Moved(pc, pc', "run", s) /\ pc' \in [Workers -> WorkerStates]
    BY <1>3, <2>1, <2>2, CountStep DEF WorkerStates
  <2>4. /\ Count(pc', Idle) = Count(pc, Idle)
        /\ Count(pc', Asleep) = Count(pc, Asleep)
        /\ Count(pc', Coming) >= Count(pc, Coming)
        /\ Count(pc', Unborn) = Count(pc, Unborn)
    BY <1>2, <2>3 DEF Moved, Idle, Asleep, Coming, Unborn
  <2>5. Counters'
    BY <1>1, <1>2, <1>3, <1>12, <2>3, <2>4 DEF RunTask, RunPill, Counters
  <2>6. Born'
    BY <1>1, <1>12, <2>4 DEF RunTask, RunPill, ownerVars, Born
  <2>7. OtherTypes'
    BY <1>1, <1>12 DEF RunTask, RunPill, ownerVars, idVars, OtherTypes, TaskStates
  <2> QED
    BY <2>5, <2>6, <2>7 DEF Counting
<1>13. CASE UNCHANGED vars
  <2>1. OtherTypes' /\ Born'
    BY <1>1, <1>13 DEF vars, OtherTypes, Born
  <2>2. Counters'
    BY <1>1, <1>13 DEF vars, Counters
  <2> QED
    BY <2>1, <2>2 DEF Counting
<1> QED
  BY <1>5, <1>6, <1>7, <1>8, <1>9, <1>10, <1>11, <1>12, <1>13
     DEF Next, OwnerStep, WorkerStep, Finished
(* Counting is an invariant of the pool.                                   *)
THEOREM CountingInvariant == Spec => []Counting
BY CountingInit, CountingStep, PTL DEF Spec

(* It implies the three properties of the counter, the limit and the       *)
(* wakeups, and that every variable has its type.                          *)
LEMMA CountingImplies ==
    Counting => TypeOK /\ WaitingIsAccurate /\ QueueBound /\ NoLostWakeup
<1> SUFFICES ASSUME Counting
             PROVE  TypeOK /\ WaitingIsAccurate /\ QueueBound /\ NoLostWakeup
  OBVIOUS
<1>1. OtherTypes /\ Counters /\ Born
  BY DEF Counting
<1>2. /\ Cardinality(Committed) = Count(pc, Idle)
      /\ Cardinality(At({"lock", "woken"})) = Count(pc, Coming)
      /\ At({"wait"}) = Where(pc, Asleep)
  BY DEF Committed, At, Count, Where, Idle, Coming, Asleep
<1>3. /\ Count(pc, Idle) \in 0..Threads
      /\ Threads \in Nat /\ Len(queue) \in Nat /\ MaxQueue \in Nat
      /\ Where(pc, Asleep) # {} => Count(pc, Asleep) # 0
  BY <1>1, CountType, ThreadsType, MaxQueueAssumption DEF Counters
<1>4. waiting \in (-Threads)..MaxQueue
  BY <1>1, <1>3 DEF Counters
<1>5. TypeOK
  BY <1>1, <1>4 DEF TypeOK, OtherTypes, Counters, Born
<1>6. WaitingIsAccurate /\ QueueBound
  BY <1>1, <1>2, <1>3 DEF Counters, WaitingIsAccurate, QueueBound
<1>7. NoLostWakeup
  BY <1>1, <1>2, <1>3 DEF Counters, NoLostWakeup
<1> QED
  BY <1>5, <1>6, <1>7

(* Every variable keeps its type; "waiting" stays between minus the number *)
(* of threads and the limit that thread_task_post compares it with.        *)
THEOREM TypeCorrect == Spec => []TypeOK
BY CountingInvariant, CountingImplies, PTL

(* The counter that thread_pool.cpp calls "waiting" is always the length   *)
(* of the queue less the workers that have subtracted and not yet taken.   *)
THEOREM WaitingCorrect == Spec => []WaitingIsAccurate
BY CountingInvariant, CountingImplies, PTL

(* The queue exceeds max_queue by at most the workers about to take.       *)
THEOREM QueueBounded == Spec => []QueueBound
BY CountingInvariant, CountingImplies, PTL

(* While a worker sleeps on the condition variable, there are as many      *)
(* workers on their way to the queue as there are tasks in it, although    *)
(* thread_task_post signals before it appends.                             *)
THEOREM WakeupsNotLost == Spec => []NoLostWakeup
BY CountingInvariant, CountingImplies, PTL
-------------------------------------------------------------------------------
(* Queues and holders, for any queue q and any function h from the workers *)
(* to the tasks they hold                                                  *)

In(q, t) == \E i \in 1..Len(q) : q[i] = t
Distinct(q) == \A i, j \in 1..Len(q) : q[i] = q[j] => i = j
Holds(h, t) == \E w \in Workers : h[w] = t
Apart(h) == \A v, w \in Workers : h[v] = h[w] /\ h[v] # NoTask => v = w

(* Appending a task that is not linked.                                    *)
LEMMA AppendFacts ==
    ASSUME NEW q \in Seq(AllTasks), NEW t \in AllTasks,
           Distinct(q), ~In(q, t), NEW r, r = Append(q, t)
    PROVE  /\ Distinct(r)
           /\ \A u : In(r, u) <=> In(q, u) \/ u = t
           /\ Len(r) = Len(q) + 1 /\ Len(q) \in Nat
           /\ \A i \in 1..Len(q) : r[i] = q[i]
           /\ r[Len(r)] = t
<1>1. /\ Len(r) = Len(q) + 1 /\ Len(q) \in Nat
      /\ \A i \in 1..Len(q) : r[i] = q[i]
      /\ r[Len(r)] = t
  BY AppendProperties
<1>2. \A u : In(r, u) <=> In(q, u) \/ u = t
  BY <1>1 DEF In
<1>3. Distinct(r)
  BY <1>1 DEF In, Distinct
<1> QED
  BY <1>1, <1>2, <1>3

(* Unlinking the first task of a queue.                                    *)
LEMMA TailFacts ==
    ASSUME NEW q \in Seq(AllTasks), q # <<>>, Distinct(q),
           NEW r, r = Tail(q)
    PROVE  /\ r \in Seq(AllTasks)
           /\ Distinct(r)
           /\ \A u : In(r, u) <=> In(q, u) /\ u # Head(q)
           /\ Len(q) = Len(r) + 1 /\ Len(r) \in Nat
           /\ \A i \in 1..Len(r) : r[i] = q[i + 1]
           /\ Head(q) = q[1] /\ Head(q) \in AllTasks
<1>1. /\ r \in Seq(AllTasks)
      /\ Len(q) = Len(r) + 1 /\ Len(r) \in Nat
      /\ \A i \in 1..Len(r) : r[i] = q[i + 1]
      /\ Head(q) = q[1] /\ Head(q) \in AllTasks
  BY HeadTailProperties
<1>2. Distinct(r)
  BY <1>1 DEF Distinct
<1>3. ASSUME NEW u, In(r, u) PROVE In(q, u) /\ u # Head(q)
  <2>1. PICK i \in 1..Len(r) : r[i] = u
    BY <1>3 DEF In
  <2>2. q[i + 1] = u /\ i + 1 \in 1..Len(q) /\ i + 1 # 1 /\ 1 \in 1..Len(q)
    BY <1>1, <2>1
  <2> QED
    BY <1>1, <2>2 DEF In, Distinct
<1>4. ASSUME NEW u, In(q, u), u # Head(q) PROVE In(r, u)
  <2>1. PICK i \in 1..Len(q) : q[i] = u
    BY <1>4 DEF In
  <2>2. i - 1 \in 1..Len(r) /\ r[i - 1] = q[i]
    BY <1>1, <1>4, <2>1
  <2> QED
    BY <2>1, <2>2 DEF In
<1> QED
  BY <1>1, <1>2, <1>3, <1>4

(* A worker with empty hands gets a task that nobody holds.                *)
LEMMA GrabFacts ==
    ASSUME NEW h \in [Workers -> AllTasks \cup {NoTask}], Apart(h),
           NEW w \in Workers, h[w] = NoTask,
           NEW t \in AllTasks, ~Holds(h, t),
           NEW g, g = [h EXCEPT ![w] = t]
    PROVE  /\ Apart(g)
           /\ \A u : u # NoTask => (Holds(g, u) <=> Holds(h, u) \/ u = t)
<1>1. t # NoTask
  BY TasksAssumption
<1>2. g[w] = t /\ \A v \in Workers \ {w} : g[v] = h[v]
  OBVIOUS
<1>3. Apart(g)
  BY <1>1, <1>2 DEF Apart, Holds
<1>4. \A u : u # NoTask => (Holds(g, u) <=> Holds(h, u) \/ u = t)
  BY <1>1, <1>2 DEF Holds
<1> QED
  BY <1>3, <1>4

(* A worker drops the task it holds.                                       *)
LEMMA DropFacts ==
    ASSUME NEW h \in [Workers -> AllTasks \cup {NoTask}], Apart(h),
           NEW w \in Workers,
           NEW g, g = [h EXCEPT ![w] = NoTask]
    PROVE  /\ Apart(g)
           /\ \A u : u # NoTask => (Holds(g, u) <=> Holds(h, u) /\ u # h[w])
<1>2. g[w] = NoTask /\ \A v \in Workers \ {w} : g[v] = h[v]
  OBVIOUS
<1>3. Apart(g)
  BY <1>2 DEF Apart
<1>4. \A u : u # NoTask => (Holds(g, u) <=> Holds(h, u) /\ u # h[w])
  BY <1>2 DEF Apart, Holds
<1> QED
  BY <1>3, <1>4

-------------------------------------------------------------------------------
(* Tasks, their order, the exit task and the end of the pool               *)

(* A task is where its state says, and nowhere twice.                      *)
Once ==
    /\ Distinct(queue) /\ Apart(held)
    /\ \A t \in Tasks : In(queue, t) <=> st[t] = "queued"
    /\ \A t \in Tasks : Holds(held, t) <=> st[t] = "running"
    /\ \A w \in Workers : held[w] = NoTask <=> pc[w] # "run"

(* Numbers grow along the queue, from those of the tasks already taken.    *)
Numbered ==
    /\ \A i \in 1..Len(queue) : id[queue[i]] < nextId
    /\ \A i, j \in 1..Len(queue) : i < j => id[queue[i]] < id[queue[j]]
    /\ \A t \in Tasks : st[t] \in {"running", "done"} =>
           /\ id[t] < nextId
           /\ \A i \in 1..Len(queue) : id[t] < id[queue[i]]

(* The exit task is alive only while the owner spins, in one place, and    *)
(* nothing is linked behind it.                                            *)
Pills ==
    /\ In(queue, Pill) \/ Holds(held, Pill) => owner = "spin" /\ lock = 1
    /\ ~(In(queue, Pill) /\ Holds(held, Pill))
    /\ \A i \in 1..Len(queue) : queue[i] = Pill => i = Len(queue)
    /\ Holds(held, Pill) => queue = <<>>

Exited == {"exited"}

(* The loop variable of thread_pool_destroy counts the threads that have   *)
(* left, and the first leaves after all heap tasks have been taken.        *)
Exits ==
    /\ owner \in {"init", "failed", "open"} => Count(pc, Exited) = 0
    /\ owner = "post" => Count(pc, Exited) = n
    /\ owner = "spin" => Count(pc, Exited) = n + (1 - lock)
    /\ owner = "destroyed" => Count(pc, Exited) = Threads
    /\ Count(pc, Exited) # 0 => \A t \in Tasks : ~In(queue, t)

Safe == Once /\ Numbered /\ Pills /\ Exits
(* thread_pool_init starts with no task anywhere.                          *)
LEMMA SafeInit == Init => Safe
<1> SUFFICES ASSUME Init PROVE Safe
  OBVIOUS
<1>1. Once
  BY TasksAssumption DEF Init, Once, Distinct, Apart, In, Holds, AllTasks
<1>2. Numbered
  BY DEF Init, Numbered
<1>3. Pills
  BY TasksAssumption DEF Init, Pills, In, Holds, AllTasks
<1>4. Exits
  <2>1. Where(pc, Exited) = {}
    BY DEF Init, Where, Exited
  <2>2. Count(pc, Exited) = 0
    BY <2>1, CountType
  <2> QED
    BY <2>2 DEF Init, Exits
<1> QED
  BY <1>1, <1>2, <1>3, <1>4 DEF Safe

(* The types that the following lemmas use.                                *)
LEMMA CountingTypes ==
    ASSUME Counting
    PROVE  /\ queue \in Seq(AllTasks) /\ Len(queue) \in Nat
           /\ pc \in [Workers -> WorkerStates]
           /\ held \in [Workers -> AllTasks \cup {NoTask}]
           /\ st \in [Tasks -> TaskStates]
           /\ id \in [AllTasks -> Nat] /\ nextId \in Nat
           /\ lock \in {0, 1} /\ n \in Nat
           /\ Threads \in Nat \ {0}
BY ThreadsType DEF Counting, OtherTypes, Counters, Born

(* Steps of the owner and wakeups that touch neither queue nor tasks.      *)
QuietStep ==
    \/ \E w \in Workers : CreateThread(w) \/ SpuriousWakeup(w)
    \/ CreateFails \/ InitReturns \/ Destroy \/ PillOverflows \/ SpinEnds \/ FreePool
    \/ \E w \in Workers : (Enter(w) \/ Resume(w)) /\ Sleep(w)
    \/ UNCHANGED vars

(* A quiet step moves at most one worker, among the places without a task. *)
LEMMA QuietFacts ==
    ASSUME Counting, QuietStep
    PROVE  /\ UNCHANGED <<queue, held, st, id, nextId>>
           /\ \A w \in Workers : pc'[w] = "run" <=> pc[w] = "run"
           /\ Count(pc', Exited) = Count(pc, Exited)
<1>1. pc \in [Workers -> WorkerStates]
  BY CountingTypes
<1>2. ASSUME NEW w \in Workers, CreateThread(w) \/ SpuriousWakeup(w)
      PROVE  /\ UNCHANGED <<queue, held, st, id, nextId>>
             /\ pc[w] \in {"unborn", "wait"}
             /\ \E s \in {"lock", "woken"} : pc' = [pc EXCEPT ![w] = s]
  BY <1>2 DEF CreateThread, SpuriousWakeup, idVars
<1>3. ASSUME NEW w \in Workers, Enter(w) \/ Resume(w), Sleep(w)
      PROVE  /\ UNCHANGED <<queue, held, st, id, nextId>>
             /\ pc[w] \in {"lock", "woken"}
             /\ \E s \in {"wait"} : pc' = [pc EXCEPT ![w] = s]
  BY <1>3 DEF Enter, Resume, Sleep, idVars
<1>4. ASSUME NEW w \in Workers, NEW s \in {"lock", "woken", "wait"},
             pc[w] \in {"unborn", "wait", "lock", "woken"},
             pc' = [pc EXCEPT ![w] = s]
      PROVE  /\ \A v \in Workers : pc'[v] = "run" <=> pc[v] = "run"
             /\ Count(pc', Exited) = Count(pc, Exited)
  <2>1. Moved(pc, pc', pc[w], s)
    BY <1>1, <1>4, CountStep
  <2>2. Count(pc', Exited) = Count(pc, Exited)
    BY <2>1, <1>4 DEF Moved, Exited
  <2>3. \A v \in Workers : pc'[v] = "run" <=> pc[v] = "run"
    BY <1>1, <1>4
  <2> QED
    BY <2>2, <2>3
<1>5. CASE \E w \in Workers : CreateThread(w) \/ SpuriousWakeup(w)
  BY <1>2, <1>4, <1>5
<1>6. CASE \E w \in Workers : (Enter(w) \/ Resume(w)) /\ Sleep(w)
  BY <1>3, <1>4, <1>6
<1>7. CASE CreateFails \/ InitReturns \/ Destroy \/ PillOverflows \/ SpinEnds \/ FreePool
           \/ UNCHANGED vars
  BY <1>7 DEF CreateFails, InitReturns, Destroy, PillOverflows, SpinEnds, FreePool,
              vars, idVars
<1> QED
  BY <1>5, <1>6, <1>7 DEF QuietStep

(* A signal touches sleepers only.                                         *)
LEMMA SignalFacts ==
    ASSUME pc \in [Workers -> WorkerStates], Signal
    PROVE  /\ \A w \in Workers : pc'[w] = "run" <=> pc[w] = "run"
           /\ Count(pc', Exited) = Count(pc, Exited)
<1>1. CASE At({"wait"}) = {} /\ UNCHANGED pc
  BY <1>1
<1>2. CASE \E w \in At({"wait"}) : pc' = [pc EXCEPT ![w] = "woken"]
  <2>1. PICK w \in Workers : pc[w] = "wait" /\ pc' = [pc EXCEPT ![w] = "woken"]
    BY <1>2 DEF At
  <2>2. Moved(pc, pc', "wait", "woken")
    BY <2>1, CountStep
  <2>3. Count(pc', Exited) = Count(pc, Exited)
    BY <2>2 DEF Moved, Exited
  <2> QED
    BY <2>1, <2>3
<1> QED
  BY <1>1, <1>2 DEF Signal

(* Every step is quiet, a refusal, or one of the steps that move a task.   *)
LEMMA StepCases ==
    ASSUME [Next]_vars
    PROVE  \/ QuietStep
           \/ \E t \in Tasks : Post(t) \/ PostOverflows(t)
           \/ PostPill
           \/ \E w \in Workers : (Enter(w) \/ Resume(w)) /\ Take(w)
           \/ \E w \in Workers : RunTask(w) \/ RunPill(w)
<1>1. ASSUME NEW w \in Workers, Enter(w) \/ Resume(w)
      PROVE  \/ (Enter(w) \/ Resume(w)) /\ Sleep(w)
             \/ (Enter(w) \/ Resume(w)) /\ Take(w)
  BY <1>1 DEF Enter, Resume
<1> QED
  BY <1>1 DEF Next, OwnerStep, WorkerStep, Finished, QuietStep
(* No step duplicates or loses a task.                                     *)
LEMMA OnceStep ==
    ASSUME Counting, Once, Pills, [Next]_vars
    PROVE  Once'
<1>1. /\ queue \in Seq(AllTasks) /\ pc \in [Workers -> WorkerStates]
      /\ held \in [Workers -> AllTasks \cup {NoTask}]
      /\ st \in [Tasks -> TaskStates]
      /\ Distinct(queue) /\ Apart(held)
  BY CountingTypes DEF Once
<1>2. Pill \in AllTasks /\ Pill \notin Tasks /\ NoTask \notin AllTasks /\ Tasks \subseteq AllTasks
  BY TasksAssumption DEF AllTasks
<1>3. CASE QuietStep
  BY <1>3, QuietFacts DEF Once
<1>4. ASSUME NEW t \in Tasks, Post(t) PROVE Once'
  <2>1. ~In(queue, t)
    BY <1>4 DEF Once, Post
  <2>2. queue' = Append(queue, t)
    BY <1>4 DEF Post, Enqueue
  <2>3. Distinct(queue') /\ \A u : In(queue', u) <=> In(queue, u) \/ u = t
    BY <1>1, <1>2, <2>1, <2>2, AppendFacts
  <2>4. st' = [st EXCEPT ![t] = "queued"] /\ st[t] = "new" /\ held' = held
    BY <1>4 DEF Post
  <2>5. \A w \in Workers : pc'[w] = "run" <=> pc[w] = "run"
    BY <1>1, <1>4, SignalFacts DEF Post, Enqueue
  <2>6. \A u \in Tasks : In(queue', u) <=> st'[u] = "queued"
    BY <1>1, <2>3, <2>4 DEF Once
  <2>7. \A u \in Tasks : Holds(held', u) <=> st'[u] = "running"
    BY <1>1, <2>4 DEF Once
  <2> QED
    BY <2>3, <2>4, <2>5, <2>6, <2>7 DEF Once
<1>5. ASSUME NEW t \in Tasks, PostOverflows(t) PROVE Once'
  <2>1. /\ st' = [st EXCEPT ![t] = "rejected"] /\ st[t] = "new"
        /\ UNCHANGED <<queue, held, pc>>
    BY <1>5 DEF PostOverflows
  <2>2. \A u \in Tasks : (st'[u] = "queued" <=> st[u] = "queued")
                         /\ (st'[u] = "running" <=> st[u] = "running")
    BY <1>1, <2>1
  <2> QED
    BY <2>1, <2>2 DEF Once
<1>6. CASE PostPill
  <2>1. ~In(queue, Pill)
    BY <1>6 DEF Pills, PostPill
  <2>2. queue' = Append(queue, Pill) /\ UNCHANGED <<st, held>>
    BY <1>6 DEF PostPill, Enqueue
  <2>3. Distinct(queue') /\ \A u : In(queue', u) <=> In(queue, u) \/ u = Pill
    BY <1>1, <1>2, <2>1, <2>2, AppendFacts
  <2>4. \A w \in Workers : pc'[w] = "run" <=> pc[w] = "run"
    BY <1>1, <1>6, SignalFacts DEF PostPill, Enqueue
  <2>5. \A u \in Tasks : In(queue', u) <=> st'[u] = "queued"
    BY <1>2, <2>2, <2>3 DEF Once
  <2> QED
    BY <2>2, <2>3, <2>4, <2>5 DEF Once
<1>7. ASSUME NEW w \in Workers, Enter(w) \/ Resume(w), Take(w) PROVE Once'
  <2> DEFINE t == Head(queue)
  <2>1. /\ Distinct(queue') /\ t \in AllTasks /\ In(queue, t)
        /\ \A u : In(queue', u) <=> In(queue, u) /\ u # t
    <3>1. queue # <<>> /\ queue' = Tail(queue)
      BY <1>7 DEF Take
    <3>2. /\ Distinct(queue')
          /\ \A u : In(queue', u) <=> In(queue, u) /\ u # Head(queue)
          /\ Head(queue) = queue[1] /\ Head(queue) \in AllTasks
          /\ Len(queue) = Len(queue') + 1 /\ Len(queue') \in Nat
      BY <1>1, <3>1, TailFacts
    <3>3. In(queue, Head(queue))
      BY <3>2 DEF In
    <3> QED
      BY <3>2, <3>3
  <2>2. ~Holds(held, t)
    <3>1. CASE t = Pill
      BY <2>1, <3>1 DEF Pills
    <3>2. CASE t \in Tasks
      BY <2>1, <3>2 DEF Once
    <3> QED
      BY <2>1, <3>1, <3>2 DEF AllTasks
  <2>3. /\ held[w] = NoTask
        /\ held' = [held EXCEPT ![w] = t]
        /\ pc' = [pc EXCEPT ![w] = "run"]
        /\ st' = IF t = Pill THEN st ELSE [st EXCEPT ![t] = "running"]
    BY <1>7 DEF Enter, Resume, Take, Once
  <2> HIDE DEF t
  <2>4. /\ Apart(held')
        /\ \A u : u # NoTask => (Holds(held', u) <=> Holds(held, u) \/ u = t)
    BY <1>1, <2>1, <2>2, <2>3, GrabFacts
  <2>5. \A u \in Tasks : In(queue', u) <=> st'[u] = "queued"
    BY <1>1, <1>2, <2>1, <2>3 DEF Once, AllTasks
  <2>6. \A u \in Tasks : Holds(held', u) <=> st'[u] = "running"
    BY <1>1, <1>2, <2>1, <2>3, <2>4 DEF Once, AllTasks
  <2>7. \A v \in Workers : held'[v] = NoTask <=> pc'[v] # "run"
    BY <1>1, <1>2, <2>1, <2>3 DEF Once
  <2> QED
    BY <2>1, <2>4, <2>5, <2>6, <2>7 DEF Once
<1>8. ASSUME NEW w \in Workers, RunTask(w) \/ RunPill(w) PROVE Once'
  <2>1. /\ held' = [held EXCEPT ![w] = NoTask]
        /\ queue' = queue
        /\ \E s \in {"lock", "exited"} : pc' = [pc EXCEPT ![w] = s]
        /\ st' = IF held[w] \in Tasks THEN [st EXCEPT ![held[w]] = "done"] ELSE st
        /\ held[w] \in AllTasks
    BY <1>2, <1>8 DEF RunTask, RunPill
  <2>2. /\ Apart(held')
        /\ \A u : u # NoTask => (Holds(held', u) <=> Holds(held, u) /\ u # held[w])
    BY <1>1, <2>1, DropFacts
  <2>3. held[w] \in Tasks => st[held[w]] = "running"
    BY DEF Once, Holds
  <2>4. \A u \in Tasks : In(queue', u) <=> st'[u] = "queued"
    BY <1>1, <2>1, <2>3 DEF Once
  <2>5. \A u \in Tasks : Holds(held', u) <=> st'[u] = "running"
    BY <1>1, <1>2, <2>1, <2>2 DEF Once
  <2>6. \A v \in Workers : held'[v] = NoTask <=> pc'[v] # "run"
    BY <1>1, <2>1 DEF Once
  <2> QED
    BY <2>1, <2>2, <2>4, <2>5, <2>6 DEF Once
<1> QED
  BY <1>3, <1>4, <1>5, <1>6, <1>7, <1>8, StepCases
(* A posted task gets a number above all others.                           *)
LEMMA NumberedEnqueue ==
    ASSUME Counting, Numbered, Distinct(queue),
           NEW t \in AllTasks, Enqueue(t), ~In(queue, t),
           t \in Tasks => st[t] = "new",
           \A u \in Tasks : st'[u] \in {"running", "done"} => st[u] = st'[u]
    PROVE  Numbered'
<1>1. /\ queue \in Seq(AllTasks)
      /\ id \in [AllTasks -> Nat] /\ nextId \in Nat
      /\ Tasks \subseteq AllTasks
  BY CountingTypes DEF AllTasks
<1>2. /\ queue' = Append(queue, t)
      /\ id' = [id EXCEPT ![t] = nextId] /\ nextId' = nextId + 1
  BY DEF Enqueue
<1>3. /\ Len(queue') = Len(queue) + 1 /\ Len(queue) \in Nat
      /\ \A i \in 1..Len(queue) : queue'[i] = queue[i]
      /\ queue'[Len(queue')] = t
  BY <1>1, <1>2, AppendFacts
<1>4. /\ \A i \in 1..Len(queue) : queue[i] \in AllTasks /\ queue[i] # t
      /\ id'[t] = nextId
      /\ \A u \in AllTasks : u # t => id'[u] = id[u]
  BY <1>1, <1>2, ElementOfSeq DEF In
<1>5. \A i \in 1..Len(queue) : id'[queue'[i]] = id[queue[i]] /\ id[queue[i]] \in Nat
  BY <1>1, <1>3, <1>4
<1>6. \A i \in 1..Len(queue') : id'[queue'[i]] < nextId'
  BY <1>1, <1>2, <1>3, <1>4, <1>5 DEF Numbered
<1>7. \A i, j \in 1..Len(queue') : i < j => id'[queue'[i]] < id'[queue'[j]]
  <2>1. SUFFICES ASSUME NEW i \in 1..Len(queue'), NEW j \in 1..Len(queue'), i < j
                 PROVE  id'[queue'[i]] < id'[queue'[j]]
    OBVIOUS
  <2>2. i \in 1..Len(queue) /\ id'[queue'[i]] = id[queue[i]]
    BY <1>3, <1>5, <2>1
  <2>3. CASE j = Len(queue')
    BY <1>3, <1>4, <2>2, <2>3 DEF Numbered
  <2>4. CASE j # Len(queue')
    <3>1. j \in 1..Len(queue) /\ id'[queue'[j]] = id[queue[j]]
      BY <1>3, <1>5, <2>4
    <3> QED
      BY <2>1, <2>2, <3>1 DEF Numbered
  <2> QED
    BY <2>3, <2>4
<1>8. ASSUME NEW u \in Tasks, st'[u] \in {"running", "done"}
      PROVE  /\ id'[u] < nextId'
             /\ \A i \in 1..Len(queue') : id'[u] < id'[queue'[i]]
  <2>1. id'[u] = id[u] /\ id[u] < nextId /\ id[u] \in Nat
    BY <1>1, <1>4, <1>8 DEF Numbered
  <2>2. \A i \in 1..Len(queue) : id[u] < id[queue[i]]
    BY <1>8 DEF Numbered
  <2> QED
    BY <1>1, <1>2, <1>3, <1>4, <1>5, <2>1, <2>2
<1> QED
  BY <1>6, <1>7, <1>8 DEF Numbered

(* Tasks keep the order in which they were numbered.                       *)
LEMMA NumberedStep ==
    ASSUME Counting, Once, Pills, Numbered, [Next]_vars
    PROVE  Numbered'
<1>1. /\ queue \in Seq(AllTasks) /\ st \in [Tasks -> TaskStates]
      /\ id \in [AllTasks -> Nat] /\ nextId \in Nat
      /\ Distinct(queue)
  BY CountingTypes DEF Once
<1>2. Pill \in AllTasks /\ Pill \notin Tasks /\ Tasks \subseteq AllTasks
  BY TasksAssumption DEF AllTasks
<1>3. CASE QuietStep
  BY <1>3, QuietFacts DEF Numbered
<1>4. ASSUME NEW t \in Tasks, Post(t) PROVE Numbered'
  <2>1. Enqueue(t) /\ st[t] = "new" /\ st' = [st EXCEPT ![t] = "queued"] /\ ~In(queue, t)
    BY <1>4 DEF Post, Once
  <2>2. \A u \in Tasks : st'[u] \in {"running", "done"} => st[u] = st'[u]
    BY <1>1, <2>1
  <2> QED
    BY <1>1, <1>2, <2>1, <2>2, NumberedEnqueue
<1>5. ASSUME NEW t \in Tasks, PostOverflows(t) PROVE Numbered'
  <2>1. /\ st' = [st EXCEPT ![t] = "rejected"] /\ UNCHANGED <<queue, id, nextId>>
    BY <1>5 DEF PostOverflows, idVars
  <2>2. \A u \in Tasks : st'[u] \in {"running", "done"} => st[u] = st'[u]
    BY <1>1, <2>1
  <2> QED
    BY <2>1, <2>2 DEF Numbered
<1>6. CASE PostPill
  <2>1. Enqueue(Pill) /\ UNCHANGED st /\ ~In(queue, Pill)
    BY <1>6 DEF PostPill, Pills
  <2> QED
    BY <1>1, <1>2, <2>1, NumberedEnqueue
<1>7. ASSUME NEW w \in Workers, Enter(w) \/ Resume(w), Take(w) PROVE Numbered'
  <2>1. /\ queue # <<>> /\ queue' = Tail(queue)
        /\ UNCHANGED <<id, nextId>>
        /\ st' = IF Head(queue) = Pill THEN st ELSE [st EXCEPT ![Head(queue)] = "running"]
    BY <1>7 DEF Take, Enter, Resume, idVars
  <2>2. /\ Len(queue) = Len(queue') + 1 /\ Len(queue') \in Nat
        /\ \A i \in 1..Len(queue') : queue'[i] = queue[i + 1]
        /\ Head(queue) = queue[1] /\ Head(queue) \in AllTasks
    BY <1>1, <2>1, TailFacts
  <2>3. \A i \in 1..Len(queue') : id[queue[1]] < id[queue'[i]] /\ id[queue'[i]] < nextId
    BY <2>2 DEF Numbered
  <2>4. id[queue[1]] < nextId
    BY <2>2 DEF Numbered
  <2>5. \A i, j \in 1..Len(queue') : i < j => id[queue'[i]] < id[queue'[j]]
    BY <2>2 DEF Numbered
  <2>6. ASSUME NEW u \in Tasks, st'[u] \in {"running", "done"}
        PROVE  /\ id[u] < nextId
               /\ \A i \in 1..Len(queue') : id[u] < id[queue'[i]]
    <3>1. CASE u = Head(queue)
      BY <2>2, <2>3, <2>4, <3>1
    <3>2. CASE u # Head(queue)
      <4>1. st[u] \in {"running", "done"}
        BY <1>1, <2>1, <2>6, <3>2
      <4> QED
        BY <2>2, <4>1 DEF Numbered
    <3> QED
      BY <3>1, <3>2
  <2> QED
    BY <2>1, <2>3, <2>5, <2>6 DEF Numbered
<1>8. ASSUME NEW w \in Workers, RunTask(w) \/ RunPill(w) PROVE Numbered'
  <2>1. /\ UNCHANGED <<queue, id, nextId>>
        /\ \/ st' = st
           \/ held[w] \in Tasks /\ st' = [st EXCEPT ![held[w]] = "done"]
    BY <1>8 DEF RunTask, RunPill, idVars
  <2>2. held[w] \in Tasks => st[held[w]] = "running"
    BY DEF Once, Holds
  <2>3. \A u \in Tasks : st'[u] \in {"running", "done"} => st[u] \in {"running", "done"}
    BY <1>1, <2>1, <2>2
  <2> QED
    BY <2>1, <2>3 DEF Numbered
<1> QED
  BY <1>3, <1>4, <1>5, <1>6, <1>7, <1>8, StepCases

(* The exit task stays in one place, at the end, while its owner spins.    *)
LEMMA PillsStep ==
    ASSUME Counting, Once, Pills, [Next]_vars
    PROVE  Pills'
<1>1. /\ queue \in Seq(AllTasks) /\ Len(queue) \in Nat
      /\ held \in [Workers -> AllTasks \cup {NoTask}]
      /\ Distinct(queue) /\ Apart(held)
  BY CountingTypes DEF Once
<1>2. /\ Pill \in AllTasks /\ Pill \notin Tasks /\ Tasks \subseteq AllTasks
      /\ Pill # NoTask
  BY TasksAssumption DEF AllTasks
<1>3. CASE QuietStep
  <2>1. UNCHANGED <<queue, held>>
    BY <1>3, QuietFacts
  <2>2. CASE ~In(queue, Pill) /\ ~Holds(held, Pill)
    BY <2>1, <2>2 DEF Pills
  <2>3. CASE owner = "spin" /\ lock = 1
    <3>1. owner' = "spin" /\ lock' = 1
      BY <1>3, <2>3 DEF QuietStep, CreateThread, SpuriousWakeup, CreateFails, InitReturns,
            Destroy, PillOverflows, SpinEnds, FreePool, Enter, Resume, vars, ownerVars
    <3> QED
      BY <2>1, <3>1 DEF Pills
  <2> QED
    BY <2>2, <2>3 DEF Pills
<1>4. ASSUME NEW t \in Tasks, Post(t) PROVE Pills'
  <2>1. ~In(queue, Pill) /\ ~Holds(held, Pill) /\ ~In(queue, t)
    BY <1>4 DEF Post, Pills, Once
  <2>2. queue' = Append(queue, t) /\ held' = held
    BY <1>4 DEF Post, Enqueue
  <2>3. \A u : In(queue', u) <=> In(queue, u) \/ u = t
    BY <1>1, <1>2, <2>1, <2>2, AppendFacts
  <2>4. ~In(queue', Pill) /\ ~Holds(held', Pill)
    BY <1>2, <2>1, <2>2, <2>3
  <2> QED
    BY <2>4 DEF Pills, In
<1>5. ASSUME NEW t \in Tasks, PostOverflows(t) PROVE Pills'
  BY <1>5 DEF PostOverflows, ownerVars, Pills
<1>6. CASE PostPill
  <2>1. ~In(queue, Pill) /\ ~Holds(held, Pill)
    BY <1>6 DEF PostPill, Pills
  <2>2. /\ queue' = Append(queue, Pill) /\ held' = held
        /\ owner' = "spin" /\ lock' = 1
    BY <1>6 DEF PostPill, Enqueue
  <2>3. /\ Len(queue') = Len(queue) + 1
        /\ \A i \in 1..Len(queue) : queue'[i] = queue[i]
    BY <1>1, <1>2, <2>1, <2>2, AppendFacts
  <2>4. \A i \in 1..Len(queue') : queue'[i] = Pill => i = Len(queue')
    BY <1>1, <2>1, <2>3 DEF In
  <2> QED
    BY <2>1, <2>2, <2>4 DEF Pills
<1>7. ASSUME NEW w \in Workers, Enter(w) \/ Resume(w), Take(w) PROVE Pills'
  <2>1. /\ queue # <<>> /\ queue' = Tail(queue)
        /\ held' = [held EXCEPT ![w] = Head(queue)]
        /\ UNCHANGED <<owner, lock>>
    BY <1>7 DEF Take, Enter, Resume, ownerVars
  <2>2. /\ \A u : In(queue', u) <=> In(queue, u) /\ u # Head(queue)
        /\ Len(queue) = Len(queue') + 1 /\ Len(queue') \in Nat
        /\ \A i \in 1..Len(queue') : queue'[i] = queue[i + 1]
        /\ Head(queue) = queue[1]
    <3>1. queue # <<>> /\ queue' = Tail(queue) /\ queue \in Seq(AllTasks) /\ Distinct(queue)
      BY <1>1, <2>1
    <3>2. \A u : In(queue', u) <=> In(queue, u) /\ u # Head(queue)
      BY <3>1, TailFacts
    <3>3. /\ Len(queue) = Len(queue') + 1 /\ Len(queue') \in Nat
          /\ \A i \in 1..Len(queue') : queue'[i] = queue[i + 1]
          /\ Head(queue) = queue[1]
      BY <3>1, TailFacts
    <3> QED
      BY <3>2, <3>3
  <2>3. ~Holds(held, Pill)
    BY <2>1 DEF Pills
  <2>4. Holds(held', Pill) => Head(queue) = Pill
    BY <1>1, <1>2, <2>1, <2>3 DEF Holds
  <2>5. Head(queue) = Pill => In(queue, Pill) /\ queue' = <<>>
    <3>1. queue' \in Seq(AllTasks)
      BY <1>1, <2>1, TailFacts
    <3> QED
      BY <2>2, <3>1, EmptySeq DEF In, Pills
  <2>6. In(queue', Pill) \/ Holds(held', Pill) => owner' = "spin" /\ lock' = 1
    BY <2>1, <2>2, <2>4, <2>5 DEF Pills
  <2>7. \A i \in 1..Len(queue') : queue'[i] = Pill => i = Len(queue')
    BY <2>2 DEF Pills
  <2> QED
    BY <2>2, <2>4, <2>5, <2>6, <2>7 DEF Pills
<1>8. ASSUME NEW w \in Workers, RunTask(w) PROVE Pills'
  <2>1. /\ held' = [held EXCEPT ![w] = NoTask]
        /\ UNCHANGED <<queue, owner, lock>>
    BY <1>8 DEF RunTask, ownerVars
  <2>2. Holds(held', Pill) => Holds(held, Pill)
    BY <1>1, <1>2, <2>1, DropFacts
  <2> QED
    BY <2>1, <2>2 DEF Pills
<1>9. ASSUME NEW w \in Workers, RunPill(w) PROVE Pills'
  <2>1. /\ held' = [held EXCEPT ![w] = NoTask]
        /\ held[w] = Pill /\ queue' = queue
    BY <1>9 DEF RunPill
  <2>2. Holds(held, Pill) /\ ~Holds(held', Pill)
    <3>1. Holds(held, Pill)
      BY <2>1 DEF Holds
    <3>2. ~Holds(held', Pill)
      BY <1>1, <1>2, <2>1, DropFacts
    <3> QED
      BY <3>1, <3>2
  <2>3. ~In(queue', Pill)
    BY <2>1, <2>2 DEF Pills
  <2> QED
    BY <2>2, <2>3 DEF Pills, In
<1> QED
  BY <1>3, <1>4, <1>5, <1>6, <1>7, <1>8, <1>9, StepCases
(* Threads leave one by one, each counted by the owner, after all tasks.   *)
LEMMA ExitsStep ==
    ASSUME Counting, Once, Pills, Exits, [Next]_vars
    PROVE  Exits'
<1>1. /\ queue \in Seq(AllTasks) /\ pc \in [Workers -> WorkerStates]
      /\ lock \in {0, 1} /\ n \in Nat /\ Distinct(queue)
  BY CountingTypes DEF Once
<1>2. Pill \in AllTasks /\ Pill \notin Tasks /\ Tasks \subseteq AllTasks
  BY TasksAssumption DEF AllTasks
<1>3. \A p : Count(p, Exited) \in Nat
  BY CountType, ThreadsType
<1>4. CASE QuietStep
  <2>1. queue' = queue /\ Count(pc', Exited) = Count(pc, Exited)
    BY <1>4, QuietFacts
  <2>2. CASE UNCHANGED <<owner, lock>> /\ (owner \in {"post", "spin"} => n' = n)
    BY <2>1, <2>2 DEF Exits
  <2>3. CASE CreateFails \/ InitReturns \/ Destroy \/ PillOverflows \/ SpinEnds \/ FreePool
    BY <1>1, <1>3, <2>1, <2>3 DEF Exits, CreateFails, InitReturns, Destroy,
          PillOverflows, SpinEnds, FreePool
  <2>4. \/ UNCHANGED <<owner, lock>> /\ (owner \in {"post", "spin"} => n' = n)
        \/ CreateFails \/ InitReturns \/ Destroy \/ PillOverflows \/ SpinEnds \/ FreePool
    BY <1>4 DEF QuietStep, CreateThread, SpuriousWakeup, Enter, Resume, vars, ownerVars
  <2> QED
    BY <2>2, <2>3, <2>4
<1>5. ASSUME NEW t \in Tasks, Post(t) PROVE Exits'
  <2>1. Count(pc', Exited) = Count(pc, Exited)
    BY <1>1, <1>5, SignalFacts DEF Post, Enqueue
  <2> QED
    BY <1>5, <2>1 DEF Exits, Post, ownerVars
<1>6. ASSUME NEW t \in Tasks, PostOverflows(t) PROVE Exits'
  BY <1>6 DEF Exits, PostOverflows, ownerVars
<1>7. CASE PostPill
  <2>1. Count(pc', Exited) = Count(pc, Exited)
    BY <1>1, <1>7, SignalFacts DEF PostPill, Enqueue
  <2>2. ~In(queue, Pill) /\ queue' = Append(queue, Pill)
    BY <1>7 DEF PostPill, Enqueue, Pills
  <2>3. \A u : In(queue', u) <=> In(queue, u) \/ u = Pill
    BY <1>1, <1>2, <2>2, AppendFacts
  <2>4. owner = "post" /\ owner' = "spin" /\ lock' = 1 /\ n' = n
    BY <1>7 DEF PostPill
  <2> QED
    BY <1>1, <1>2, <1>3, <2>1, <2>3, <2>4 DEF Exits
<1>8. ASSUME NEW w \in Workers, Enter(w) \/ Resume(w), Take(w) PROVE Exits'
  <2>1. /\ queue # <<>> /\ queue' = Tail(queue) /\ queue \in Seq(AllTasks)
        /\ Distinct(queue)
    BY <1>1, <1>8 DEF Take
  <2>2. \A u : In(queue', u) <=> In(queue, u) /\ u # Head(queue)
    BY <2>1, TailFacts
  <2>3. pc[w] # "exited" /\ pc' = [pc EXCEPT ![w] = "run"] /\ UNCHANGED <<owner, n, lock>>
    BY <1>8 DEF Take, Enter, Resume, ownerVars
  <2>4. Moved(pc, pc', pc[w], "run")
    BY <1>1, <2>3, CountStep
  <2>5. Count(pc', Exited) = Count(pc, Exited)
    BY <2>3, <2>4 DEF Moved, Exited
  <2> QED
    BY <2>2, <2>3, <2>5 DEF Exits
<1>9. ASSUME NEW w \in Workers, RunTask(w) PROVE Exits'
  <2>1. /\ pc[w] = "run" /\ pc' = [pc EXCEPT ![w] = "lock"]
        /\ UNCHANGED <<owner, n, lock, queue>>
    BY <1>9 DEF RunTask, ownerVars
  <2>2. Moved(pc, pc', "run", "lock")
    BY <1>1, <2>1, CountStep
  <2>3. Count(pc', Exited) = Count(pc, Exited)
    BY <2>2 DEF Moved, Exited
  <2> QED
    BY <2>1, <2>3 DEF Exits
<1>10. ASSUME NEW w \in Workers, RunPill(w) PROVE Exits'
  <2>1. /\ pc[w] = "run" /\ pc' = [pc EXCEPT ![w] = "exited"]
        /\ lock' = 0 /\ UNCHANGED <<owner, n, queue>>
        /\ Holds(held, Pill)
    BY <1>10 DEF RunPill, ownerVars, Holds
  <2>2. Moved(pc, pc', "run", "exited")
    BY <1>1, <2>1, CountStep
  <2>3. Count(pc', Exited) = Count(pc, Exited) + 1
    BY <2>2 DEF Moved, Exited
  <2>4. owner = "spin" /\ lock = 1 /\ queue = <<>>
    BY <2>1 DEF Pills
  <2>5. \A t : ~In(queue', t)
    BY <2>1, <2>4 DEF In
  <2> QED
    BY <1>1, <1>3, <2>1, <2>3, <2>4, <2>5 DEF Exits
<1> QED
  BY <1>4, <1>5, <1>6, <1>7, <1>8, <1>9, <1>10, StepCases

(* Together with Counting, Safe is an invariant of the pool.               *)
THEOREM SafeInvariant == Spec => [](Counting /\ Safe)
<1>1. Init => Counting /\ Safe
  BY CountingInit, SafeInit
<1>2. (Counting /\ Safe) /\ [Next]_vars => (Counting /\ Safe)'
  <2> SUFFICES ASSUME Counting, Safe, [Next]_vars PROVE (Counting /\ Safe)'
    OBVIOUS
  <2>1. Once /\ Numbered /\ Pills /\ Exits
    BY DEF Safe
  <2>2. Counting'
    BY CountingStep
  <2>3. Once' /\ Pills'
    BY <2>1, OnceStep, PillsStep
  <2>4. Numbered' /\ Exits'
    BY <2>1, NumberedStep, ExitsStep
  <2> QED
    BY <2>2, <2>3, <2>4 DEF Safe
<1> QED
  BY <1>1, <1>2, PTL DEF Spec

(* Safe implies what ThreadPool says of tasks, of their order, of the exit *)
(* task and of the destroyed pool.                                         *)
LEMMA SafeImplies ==
    ASSUME Counting, Safe
    PROVE  ExactlyOnce /\ PostOrder /\ StackTaskInScope /\ DestroyDrains
<1>1. Once /\ Numbered /\ Pills /\ Exits
  BY DEF Safe
<1>2. /\ queue \in Seq(AllTasks) /\ Len(queue) \in Nat
      /\ DOMAIN queue = 1..Len(queue)
      /\ st \in [Tasks -> TaskStates]
      /\ Threads \in Nat \ {0}
  BY CountingTypes
<1>3. \A t : Linked(t) <=> In(queue, t)
  BY <1>2 DEF Linked, In
<1>4. \A t : HeldBySome(t) <=> Holds(held, t)
  BY DEF HeldBySome, Holds
<1>5. ExactlyOnce
  BY <1>1, <1>2, <1>3, <1>4 DEF ExactlyOnce, Once, Distinct, Apart
<1>6. PostOrder
  BY <1>1, <1>2 DEF PostOrder, Numbered
<1>7. StackTaskInScope
  BY <1>1, <1>3, <1>4 DEF StackTaskInScope, Pills
<1>8. ASSUME owner = "destroyed"
      PROVE  /\ queue = <<>>
             /\ \A w \in Workers : pc[w] = "exited"
             /\ \A t \in Tasks : st[t] \notin {"queued", "running"}
  <2>1. Count(pc, Exited) = Threads
    BY <1>1, <1>8 DEF Exits
  <2>2. \A w \in Workers : pc[w] = "exited"
    <3>1. Where(pc, Exited) = Workers
      BY <2>1, CountType
    <3> QED
      BY <3>1 DEF Where, Exited
  <2>3. \A t \in AllTasks : ~In(queue, t)
    BY <1>1, <1>2, <1>8, <2>1 DEF Exits, Pills, AllTasks
  <2>4. queue = <<>>
    BY <1>2, <2>3, EmptySeq, ElementOfSeq DEF In
  <2>5. \A t \in Tasks : ~Holds(held, t)
    BY <1>1, <2>2, TasksAssumption DEF Once, Holds, AllTasks
  <2> QED
    BY <1>1, <2>2, <2>3, <2>4, <2>5 DEF Once, AllTasks
<1> QED
  BY <1>5, <1>6, <1>7, <1>8 DEF DestroyDrains

(* A posted task is linked once while it is queued and held by one worker  *)
(* while it runs; no freed or refused task is linked or held.              *)
THEOREM TasksOnce == Spec => []ExactlyOnce
BY SafeInvariant, SafeImplies, PTL

(* Tasks leave the queue in the order of their numbers.                    *)
THEOREM TasksInOrder == Spec => []PostOrder
BY SafeInvariant, SafeImplies, PTL

(* The exit task on the stack of thread_pool_destroy is out of reach of    *)
(* every worker unless that call is spinning for it.                       *)
THEOREM ExitTaskInScope == Spec => []StackTaskInScope
BY SafeInvariant, SafeImplies, PTL

(* When thread_pool_destroy has freed the pool, all accepted tasks have    *)
(* run and all threads have left.                                          *)
THEOREM DestroyIsClean == Spec => []DestroyDrains
BY SafeInvariant, SafeImplies, PTL

-------------------------------------------------------------------------------
(* The refinement: ThreadPool implements the actions of TaskPool.  That it *)
(* implements the fairness of TaskPool too is checked by TLC only.         *)

(* TaskOrder for any queue                                                 *)
HeapTasks(q) ==
    IF q # <<>> /\ q[Len(q)] = Pill THEN SubSeq(q, 1, Len(q) - 1) ELSE q

(* A queue of heap tasks is its own order, with the exit task or without.  *)
LEMMA HeapTasksOnly ==
    ASSUME NEW q \in Seq(AllTasks), ~In(q, Pill)
    PROVE  /\ HeapTasks(q) = q
           /\ HeapTasks(Append(q, Pill)) = q
<1>1. HeapTasks(q) = q
  <2>1. q # <<>> => Len(q) \in 1..Len(q)
    BY EmptySeq
  <2> QED
    BY <2>1 DEF HeapTasks, In
<1>2. HeapTasks(Append(q, Pill)) = q
  <2> DEFINE r == Append(q, Pill)
  <2>1. Pill \in AllTasks
    BY DEF AllTasks
  <2>2. /\ r \in Seq(AllTasks) /\ r # <<>>
        /\ Len(r) = Len(q) + 1 /\ Len(q) \in Nat
        /\ \A i \in 1..Len(q) : r[i] = q[i]
        /\ r[Len(q) + 1] = Pill
    BY <2>1, AppendProperties
  <2> HIDE DEF r
  <2>3. HeapTasks(r) = SubSeq(r, 1, Len(q))
    BY <2>2 DEF HeapTasks
  <2>4. \A i \in 1..Len(q) : r[i] \in AllTasks
    BY <2>2, ElementOfSeq
  <2>5. /\ SubSeq(r, 1, Len(q)) \in Seq(AllTasks)
        /\ Len(SubSeq(r, 1, Len(q))) = Len(q)
        /\ \A i \in 1..Len(q) : SubSeq(r, 1, Len(q))[i] = q[i]
    BY <2>2, <2>4, SubSeqProperties
  <2>6. SubSeq(r, 1, Len(q)) = q
    BY <2>5, SeqEqual
  <2> QED
    BY <2>3, <2>6 DEF r
<1> QED
  BY <1>1, <1>2

(* Unlinking a heap task unlinks it from the order.                        *)
LEMMA HeapTasksTail ==
    ASSUME NEW q \in Seq(AllTasks), q # <<>>, Head(q) # Pill
    PROVE  /\ HeapTasks(q) # <<>>
           /\ Head(HeapTasks(q)) = Head(q)
           /\ Tail(HeapTasks(q)) = HeapTasks(Tail(q))
<1> DEFINE r == Tail(q)
<1>1. /\ r \in Seq(AllTasks)
      /\ Len(q) = Len(r) + 1 /\ Len(r) \in Nat /\ Len(q) \in Nat
      /\ \A i \in 1..Len(r) : r[i] = q[i + 1]
      /\ Head(q) = q[1]
  BY HeadTailProperties
<1> HIDE DEF r
<1>2. CASE q[Len(q)] # Pill
  <2>1. HeapTasks(q) = q
    BY <1>2 DEF HeapTasks
  <2>2. r # <<>> => r[Len(r)] = q[Len(q)]
    BY <1>1, EmptySeq
  <2>3. HeapTasks(r) = r
    BY <1>2, <2>2 DEF HeapTasks
  <2> QED
    BY <2>1, <2>3 DEF r
<1>3. CASE q[Len(q)] = Pill
  <2> DEFINE m == Len(q) - 1
             h == HeapTasks(q)
  <2>1. m \in 1..Len(q) /\ Len(r) = m /\ m \in Nat \ {0}
    BY <1>1, <1>3
  <2>2. h = SubSeq(q, 1, m)
    BY <1>3 DEF HeapTasks
  <2>3. \A i \in 1..m : q[i] \in AllTasks
    BY <1>1, <2>1, ElementOfSeq
  <2> HIDE DEF m, h
  <2>4. /\ h \in Seq(AllTasks) /\ Len(h) = m
        /\ \A i \in 1..m : h[i] = q[i]
    BY <2>1, <2>2, <2>3, SubSeqProperties
  <2>5. h # <<>> /\ Head(h) = q[1]
    BY <2>1, <2>4, EmptySeq
  <2>6. /\ Tail(h) \in Seq(AllTasks) /\ Len(Tail(h)) = m - 1
        /\ \A i \in 1..(m - 1) : Tail(h)[i] = q[i + 1]
    <3>1. /\ Tail(h) \in Seq(AllTasks) /\ Len(Tail(h)) = Len(h) - 1
          /\ \A i \in 1..Len(Tail(h)) : Tail(h)[i] = h[i + 1]
      BY <2>4, <2>5, HeadTailProperties
    <3> QED
      BY <2>1, <2>4, <3>1
  <2>7. HeapTasks(r) = SubSeq(r, 1, m - 1)
    <3>1. Len(q) = m + 1
      BY <1>1 DEF m
    <3>2. r # <<>> /\ r[m] = Pill
      BY <1>1, <1>3, <2>1, <3>1, EmptySeq
    <3> QED
      BY <2>1, <3>2 DEF HeapTasks
  <2>8. \A i \in 1..(m - 1) : r[i] \in AllTasks
    BY <1>1, <2>1, ElementOfSeq
  <2>9. /\ SubSeq(r, 1, m - 1) \in Seq(AllTasks)
        /\ Len(SubSeq(r, 1, m - 1)) = m - 1
        /\ \A i \in 1..(m - 1) : SubSeq(r, 1, m - 1)[i] = r[i]
    BY <2>1, <2>8, SubSeqProperties
  <2>10. Tail(h) = SubSeq(r, 1, m - 1)
    BY <1>1, <2>1, <2>6, <2>9, SeqEqual
  <2> QED
    BY <1>1, <2>5, <2>7, <2>10 DEF h, r
<1> QED
  BY <1>2, <1>3

(* The exit task, when it is first, is alone, and is no part of the order. *)
LEMMA HeapTasksPill ==
    ASSUME NEW q \in Seq(AllTasks), q # <<>>, Head(q) = Pill,
           \A i \in 1..Len(q) : q[i] = Pill => i = Len(q)
    PROVE  HeapTasks(q) = <<>> /\ HeapTasks(Tail(q)) = <<>>
<1> DEFINE r == Tail(q)
<1>1. /\ r \in Seq(AllTasks) /\ Len(r) = Len(q) - 1
      /\ q[1] = Pill /\ Len(q) \in Nat /\ Len(q) > 0
  BY HeadTailProperties, EmptySeq
<1> HIDE DEF r
<1>2. 1 \in 1..Len(q)
  BY <1>1
<1>3. Len(q) = 1
  BY <1>1, <1>2
<1>4. r = <<>>
  <2>1. Len(r) = 0
    BY <1>1, <1>3
  <2> QED
    BY <1>1, <2>1, EmptySeq
<1>5. HeapTasks(q) = <<>>
  BY <1>1, <1>3, SubSeqEmpty DEF HeapTasks
<1>6. HeapTasks(r) = <<>>
  BY <1>4 DEF HeapTasks
<1> QED
  BY <1>5, <1>6 DEF r

-------------------------------------------------------------------------------
(* While a worker is about to take a task, fewer tasks run than there are  *)
(* threads: each running task is in the hands of another worker.           *)
LEMMA RoomToStart ==
    ASSUME Counting, Once, NEW w \in Workers, held[w] = NoTask
    PROVE  Cardinality(TP!InState("running")) < Threads
<1> DEFINE R == {t \in Tasks : st[t] = "running"}
           holder == [t \in R |-> CHOOSE v \in Workers : held[v] = t]
<1>1. \A t \in R : holder[t] \in Workers /\ held[holder[t]] = t
  BY DEF Once, Holds
<1>2. \A t \in R : holder[t] \in Workers \ {w}
  BY <1>1, TasksAssumption DEF AllTasks
<1> HIDE DEF R
<1>3. holder \in Injection(R, Workers \ {w})
  <2>1. holder \in [R -> Workers \ {w}]
    BY <1>2
  <2>2. \A t, u \in R : holder[t] = holder[u] => t = u
    BY <1>1
  <2> QED
    BY <2>1, <2>2 DEF Injection, IsInjective
<1>4. /\ IsFiniteSet(Workers \ {w})
      /\ Cardinality(Workers \ {w}) = Threads - 1
  BY FS_RemoveElement, WorkersAssumption DEF Threads
<1>5. IsFiniteSet(R) /\ Cardinality(R) <= Threads - 1
  BY <1>3, <1>4, FS_Injection
<1>6. Cardinality(R) \in Nat /\ Threads \in Nat
  BY <1>5, FS_CardinalityType, ThreadsType
<1> QED
  BY <1>5, <1>6 DEF R, TP!InState
(* The created pool is an abstract pool that is starting.                  *)
LEMMA RefinesInit == Init => TP!Init
BY DEF Init, TP!Init, TaskOrder, Phase

LEMMA TaskOrderIs == TaskOrder = HeapTasks(queue)
BY DEF TaskOrder, HeapTasks

(* An overflow means that max_queue tasks are linked.                      *)
LEMMA OverflowIsFull ==
    ASSUME Counting, Overflow
    PROVE  Len(queue) >= MaxQueue
<1>1. /\ Len(queue) \in Nat /\ MaxQueue \in Nat
      /\ Count(pc, Idle) \in Nat
  BY CountingTypes, CountType, ThreadsType, MaxQueueAssumption
<1> QED
  BY <1>1 DEF Counting, Counters, Overflow

(* Every step of the pool is a step of TaskPool or invisible in it.        *)
LEMMA RefinesNext ==
    ASSUME Counting, Safe, [Next]_vars
    PROVE  [TP!Next]_(TP!avars)
<1>1. /\ queue \in Seq(AllTasks)
      /\ st \in [Tasks -> TaskStates]
      /\ held \in [Workers -> AllTasks \cup {NoTask}]
      /\ Once /\ Pills /\ Exits
      /\ Pill \in AllTasks /\ Pill \notin Tasks /\ Tasks \subseteq AllTasks
  BY CountingTypes, TasksAssumption DEF Safe, AllTasks
<1>2. TaskOrder = HeapTasks(queue) /\ TaskOrder' = HeapTasks(queue')
  BY TaskOrderIs DEF TaskOrder, HeapTasks
<1>3. ASSUME UNCHANGED <<st, queue, owner>> PROVE UNCHANGED TP!avars
  BY <1>3 DEF TP!avars, TaskOrder, Phase
<1>4. CASE QuietStep
  <2>1. UNCHANGED <<queue, st>>
    BY <1>4, QuietFacts
  <2>2. TaskOrder' = TaskOrder
    BY <1>2, <2>1
  <2>3. CASE UNCHANGED owner
    BY <1>3, <2>1, <2>3
  <2>4. CASE CreateFails \/ InitReturns
    <3>1. TP!Open
      BY <2>1, <2>2, <2>4 DEF CreateFails, InitReturns, TP!Open, Phase
    <3> QED
      BY <3>1 DEF TP!Next
  <2>5. CASE Destroy
    <3>1. TP!Close
      BY <2>1, <2>2, <2>5 DEF Destroy, TP!Close, Phase
    <3> QED
      BY <3>1 DEF TP!Next
  <2>6. CASE PillOverflows
    <3>1. owner = "post" /\ owner' = "abandoned" /\ Overflow
      BY <2>6 DEF PillOverflows
    <3>2. TaskOrder = queue
      BY <1>1, <1>2, <3>1, HeapTasksOnly DEF Pills
    <3>3. Len(TaskOrder) >= MaxQueue
      BY <3>1, <3>2, OverflowIsFull
    <3>4. TP!GiveUp
      BY <2>1, <2>2, <3>1, <3>3 DEF TP!GiveUp, Phase
    <3> QED
      BY <3>4 DEF TP!Next
  <2>7. CASE SpinEnds
    <3>1. UNCHANGED TP!avars
      BY <2>1, <2>2, <2>7 DEF SpinEnds, TP!avars, Phase
    <3> QED
      BY <3>1
  <2>8. CASE FreePool
    <3>1. owner = "post" /\ owner' = "destroyed" /\ n = Threads
      BY <2>8 DEF FreePool
    <3>2. Count(pc, Exited) = Threads /\ Threads \in Nat \ {0}
      BY <1>1, <3>1, ThreadsType DEF Exits
    <3>3. \A w \in Workers : pc[w] = "exited"
      <4>1. Where(pc, Exited) = Workers
        BY <3>2, CountType
      <4> QED
        BY <4>1 DEF Where, Exited
    <3>4. \A t \in AllTasks : ~In(queue, t)
      BY <1>1, <3>1, <3>2 DEF Exits, Pills, AllTasks
    <3>5. queue = <<>>
      <4>1. Len(queue) \in Nat
        BY CountingTypes
      <4>2. ASSUME queue # <<>> PROVE FALSE
        <5>1. Len(queue) # 0
          BY <1>1, <4>2, EmptySeq
        <5>2. 1 \in 1..Len(queue)
          BY <4>1, <5>1
        <5>3. queue[1] \in AllTasks
          BY <1>1, <4>1, <5>2, ElementOfSeq
        <5>4. In(queue, queue[1])
          BY <5>2 DEF In
        <5> QED
          BY <3>4, <5>3, <5>4
      <4> QED
        BY <4>2
    <3>6. TaskOrder = <<>>
      BY <3>5 DEF TaskOrder
    <3>7. \A t \in Tasks : st[t] # "running"
      BY <1>1, <3>3, TasksAssumption DEF Once, Holds, AllTasks
    <3>8. TP!Closed
      BY <2>1, <2>2, <3>1, <3>6, <3>7 DEF TP!Closed, TP!InState, Phase
    <3> QED
      BY <3>8 DEF TP!Next
  <2>9. \/ UNCHANGED owner
        \/ CreateFails \/ InitReturns \/ Destroy \/ PillOverflows \/ SpinEnds \/ FreePool
    BY <1>4 DEF QuietStep, CreateThread, SpuriousWakeup, Enter, Resume, vars, ownerVars
  <2> QED
    BY <2>3, <2>4, <2>5, <2>6, <2>7, <2>8, <2>9
<1>5. ASSUME NEW t \in Tasks, Post(t) PROVE [TP!Next]_(TP!avars)
  <2>1. /\ owner = "open" /\ owner' = "open" /\ st[t] = "new"
        /\ queue' = Append(queue, t) /\ queue' \in Seq(AllTasks)
        /\ st' = [st EXCEPT ![t] = "queued"]
    BY <1>1, <1>5 DEF Post, Enqueue, ownerVars
  <2>2. ~In(queue, Pill) /\ ~In(queue, t)
    BY <1>1, <2>1 DEF Pills, Once
  <2>3. \A u : In(queue', u) <=> In(queue, u) \/ u = t
    <3>1. Distinct(queue) /\ t \in AllTasks
      BY <1>1 DEF Once
    <3> QED
      BY <1>1, <2>1, <2>2, <3>1, AppendFacts
  <2>4. TaskOrder = queue /\ TaskOrder' = queue'
    BY <1>1, <1>2, <2>1, <2>2, <2>3, HeapTasksOnly
  <2>5. TP!Accept(t)
    BY <2>1, <2>4 DEF TP!Accept, Phase
  <2> QED
    BY <2>5 DEF TP!Next
<1>6. ASSUME NEW t \in Tasks, PostOverflows(t) PROVE [TP!Next]_(TP!avars)
  <2>1. /\ owner = "open" /\ UNCHANGED <<owner, queue>> /\ st[t] = "new" /\ Overflow
        /\ st' = [st EXCEPT ![t] = "rejected"]
    BY <1>6 DEF PostOverflows, ownerVars
  <2>2. TaskOrder = queue /\ TaskOrder' = queue
    BY <1>1, <1>2, <2>1, HeapTasksOnly DEF Pills
  <2>3. Len(TaskOrder) >= MaxQueue
    BY <2>1, <2>2, OverflowIsFull
  <2>4. TP!Refuse(t)
    BY <2>1, <2>2, <2>3 DEF TP!Refuse, Phase
  <2> QED
    BY <2>4 DEF TP!Next
<1>7. CASE PostPill
  <2>1. /\ owner = "post" /\ owner' = "spin" /\ st' = st
        /\ queue' = Append(queue, Pill)
    BY <1>7 DEF PostPill, Enqueue
  <2>2. TaskOrder' = TaskOrder
    BY <1>1, <1>2, <2>1, HeapTasksOnly DEF Pills
  <2> QED
    BY <2>1, <2>2 DEF TP!avars, Phase
<1>8. ASSUME NEW w \in Workers, Enter(w) \/ Resume(w), Take(w)
      PROVE  [TP!Next]_(TP!avars)
  <2>1. /\ queue # <<>> /\ queue' = Tail(queue) /\ UNCHANGED owner
        /\ st' = IF Head(queue) = Pill THEN st ELSE [st EXCEPT ![Head(queue)] = "running"]
        /\ held[w] = NoTask
    BY <1>1, <1>8 DEF Take, Enter, Resume, ownerVars, Once
  <2>2. CASE Head(queue) = Pill
    <3>1. TaskOrder = <<>> /\ TaskOrder' = <<>>
      BY <1>1, <1>2, <2>1, <2>2, HeapTasksPill DEF Pills
    <3> QED
      BY <2>1, <2>2, <3>1 DEF TP!avars, Phase
  <2>3. CASE Head(queue) # Pill
    <3>1. /\ TaskOrder # <<>> /\ Head(TaskOrder) = Head(queue)
          /\ TaskOrder' = Tail(TaskOrder)
      BY <1>1, <1>2, <2>1, <2>3, HeapTasksTail
    <3>2. TP!Cardinality(TP!InState("running")) < TP!Cardinality(Workers)
      <4>1. \A S : TP!Cardinality(S) = Cardinality(S)
        BY DEF TP!Cardinality, Cardinality
      <4> QED
        BY <1>1, <2>1, <4>1, RoomToStart DEF Threads
    <3>3. TP!Start
      BY <2>1, <2>3, <3>1, <3>2 DEF TP!Start, Phase
    <3> QED
      BY <3>3 DEF TP!Next
  <2> QED
    BY <2>2, <2>3
<1>9. ASSUME NEW w \in Workers, RunTask(w) PROVE [TP!Next]_(TP!avars)
  <2>1. /\ held[w] \in Tasks /\ UNCHANGED <<owner, queue>>
        /\ st' = [st EXCEPT ![held[w]] = "done"]
    BY <1>9 DEF RunTask, ownerVars
  <2>2. st[held[w]] = "running"
    BY <1>1, <2>1 DEF Once, Holds
  <2>3. TP!Finish(held[w])
    BY <1>2, <2>1, <2>2 DEF TP!Finish, Phase
  <2> QED
    BY <2>1, <2>3 DEF TP!Next
<1>10. ASSUME NEW w \in Workers, RunPill(w) PROVE [TP!Next]_(TP!avars)
  BY <1>3, <1>10 DEF RunPill, ownerVars
<1> QED
  BY <1>4, <1>5, <1>6, <1>7, <1>8, <1>9, <1>10, StepCases

(* The pool of thread_pool.cpp takes no step that TaskPool does not allow: *)
(* tasks are accepted or refused, started in order, finished, and the pool *)
(* is closed only when all accepted tasks are done.                        *)
THEOREM PoolRefinesTaskPool == Spec => TP!Init /\ [][TP!Next]_(TP!avars)
<1>1. Init => TP!Init
  BY RefinesInit
<1>2. (Counting /\ Safe) /\ [Next]_vars => [TP!Next]_(TP!avars)
  BY RefinesNext
<1> QED
  BY <1>1, <1>2, SafeInvariant, PTL DEF Spec
===============================================================================
