---------------------------- MODULE DispatchProofs -----------------------------
(***************************************************************************)
(* The safety properties of Dispatch for every set of requests, every set  *)
(* of workers and every limit of the queue.  Each part of the inductive    *)
(* invariant has a lemma with one step for each action that can disturb it.*)
(***************************************************************************)
EXTENDS Dispatch, TLAPS

(* What the service has of the pool and of its own objects, wherever the   *)
(* main thread is.                                                         *)
Life ==
    /\ main = "construct" => phase = "starting" /\ live = {}
    /\ main = "open" => phase = "starting" /\ live = {"subscribers", "pm_"}
    /\ main = "loop" => phase \in {"open", "failed"}
    /\ main = "destroy" => phase \in {"open", "closing", "failed"}
    /\ main \in {"loop", "destroy", "unlock"} => live = {"subscribers", "pm_", "queue_mutex"}
    /\ main \in {"unlock", "clear", "closed", "destructed", "returned"} =>
           phase \in {"closed", "abandoned"}

(* A pool that has not been created or is destroyed has no work.           *)
NoWork ==
    phase \in {"starting", "failed", "closed"} =>
        order = <<>> /\ \A e \in Requests : st[e] # "running"

FaultsExcused == fault => phase \in {"failed", "abandoned"}

Settled ==
    \A e \in Requests : st[e] = "done" => e \in sent \cup ToSet(responses) \/ svr_exit

(* A worker about to number a response has read the counter.               *)
ReadBeforeWrite ==
    \A e \in Requests : svc_pc[e] = "number" => drawn[<<e, "response">>] # NoNumber

(* Unless two threads were in generateSeqNo at a time, one has the number  *)
(* that comes next, and all that were given are smaller.                   *)
Numbering ==
    ~raced =>
        /\ \A d, e \in Events : drawn[d] # NoNumber /\ drawn[e] # NoNumber => d = e
        /\ \A e \in Events : drawn[e] # NoNumber => drawn[e] = sn
        /\ \A e \in Events : number[e] # NoNumber => number[e] < sn
        /\ \A d, e \in Events : number[d] = number[e] /\ number[d] # NoNumber => d = e

IInv ==
    /\ TypeOK
    /\ Life /\ NoWork /\ FaultsExcused /\ Settled
    /\ ReadBeforeWrite /\ Numbering

-------------------------------------------------------------------------------
(* An action of Next, once the program has not ended.                      *)
Steps(e) ==
    \/ Construct \/ open \/ close \/ Destruct \/ handleAllResponseEvent
    \/ ParseEvent(e) \/ enqueue(e) \/ svc(e) \/ Start

LEMMA EventsOf ==
    ASSUME NEW e \in Requests
    PROVE  <<e, "request">> \in Events /\ <<e, "response">> \in Events
BY DEF Events

LEMMA InitInvariant == Init => IInv
<1> SUFFICES ASSUME Init PROVE IInv
    OBVIOUS
<1>1. TypeOK
    <2>1. /\ st = [t \in Requests |-> "new"] /\ order = <<>> /\ phase = "starting"
        BY DEF Init, Pool!Init
    <2>2. /\ st \in [Requests -> Pool!TaskStates] /\ order \in Seq(Requests)
          /\ phase \in Pool!Phases
        BY <2>1 DEF Pool!TaskStates, Pool!Phases
    <2>3. /\ drawn \in [Events -> Nat \cup {NoNumber}] /\ number \in [Events -> Nat \cup {NoNumber}]
          /\ sn \in Nat
        BY DEF Init
    <2>4. svc_pc \in [Requests -> {"none", "check", "process", "handle", "number", "push"}]
        BY DEF Init
    <2> QED
        <3>1. /\ main = "construct" /\ svr_exit = FALSE /\ fault = FALSE /\ raced = FALSE
              /\ live = {} /\ responses = <<>> /\ sent = {}
            BY DEF Init
        <3>2. responses \in Seq(Requests)
            BY <3>1
        <3> QED
            BY <2>2, <2>3, <2>4, <3>1, <3>2 DEF TypeOK
<1>2. Life /\ NoWork /\ FaultsExcused /\ Settled
    BY DEF Init, Pool!Init, Life, NoWork, FaultsExcused, Settled
<1>3. ReadBeforeWrite /\ Numbering
    BY DEF Init, ReadBeforeWrite, Numbering
<1> QED
    BY <1>1, <1>2, <1>3 DEF IInv

-------------------------------------------------------------------------------
(* Types.                                                                  *)

LEMMA DrawTypes ==
    ASSUME TypeOK, NEW e \in Events
    PROVE  /\ ReadCounter(e) => /\ sn' \in Nat /\ raced' \in BOOLEAN
                                /\ drawn' \in [Events -> Nat \cup {NoNumber}]
                                /\ number' \in [Events -> Nat \cup {NoNumber}]
           /\ WriteCounter(e) /\ drawn[e] # NoNumber =>
                  /\ sn' \in Nat /\ raced' \in BOOLEAN
                  /\ drawn' \in [Events -> Nat \cup {NoNumber}]
                  /\ number' \in [Events -> Nat \cup {NoNumber}]
<1> DEFINE Numbers == [Events -> Nat \cup {NoNumber}]
<1>1. drawn \in Numbers /\ number \in Numbers /\ sn \in Nat /\ raced \in BOOLEAN
    BY DEF TypeOK
<1>2. CASE ReadCounter(e)
    <2>1. drawn' \in Numbers
        BY <1>1, <1>2 DEF ReadCounter
    <2> QED
        BY <1>1, <1>2, <2>1 DEF ReadCounter
<1>3. CASE WriteCounter(e) /\ drawn[e] # NoNumber
    <2>1. drawn[e] \in Nat
        BY <1>1, <1>3
    <2>2. drawn' \in Numbers /\ number' \in Numbers
        BY <1>1, <1>3, <2>1 DEF WriteCounter
    <2> QED
        BY <1>1, <1>3, <2>1, <2>2 DEF WriteCounter
<1> HIDE DEF Numbers
<1> QED
    BY <1>2, <1>3 DEF Numbers

LEMMA TypesStep ==
    ASSUME TypeOK, ReadBeforeWrite, NEW e \in Requests, Steps(e)
    PROVE  TypeOK'
<1> USE DEF poolVars, counterVars, Pool!TaskStates, Pool!Phases
<1>1. CASE Construct \/ Destruct
    BY <1>1 DEF TypeOK, Construct, Destruct
<1>2. CASE open
    BY <1>2 DEF TypeOK, open, Pool!Open
<1>3. CASE handleAllResponseEvent
    BY <1>3 DEF TypeOK, handleAllResponseEvent
<1>4. CASE ParseEvent(e)
    BY <1>4, DrawTypes, EventsOf DEF TypeOK, ParseEvent
<1>5. CASE enqueue(e)
    <2>1. /\ st' \in [Requests -> Pool!TaskStates] /\ order' \in Seq(Requests)
          /\ phase' \in Pool!Phases /\ fault' \in BOOLEAN
        <3> USE DEF TypeOK, enqueue
        <3>1. CASE Pool!Accept(e) /\ UNCHANGED fault
            BY <3>1 DEF Pool!Accept
        <3>2. CASE Pool!Refuse(e) /\ UNCHANGED fault
            BY <3>2 DEF Pool!Refuse
        <3>3. CASE fault' = TRUE /\ UNCHANGED poolVars
            BY <3>3
        <3> QED
            BY <1>5, <3>1, <3>2, <3>3
    <2> QED
        BY <1>5, <2>1, DrawTypes, EventsOf DEF TypeOK, enqueue
<1>6. CASE close
    <2>1. CASE CloseExit \/ CloseMutex \/ CloseSubscribers
        BY <2>1 DEF TypeOK, CloseExit, CloseMutex, CloseSubscribers
    <2>2. CASE CloseDestroys
        BY <2>2 DEF TypeOK, CloseDestroys, Pool!Close
    <2>3. CASE PoolDestroyed
        BY <2>3 DEF TypeOK, PoolDestroyed, Pool!Closed, Pool!GiveUp
    <2> QED
        BY <1>6, <2>1, <2>2, <2>3 DEF close
<1>7. CASE Start
    <2>1. Head(order) \in Requests /\ Tail(order) \in Seq(Requests)
        BY <1>7 DEF TypeOK, Start, Pool!Start
    <2> QED
        BY <1>7, <2>1 DEF TypeOK, Start, Pool!Start
<1>8. CASE svc(e)
    <2>1. CASE CheckExit(e)
        BY <2>1 DEF TypeOK, CheckExit, At, Pool!Finish
    <2>2. CASE process(e)
        <3>1. UNCHANGED counterVars \/ ReadCounter(<<e, "response">>)
            BY <2>2 DEF process
        <3>2. svc_pc' \in [Requests -> {"none", "check", "process", "handle", "number", "push"}]
            BY <2>2 DEF process, TypeOK
        <3>3. UNCHANGED <<poolVars, main, svr_exit, live, responses, sent, fault>>
            BY <2>2 DEF process
        <3>4. /\ sn' \in Nat /\ raced' \in BOOLEAN
              /\ drawn' \in [Events -> Nat \cup {NoNumber}]
              /\ number' \in [Events -> Nat \cup {NoNumber}]
            <4>1. CASE UNCHANGED counterVars
                BY <4>1 DEF TypeOK
            <4>2. CASE ReadCounter(<<e, "response">>)
                BY <4>2, DrawTypes, EventsOf
            <4> QED
                BY <3>1, <4>1, <4>2
        <3> QED
            BY <3>2, <3>3, <3>4 DEF TypeOK
    <2>3. CASE handle(e)
        <3>1. UNCHANGED counterVars \/ ReadCounter(<<e, "response">>)
            BY <2>3 DEF handle
        <3>2. svc_pc' \in [Requests -> {"none", "check", "process", "handle", "number", "push"}]
            BY <2>3 DEF handle, TypeOK
        <3>3. UNCHANGED <<poolVars, main, svr_exit, live, responses, sent>> /\ fault' \in BOOLEAN
            BY <2>3 DEF handle, TypeOK
        <3>4. /\ sn' \in Nat /\ raced' \in BOOLEAN
              /\ drawn' \in [Events -> Nat \cup {NoNumber}]
              /\ number' \in [Events -> Nat \cup {NoNumber}]
            <4>1. CASE UNCHANGED counterVars
                BY <4>1 DEF TypeOK
            <4>2. CASE ReadCounter(<<e, "response">>)
                BY <4>2, DrawTypes, EventsOf
            <4> QED
                BY <3>1, <4>1, <4>2
        <3> QED
            BY <3>2, <3>3, <3>4 DEF TypeOK
    <2>4. CASE NumberResponse(e)
        BY <2>4, DrawTypes, EventsOf DEF TypeOK, NumberResponse, At, ReadBeforeWrite
    <2>5. CASE push(e)
        <3>1. CASE "queue_mutex" \in live
            <4>1. /\ st' = [st EXCEPT ![e] = "done"] /\ responses' = Append(responses, e)
                  /\ svc_pc' = [svc_pc EXCEPT ![e] = "none"]
                  /\ UNCHANGED <<order, phase, main, svr_exit, live, sent, counterVars, fault>>
                BY <2>5, <3>1 DEF push, Pool!Finish
            <4>2. /\ st' \in [Requests -> Pool!TaskStates] /\ responses' \in Seq(Requests)
                  /\ svc_pc' \in [Requests -> {"none", "check", "process", "handle", "number", "push"}]
                BY <4>1 DEF TypeOK
            <4> QED
                BY <4>1, <4>2 DEF TypeOK
        <3>2. CASE "queue_mutex" \notin live
            BY <2>5, <3>2 DEF TypeOK, push
        <3> QED
            BY <3>1, <3>2
    <2> QED
        BY <1>8, <2>1, <2>2, <2>3, <2>4, <2>5 DEF svc
<1> QED
    BY <1>1, <1>2, <1>3, <1>4, <1>5, <1>6, <1>7, <1>8 DEF Steps

-------------------------------------------------------------------------------
(* The life of the service: the pool is gone before its objects are.       *)

LEMMA LifeStep ==
    ASSUME TypeOK, Life, NoWork, NEW e \in Requests, Steps(e)
    PROVE  Life' /\ NoWork'
<1> USE DEF poolVars
<1>1. CASE Construct \/ Destruct
    BY <1>1 DEF Life, NoWork, Construct, Destruct
<1>2. CASE open
    BY <1>2 DEF Life, NoWork, open, Pool!Open
<1>3. CASE handleAllResponseEvent \/ ParseEvent(e)
    BY <1>3 DEF Life, NoWork, handleAllResponseEvent, ParseEvent
<1>4. CASE enqueue(e)
    BY <1>4 DEF Life, NoWork, enqueue, Pool!Accept, Pool!Refuse
<1>5. CASE close
    <2>1. CASE CloseExit \/ CloseMutex \/ CloseSubscribers
        BY <2>1 DEF Life, NoWork, CloseExit, CloseMutex, CloseSubscribers, Idle
    <2>2. CASE CloseDestroys
        BY <2>2 DEF Life, NoWork, CloseDestroys, Pool!Close
    <2>3. CASE PoolDestroyed
        BY <2>3 DEF Life, NoWork, PoolDestroyed, Pool!Closed, Pool!GiveUp, Pool!InState
    <2> QED
        BY <1>5, <2>1, <2>2, <2>3 DEF close
<1>6. CASE Start
    BY <1>6 DEF Life, NoWork, Start, Pool!Start
<1>7. CASE svc(e)
    <2>1. /\ UNCHANGED <<main, phase, live, order>>
          /\ UNCHANGED st \/ (st[e] = "running" /\ st' = [st EXCEPT ![e] = "done"])
        BY <1>7 DEF svc, CheckExit, process, handle, NumberResponse, push, Pool!Finish
    <2> QED
        BY <2>1 DEF Life, NoWork, TypeOK
<1> QED
    BY <1>1, <1>2, <1>3, <1>4, <1>5, <1>6, <1>7 DEF Steps

(* While a worker runs in svc all that it uses exists, unless the          *)
(* destruction of the pool gave up.                                        *)
LEMMA WorkersHaveAll ==
    ASSUME TypeOK, Life, NoWork, NEW e \in Requests, st[e] = "running"
    PROVE  phase = "abandoned" \/ live = {"subscribers", "pm_", "queue_mutex"}
BY DEF TypeOK, Life, NoWork

LEMMA FaultStep ==
    ASSUME TypeOK, Life, NoWork, ~fault, NEW e \in Requests, Steps(e)
    PROVE  FaultsExcused'
<1> USE DEF poolVars
<1>1. CASE handle(e) \/ push(e)
    BY <1>1, WorkersHaveAll DEF FaultsExcused, handle, push, At
<1>2. CASE enqueue(e) \/ CloseDestroys
    BY <1>2 DEF FaultsExcused, enqueue, CloseDestroys
<1>3. ASSUME UNCHANGED fault PROVE FaultsExcused'
    BY <1>3 DEF FaultsExcused
<1> QED
    BY <1>1, <1>2, <1>3 DEF Steps, Construct, open, close, Destruct, handleAllResponseEvent,
        ParseEvent, svc, Start, CloseExit, PoolDestroyed, CloseMutex, CloseSubscribers,
        CheckExit, process, NumberResponse

-------------------------------------------------------------------------------
(* A task that is done has its response in the queue or sent, or svc saw   *)
(* svr_exit_.                                                              *)
LEMMA SettledStep ==
    ASSUME TypeOK, Settled, NEW e \in Requests, Steps(e)
    PROVE  Settled'
<1> USE DEF poolVars
<1>1. CASE handleAllResponseEvent
    <2>1. /\ responses \in Seq(Requests) /\ responses # <<>> /\ responses' = Tail(responses)
          /\ sent' = sent \cup {Head(responses)} /\ st' = st /\ svr_exit' = svr_exit
        BY <1>1 DEF TypeOK, handleAllResponseEvent
    <2>2. ToSet(responses) \subseteq ToSet(responses') \cup {Head(responses)}
        <3> SUFFICES ASSUME NEW i \in DOMAIN responses, i # 1
                     PROVE  responses[i] \in ToSet(Tail(responses))
            BY <2>1 DEF ToSet
        <3>1. i - 1 \in DOMAIN Tail(responses) /\ Tail(responses)[i - 1] = responses[i]
            BY <2>1
        <3> QED
            BY <3>1 DEF ToSet
    <2> QED
        BY <2>1, <2>2 DEF Settled
<1>2. CASE push(e)
    <2>1. CASE st' = st /\ responses' = responses
        BY <1>2, <2>1 DEF Settled, push
    <2>2. CASE responses' = Append(responses, e)
        <3>1. ToSet(responses) \cup {e} \subseteq ToSet(responses')
            <4>1. /\ responses \in Seq(Requests) /\ DOMAIN responses' = 1 .. Len(responses) + 1
                  /\ \A i \in DOMAIN responses : responses'[i] = responses[i]
                  /\ responses'[Len(responses) + 1] = e
                BY <2>2 DEF TypeOK
            <4>2. DOMAIN responses \subseteq DOMAIN responses'
                BY <4>1
            <4> QED
                BY <4>1, <4>2 DEF ToSet
        <3> QED
            BY <1>2, <3>1 DEF Settled, push, TypeOK, Pool!Finish
    <2> QED
        BY <1>2, <2>1, <2>2 DEF push
<1>3. CASE CheckExit(e)
    BY <1>3 DEF Settled, CheckExit, Pool!Finish, TypeOK
<1>4. CASE enqueue(e)
    BY <1>4 DEF Settled, enqueue, Pool!Accept, Pool!Refuse, TypeOK
<1>5. CASE Start
    <2>1. st' = [st EXCEPT ![Head(order)] = "running"] /\ Head(order) \in Requests
        BY <1>5 DEF Start, Pool!Start, TypeOK
    <2> QED
        BY <1>5, <2>1 DEF Settled, Start, TypeOK
<1>6. ASSUME UNCHANGED <<st, sent, responses>>, svr_exit => svr_exit' PROVE Settled'
    BY <1>6 DEF Settled
<1>7. CASE Construct \/ open \/ Destruct \/ ParseEvent(e)
    BY <1>6, <1>7 DEF Construct, open, Destruct, ParseEvent, Pool!Open
<1>8. CASE close
    BY <1>6, <1>8 DEF close, CloseExit, CloseDestroys, PoolDestroyed, CloseMutex,
        CloseSubscribers, Pool!Close, Pool!Closed, Pool!GiveUp
<1>9. CASE process(e) \/ handle(e) \/ NumberResponse(e)
    BY <1>6, <1>9 DEF process, handle, NumberResponse
<1> QED
    BY <1>1, <1>2, <1>3, <1>4, <1>5, <1>7, <1>8, <1>9 DEF Steps, svc

-------------------------------------------------------------------------------
(* Numbers.                                                                *)

LEMMA ReadNumbers ==
    ASSUME TypeOK, Numbering, NEW e \in Events, ReadCounter(e)
    PROVE  Numbering'
BY DEF TypeOK, Numbering, ReadCounter

LEMMA WriteNumbers ==
    ASSUME TypeOK, Numbering, NEW e \in Events, drawn[e] # NoNumber, WriteCounter(e)
    PROVE  Numbering'
<1> SUFFICES ASSUME ~raced PROVE Numbering'
    BY DEF Numbering, WriteCounter
<1>1. /\ drawn[e] = sn /\ sn \in Nat /\ sn' = sn + 1 /\ ~raced'
      /\ \A d \in Events : drawn'[d] = NoNumber
      /\ \A d \in Events : number'[d] = IF d = e THEN sn ELSE number[d]
    BY DEF TypeOK, Numbering, WriteCounter
<1>2. \A d \in Events : number[d] # NoNumber => number[d] \in Nat /\ number[d] < sn
    BY DEF TypeOK, Numbering
<1>3. \A d \in Events : number'[d] # NoNumber => number'[d] < sn'
    BY <1>1, <1>2
<1>4. \A c, d \in Events : number'[c] = number'[d] /\ number'[c] # NoNumber => c = d
    BY <1>1, <1>2 DEF Numbering
<1> QED
    BY <1>1, <1>3, <1>4 DEF Numbering

LEMMA NumbersStep ==
    ASSUME TypeOK, ReadBeforeWrite, Numbering, NEW e \in Requests, Steps(e)
    PROVE  ReadBeforeWrite' /\ Numbering'
<1> USE DEF counterVars
<1>1. CASE ParseEvent(e)
    <2>1. Numbering'
        BY <1>1, ReadNumbers, EventsOf DEF ParseEvent
    <2>2. ReadBeforeWrite'
        BY <1>1, EventsOf DEF ParseEvent, ReadCounter, ReadBeforeWrite, TypeOK
    <2> QED
        BY <2>1, <2>2
<1>2. CASE enqueue(e)
    <2>1. Numbering'
        BY <1>2, WriteNumbers, EventsOf DEF enqueue
    <2>2. ReadBeforeWrite'
        BY <1>2, EventsOf DEF enqueue, WriteCounter, ReadBeforeWrite, TypeOK
    <2> QED
        BY <2>1, <2>2
<1>3. CASE process(e) \/ handle(e)
    <2>1. CASE ReadCounter(<<e, "response">>) /\ svc_pc' = [svc_pc EXCEPT ![e] = "number"]
        <3>1. Numbering'
            BY <2>1, ReadNumbers, EventsOf
        <3>2. drawn' = [drawn EXCEPT ![<<e, "response">>] = sn] /\ sn # NoNumber
            BY <2>1 DEF ReadCounter, TypeOK, NoNumber
        <3>3. ReadBeforeWrite'
            BY <2>1, <3>2, EventsOf DEF ReadBeforeWrite, TypeOK
        <3> QED
            BY <3>1, <3>3
    <2>2. CASE UNCHANGED counterVars /\ (UNCHANGED svc_pc \/ svc_pc' = [svc_pc EXCEPT ![e] = "handle"])
        BY <2>2 DEF ReadBeforeWrite, Numbering, TypeOK
    <2> QED
        BY <1>3, <2>1, <2>2 DEF process, handle
<1>4. CASE NumberResponse(e)
    <2>1. drawn[<<e, "response">>] # NoNumber
        BY <1>4 DEF NumberResponse, At, ReadBeforeWrite
    <2>2. Numbering'
        BY <1>4, <2>1, WriteNumbers, EventsOf DEF NumberResponse
    <2>3. ReadBeforeWrite'
        BY <1>4, EventsOf DEF NumberResponse, WriteCounter, ReadBeforeWrite, TypeOK
    <2> QED
        BY <2>2, <2>3
<1>5. CASE CheckExit(e) \/ push(e)
    BY <1>5 DEF CheckExit, push, ReadBeforeWrite, Numbering, TypeOK
<1>6. CASE Start
    <2>1. Head(order) \in Requests
        BY <1>6 DEF Start, Pool!Start, TypeOK
    <2> QED
        BY <1>6, <2>1 DEF Start, ReadBeforeWrite, Numbering, TypeOK
<1>7. CASE UNCHANGED <<svc_pc, counterVars>>
    BY <1>7 DEF ReadBeforeWrite, Numbering
<1>8. CASE Construct \/ open \/ Destruct \/ handleAllResponseEvent \/ close
    BY <1>7, <1>8 DEF Construct, open, Destruct, handleAllResponseEvent, close, CloseExit,
        CloseDestroys, PoolDestroyed, CloseMutex, CloseSubscribers
<1> QED
    BY <1>1, <1>2, <1>3, <1>4, <1>5, <1>6, <1>8 DEF Steps, svc

-------------------------------------------------------------------------------
LEMMA NextInvariant == IInv /\ [Next]_vars => IInv'
<1> SUFFICES ASSUME IInv, [Next]_vars PROVE IInv'
    OBVIOUS
<1>1. CASE UNCHANGED vars
    BY <1>1 DEF vars, poolVars, counterVars, IInv, TypeOK, Life, NoWork, FaultsExcused,
        Settled, ReadBeforeWrite, Numbering
<1>2. ASSUME ~fault, NEW e \in Requests, Steps(e) PROVE IInv'
    BY <1>2, TypesStep, LifeStep, FaultStep, SettledStep, NumbersStep DEF IInv
<1>3. ASSUME ~fault, Construct \/ open \/ close \/ Destruct \/ handleAllResponseEvent \/ Start
      PROVE  IInv'
    <2>1. PICK e \in Requests : TRUE
        BY RequestsAssumption
    <2> QED
        BY <1>2, <1>3, <2>1 DEF Steps
<1> QED
    BY <1>1, <1>2, <1>3 DEF Next, Ended, Steps

LEMMA Invariant == Spec => []IInv
BY InitInvariant, NextInvariant, PTL DEF Spec

(* Closing the service never lets a worker, or the main thread, use an     *)
(* object that is gone, and no request a worker finished lacks its         *)
(* response for another reason than svr_exit_, for any number of requests  *)
(* and any queue: close() destroys the pool before the mutex, the          *)
(* subscribers and the handler, and the pool waits for its workers.        *)
THEOREM ServiceClosesCleanly == Spec => []CloseIsClean
<1>1. IInv => CloseIsClean
    BY DEF IInv, FaultsExcused, Settled, CloseIsClean
<1> QED
    BY <1>1, Invariant, PTL

(* Only a race makes two events of one kind share a number: none do as     *)
(* long as no two threads have been inside generateSeqNo (ievent.cpp:12)   *)
(* at a time, whatever else the workers and the main thread overlap in.    *)
THEOREM OnlyRacesMixNumbers == Spec => [](~raced => NumbersTellApart)
<1>1. IInv => (~raced => NumbersTellApart)
    BY DEF IInv, Numbering, NumbersTellApart
<1> QED
    BY <1>1, Invariant, PTL
===============================================================================
