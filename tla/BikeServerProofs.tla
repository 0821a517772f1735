--------------------------- MODULE BikeServerProofs ----------------------------
(***************************************************************************)
(* The safety properties of BikeServer for every number of clients, their  *)
(* requests, addresses and workers and every limit of the queue.  There is *)
(* one lemma for each action, with one step for each part of the inductive *)
(* invariant that it can disturb.                                          *)
(***************************************************************************)
EXTENDS BikeServer, TLAPS

(* What waits in the pool was accepted and not started, and waits once.    *)
WaitsOnce ==
    /\ \A i \in DOMAIN order : st[order[i]] = "queued"
    /\ \A i, j \in DOMAIN order : order[i] = order[j] => i = j

(* What waits for the main thread has been processed, and waits once.      *)
RespondsOnce ==
    /\ \A i \in DOMAIN responses : st[responses[i]] = "done"
    /\ \A i, j \in DOMAIN responses : responses[i] = responses[j] => i = j

(* A client that has not connected has done nothing.                       *)
Fresh ==
    \A c \in Clients : link[c] = "new" =>
        /\ dispatched[c] = 0 /\ got[c] = <<>>
        /\ \A e \in Requests : Client(e) = c => st[e] = "new"

(* Whatever happens, an open connection has its own session, and every     *)
(* session is that of an open connection: an address is freed by its owner *)
(* only, and given away only when free.                                    *)
Owned ==
    /\ \A c \in Clients : link[c] = "open" =>
           cs[c] \in Addrs /\ heap[cs[c]] \in Sessions /\ heap[cs[c]].owner = c
    /\ \A a \in Addrs : heap[a] # None =>
           link[heap[a].owner] = "open" /\ cs[heap[a].owner] = a

(* The address in an event is that of its connection, while it is open.    *)
Carries ==
    \A e \in Requests : st[e] # "new" =>
        args[e] \in Addrs /\ (link[Client(e)] = "open" => args[e] = cs[Client(e)])

(* While none has ended with its request in flight:                        *)

Stays ==
    ~dropped => \A e \in Requests : InFlight(e) => link[Client(e)] = "open"

FaultsExcused == ~dropped /\ fault => phase = "failed"

Tracks ==
    \A c \in Clients : link[c] = "open" /\ ~fault /\ ~dropped =>
        /\ heap[cs[c]].session_stat = "SS_RESPONSE" <=>
               /\ dispatched[c] > 0
               /\ InFlight(<<c, dispatched[c]>>) \/ st[<<c, dispatched[c]>>] = "rejected"
        /\ \A e \in Requests : Client(e) = c /\ InFlight(e) => e = <<c, dispatched[c]>>

(* A client has received a response to each request but the one that waits.*)
Counted ==
    ~dropped => \A c \in Clients : link[c] = "open" =>
        Len(got[c]) = IF heap[cs[c]].session_stat = "SS_RESPONSE"
                      THEN dispatched[c] - 1 ELSE dispatched[c]

IInv ==
    /\ TypeOK
    /\ WaitsOnce /\ RespondsOnce /\ Fresh /\ Owned /\ Carries /\ AnsweredOnce
    /\ Stays /\ FaultsExcused /\ Tracks /\ Counted /\ OwnResponsesInOrder

USE DEF Client

-------------------------------------------------------------------------------
(* Sequences.                                                              *)

LEMMA TailOf ==
    ASSUME NEW S, NEW s \in Seq(S), s # <<>>
    PROVE  /\ Head(s) \in S /\ Head(s) = s[1] /\ 1 \in DOMAIN s
           /\ Tail(s) \in Seq(S)
           /\ \A i \in DOMAIN Tail(s) : i + 1 \in DOMAIN s /\ Tail(s)[i] = s[i + 1]
           /\ \A i \in DOMAIN s : i # 1 => i - 1 \in DOMAIN Tail(s) /\ Tail(s)[i - 1] = s[i]
OBVIOUS

LEMMA AppendOf ==
    ASSUME NEW S, NEW s \in Seq(S), NEW x \in S
    PROVE  /\ Append(s, x) \in Seq(S)
           /\ Len(Append(s, x)) = Len(s) + 1
           /\ DOMAIN Append(s, x) = DOMAIN s \cup {Len(s) + 1}
           /\ Len(s) + 1 \notin DOMAIN s
           /\ \A i \in DOMAIN s : Append(s, x)[i] = s[i]
           /\ Append(s, x)[Len(s) + 1] = x
OBVIOUS

(* What is in flight depends on the pool and the response queue only.      *)
LEMMA SameFlight ==
    ASSUME UNCHANGED <<st, responses>>, NEW e
    PROVE  InFlight(e)' <=> InFlight(e)
BY DEF InFlight, Queued

LEMMA InitInvariant == Init => IInv
<1> SUFFICES ASSUME Init PROVE IInv
    OBVIOUS
<1> USE NoneAssumption, MaxRequestsAssumption DEF Init, Pool!Init
<1>1. TypeOK
    <2>1. /\ st \in [Requests -> Pool!TaskStates] /\ order \in Seq(Requests)
          /\ phase \in Pool!Phases
        BY DEF Pool!TaskStates, Pool!Phases
    <2>2. /\ link \in [Clients -> {"new", "open", "gone"}] /\ cs \in [Clients -> Addrs \cup {None}]
          /\ heap \in [Addrs -> Sessions \cup {None}] /\ args \in [Requests -> Addrs \cup {None}]
        OBVIOUS
    <2>3. /\ arrived \in [Clients -> 0..MaxRequests] /\ dispatched \in [Clients -> Nat]
          /\ \A c \in Clients : dispatched[c] <= arrived[c]
        OBVIOUS
    <2>4. responses \in Seq(Requests) /\ got \in [Clients -> Seq(Requests)]
        OBVIOUS
    <2>5. \A e \in Requests : st[e] # "new" => args[e] # None
        OBVIOUS
    <2>6. mainpc \in {"dispatch", "drain"} /\ fault \in BOOLEAN /\ dropped \in BOOLEAN
        OBVIOUS
    <2> HIDE DEF Init, Pool!Init
    <2> QED
        BY <2>1, <2>2, <2>3, <2>4, <2>5, <2>6 DEF TypeOK
<1>2. WaitsOnce /\ RespondsOnce /\ Fresh /\ Owned /\ Carries
    BY DEF WaitsOnce, RespondsOnce, Fresh, Owned, Carries
<1>3. AnsweredOnce /\ OwnResponsesInOrder
    BY DEF AnsweredOnce, OwnResponsesInOrder
<1>4. Stays /\ FaultsExcused /\ Tracks /\ Counted
    BY DEF Stays, FaultsExcused, Tracks, Counted, InFlight, Queued
<1> QED
    BY <1>1, <1>2, <1>3, <1>4 DEF IInv

-------------------------------------------------------------------------------
(* Actions that leave the pool's tasks, the sessions and the responses.    *)
Quiet ==
    /\ UNCHANGED <<st, order, link, cs, heap, dispatched, args, responses, got, fault, dropped>>
    /\ phase' = phase \/ phase = "starting"

LEMMA QuietInvariant ==
    ASSUME IInv, Quiet, TypeOK', ~fault
    PROVE  IInv'
<1>1. WaitsOnce' /\ RespondsOnce' /\ Fresh' /\ Owned' /\ Carries'
    BY DEF IInv, Quiet, WaitsOnce, RespondsOnce, Fresh, Owned, Carries
<1>2. AnsweredOnce' /\ OwnResponsesInOrder'
    BY DEF IInv, Quiet, AnsweredOnce, OwnResponsesInOrder, Queued
<1>3. Stays' /\ FaultsExcused' /\ Counted'
    BY SameFlight DEF IInv, Quiet, Stays, FaultsExcused, Counted
<1>4. Tracks'
    BY SameFlight DEF IInv, Quiet, Tracks
<1> QED
    BY <1>1, <1>2, <1>3, <1>4 DEF IInv

LEMMA LoopInvariant ==
    ASSUME IInv, ~fault, open \/ BeginDrain \/ EndDrain
    PROVE  IInv'
<1> USE DEF linkVars, poolVars
<1>1. CASE open
    <2>1. Quiet /\ TypeOK'
        BY <1>1 DEF IInv, open, Quiet, TypeOK, Pool!Open, Pool!Phases
    <2> QED
        BY <2>1, QuietInvariant
<1>2. CASE BeginDrain \/ EndDrain
    <2>1. Quiet /\ TypeOK'
        BY <1>2 DEF IInv, BeginDrain, EndDrain, Quiet, TypeOK
    <2> QED
        BY <2>1, QuietInvariant
<1> QED
    BY <1>1, <1>2

LEMMA WrongStateInvariant ==
    ASSUME IInv, ~fault, NEW c \in Clients, WrongState(c)
    PROVE  IInv'
<1> USE DEF poolVars
<1>1. Quiet /\ arrived' = [arrived EXCEPT ![c] = @ + 1] /\ arrived[c] < MaxRequests
    BY DEF WrongState, Arrives, Quiet
<1>2. /\ arrived' \in [Clients -> 0..MaxRequests]
      /\ \A d \in Clients : dispatched'[d] <= arrived'[d]
    BY <1>1, MaxRequestsAssumption DEF IInv, TypeOK, Quiet
<1>3. TypeOK'
    BY <1>2 DEF WrongState, IInv, TypeOK
<1> QED
    BY <1>1, <1>3, QuietInvariant

-------------------------------------------------------------------------------
LEMMA ListenerInvariant ==
    ASSUME IInv, ~fault, NEW c \in Clients, NEW a \in Addrs, listener_cb(c, a)
    PROVE  IInv'
<1> USE NoneAssumption
<1>1. /\ link[c] = "new" /\ heap[a] = None
      /\ link' = [link EXCEPT ![c] = "open"] /\ cs' = [cs EXCEPT ![c] = a]
      /\ heap' = [heap EXCEPT ![a] = Session(c, "SS_REQUEST")]
      /\ UNCHANGED <<st, order, phase, arrived, dispatched, args, responses, mainpc, got,
                     fault, dropped>>
    BY DEF listener_cb, poolVars
<1>2. /\ Session(c, "SS_REQUEST") \in Sessions
      /\ Session(c, "SS_REQUEST").owner = c
      /\ Session(c, "SS_REQUEST").session_stat = "SS_REQUEST"
    BY DEF Session, Sessions
<1>3. TypeOK'
    <2>1. /\ link' \in [Clients -> {"new", "open", "gone"}] /\ cs' \in [Clients -> Addrs \cup {None}]
          /\ heap' \in [Addrs -> Sessions \cup {None}]
        BY <1>1, <1>2 DEF IInv, TypeOK
    <2> QED
        BY <1>1, <2>1 DEF IInv, TypeOK
<1>4. /\ link'[c] = "open" /\ cs'[c] = a /\ heap'[a] = Session(c, "SS_REQUEST")
      /\ \A d \in Clients \ {c} : link'[d] = link[d] /\ cs'[d] = cs[d]
      /\ \A d \in Clients : link[d] = "open" => cs[d] \in Addrs /\ heap'[cs[d]] = heap[cs[d]]
    BY <1>1 DEF IInv, TypeOK, Owned
<1>5. \A e \in Requests : Client(e) = c => st[e] = "new" /\ ~InFlight(e)
    BY <1>1 DEF IInv, Fresh, RespondsOnce, InFlight, Queued
<1>6. WaitsOnce' /\ RespondsOnce' /\ OwnResponsesInOrder'
    BY <1>1 DEF IInv, WaitsOnce, RespondsOnce, OwnResponsesInOrder
<1>7. Fresh'
    BY <1>1, <1>4 DEF IInv, Fresh
<1>8. Owned'
    BY <1>1, <1>2, <1>4 DEF IInv, Owned
<1>9. Carries'
    <2> SUFFICES ASSUME NEW e \in Requests, st[e] # "new"
                 PROVE  args[e] \in Addrs /\ (link'[Client(e)] = "open" => args[e] = cs'[Client(e)])
        BY <1>1 DEF Carries
    <2>1. Client(e) \in Clients \ {c}
        BY <1>5 DEF Requests
    <2> QED
        BY <1>4, <2>1 DEF IInv, Carries
<1>10. AnsweredOnce'
    BY <1>1 DEF IInv, AnsweredOnce, Queued, TypeOK
<1>11. Stays' /\ FaultsExcused'
    BY <1>1, <1>4, <1>5, SameFlight DEF IInv, Stays, FaultsExcused, Requests
<1>12. Tracks'
    <2> SUFFICES ASSUME NEW d \in Clients, link'[d] = "open", ~fault, ~dropped
                 PROVE  /\ heap'[cs'[d]].session_stat = "SS_RESPONSE" <=>
                              /\ dispatched[d] > 0
                              /\ InFlight(<<d, dispatched[d]>>) \/ st[<<d, dispatched[d]>>] = "rejected"
                        /\ \A e \in Requests : Client(e) = d /\ InFlight(e) => e = <<d, dispatched[d]>>
        BY <1>1, SameFlight DEF Tracks
    <2>1. CASE d = c
        BY <1>1, <1>2, <1>4, <1>5, <2>1 DEF IInv, Fresh
    <2>2. CASE d # c
        BY <1>1, <1>4, <2>2 DEF IInv, Tracks
    <2> QED
        BY <2>1, <2>2
<1>13. Counted'
    <2> SUFFICES ASSUME ~dropped, NEW d \in Clients, link'[d] = "open"
                 PROVE  Len(got[d]) = IF heap'[cs'[d]].session_stat = "SS_RESPONSE"
                                      THEN dispatched[d] - 1 ELSE dispatched[d]
        BY <1>1 DEF Counted
    <2>1. CASE d = c
        BY <1>1, <1>2, <1>4, <2>1 DEF IInv, Fresh
    <2>2. CASE d # c
        BY <1>1, <1>4, <2>2 DEF IInv, Counted
    <2> QED
        BY <2>1, <2>2
<1> QED
    BY <1>3, <1>6, <1>7, <1>8, <1>9, <1>10, <1>11, <1>12, <1>13 DEF IInv

-------------------------------------------------------------------------------
(* A connection ends, whichever callback has ended it.                     *)
LEMMA FreeInvariant ==
    ASSUME IInv, ~fault, NEW c \in Clients, link[c] = "open", FreeSession(c),
           arrived' \in [Clients -> 0..MaxRequests],
           \A d \in Clients : arrived[d] <= arrived'[d]
    PROVE  IInv'
<1> USE NoneAssumption
<1>1. /\ link' = [link EXCEPT ![c] = "gone"] /\ heap' = [heap EXCEPT ![cs[c]] = None]
      /\ dropped' = (dropped \/ \E e \in Requests : Client(e) = c /\ InFlight(e))
      /\ UNCHANGED <<st, order, phase, cs, dispatched, args, responses, mainpc, got, fault>>
    BY DEF FreeSession, poolVars
<1>2. TypeOK'
    <2>1. /\ link' \in [Clients -> {"new", "open", "gone"}]
          /\ heap' \in [Addrs -> Sessions \cup {None}]
        BY <1>1 DEF IInv, TypeOK
    <2>2. dropped' \in BOOLEAN
        BY <1>1 DEF IInv, TypeOK
    <2>3. \A d \in Clients : dispatched'[d] <= arrived'[d]
        BY <1>1, MaxRequestsAssumption DEF IInv, TypeOK
    <2> QED
        BY <1>1, <2>1, <2>2, <2>3 DEF IInv, TypeOK
<1>3. /\ link'[c] = "gone" /\ \A d \in Clients \ {c} : link'[d] = link[d]
      /\ \A d \in Clients : link'[d] = "open" =>
             link[d] = "open" /\ cs[d] \in Addrs /\ heap'[cs[d]] = heap[cs[d]]
    <2>1. link'[c] = "gone" /\ \A d \in Clients \ {c} : link'[d] = link[d]
        BY <1>1 DEF IInv, TypeOK
    <2>2. \A a \in Addrs : a # cs[c] => heap'[a] = heap[a]
        BY <1>1 DEF IInv, TypeOK
    <2>3. \A d \in Clients : link[d] = "open" /\ d # c => cs[d] \in Addrs /\ cs[d] # cs[c]
        BY DEF IInv, Owned
    <2> QED
        BY <2>1, <2>2, <2>3
<1>4. ~dropped' => ~dropped /\ \A e \in Requests : InFlight(e) => Client(e) # c
    BY <1>1
<1>5. WaitsOnce' /\ RespondsOnce' /\ OwnResponsesInOrder'
    BY <1>1, <1>4 DEF IInv, WaitsOnce, RespondsOnce, OwnResponsesInOrder
<1>6. Fresh' /\ Owned'
    <2>1. Fresh'
        BY <1>1, <1>3 DEF IInv, Fresh
    <2>2. ASSUME NEW d \in Clients, link'[d] = "open"
          PROVE  cs[d] \in Addrs /\ heap'[cs[d]] \in Sessions /\ heap'[cs[d]].owner = d
        BY <1>3, <2>2 DEF IInv, Owned
    <2>3. ASSUME NEW a \in Addrs, heap'[a] # None
          PROVE  link'[heap'[a].owner] = "open" /\ cs[heap'[a].owner] = a
        <3>1. a # cs[c] /\ heap'[a] = heap[a] /\ heap[a] \in Sessions
            BY <1>1, <2>3 DEF IInv, TypeOK
        <3>2. heap[a].owner \in Clients /\ link[heap[a].owner] = "open" /\ cs[heap[a].owner] = a
            BY <3>1, <2>3 DEF IInv, Owned, Sessions
        <3> QED
            BY <1>3, <3>1, <3>2
    <2> QED
        BY <1>1, <2>1, <2>2, <2>3 DEF Owned
<1>7. Carries'
    BY <1>1, <1>3 DEF IInv, Carries, Requests
<1>8. AnsweredOnce'
    <2> SUFFICES ASSUME NEW d \in Clients, NEW i \in DOMAIN got[d], Client(got[d][i]) # d
                 PROVE  link'[Client(got[d][i])] = "gone"
        BY <1>1 DEF IInv, AnsweredOnce, Queued
    <2>1. Client(got[d][i]) \in Clients
        BY DEF IInv, TypeOK, Requests
    <2> QED
        BY <1>3, <2>1 DEF IInv, AnsweredOnce
<1>9. Stays' /\ FaultsExcused'
    BY <1>1, <1>3, <1>4, SameFlight DEF IInv, Stays, FaultsExcused, Requests
<1>10. Tracks'
    BY <1>1, <1>3, <1>4, SameFlight DEF IInv, Tracks
<1>11. Counted'
    BY <1>1, <1>3, <1>4 DEF IInv, Counted
<1> QED
    BY <1>2, <1>5, <1>6, <1>7, <1>8, <1>9, <1>10, <1>11 DEF IInv

LEMMA EndInvariant ==
    ASSUME IInv, ~fault, NEW c \in Clients, RejectRequest(c) \/ handle_error(c)
    PROVE  IInv'
<1>1. CASE RejectRequest(c)
    <2>1. /\ link[c] = "open" /\ FreeSession(c) /\ arrived[c] < MaxRequests
          /\ arrived' = [arrived EXCEPT ![c] = @ + 1]
        BY <1>1 DEF RejectRequest, Arrives
    <2>2. /\ arrived' \in [Clients -> 0..MaxRequests]
          /\ \A d \in Clients : arrived[d] <= arrived'[d]
        BY <2>1, MaxRequestsAssumption DEF IInv, TypeOK
    <2> QED
        BY <2>1, <2>2, FreeInvariant
<1>2. CASE handle_error(c)
    <2>1. /\ arrived' \in [Clients -> 0..MaxRequests]
          /\ \A d \in Clients : arrived[d] <= arrived'[d]
        BY <1>2, MaxRequestsAssumption DEF handle_error, IInv, TypeOK
    <2> QED
        BY <1>2, <2>1, FreeInvariant DEF handle_error
<1> QED
    BY <1>1, <1>2

-------------------------------------------------------------------------------
LEMMA DispatchInvariant ==
    ASSUME IInv, ~fault, NEW c \in Clients, DispatchRequest(c)
    PROVE  IInv'
<1> DEFINE e == <<c, dispatched[c] + 1>>
<1> USE NoneAssumption, MaxRequestsAssumption
<1>1. /\ link[c] = "open" /\ arrived[c] < MaxRequests
      /\ arrived' = [arrived EXCEPT ![c] = @ + 1]
      /\ heap[cs[c]].session_stat = "SS_REQUEST"
      /\ heap' = [heap EXCEPT ![cs[c]] = Session(c, "SS_RESPONSE")]
      /\ dispatched' = [dispatched EXCEPT ![c] = @ + 1]
      /\ args' = [args EXCEPT ![e] = cs[c]]
      /\ UNCHANGED <<link, cs, responses, mainpc, got, dropped>>
    BY DEF DispatchRequest, Arrives
<1>2. \/ Pool!Accept(e) /\ UNCHANGED fault
      \/ Pool!Refuse(e) /\ UNCHANGED fault
      \/ phase = "failed" /\ fault' = TRUE /\ UNCHANGED poolVars
    BY DEF DispatchRequest
<1>3. /\ e \in Requests /\ Client(e) = c /\ cs[c] \in Addrs
      /\ dispatched[c] \in Nat /\ dispatched'[c] = dispatched[c] + 1
      /\ \A d \in Clients : d # c => dispatched'[d] = dispatched[d]
    BY <1>1 DEF IInv, TypeOK, Owned, Requests
<1>4. \/ st[e] = "new" /\ st' = [st EXCEPT ![e] = "queued"] /\ order' = Append(order, e) /\ UNCHANGED <<phase, fault>>
      \/ st[e] = "new" /\ st' = [st EXCEPT ![e] = "rejected"] /\ UNCHANGED <<order, phase, fault>>
      \/ phase = "failed" /\ fault' = TRUE /\ UNCHANGED <<st, order, phase>>
    BY <1>2 DEF Pool!Accept, Pool!Refuse, poolVars
<1> HIDE DEF e
<1>5. \A f \in Requests : f # e => st'[f] = st[f] /\ args'[f] = args[f]
    BY <1>1, <1>3, <1>4 DEF IInv, TypeOK
<1>6. /\ Session(c, "SS_RESPONSE") \in Sessions
      /\ Session(c, "SS_RESPONSE").owner = c
      /\ Session(c, "SS_RESPONSE").session_stat = "SS_RESPONSE"
    BY DEF Session, Sessions
<1>7. /\ heap'[cs[c]] = Session(c, "SS_RESPONSE")
      /\ \A d \in Clients : link[d] = "open" /\ d # c => heap'[cs[d]] = heap[cs[d]]
    <2>1. heap'[cs[c]] = Session(c, "SS_RESPONSE")
        BY <1>1, <1>3 DEF IInv, TypeOK
    <2>2. \A d \in Clients : link[d] = "open" /\ d # c => cs[d] \in Addrs /\ cs[d] # cs[c]
        BY <1>1 DEF IInv, Owned
    <2>3. \A a \in Addrs : a # cs[c] => heap'[a] = heap[a]
        BY <1>1 DEF IInv, TypeOK
    <2> QED
        BY <2>1, <2>2, <2>3
<1>8. st' \in [Requests -> Pool!TaskStates] /\ order' \in Seq(Requests) /\ fault' \in BOOLEAN
    <2>1. CASE st' = [st EXCEPT ![e] = "queued"] /\ order' = Append(order, e) /\ UNCHANGED fault
        BY <1>3, <2>1 DEF IInv, TypeOK, Pool!TaskStates
    <2>2. CASE st' = [st EXCEPT ![e] = "rejected"] /\ UNCHANGED <<order, fault>>
        BY <1>3, <2>2 DEF IInv, TypeOK, Pool!TaskStates
    <2>3. CASE fault' = TRUE /\ UNCHANGED <<st, order>>
        BY <2>3 DEF IInv, TypeOK
    <2> QED
        BY <1>4, <2>1, <2>2, <2>3
<1>9. TypeOK'
    <2>1. /\ heap' \in [Addrs -> Sessions \cup {None}] /\ args' \in [Requests -> Addrs \cup {None}]
          /\ args'[e] = cs[c]
        BY <1>1, <1>3, <1>6 DEF IInv, TypeOK
    <2>2. /\ arrived' \in [Clients -> 0..MaxRequests] /\ dispatched' \in [Clients -> Nat]
        BY <1>1 DEF IInv, TypeOK
    <2>3. \A d \in Clients : dispatched'[d] <= arrived'[d]
        BY <1>1, <1>3 DEF IInv, TypeOK
    <2>4. \A f \in Requests : st'[f] # "new" => args'[f] # None
        BY <1>3, <1>5, <2>1 DEF IInv, TypeOK
    <2> QED
        BY <1>1, <1>4, <1>8, <2>1, <2>2, <2>3, <2>4 DEF IInv, TypeOK
<1>10. WaitsOnce'
    <2>1. CASE st[e] = "new" /\ st' = [st EXCEPT ![e] = "queued"] /\ order' = Append(order, e)
        <3>1. \A i \in DOMAIN order : order[i] \in Requests /\ order[i] # e
            BY <2>1 DEF IInv, TypeOK, WaitsOnce
        <3>2. /\ DOMAIN order' = DOMAIN order \cup {Len(order) + 1} /\ Len(order) + 1 \notin DOMAIN order
              /\ \A i \in DOMAIN order : order'[i] = order[i]
              /\ order'[Len(order) + 1] = e /\ st'[e] = "queued"
            BY <1>3, <2>1, AppendOf DEF IInv, TypeOK
        <3> QED
            BY <1>5, <3>1, <3>2 DEF IInv, WaitsOnce
    <2>2. CASE st[e] = "new" /\ st' = [st EXCEPT ![e] = "rejected"] /\ order' = order
        <3>1. \A i \in DOMAIN order : order[i] \in Requests /\ order[i] # e
            BY <2>2 DEF IInv, TypeOK, WaitsOnce
        <3> QED
            BY <1>5, <2>2, <3>1 DEF IInv, WaitsOnce
    <2>3. CASE UNCHANGED <<st, order>>
        BY <2>3 DEF IInv, WaitsOnce
    <2> QED
        BY <1>4, <2>1, <2>2, <2>3
<1>11. \A f \in Requests : st[f] = "done" => st'[f] = "done"
    BY <1>4, <1>5
<1>12. RespondsOnce' /\ AnsweredOnce' /\ OwnResponsesInOrder'
    <2>1. \A i \in DOMAIN responses : responses[i] \in Requests
        BY DEF IInv, TypeOK
    <2>2. \A d \in Clients : \A i \in DOMAIN got[d] : got[d][i] \in Requests
        BY DEF IInv, TypeOK
    <2> QED
        BY <1>1, <1>11, <2>1, <2>2 DEF IInv, RespondsOnce, AnsweredOnce, OwnResponsesInOrder, Queued
<1>13. Fresh' /\ Owned'
    <2>1. Fresh'
        BY <1>1, <1>3, <1>5 DEF IInv, Fresh
    <2>2. Owned'
        BY <1>1, <1>3, <1>6, <1>7 DEF IInv, Owned
    <2> QED
        BY <2>1, <2>2
<1>14. Carries'
    <2>1. args'[e] = cs[c]
        BY <1>1, <1>3 DEF IInv, TypeOK
    <2> QED
        BY <1>1, <1>3, <1>5, <2>1 DEF IInv, Carries
<1>15. \A f \in Requests : f # e => (InFlight(f)' <=> InFlight(f))
    BY <1>1, <1>5 DEF InFlight, Queued
<1>16. Stays' /\ FaultsExcused'
    BY <1>1, <1>3, <1>4, <1>15 DEF IInv, Stays, FaultsExcused
<1>17. Tracks'
    <2>1. ASSUME NEW d \in Clients, link[d] = "open", ~fault', ~dropped
          PROVE  /\ heap'[cs[d]].session_stat = "SS_RESPONSE" <=>
                      /\ dispatched'[d] > 0
                      /\ (InFlight(<<d, dispatched[d]>>) \/ st[<<d, dispatched[d]>>] = "rejected")'
                 /\ \A f \in Requests : Client(f) = d /\ InFlight(f)' => f = <<d, dispatched'[d]>>
        <3>1. CASE d = c
            <4>1. st'[e] \in {"queued", "rejected"}
                BY <1>3, <1>4, <2>1 DEF IInv, TypeOK
            <4>2. e = <<c, dispatched'[c]>>
                BY <1>3 DEF e
            <4>3. dispatched[c] > 0 => <<c, dispatched[c]>> \in Requests
                BY DEF IInv, TypeOK, Requests
            <4>4. \A f \in Requests : Client(f) = c => ~InFlight(f)
                BY <1>1, <1>3, <2>1, <3>1, <4>3 DEF IInv, Tracks, Requests
            <4>5. (InFlight(<<c, dispatched[c]>>) \/ st[<<c, dispatched[c]>>] = "rejected")'
                BY <4>1, <4>2 DEF InFlight
            <4> QED
                BY <1>3, <1>6, <1>7, <1>15, <3>1, <4>2, <4>4, <4>5
        <3>2. CASE d # c
            <4>1. \A f \in Requests : Client(f) = d => f # e
                BY <1>3, <3>2
            <4>2. dispatched'[d] = dispatched[d]
                BY <1>3, <3>2
            <4>3. dispatched[d] > 0 => <<d, dispatched[d]>> \in Requests
                BY DEF IInv, TypeOK, Requests
            <4>4. dispatched[d] > 0 =>
                      ((InFlight(<<d, dispatched[d]>>) \/ st[<<d, dispatched[d]>>] = "rejected")'
                       <=> (InFlight(<<d, dispatched[d]>>) \/ st[<<d, dispatched[d]>>] = "rejected"))
                BY <1>1, <1>5, <4>1, <4>2, <4>3 DEF InFlight, Queued
            <4>5. /\ heap[cs[d]].session_stat = "SS_RESPONSE" <=>
                        /\ dispatched[d] > 0
                        /\ InFlight(<<d, dispatched[d]>>) \/ st[<<d, dispatched[d]>>] = "rejected"
                  /\ \A f \in Requests : Client(f) = d /\ InFlight(f) => f = <<d, dispatched[d]>>
                BY <2>1, <1>4 DEF IInv, Tracks
            <4> QED
                BY <1>7, <1>15, <2>1, <3>2, <4>1, <4>2, <4>4, <4>5
        <3> QED
            BY <3>1, <3>2
    <2> QED
        BY <1>1, <2>1 DEF Tracks
<1>18. Counted'
    <2> SUFFICES ASSUME ~dropped, NEW d \in Clients, link[d] = "open"
                 PROVE  Len(got[d]) = IF heap'[cs[d]].session_stat = "SS_RESPONSE"
                                      THEN dispatched'[d] - 1 ELSE dispatched'[d]
        BY <1>1 DEF Counted
    <2>1. CASE d = c
        BY <1>1, <1>3, <1>6, <1>7, <2>1 DEF IInv, Counted
    <2>2. CASE d # c
        BY <1>3, <1>7, <2>2 DEF IInv, Counted
    <2> QED
        BY <2>1, <2>2
<1> QED
    BY <1>9, <1>10, <1>12, <1>13, <1>14, <1>16, <1>17, <1>18 DEF IInv

-------------------------------------------------------------------------------
(* What a worker does: it changes what is in flight in no way that the     *)
(* main thread could see.                                                  *)
LEMMA WorkInvariant ==
    ASSUME IInv, ~fault, TypeOK', WaitsOnce', RespondsOnce',
           UNCHANGED <<phase, linkVars, args, got, fault, dropped>>,
           \A e \in Requests : (InFlight(e)' <=> InFlight(e)) /\ (st[e] = "done" => st'[e] = "done")
               /\ (st[e] = "new" <=> st'[e] = "new") /\ (st[e] = "rejected" <=> st'[e] = "rejected"),
           \A e \in Requests : st[e] = "done" /\ ~Queued(e) => ~Queued(e)'
    PROVE  IInv'
<1> USE DEF linkVars
<1>1. \A d \in Clients : \A i \in DOMAIN got[d] : got[d][i] \in Requests
    BY DEF IInv, TypeOK
<1>2. Fresh' /\ Owned' /\ Carries'
    BY DEF IInv, Fresh, Owned, Carries
<1>3. AnsweredOnce' /\ OwnResponsesInOrder'
    BY <1>1 DEF IInv, AnsweredOnce, OwnResponsesInOrder
<1>4. Stays' /\ FaultsExcused' /\ Counted'
    BY DEF IInv, Stays, FaultsExcused, Counted
<1>5. Tracks'
    <2>1. \A c \in Clients : dispatched[c] > 0 => <<c, dispatched[c]>> \in Requests
        BY MaxRequestsAssumption DEF IInv, TypeOK, Requests
    <2>2. ASSUME NEW c \in Clients, dispatched[c] > 0
          PROVE  (InFlight(<<c, dispatched[c]>>) \/ st[<<c, dispatched[c]>>] = "rejected")'
                 <=> (InFlight(<<c, dispatched[c]>>) \/ st[<<c, dispatched[c]>>] = "rejected")
        <3> DEFINE e == <<c, dispatched[c]>>
        <3>1. e \in Requests /\ UNCHANGED e
            BY <2>1, <2>2
        <3>2. InFlight(e)' <=> InFlight(e)
            BY <3>1
        <3> QED
            BY <3>1, <3>2
    <2> QED
        BY <2>2 DEF IInv, Tracks
<1> QED
    BY <1>2, <1>3, <1>4, <1>5 DEF IInv

LEMMA StartInvariant ==
    ASSUME IInv, ~fault, Start
    PROVE  IInv'
<1> DEFINE e == Head(order)
<1>1. /\ order # <<>> /\ st' = [st EXCEPT ![e] = "running"] /\ order' = Tail(order)
      /\ UNCHANGED <<phase, linkVars, args, responses, mainpc, got, fault, dropped>>
    BY DEF Start, Pool!Start
<1>2. /\ e \in Requests /\ e = order[1] /\ 1 \in DOMAIN order /\ Tail(order) \in Seq(Requests)
      /\ \A i \in DOMAIN Tail(order) : i + 1 \in DOMAIN order /\ Tail(order)[i] = order[i + 1]
    BY <1>1, TailOf DEF IInv, TypeOK
<1> HIDE DEF e
<1>3. st[e] = "queued" /\ st'[e] = "running"
    BY <1>1, <1>2 DEF IInv, TypeOK, WaitsOnce
<1>4. \A f \in Requests : f # e => st'[f] = st[f]
    BY <1>1 DEF IInv, TypeOK
<1>5. TypeOK'
    <2>1. st' \in [Requests -> Pool!TaskStates]
        BY <1>1, <1>2 DEF IInv, TypeOK, Pool!TaskStates
    <2>2. \A f \in Requests : st'[f] # "new" => args[f] # None
        BY <1>3, <1>4 DEF IInv, TypeOK
    <2> QED
        BY <1>1, <1>2, <2>1, <2>2 DEF IInv, TypeOK, linkVars
<1>6. WaitsOnce'
    <2>1. \A i \in DOMAIN order' : i + 1 \in DOMAIN order /\ i + 1 # 1 /\ order'[i] = order[i + 1]
        BY <1>1, <1>2
    <2>2. \A i \in DOMAIN order' : order'[i] \in Requests /\ order'[i] # e /\ st[order'[i]] = "queued"
        BY <1>2, <2>1 DEF IInv, WaitsOnce, TypeOK
    <2>3. \A i, j \in DOMAIN order' : order'[i] = order'[j] => i = j
        <3> SUFFICES ASSUME NEW i \in DOMAIN order', NEW j \in DOMAIN order', order'[i] = order'[j]
                     PROVE  i = j
            OBVIOUS
        <3>1. i + 1 = j + 1
            BY <2>1 DEF IInv, WaitsOnce
        <3>2. i \in Nat /\ j \in Nat
            BY <1>1, <1>2
        <3> QED
            BY <3>1, <3>2
    <2> QED
        BY <1>4, <2>2, <2>3 DEF WaitsOnce
<1>7. RespondsOnce'
    BY <1>1, <1>3, <1>4 DEF IInv, RespondsOnce, TypeOK
<1>8. \A f \in Requests : (InFlight(f)' <=> InFlight(f)) /\ (Queued(f)' <=> Queued(f))
    BY <1>1, <1>3, <1>4 DEF InFlight, Queued
<1> QED
    BY <1>1, <1>3, <1>4, <1>5, <1>6, <1>7, <1>8, WorkInvariant

LEMMA SvcInvariant ==
    ASSUME IInv, ~fault, NEW e \in Requests, svc(e)
    PROVE  IInv'
<1>1. /\ st[e] = "running" /\ st' = [st EXCEPT ![e] = "done"]
      /\ responses' = Append(responses, e)
      /\ UNCHANGED <<order, phase, linkVars, args, mainpc, got, fault, dropped>>
    BY DEF svc, Pool!Finish
<1>2. /\ responses' \in Seq(Requests)
      /\ DOMAIN responses' = DOMAIN responses \cup {Len(responses) + 1}
      /\ Len(responses) + 1 \notin DOMAIN responses
      /\ \A i \in DOMAIN responses : responses'[i] = responses[i]
      /\ responses'[Len(responses) + 1] = e
    BY <1>1, AppendOf DEF IInv, TypeOK
<1>3. st'[e] = "done" /\ \A f \in Requests : f # e => st'[f] = st[f]
    BY <1>1 DEF IInv, TypeOK
<1>4. TypeOK'
    <2>1. st' \in [Requests -> Pool!TaskStates]
        BY <1>1 DEF IInv, TypeOK, Pool!TaskStates
    <2>2. \A f \in Requests : st'[f] # "new" => args[f] # None
        BY <1>1, <1>3 DEF IInv, TypeOK
    <2> QED
        BY <1>1, <1>2, <2>1, <2>2 DEF IInv, TypeOK, linkVars
<1>5. WaitsOnce'
    BY <1>1, <1>3 DEF IInv, WaitsOnce, TypeOK
<1>6. \A i \in DOMAIN responses : responses[i] \in Requests /\ responses[i] # e
    BY <1>1 DEF IInv, TypeOK, RespondsOnce
<1>7. RespondsOnce'
    BY <1>2, <1>3, <1>6 DEF IInv, RespondsOnce
<1>8. \A f \in Requests : Queued(f)' <=> Queued(f) \/ f = e
    BY <1>2 DEF Queued
<1>9. \A f \in Requests : InFlight(f)' <=> InFlight(f)
    BY <1>1, <1>3, <1>8 DEF InFlight
<1> QED
    BY <1>1, <1>3, <1>4, <1>5, <1>7, <1>8, <1>9, WorkInvariant

-------------------------------------------------------------------------------
LEMMA SendInvariant ==
    ASSUME IInv, ~fault, SendResponse
    PROVE  IInv'
<1> USE NoneAssumption
<1>0. PICK e \in Requests : e = Head(responses)
    BY TailOf DEF IInv, TypeOK, SendResponse
<1>1. /\ mainpc = "drain" /\ responses # <<>> /\ responses' = Tail(responses)
      /\ UNCHANGED <<st, order, phase, link, cs, arrived, dispatched, args, mainpc, dropped>>
    BY DEF SendResponse, poolVars
<1>2. \/ heap[args[e]] = None /\ fault' = TRUE /\ UNCHANGED <<heap, got>>
      \/ /\ heap[args[e]] # None
         /\ got' = [got EXCEPT ![heap[args[e]].owner] = Append(@, e)]
         /\ heap' = [heap EXCEPT ![args[e]] = Session(heap[args[e]].owner, "SS_REQUEST")]
         /\ UNCHANGED fault
    BY <1>0 DEF SendResponse
<1>3. /\ e \in Requests /\ e = responses[1] /\ 1 \in DOMAIN responses
      /\ Tail(responses) \in Seq(Requests)
      /\ \A i \in DOMAIN Tail(responses) : i + 1 \in DOMAIN responses /\ Tail(responses)[i] = responses[i + 1]
      /\ \A i \in DOMAIN responses : i # 1 => i - 1 \in DOMAIN Tail(responses) /\ Tail(responses)[i - 1] = responses[i]
    BY <1>0, <1>1, TailOf DEF IInv, TypeOK
<1>4. st[e] = "done" /\ Queued(e) /\ args[e] \in Addrs /\ Client(e) \in Clients
    BY <1>3 DEF IInv, RespondsOnce, Queued, Carries, Requests
<1>5. RespondsOnce' /\ ~Queued(e)' /\ \A f \in Requests : f # e => (Queued(f)' <=> Queued(f))
    <2>1. \A i \in DOMAIN responses' : i + 1 \in DOMAIN responses /\ i + 1 # 1 /\ responses'[i] = responses[i + 1]
                                       /\ i \in Nat
        BY <1>1, <1>3
    <2>2. \A i \in DOMAIN responses' : st[responses'[i]] = "done" /\ responses'[i] # e
        BY <1>3, <2>1 DEF IInv, RespondsOnce
    <2>3. ASSUME NEW i \in DOMAIN responses', NEW j \in DOMAIN responses', responses'[i] = responses'[j]
          PROVE  i = j
        <3>1. i + 1 = j + 1
            BY <2>1, <2>3 DEF IInv, RespondsOnce
        <3> QED
            BY <2>1, <3>1
    <2>4. RespondsOnce'
        BY <1>1, <2>2, <2>3 DEF RespondsOnce
    <2>5. ~Queued(e)'
        BY <2>2 DEF Queued
    <2>6. ASSUME NEW f \in Requests, f # e
          PROVE  Queued(f)' <=> Queued(f)
        <3>1. Queued(f)' => Queued(f)
            BY <2>1 DEF Queued
        <3>2. Queued(f) => Queued(f)'
            <4> SUFFICES ASSUME NEW i \in DOMAIN responses, responses[i] = f
                         PROVE  \E j \in DOMAIN responses' : responses'[j] = f
                BY DEF Queued
            <4>1. i # 1
                BY <1>3, <2>6
            <4> QED
                BY <1>1, <1>3, <4>1
        <3> QED
            BY <3>1, <3>2
    <2> QED
        BY <2>4, <2>5, <2>6
<1>6. ~InFlight(e)' /\ \A f \in Requests : f # e => (InFlight(f)' <=> InFlight(f))
    BY <1>1, <1>4, <1>5 DEF InFlight
<1>7. \A f \in Requests : ~Queued(f) => ~Queued(f)'
    BY <1>5
<1>8. WaitsOnce'
    BY <1>1 DEF IInv, WaitsOnce
<1>9. link[Client(e)] = "open" =>
          /\ cs[Client(e)] = args[e] /\ heap[args[e]] \in Sessions /\ heap[args[e]] # None
          /\ heap[args[e]].owner = Client(e)
    BY <1>3, <1>4 DEF IInv, Carries, Owned
<1>10. ~dropped => link[Client(e)] = "open"
    BY <1>3, <1>4 DEF IInv, Stays, InFlight
<1>11. CASE heap[args[e]] = None
    <2>1. fault' = TRUE /\ UNCHANGED <<heap, got>>
        BY <1>2, <1>11
    <2>2. dropped
        BY <1>9, <1>10, <1>11 DEF IInv, TypeOK
    <2>3. TypeOK'
        BY <1>1, <1>3, <2>1 DEF IInv, TypeOK
    <2>4. Fresh' /\ Owned' /\ Carries'
        BY <1>1, <2>1 DEF IInv, Fresh, Owned, Carries
    <2>5. AnsweredOnce'
        <3>1. \A d \in Clients : \A i \in DOMAIN got[d] : got[d][i] \in Requests
            BY DEF IInv, TypeOK
        <3> QED
            BY <1>1, <1>7, <2>1, <3>1 DEF IInv, AnsweredOnce
    <2>6. Stays' /\ FaultsExcused' /\ Tracks' /\ Counted' /\ OwnResponsesInOrder'
        BY <1>1, <2>2 DEF Stays, FaultsExcused, Tracks, Counted, OwnResponsesInOrder
    <2> QED
        BY <1>5, <1>8, <2>3, <2>4, <2>5, <2>6 DEF IInv
<1>12. CASE heap[args[e]] # None
    <2>2. PICK c \in Clients : c = heap[args[e]].owner
        BY <1>4, <1>12 DEF IInv, TypeOK, Sessions
    <2>1. /\ got' = [got EXCEPT ![c] = Append(@, e)]
          /\ heap' = [heap EXCEPT ![args[e]] = Session(c, "SS_REQUEST")]
          /\ UNCHANGED fault
        BY <1>2, <1>12, <2>2
    <2>3. /\ Session(c, "SS_REQUEST") \in Sessions
          /\ Session(c, "SS_REQUEST").owner = c
          /\ Session(c, "SS_REQUEST").session_stat = "SS_REQUEST"
        BY <2>2 DEF Session, Sessions
    <2>4. /\ heap'[args[e]] = Session(c, "SS_REQUEST")
          /\ \A a \in Addrs : a # args[e] => heap'[a] = heap[a]
          /\ heap' \in [Addrs -> Sessions \cup {None}]
        BY <1>4, <2>1, <2>3 DEF IInv, TypeOK
    <2>5. /\ got'[c] = Append(got[c], e) /\ got[c] \in Seq(Requests)
          /\ \A d \in Clients : d # c => got'[d] = got[d]
        BY <2>1, <2>2 DEF IInv, TypeOK
    <2>6. /\ got'[c] \in Seq(Requests) /\ Len(got'[c]) = Len(got[c]) + 1
          /\ DOMAIN got'[c] = DOMAIN got[c] \cup {Len(got[c]) + 1}
          /\ Len(got[c]) + 1 \notin DOMAIN got[c]
          /\ \A i \in DOMAIN got[c] : got'[c][i] = got[c][i]
          /\ got'[c][Len(got[c]) + 1] = e
        BY <1>3, <2>5, AppendOf
    <2>7. TypeOK'
        <3>1. got' \in [Clients -> Seq(Requests)]
            BY <2>1, <2>2, <2>5, <2>6 DEF IInv, TypeOK
        <3> QED
            BY <1>1, <1>3, <2>1, <2>4, <3>1 DEF IInv, TypeOK
    <2>8. Client(e) # c => link[Client(e)] = "gone"
        <3>1. link[Client(e)] # "new"
            BY <1>3, <1>4 DEF IInv, Fresh
        <3>2. link[Client(e)] \in {"new", "open", "gone"}
            BY <1>4 DEF IInv, TypeOK
        <3> QED
            BY <1>9, <2>2, <3>1, <3>2
    <2>9. \A d \in Clients : \A i \in DOMAIN got[d] :
              got[d][i] \in Requests /\ got[d][i] # e /\ st[got[d][i]] = "done" /\ ~Queued(got[d][i])
        BY <1>4 DEF IInv, TypeOK, AnsweredOnce
    <2>10. AnsweredOnce'
        <3>1. \A d \in Clients : \A i \in DOMAIN got'[d] :
                  \/ d = c /\ i = Len(got[c]) + 1 /\ got'[d][i] = e
                  \/ i \in DOMAIN got[d] /\ got'[d][i] = got[d][i]
            BY <2>5, <2>6
        <3>2. ASSUME NEW d \in Clients, NEW f \in Clients, NEW i \in DOMAIN got'[d], NEW j \in DOMAIN got'[f],
                     got'[d][i] = got'[f][j]
              PROVE  d = f /\ i = j
            BY <2>9, <3>1, <3>2 DEF IInv, AnsweredOnce
        <3>3. ASSUME NEW d \in Clients, NEW i \in DOMAIN got'[d]
              PROVE  /\ (st[got[d][i]] = "done" /\ ~Queued(got[d][i]))'
                     /\ Client(got'[d][i]) # d => link'[Client(got'[d][i])] = "gone"
            <4>1. CASE d = c /\ got'[d][i] = e
                BY <1>1, <1>4, <1>5, <2>8, <4>1 DEF Queued
            <4>2. CASE i \in DOMAIN got[d] /\ got'[d][i] = got[d][i]
                BY <1>1, <1>7, <2>9, <4>2 DEF IInv, AnsweredOnce, Queued
            <4> QED
                BY <3>1, <4>1, <4>2
        <3> QED
            BY <3>2, <3>3 DEF AnsweredOnce
    <2>11. Fresh'
        <3>1. link[c] # "new"
            BY <1>4, <1>12, <2>2 DEF IInv, Owned
        <3> QED
            BY <1>1, <2>5, <3>1 DEF IInv, Fresh
    <2>12. \A d \in Clients : link[d] = "open" => cs[d] \in Addrs /\ (cs[d] = args[e] => d = c)
        BY <2>2 DEF IInv, Owned
    <2>13. Owned' /\ Carries'
        <3>1. \A a \in Addrs : heap'[a] # None =>
                  heap[a] # None /\ heap'[a].owner = heap[a].owner
            BY <1>12, <2>2, <2>3, <2>4
        <3>2. ASSUME NEW d \in Clients, link[d] = "open"
              PROVE  cs[d] \in Addrs /\ heap'[cs[d]] \in Sessions /\ heap'[cs[d]].owner = d
            <4>1. CASE cs[d] = args[e]
                BY <2>3, <2>4, <2>12, <3>2, <4>1
            <4>2. CASE cs[d] # args[e]
                BY <2>4, <3>2, <4>2 DEF IInv, Owned
            <4> QED
                BY <4>1, <4>2
        <3>3. Owned'
            BY <1>1, <3>1, <3>2 DEF IInv, Owned
        <3>4. Carries'
            BY <1>1 DEF IInv, Carries
        <3> QED
            BY <3>3, <3>4
    <2>14. Stays' /\ FaultsExcused'
        BY <1>1, <1>6, <2>1 DEF IInv, Stays, FaultsExcused
    <2>15. ~dropped => /\ c = Client(e) /\ link[c] = "open" /\ cs[c] = args[e]
                       /\ e = <<c, dispatched[c]>> /\ dispatched[c] > 0
                       /\ heap[cs[c]].session_stat = "SS_RESPONSE"
                       /\ \A f \in Requests : Client(f) = c /\ InFlight(f) => f = e
        <3>1. InFlight(e)
            BY <1>4 DEF InFlight
        <3>2. e = <<Client(e), e[2]>> /\ e[2] > 0
            BY <1>3, MaxRequestsAssumption DEF Requests
        <3> SUFFICES ASSUME ~dropped
                     PROVE  /\ c = Client(e) /\ link[c] = "open" /\ cs[c] = args[e]
                            /\ e = <<c, dispatched[c]>> /\ dispatched[c] > 0
                            /\ heap[cs[c]].session_stat = "SS_RESPONSE"
                            /\ \A f \in Requests : Client(f) = c /\ InFlight(f) => f = e
            OBVIOUS
        <3>3. c = Client(e) /\ link[c] = "open" /\ cs[c] = args[e]
            BY <1>9, <1>10, <2>2
        <3>4. /\ heap[cs[c]].session_stat = "SS_RESPONSE" <=>
                      /\ dispatched[c] > 0
                      /\ InFlight(<<c, dispatched[c]>>) \/ st[<<c, dispatched[c]>>] = "rejected"
              /\ \A f \in Requests : Client(f) = c /\ InFlight(f) => f = <<c, dispatched[c]>>
            BY <3>3 DEF IInv, Tracks
        <3>5. e = <<c, dispatched[c]>>
            BY <3>1, <3>3, <3>4
        <3>6. dispatched[c] > 0
            BY <3>2, <3>5
        <3> QED
            BY <3>1, <3>3, <3>4, <3>5, <3>6
    <2>16. Tracks'
        <3>1. ASSUME NEW d \in Clients, link[d] = "open", ~dropped
              PROVE  /\ heap'[cs[d]].session_stat = "SS_RESPONSE" <=>
                          /\ dispatched[d] > 0
                          /\ (InFlight(<<d, dispatched[d]>>) \/ st[<<d, dispatched[d]>>] = "rejected")'
                     /\ \A f \in Requests : Client(f) = d /\ InFlight(f)' => f = <<d, dispatched[d]>>
            <4>1. CASE d = c
                <5>1. ~((InFlight(<<d, dispatched[d]>>) \/ st[<<d, dispatched[d]>>] = "rejected")')
                    BY <1>1, <1>4, <1>6, <2>15, <3>1, <4>1 DEF InFlight, Queued
                <5>2. heap'[cs[d]].session_stat = "SS_REQUEST"
                    BY <2>3, <2>4, <2>15, <3>1, <4>1
                <5>3. \A f \in Requests : Client(f) = d => ~(InFlight(f)')
                    BY <1>6, <2>15, <3>1, <4>1
                <5> QED
                    BY <5>1, <5>2, <5>3
            <4>2. CASE d # c
                <5>1. dispatched[d] > 0 => <<d, dispatched[d]>> \in Requests
                    BY MaxRequestsAssumption DEF IInv, TypeOK, Requests
                <5>2. <<d, dispatched[d]>> # e
                    BY <2>15, <3>1, <4>2
                <5>3. dispatched[d] > 0 =>
                          ((InFlight(<<d, dispatched[d]>>) \/ st[<<d, dispatched[d]>>] = "rejected")'
                           <=> (InFlight(<<d, dispatched[d]>>) \/ st[<<d, dispatched[d]>>] = "rejected"))
                    BY <1>1, <1>5, <5>1, <5>2 DEF InFlight, Queued
                <5>4. heap'[cs[d]] = heap[cs[d]]
                    BY <2>4, <2>12, <3>1, <4>2
                <5>5. \A f \in Requests : Client(f) = d /\ InFlight(f)' => InFlight(f)
                    BY <1>6
                <5> QED
                    BY <3>1, <5>3, <5>4, <5>5 DEF IInv, Tracks
            <4> QED
                BY <4>1, <4>2
        <3> QED
            BY <1>1, <3>1 DEF Tracks
    <2>17. Counted'
        <3>1. ASSUME ~dropped, NEW d \in Clients, link[d] = "open"
              PROVE  Len(got'[d]) = IF heap'[cs[d]].session_stat = "SS_RESPONSE"
                                    THEN dispatched[d] - 1 ELSE dispatched[d]
            <4>1. CASE d = c
                <5>1. Len(got[c]) = dispatched[c] - 1 /\ dispatched[c] \in Nat
                    BY <2>2, <2>15, <3>1 DEF IInv, Counted, TypeOK
                <5> QED
                    BY <2>3, <2>4, <2>6, <2>15, <3>1, <4>1, <5>1
            <4>2. CASE d # c
                <5>1. heap'[cs[d]] = heap[cs[d]] /\ got'[d] = got[d]
                    BY <2>4, <2>5, <2>12, <3>1, <4>2
                <5> QED
                    BY <3>1, <5>1 DEF IInv, Counted
            <4> QED
                BY <4>1, <4>2
        <3> QED
            BY <1>1, <3>1 DEF Counted
    <2>18. OwnResponsesInOrder'
        <3>1. ASSUME ~dropped
              PROVE  got'[c] = [i \in 1..Len(got'[c]) |-> <<c, i>>]
            <4>1. Len(got[c]) = dispatched[c] - 1 /\ dispatched[c] \in Nat
                BY <2>2, <2>15, <3>1 DEF IInv, Counted, TypeOK
            <4>2. got[c] = [i \in 1..Len(got[c]) |-> <<c, i>>]
                BY <2>2, <3>1 DEF IInv, OwnResponsesInOrder
            <4>3. DOMAIN got'[c] = 1..Len(got'[c])
                BY <2>6
            <4>4. \A i \in DOMAIN got'[c] : got'[c][i] = <<c, i>>
                BY <2>6, <2>15, <3>1, <4>1, <4>2
            <4>5. got'[c] = [i \in DOMAIN got'[c] |-> got'[c][i]]
                BY <2>6
            <4> QED
                BY <4>3, <4>4, <4>5
        <3>2. \A d \in Clients : ~dropped => got'[d] = [i \in 1..Len(got'[d]) |-> <<d, i>>]
            BY <2>5, <3>1 DEF IInv, OwnResponsesInOrder
        <3> QED
            BY <1>1, <3>2 DEF OwnResponsesInOrder
    <2> QED
        BY <1>5, <1>8, <2>7, <2>10, <2>11, <2>13, <2>14, <2>16, <2>17, <2>18 DEF IInv
<1> QED
    BY <1>11, <1>12

-------------------------------------------------------------------------------
LEMMA NextInvariant == IInv /\ [Next]_vars => IInv'
<1> SUFFICES ASSUME IInv, [Next]_vars PROVE IInv'
    OBVIOUS
<1>1. CASE UNCHANGED vars
    <2>1. IInv' <=> IInv
        BY <1>1 DEF vars, poolVars, linkVars, IInv, TypeOK, WaitsOnce, RespondsOnce, Fresh, Owned,
            Carries, AnsweredOnce, Stays, FaultsExcused, Tracks, Counted, OwnResponsesInOrder,
            InFlight, Queued
    <2> QED
        BY <2>1
<1>2. ASSUME ~fault, open \/ BeginDrain \/ EndDrain
      PROVE  IInv'
    BY <1>2, LoopInvariant
<1>3. ASSUME ~fault, NEW c \in Clients, NEW a \in Addrs, listener_cb(c, a)
      PROVE  IInv'
    BY <1>3, ListenerInvariant
<1>4. ASSUME ~fault, NEW c \in Clients,
             WrongState(c) \/ DispatchRequest(c) \/ RejectRequest(c) \/ handle_error(c)
      PROVE  IInv'
    BY <1>4, WrongStateInvariant, DispatchInvariant, EndInvariant
<1>5. ASSUME ~fault, Start \/ SendResponse
      PROVE  IInv'
    BY <1>5, StartInvariant, SendInvariant
<1>6. ASSUME ~fault, NEW e \in Requests, svc(e)
      PROVE  IInv'
    BY <1>6, SvcInvariant
<1> QED
    BY <1>1, <1>2, <1>3, <1>4, <1>5, <1>6 DEF Next

LEMMA Invariant == Spec => []IInv
BY InitInvariant, NextInvariant, PTL DEF Spec

(* As long as no connection has ended with its request in flight, a client *)
(* receives the responses to its own requests, in their order, each once,  *)
(* although workers finish in any order and addresses are used again.      *)
THEOREM ResponsesReachTheirClients == Spec => []OwnResponsesInOrder
<1>1. IInv => OwnResponsesInOrder
    BY DEF IInv
<1> QED
    BY <1>1, Invariant, PTL

(* As long as no connection has ended with its request in flight, a session*)
(* is in SS_RESPONSE exactly while its last request is away or was refused,*)
(* and nothing undefined happens but the use of a pool not created.        *)
THEOREM SessionsTrackRequests == Spec => []SessionTracksRequest
<1>1. IInv => SessionTracksRequest
    <2> SUFFICES ASSUME IInv PROVE SessionTracksRequest
        OBVIOUS
    <2>1. TypeOK /\ (fault /\ ~dropped => phase = "failed")
        BY DEF IInv, FaultsExcused
    <2>2. ASSUME NEW c \in Clients, link[c] = "open", ~fault, ~dropped
          PROVE  /\ heap[cs[c]] # None /\ heap[cs[c]].owner = c
                 /\ heap[cs[c]].session_stat = "SS_RESPONSE" <=>
                        /\ dispatched[c] > 0
                        /\ InFlight(<<c, dispatched[c]>>) \/ st[<<c, dispatched[c]>>] = "rejected"
                 /\ \A e \in Requests : Client(e) = c /\ InFlight(e) => e = <<c, dispatched[c]>>
        BY <2>2, NoneAssumption DEF IInv, Owned, Tracks
    <2> QED
        BY <2>1, <2>2 DEF SessionTracksRequest
<1> QED
    BY <1>1, Invariant, PTL

(* However connections end, and into whatever sessions responses stray, a  *)
(* request is answered at most once, after a worker has processed it, and  *)
(* to another client only when its own connection is gone.                 *)
THEOREM RequestsAnsweredOnce == Spec => []AnsweredOnce
<1>1. IInv => AnsweredOnce
    BY DEF IInv
<1> QED
    BY <1>1, Invariant, PTL
===============================================================================
