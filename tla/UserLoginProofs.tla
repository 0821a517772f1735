---------------------------- MODULE UserLoginProofs ----------------------------
(***************************************************************************)
(* The properties of UserLogin for every number of worker threads, mobiles,*)
(* codes and requests, by one inductive invariant.                         *)
(***************************************************************************)
EXTENDS UserLogin, TLAPS

Active(t, m) == pc[t] # "idle" /\ mobile[t] = m

(* For a request that is under way, what m2c_ has for its number now is    *)
(* among what it has had since the request began.                          *)
InForce == \A t \in Threads : pc[t] # "idle" => m2c[mobile[t]] \in valid[t]

(* A login that has passed the check carries a code that was in force.     *)
PastCheckVerified ==
    \A t \in Threads : pc[t] \in {"connect", "exist", "insert"} => Verified(t)

(* A number that was never shared has one request at a time.               *)
OneAtATime ==
    \A t, u \in Threads : \A m \in Mobiles \ shared :
        Active(t, m) /\ Active(u, m) => t = u

(* For such a number a code is stored before it is told, and it is still   *)
(* in force when it is.                                                    *)
StoredCodeIsTold ==
    \A m \in Mobiles \ shared :
        /\ \A t \in Threads : Active(t, m) /\ pc[t] = "tell" => m2c[m] = icode[t]
        /\ (\A t \in Threads : Active(t, m) => pc[t] # "tell") => m2c[m] = told[m]

(* A login inserts a number that has no row, unless two requests for it    *)
(* met or a query failed.                                                  *)
InsertsAbsent ==
    \A t \in Threads :
        pc[t] = "insert" /\ mobile[t] \notin shared \cup missed => rows[mobile[t]] = 0

IInv ==
    /\ LoginTypes
    /\ InForce /\ PastCheckVerified
    /\ OneAtATime /\ StoredCodeIsTold
    /\ InsertsAbsent /\ OneRowUnlessRaced

-------------------------------------------------------------------------------
LEMMA InitInvariant == LoginInit => IInv
<1> SUFFICES ASSUME LoginInit PROVE IInv
    OBVIOUS
<1>1. LoginTypes
    BY MaxRequestsAssumption DEF LoginInit, LoginTypes
<1>2. InForce /\ PastCheckVerified
    BY DEF LoginInit, InForce, PastCheckVerified
<1>3. OneAtATime /\ StoredCodeIsTold
    BY DEF LoginInit, OneAtATime, StoredCodeIsTold, Active
<1>4. InsertsAbsent /\ OneRowUnlessRaced
    BY DEF LoginInit, InsertsAbsent, OneRowUnlessRaced
<1> QED
    BY <1>1, <1>2, <1>3, <1>4 DEF IInv

-------------------------------------------------------------------------------
(* One lemma for each step of a handler: it preserves the whole invariant. *)

LEMMA BeginInvariant ==
    ASSUME IInv, NEW t \in Threads, NEW m \in Mobiles, NEW c \in Codes,
           NEW label \in {"store", "check"}, Begin(t, m, c, label)
    PROVE  IInv'
<1> USE DEF Begin, Step, Goto, tables
<1>1. LoginTypes'
    BY MaxRequestsAssumption DEF IInv, LoginTypes
<1>2. /\ pc' = [pc EXCEPT ![t] = label] /\ mobile' = [mobile EXCEPT ![t] = m]
      /\ pc \in [Threads -> {"idle", "store", "tell", "check", "connect", "exist", "insert"}]
      /\ mobile \in [Threads -> Mobiles] /\ icode \in [Threads -> Codes]
      /\ icode' = [icode EXCEPT ![t] = c] /\ pc[t] = "idle"
      /\ shared \subseteq shared' /\ missed' = missed
      /\ rows' = rows /\ m2c' = m2c /\ told' = told
      /\ valid' = [valid EXCEPT ![t] = {m2c[m]}]
      /\ valid \in [Threads -> SUBSET (Codes \cup {NoCode})]
    BY DEF IInv, LoginTypes
<1>3. InForce'
    BY <1>2 DEF IInv, InForce
<1>4. PastCheckVerified'
    BY <1>2 DEF IInv, PastCheckVerified, Verified
<1>5. ASSUME NEW u \in Threads, NEW v \in Threads, NEW n \in Mobiles \ shared',
             Active(u, n)', Active(v, n)'
      PROVE  u = v
    <2>1. CASE u # t /\ v # t
        BY <1>2, <1>5, <2>1 DEF IInv, OneAtATime, Active
    <2>2. CASE u = t \/ v = t
        <3>1. n = m
            BY <1>2, <1>5, <2>2 DEF Active
        <3>2. \A w \in Threads : pc[w] # "idle" => mobile[w] # m
            BY <1>5, <3>1
        <3> QED
            BY <1>2, <1>5, <2>2, <3>1, <3>2 DEF Active
    <2> QED
        BY <2>1, <2>2
<1>6. OneAtATime'
    BY <1>5 DEF OneAtATime
<1>7. ASSUME NEW n \in Mobiles \ shared'
      PROVE  /\ \A u \in Threads : Active(u, n)' /\ pc'[u] = "tell" => m2c'[n] = icode'[u]
             /\ (\A u \in Threads : Active(u, n)' => pc'[u] # "tell") => m2c'[n] = told'[n]
    BY <1>2 DEF IInv, StoredCodeIsTold, Active
<1>8. StoredCodeIsTold'
    BY <1>7 DEF StoredCodeIsTold
<1>9. InsertsAbsent' /\ OneRowUnlessRaced'
    BY <1>2 DEF IInv, InsertsAbsent, OneRowUnlessRaced
<1> QED
    BY <1>1, <1>3, <1>4, <1>6, <1>8, <1>9 DEF IInv

LEMMA StoreCodeInvariant ==
    ASSUME IInv, NEW t \in Threads, StoreCode(t)
    PROVE  IInv'
<1> USE DEF StoreCode, NowValid, Step, Goto
<1>1. LoginTypes'
    BY DEF IInv, LoginTypes
<1>2. InForce' /\ PastCheckVerified'
    BY DEF IInv, LoginTypes, InForce, PastCheckVerified, Verified
<1>3. OneAtATime'
    BY DEF IInv, LoginTypes, OneAtATime, Active
<1>4. ASSUME NEW n \in Mobiles \ shared
      PROVE  /\ \A u \in Threads : Active(u, n)' /\ pc'[u] = "tell" => m2c'[n] = icode'[u]
             /\ (\A u \in Threads : Active(u, n)' => pc'[u] # "tell") => m2c'[n] = told'[n]
    <2>1. CASE n = mobile[t]
        <3>1. Active(t, n)' /\ pc'[t] = "tell" /\ m2c'[n] = icode'[t]
            BY <2>1 DEF IInv, LoginTypes, Active
        <3>2. \A u \in Threads : Active(u, n)' => u = t
            BY <2>1 DEF IInv, LoginTypes, OneAtATime, Active
        <3> QED
            BY <3>1, <3>2
    <2>2. CASE n # mobile[t]
        BY <2>2 DEF IInv, LoginTypes, StoredCodeIsTold, Active
    <2> QED
        BY <2>1, <2>2
<1>5. StoredCodeIsTold'
    BY <1>4 DEF StoredCodeIsTold
<1>6. InsertsAbsent' /\ OneRowUnlessRaced'
    BY DEF IInv, LoginTypes, InsertsAbsent, OneRowUnlessRaced
<1> QED
    BY <1>1, <1>2, <1>3, <1>5, <1>6 DEF IInv

LEMMA TellCodeInvariant ==
    ASSUME IInv, NEW t \in Threads, TellCode(t)
    PROVE  IInv'
<1> USE DEF TellCode, Step, Goto, tables
<1>1. LoginTypes'
    BY DEF IInv, LoginTypes
<1>2. InForce' /\ PastCheckVerified'
    BY DEF IInv, LoginTypes, InForce, PastCheckVerified, Verified
<1>3. OneAtATime'
    BY DEF IInv, LoginTypes, OneAtATime, Active
<1>4. ASSUME NEW n \in Mobiles \ shared
      PROVE  /\ \A u \in Threads : Active(u, n)' /\ pc'[u] = "tell" => m2c'[n] = icode'[u]
             /\ (\A u \in Threads : Active(u, n)' => pc'[u] # "tell") => m2c'[n] = told'[n]
    <2>1. CASE n = mobile[t]
        <3>1. m2c'[n] = told'[n]
            BY <2>1 DEF IInv, LoginTypes, StoredCodeIsTold, Active
        <3>2. \A u \in Threads : Active(u, n)' => FALSE
            BY <2>1 DEF IInv, LoginTypes, OneAtATime, Active
        <3> QED
            BY <3>1, <3>2
    <2>2. CASE n # mobile[t]
        BY <2>2 DEF IInv, LoginTypes, StoredCodeIsTold, Active
    <2> QED
        BY <2>1, <2>2
<1>5. StoredCodeIsTold'
    BY <1>4 DEF StoredCodeIsTold
<1>6. InsertsAbsent' /\ OneRowUnlessRaced'
    BY DEF IInv, LoginTypes, InsertsAbsent, OneRowUnlessRaced
<1> QED
    BY <1>1, <1>2, <1>3, <1>5, <1>6 DEF IInv

(* A step of a login that neither succeeds nor touches a table.            *)
LEMMA MoveInvariant ==
    ASSUME IInv, NEW t \in Threads,
           NEW from \in {"check", "connect", "exist", "insert"},
           NEW to \in {"idle", "connect", "exist", "insert"},
           Step(t, from, to),
           to # "idle" => Verified(t),
           to = "insert" => rows[mobile[t]] = 0 \/ mobile[t] \in missed',
           missed \subseteq missed', missed' \subseteq Mobiles,
           UNCHANGED <<tables, mobile, icode, made, told, valid, success, shared>>
    PROVE  IInv'
<1> USE DEF Step, Goto, tables
<1>1. LoginTypes'
    BY DEF IInv, LoginTypes
<1>2. InForce' /\ PastCheckVerified'
    BY DEF IInv, LoginTypes, InForce, PastCheckVerified, Verified
<1>3. OneAtATime'
    BY DEF IInv, LoginTypes, OneAtATime, Active
<1>4. ASSUME NEW n \in Mobiles \ shared
      PROVE  /\ \A u \in Threads : Active(u, n)' /\ pc'[u] = "tell" => m2c'[n] = icode'[u]
             /\ (\A u \in Threads : Active(u, n)' => pc'[u] # "tell") => m2c'[n] = told'[n]
    <2>1. \A u \in Threads : pc'[u] = "tell" <=> pc[u] = "tell"
        BY DEF IInv, LoginTypes
    <2> QED
        BY <2>1 DEF IInv, LoginTypes, StoredCodeIsTold, Active
<1>5. StoredCodeIsTold'
    BY <1>4 DEF StoredCodeIsTold
<1>6. InsertsAbsent' /\ OneRowUnlessRaced'
    BY DEF IInv, LoginTypes, InsertsAbsent, OneRowUnlessRaced
<1> QED
    BY <1>1, <1>2, <1>3, <1>5, <1>6 DEF IInv

(* A step that ends a login and may insert the row of its number.          *)
LEMMA EndInvariant ==
    ASSUME IInv, NEW t \in Threads, NEW from \in {"exist", "insert"},
           Step(t, from, "idle"),
           \/ rows' = rows /\ rows[mobile[t]] > 0
           \/ from = "insert" /\ rows' = [rows EXCEPT ![mobile[t]] = @ + 1],
           Succeed(t) \/ UNCHANGED success,
           UNCHANGED <<m2c, mobile, icode, made, told, valid, shared, missed>>
    PROVE  IInv'
<1> USE DEF Step, Goto, Succeed
<1>1. LoginTypes'
    BY DEF IInv, LoginTypes
<1>2. /\ \A m \in Mobiles : rows[m] \in Nat /\ rows'[m] \in Nat
      /\ \A m \in Mobiles : m # mobile[t] => rows'[m] = rows[m]
      /\ \A m \in Mobiles : rows'[m] >= rows[m]
      /\ rows'[mobile[t]] > 0 /\ mobile[t] \in Mobiles
    BY DEF IInv, LoginTypes
<1>3. InForce'
    BY DEF IInv, LoginTypes, InForce
<1>4. PastCheckVerified'
    BY DEF IInv, LoginTypes, PastCheckVerified, Verified
<1>5. OneAtATime'
    BY DEF IInv, LoginTypes, OneAtATime, Active
<1>6. ASSUME NEW n \in Mobiles \ shared
      PROVE  /\ \A u \in Threads : Active(u, n)' /\ pc'[u] = "tell" => m2c'[n] = icode'[u]
             /\ (\A u \in Threads : Active(u, n)' => pc'[u] # "tell") => m2c'[n] = told'[n]
    <2>1. \A u \in Threads : pc'[u] = "tell" <=> pc[u] = "tell"
        BY DEF IInv, LoginTypes
    <2> QED
        BY <2>1 DEF IInv, LoginTypes, StoredCodeIsTold, Active
<1>7. StoredCodeIsTold'
    BY <1>6 DEF StoredCodeIsTold
<1>8. InsertsAbsent'
    <2> SUFFICES ASSUME NEW u \in Threads, pc'[u] = "insert", mobile[u] \notin shared \cup missed
                 PROVE  rows'[mobile[u]] = 0
        BY DEF InsertsAbsent
    <2>1. u # t /\ pc[u] = "insert"
        BY DEF IInv, LoginTypes
    <2>2. mobile[u] # mobile[t]
        BY <2>1, <1>2 DEF IInv, LoginTypes, OneAtATime, Active
    <2> QED
        BY <2>1, <2>2, <1>2 DEF IInv, LoginTypes, InsertsAbsent
<1>9. OneRowUnlessRaced'
    <2> SUFFICES ASSUME NEW m \in Mobiles \ (shared \cup missed) PROVE rows'[m] <= 1
        BY DEF OneRowUnlessRaced
    <2>1. CASE rows'[m] = rows[m]
        BY <2>1 DEF IInv, OneRowUnlessRaced
    <2>2. CASE rows'[m] # rows[m]
        <3>1. m = mobile[t] /\ from = "insert" /\ rows'[m] = rows[m] + 1
            BY <2>2, <1>2 DEF IInv, LoginTypes
        <3>2. rows[m] = 0
            BY <3>1 DEF IInv, InsertsAbsent
        <3> QED
            BY <3>1, <3>2
    <2> QED
        BY <2>1, <2>2
<1> QED
    BY <1>1, <1>3, <1>4, <1>5, <1>7, <1>8, <1>9 DEF IInv

-------------------------------------------------------------------------------
LEMMA HandleInvariant ==
    ASSUME IInv, NEW t \in Threads, Handle(t)
    PROVE  IInv'
<1> USE DEF tables, history
<1>1. CASE StoreCode(t)
    BY <1>1, StoreCodeInvariant
<1>2. CASE TellCode(t)
    BY <1>2, TellCodeInvariant
<1>3. ASSUME NEW from \in {"check", "connect", "insert"}, Fail(t, from)
      PROVE  IInv'
    BY <1>3, MoveInvariant DEF Fail, IInv, LoginTypes
<1>4. CASE CheckCode(t)
    <2>1. CASE Fail(t, "check")
        BY <1>3, <2>1
    <2>2. CASE CodeIsGood(t) /\ Step(t, "check", "connect")
               /\ UNCHANGED <<tables, mobile, icode, made, history>>
        <3>1. Verified(t)
            BY <2>2 DEF CodeIsGood, Step, Verified, IInv, InForce
        <3> QED
            BY <2>2, <3>1, MoveInvariant DEF IInv, LoginTypes
    <2> QED
        BY <1>4, <2>1, <2>2 DEF CheckCode
<1>5. CASE Connect(t)
    <2>1. CASE Fail(t, "connect")
        BY <1>3, <2>1
    <2>2. CASE Step(t, "connect", "exist") /\ UNCHANGED <<tables, mobile, icode, made, history>>
        <3>1. Verified(t)
            BY <2>2 DEF Step, IInv, PastCheckVerified
        <3> QED
            BY <2>2, <3>1, MoveInvariant DEF IInv, LoginTypes
    <2> QED
        BY <1>5, <2>1, <2>2 DEF Connect
<1>6. CASE Exist(t)
    <2>1. ASSUME Step(t, "exist", "idle"), rows[mobile[t]] > 0, Succeed(t),
                 UNCHANGED <<tables, mobile, icode, made, told, valid, shared, missed>>
          PROVE  IInv'
        BY <2>1, EndInvariant
    <2>2. ASSUME Step(t, "exist", "insert"),
                 (rows[mobile[t]] = 0 /\ missed' = missed)
                     \/ missed' = IF rows[mobile[t]] > 0 THEN missed \cup {mobile[t]} ELSE missed,
                 UNCHANGED <<tables, mobile, icode, made, told, valid, success, shared>>
          PROVE  IInv'
        <3>1. Verified(t)
            BY <2>2 DEF Step, IInv, PastCheckVerified
        <3>2. /\ rows[mobile[t]] = 0 \/ mobile[t] \in missed'
              /\ missed \subseteq missed' /\ missed' \subseteq Mobiles
            BY <2>2 DEF IInv, LoginTypes
        <3> QED
            BY <2>2, <3>1, <3>2, MoveInvariant
    <2> QED
        BY <1>6, <2>1, <2>2 DEF Exist
<1>7. CASE Insert(t)
    <2>1. ASSUME Step(t, "insert", "idle"), rows' = [rows EXCEPT ![mobile[t]] = @ + 1],
                 Succeed(t) \/ UNCHANGED success,
                 UNCHANGED <<m2c, mobile, icode, made, told, valid, shared, missed>>
          PROVE  IInv'
        BY <2>1, EndInvariant
    <2> QED
        BY <1>3, <1>7, <2>1 DEF Insert
<1> QED
    BY <1>1, <1>2, <1>4, <1>5, <1>6, <1>7 DEF Handle

LEMMA NextInvariant == IInv /\ [LoginNext]_loginVars => IInv'
<1> SUFFICES ASSUME IInv, [LoginNext]_loginVars PROVE IInv'
    OBVIOUS
<1>1. CASE UNCHANGED loginVars
    BY <1>1 DEF loginVars, tables, history, IInv, LoginTypes, InForce, PastCheckVerified, Verified,
                OneAtATime, StoredCodeIsTold, InsertsAbsent, OneRowUnlessRaced, Active
<1>2. ASSUME NEW t \in Threads, NEW m \in Mobiles, NEW c \in Codes,
             Begin(t, m, c, "store") \/ Begin(t, m, c, "check")
      PROVE  IInv'
    BY <1>2, BeginInvariant
<1>3. ASSUME NEW t \in Threads, Handle(t) PROVE IInv'
    BY <1>3, HandleInvariant
<1> QED
    BY <1>1, <1>2, <1>3 DEF LoginNext, Finished

LEMMA Invariant == LoginSpec => []IInv
<1> QED
    BY InitInvariant, NextInvariant, PTL DEF LoginSpec

-------------------------------------------------------------------------------
(* Only Exist and Insert answer with success, and only Insert makes a row. *)
LEMMA StepIsVerified ==
    ASSUME IInv, [LoginNext]_loginVars
    PROVE  /\ \A t \in success' \ success : Verified(t) /\ rows'[mobile[t]] > 0
           /\ \A m \in Mobiles : rows'[m] # rows[m] =>
                 \E t \in Threads : pc'[t] # pc[t] /\ mobile[t] = m /\ Verified(t)
<1> DEFINE Registers == /\ \A t \in success' \ success : Verified(t) /\ rows'[mobile[t]] > 0
                        /\ \A m \in Mobiles : rows'[m] # rows[m] =>
                              \E t \in Threads : pc'[t] # pc[t] /\ mobile[t] = m /\ Verified(t)
<1>1. ASSUME success' \subseteq success, rows' = rows PROVE Registers
    BY <1>1
<1>2. CASE UNCHANGED loginVars
    BY <1>1, <1>2 DEF loginVars, history, tables
<1>3. ASSUME NEW t \in Threads, NEW m \in Mobiles, NEW c \in Codes,
             Begin(t, m, c, "store") \/ Begin(t, m, c, "check")
      PROVE  Registers
    BY <1>1, <1>3 DEF Begin, tables
<1>4. ASSUME NEW t \in Threads, NEW from, Fail(t, from) PROVE Registers
    BY <1>1, <1>4 DEF Fail, history, tables
<1>5. ASSUME NEW t \in Threads, StoreCode(t) \/ TellCode(t) \/ CheckCode(t) \/ Connect(t)
      PROVE  Registers
    <2>1. CASE StoreCode(t) \/ TellCode(t)
        BY <1>1, <2>1 DEF StoreCode, TellCode, tables
    <2>2. CASE CheckCode(t) \/ Connect(t)
        BY <1>1, <1>4, <2>2 DEF CheckCode, Connect, history, tables
    <2> QED
        BY <1>5, <2>1, <2>2
<1>6. ASSUME NEW t \in Threads, Exist(t) PROVE Registers
    <2>1. CASE success' = success
        BY <1>1, <1>6, <2>1 DEF Exist, history, tables
    <2>2. CASE success' # success
        <3>1. pc[t] = "exist" /\ rows[mobile[t]] > 0 /\ Succeed(t) /\ rows' = rows
            BY <1>6, <2>2 DEF Exist, Step, history, tables
        <3>2. Verified(t)
            BY <3>1 DEF IInv, PastCheckVerified
        <3> QED
            BY <3>1, <3>2 DEF Succeed
    <2> QED
        BY <2>1, <2>2
<1>7. ASSUME NEW t \in Threads, Insert(t) PROVE Registers
    <2>1. CASE Fail(t, "insert")
        BY <1>4, <2>1
    <2>2. CASE /\ Step(t, "insert", "idle")
               /\ rows' = [rows EXCEPT ![mobile[t]] = @ + 1]
               /\ Succeed(t) \/ UNCHANGED success
        <3>1. Verified(t) /\ pc'[t] # pc[t]
            BY <2>2 DEF Step, Goto, IInv, LoginTypes, PastCheckVerified
        <3>2. /\ \A m \in Mobiles : m # mobile[t] => rows'[m] = rows[m]
              /\ rows'[mobile[t]] > 0
            BY <2>2 DEF IInv, LoginTypes
        <3> QED
            BY <2>2, <3>1, <3>2 DEF Succeed
    <2> QED
        BY <1>7, <2>1, <2>2 DEF Insert
<1> QED
    BY <1>2, <1>3, <1>5, <1>6, <1>7 DEF LoginNext, Finished, Handle

(* Whatever the database does, whatever codes other workers store and      *)
(* however many workers there are: success is told and a row created only  *)
(* for a request with a code that was in force for its number since the    *)
(* request began (user_event_handler.cpp:109, :135).                       *)
THEOREM RegistrationIsVerified == LoginSpec => RegistrationNeedsCode
<1>1. IInv /\ [LoginNext]_loginVars =>
          [/\ \A t \in success' \ success : Verified(t) /\ rows'[mobile[t]] > 0
           /\ \A m \in Mobiles : rows'[m] # rows[m] =>
                 \E t \in Threads : pc'[t] # pc[t] /\ mobile[t] = m /\ Verified(t)
          ]_loginVars
    BY StepIsVerified
<1> QED
    BY <1>1, Invariant, PTL DEF LoginSpec, RegistrationNeedsCode

(* The code a number was told last is in force unless two requests for it  *)
(* have met (user_event_handler.cpp:80).                                   *)
THEOREM CodesAreCurrent == LoginSpec => []ToldCodeIsCurrent
<1>1. IInv => ToldCodeIsCurrent
    BY DEF IInv, LoginTypes, StoredCodeIsTold, ToldCodeIsCurrent, Active
<1> QED
    BY <1>1, Invariant, PTL

(* Without such a meeting and without a failed query the check before the  *)
(* insertion keeps a number to one row (user_event_handler.cpp:119).       *)
THEOREM RowsAreUnique == LoginSpec => []OneRowUnlessRaced
<1>1. IInv => OneRowUnlessRaced
    BY DEF IInv
<1> QED
    BY <1>1, Invariant, PTL
===============================================================================
