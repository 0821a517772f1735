------------------------------- MODULE UserLogin -------------------------------
(***************************************************************************)
(* The request handlers of src/src/user_event_handler.cpp, run by several  *)
(* worker threads at a time: verification codes in the map m2c_ under the  *)
(* mutex pm_, and the user table of the database, which every login        *)
(* reaches over a connection of its own.  The look-up, the query and the   *)
(* insertion of a login are separate steps, and the database may fail at   *)
(* each.                                                                   *)
(***************************************************************************)
EXTENDS Integers, Sequences, FiniteSets

CONSTANTS
    Threads,        (* the worker threads of the pool *)
    Mobiles,        (* telephone numbers *)
    Codes,          (* the codes code_gen chooses from *)
    NoCode,         (* m2c_ has no entry *)
    MaxRequests,    (* requests made in all *)
    QueryFails      (* the query of UserService::exist may fail *)

ASSUME NoCodeAssumption == NoCode \notin Codes
ASSUME MaxRequestsAssumption == MaxRequests \in Nat

VARIABLES
    m2c,            (* m2c_ *)
    rows,           (* rows of the table userinfo for each mobile *)
    pc,             (* the next step of each thread's handler *)
    mobile, icode,  (* the request or the code each thread works with *)
    made,           (* requests made so far *)
    told,           (* history: the code in the last response to each mobile *)
    valid,          (* history: what was m2c_'s entry for the mobile of each *)
                    (* thread's request at any time since it began *)
    success,        (* history: threads whose request got ERRC_SUCCESS *)
    shared,         (* history: mobiles that had two requests at one time *)
    missed          (* history: mobiles whose row a failed query hid *)

tables == <<m2c, rows>>
history == <<told, valid, success, shared, missed>>
loginVars == <<tables, pc, mobile, icode, made, history>>

LoginInit ==
    /\ m2c = [m \in Mobiles |-> NoCode]
    /\ rows = [m \in Mobiles |-> 0]
    /\ pc = [t \in Threads |-> "idle"]
    /\ mobile \in [Threads -> Mobiles] /\ icode \in [Threads -> Codes]
    /\ \A t, u \in Threads : mobile[t] = mobile[u] /\ icode[t] = icode[u]
    /\ made = 0
    /\ told = [m \in Mobiles |-> NoCode]
    /\ valid = [t \in Threads |-> {}]
    /\ success = {} /\ shared = {} /\ missed = {}

Goto(t, label) == pc' = [pc EXCEPT ![t] = label]
Step(t, from, to) == pc[t] = from /\ Goto(t, to)

(* A worker starts on a request for m: with the code it carries, or with   *)
(* the one that code_gen makes up.                                         *)
Begin(t, m, code, label) ==
    /\ Step(t, "idle", label)
    /\ made < MaxRequests
    /\ made' = made + 1
    /\ mobile' = [mobile EXCEPT ![t] = m]
    /\ icode' = [icode EXCEPT ![t] = code]
    /\ shared' = IF \E u \in Threads : pc[u] # "idle" /\ mobile[u] = m
                 THEN shared \cup {m} ELSE shared
    /\ valid' = [valid EXCEPT ![t] = {m2c[m]}]
    /\ success' = success \ {t}
    /\ UNCHANGED <<tables, told, missed>>

-------------------------------------------------------------------------------
(* handle_mobile_code_req *)

(* Requests for the mobile of t that are under way see m2c_ change.        *)
NowValid(t) ==
    valid' = [u \in Threads |->
                 IF pc[u] # "idle" /\ mobile[u] = mobile[t]
                 THEN valid[u] \cup {icode[t]} ELSE valid[u]]

MutStoreCode(t) ==          \* keeps the first code of a mobile
    /\ Step(t, "store", "tell")
    /\ m2c' = [m2c EXCEPT ![mobile[t]] = IF @ = NoCode THEN icode[t] ELSE @]
    /\ NowValid(t)
    /\ UNCHANGED <<rows, mobile, icode, made, told, success, shared, missed>>

StoreCode(t) ==
    /\ Step(t, "store", "tell")
    /\ m2c' = [m2c EXCEPT ![mobile[t]] = icode[t]]
    /\ NowValid(t)
    /\ UNCHANGED <<rows, mobile, icode, made, told, success, shared, missed>>

TellCode(t) ==
    /\ Step(t, "tell", "idle")
    /\ told' = [told EXCEPT ![mobile[t]] = icode[t]]
    /\ UNCHANGED <<tables, mobile, icode, made, valid, success, shared, missed>>

-------------------------------------------------------------------------------
(* handle_login_req.  Every failure ends in a response that is no success  *)
(* and changes nothing else.                                               *)

Fail(t, from) ==
    /\ Step(t, from, "idle")
    /\ UNCHANGED <<tables, mobile, icode, made, history>>

Succeed(t) == success' = success \cup {t}

MutCodeIsGood(t) == m2c[mobile[t]] # NoCode     \* any code passes for a known mobile

CodeIsGood(t) == m2c[mobile[t]] = icode[t]

CheckCode(t) ==
    \/ ~CodeIsGood(t) /\ Fail(t, "check")
    \/ /\ CodeIsGood(t)
       /\ Step(t, "check", "connect")
       /\ UNCHANGED <<tables, mobile, icode, made, history>>

Connect(t) ==
    \/ Fail(t, "connect")
    \/ /\ Step(t, "connect", "exist")
       /\ UNCHANGED <<tables, mobile, icode, made, history>>

MutExistTwo(t) ==           \* off by one in the number of rows
    \/ /\ Step(t, "exist", "idle")
       /\ rows[mobile[t]] > 1
       /\ Succeed(t)
       /\ UNCHANGED <<tables, mobile, icode, made, told, valid, shared, missed>>
    \/ /\ Step(t, "exist", "insert")
       /\ rows[mobile[t]] <= 1
       /\ UNCHANGED <<tables, mobile, icode, made, history>>

(* UserService::exist: a failed query counts as "no such user".            *)
Exist(t) ==
    \/ /\ Step(t, "exist", "idle")
       /\ rows[mobile[t]] > 0
       /\ Succeed(t)
       /\ UNCHANGED <<tables, mobile, icode, made, told, valid, shared, missed>>
    \/ /\ Step(t, "exist", "insert")
       /\ rows[mobile[t]] = 0
       /\ UNCHANGED <<tables, mobile, icode, made, history>>
    \/ /\ QueryFails
       /\ Step(t, "exist", "insert")
       /\ missed' = IF rows[mobile[t]] > 0 THEN missed \cup {mobile[t]} ELSE missed
       /\ UNCHANGED <<tables, mobile, icode, made, told, valid, success, shared>>

(* UserService::insert: the server may lose the connection before or after *)
(* it has stored the row.                                                  *)
Insert(t) ==
    \/ /\ Step(t, "insert", "idle")
       /\ rows' = [rows EXCEPT ![mobile[t]] = @ + 1]
       /\ Succeed(t) \/ UNCHANGED success
       /\ UNCHANGED <<m2c, mobile, icode, made, told, valid, shared, missed>>
    \/ Fail(t, "insert")

-------------------------------------------------------------------------------
Handle(t) ==
    \/ StoreCode(t) \/ TellCode(t)
    \/ CheckCode(t) \/ Connect(t) \/ Exist(t) \/ Insert(t)

Finished == made = MaxRequests /\ (\A t \in Threads : pc[t] = "idle") /\ UNCHANGED loginVars

LoginNext ==
    \/ \E t \in Threads, m \in Mobiles, c \in Codes :
          Begin(t, m, c, "store") \/ Begin(t, m, c, "check")
    \/ \E t \in Threads : Handle(t)
    \/ Finished

LoginSpec == LoginInit /\ [][LoginNext]_loginVars

-------------------------------------------------------------------------------
(* Properties *)

LoginTypes ==
    /\ m2c \in [Mobiles -> Codes \cup {NoCode}]
    /\ rows \in [Mobiles -> Nat]
    /\ pc \in [Threads -> {"idle", "store", "tell", "check", "connect", "exist", "insert"}]
    /\ mobile \in [Threads -> Mobiles]
    /\ icode \in [Threads -> Codes]
    /\ made \in 0..MaxRequests
    /\ told \in [Mobiles -> Codes \cup {NoCode}]
    /\ valid \in [Threads -> SUBSET (Codes \cup {NoCode})]
    /\ success \subseteq Threads
    /\ shared \subseteq Mobiles /\ missed \subseteq Mobiles

(* The code that a login carries was the one in force for its number at    *)
(* some moment since the login began.                                      *)
Verified(t) == icode[t] \in valid[t]

(* Whatever the database does and whatever codes other workers store       *)
(* meanwhile: a login is answered with ERRC_SUCCESS, and a row is created, *)
(* only by a request that carries the code of its number                   *)
(* (user_event_handler.cpp:109); an old code or a wrong one never gets to  *)
(* the table.  Success also means that the row is there.                   *)
RegistrationNeedsCode ==
    [][/\ \A t \in success' \ success : Verified(t) /\ rows'[mobile[t]] > 0
       /\ \A m \in Mobiles : rows'[m] # rows[m] =>
             \E t \in Threads : pc'[t] # pc[t] /\ mobile[t] = m /\ Verified(t)
      ]_loginVars

(* Every variable has its type.  For a number with one request at a time:  *)
(* the code it was told last is the code that a login is compared with.    *)
ToldCodeIsCurrent ==
    /\ LoginTypes
    /\ \A m \in Mobiles \ shared :
          (\A t \in Threads : pc[t] # "idle" => mobile[t] # m) => m2c[m] = told[m]

(* A number has one row, also after an insertion that was reported as lost *)
(* and tried again, unless two requests for it met or a query failed.      *)
OneRowUnlessRaced == \A m \in Mobiles \ (shared \cup missed) : rows[m] <= 1

(* user_event_handler.cpp:119 inserts a number that does not exist in the  *)
(* database: no number has two rows.                                       *)
OneRowPerMobile == \A m \in Mobiles : rows[m] <= 1
===============================================================================
