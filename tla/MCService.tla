------------------------------- MODULE MCService -------------------------------
(***************************************************************************)
(* The service from its construction to its end (Dispatch) and the         *)
(* handlers that its workers run (UserLogin), for one run of TLC: a        *)
(* behaviour is one of Dispatch, in which a handler is one step, or one of *)
(* UserLogin, which has the steps of the handlers and a service that       *)
(* stays.  The other's variables keep their initial values.                *)
(***************************************************************************)
EXTENDS UserLogin, Dispatch

(* What a thread worked with before its first request is never looked at;  *)
(* one value of it is enough.                                              *)
ServiceInit ==
    /\ Init
    /\ LoginInit
    /\ mobile = [t \in Threads |-> CHOOSE m \in Mobiles : TRUE]
    /\ icode = [t \in Threads |-> CHOOSE c \in Codes : TRUE]

ServiceNext ==
    \/ Next /\ made = 0 /\ UNCHANGED loginVars
    \/ LoginNext /\ main = "construct" /\ UNCHANGED vars

ServiceSpec == ServiceInit /\ [][ServiceNext]_<<vars, loginVars>> /\ Fairness
===============================================================================
