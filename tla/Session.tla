------------------------------- MODULE Session --------------------------------
(***************************************************************************)
(* What src/src/NetworkInterface.cpp promises to a client about its one    *)
(* connection, without bytes, buffers, headers or session states: packets  *)
(* become requests one at a time and in their order, each is answered      *)
(* before the next one is looked at, a packet that is no request ends the  *)
(* connection, and every connection ends.                                  *)
(***************************************************************************)
EXTENDS Integers, Sequences

CONSTANTS
    MaxMessageLen,  (* MAX_MESSAGE_LEN *)
    Scripts         (* the packet sequences a client may send *)

VARIABLES
    script,         (* what this client sends *)
    taken,          (* the packets made requests, by their numbers *)
    due,            (* the fate of the last request: "queued", "lost", or "none" *)
    answered,       (* the number of responses written *)
    conn            (* "open", or what ended the connection *)

svars == <<script, taken, due, answered, conn>>

Good(p) == p.id /\ p.len \in 1..MaxMessageLen /\ p.known

Init ==
    /\ script \in Scripts
    /\ taken = <<>>
    /\ due = "none"
    /\ answered = 0
    /\ conn = "open"

(* The server looks at the next packet only when it has answered the last. *)
Ready ==
    /\ conn = "open"
    /\ Len(taken) = answered
    /\ Len(taken) < Len(script)

(* The next packet goes to the thread pool, which accepts or loses it.     *)
Take ==
    /\ Ready
    /\ Good(script[Len(taken) + 1])
    /\ taken' = Append(taken, Len(taken) + 1)
    /\ due' \in {"queued", "lost"}
    /\ UNCHANGED <<script, answered, conn>>

(* The next packet is no request: the connection is closed without a word. *)
Refuse ==
    /\ Ready
    /\ ~Good(script[Len(taken) + 1])
    /\ conn' = "rejected"
    /\ UNCHANGED <<script, taken, due, answered>>

Answer ==
    /\ conn = "open"
    /\ due = "queued"
    /\ due' = "none"
    /\ answered' = answered + 1
    /\ UNCHANGED <<script, taken, conn>>

(* The peer goes away, the connection fails or its timer runs out.         *)
End ==
    /\ conn = "open"
    /\ conn' \in {"error", "timeout"}
    /\ UNCHANGED <<script, taken, due, answered>>

Next == Take \/ Refuse \/ Answer \/ End

(* What is accepted is answered while the connection lasts, and no         *)
(* connection lasts for ever once its client has nothing more to say.      *)
Fairness == WF_svars(Answer) /\ WF_svars(End)

Spec == Init /\ [][Next]_svars /\ Fairness
===============================================================================
