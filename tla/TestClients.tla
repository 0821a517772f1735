------------------------------ MODULE TestClients ------------------------------
(***************************************************************************)
(* The client programs of src/test, several of them at one server, and     *)
(* what they see of it: all ask for a code for, and log in with, the one   *)
(* number that is written in their source.  A client sends a request for   *)
(* each line that is typed, whether or not the last has been answered, and *)
(* keeps the code of the last response it has read.                        *)
(*                                                                         *)
(* server_msg_cb is called when bytes have come, takes all of them, and    *)
(* looks at one response.  TCP may deliver a response in two pieces        *)
(* ("head", "tail"), and two responses at once.                            *)
(*                                                                         *)
(* The server keeps one code for the number (m2c_) and answers the         *)
(* requests of a connection in their order, or closes it.  That a response *)
(* can stray to another connection is the subject of BikeServer, and left  *)
(* out here.                                                               *)
(***************************************************************************)
EXTENDS Naturals, Sequences, FiniteSets

CONSTANTS
    Clients,
    Codes,          (* what code_gen may choose, positive numbers *)
    MaxCommands     (* lines typed in all *)

Unset == 0          (* no code: code_gen makes numbers of six digits *)

VARIABLES
    icode,          (* the code each client holds *)
    typed,          (* lines typed so far *)
    requests,       (* what each client has sent and the server not handled *)
    responses,      (* pieces on their way to each client *)
    open,           (* the clients that still have a connection *)
    m2c,            (* the code of the number, at the server *)
    asker,          (* history: the clients whose request set that code *)
    unheard,        (* history: codes set for a client and not yet handled by it *)
    mangled,        (* history: clients that got a response cut or behind another *)
    hasty,          (* history: clients that logged in without a code of their own *)
    refused,        (* history: clients whose code was refused *)
    overtaken       (* history: those of them that somebody else's code stood against *)

serverVars == <<m2c, asker, refused, overtaken>>
vars == <<icode, typed, requests, responses, open, serverVars, unheard, mangled, hasty>>

Init ==
    /\ icode = [c \in Clients |-> Unset] /\ typed = 0
    /\ requests = [c \in Clients |-> <<>>]
    /\ responses = [c \in Clients |-> <<>>]
    /\ open = Clients
    /\ m2c = Unset /\ asker = {} /\ refused = {} /\ overtaken = {}
    /\ unheard = [c \in Clients |-> 0] /\ mangled = {} /\ hasty = {}

-------------------------------------------------------------------------------
(* cmd_msg_cb *)

Type(c, request) ==
    /\ c \in open /\ typed < MaxCommands
    /\ typed' = typed + 1
    /\ requests' = [requests EXCEPT ![c] = Append(@, request)]
    /\ UNCHANGED <<icode, responses, open, serverVars, mangled>>

send_mr(c) ==
    /\ Type(c, [event |-> "mobile", code |-> Unset])
    /\ unheard' = [unheard EXCEPT ![c] = @ + 1]
    /\ UNCHANGED hasty

send_lr(c) ==
    /\ Type(c, [event |-> "login", code |-> icode[c]])
    /\ hasty' = IF unheard[c] > 0 \/ icode[c] = Unset THEN hasty \cup {c} ELSE hasty
    /\ UNCHANGED unheard

-------------------------------------------------------------------------------
(* The server: handle_mobile_code_req and handle_login_req *)

Piece(kind, event, code) == [kind |-> kind, event |-> event, code |-> code]

Deliver(c, event, code) ==
    \E pieces \in {<<Piece("whole", event, code)>>,
                   <<Piece("head", event, code), Piece("tail", event, code)>>} :
       responses' = [responses EXCEPT ![c] = @ \o pieces]

Take(c, event) ==
    /\ c \in open /\ requests[c] # <<>>
    /\ Head(requests[c]).event = event
    /\ requests' = [requests EXCEPT ![c] = Tail(@)]
    /\ UNCHANGED <<icode, typed, open, unheard, mangled, hasty>>

handle_mobile_code_req(c) ==
    /\ Take(c, "mobile")
    /\ \E code \in Codes :
          /\ m2c' = code
          /\ Deliver(c, "mobile", code)
    /\ asker' = {c}
    /\ UNCHANGED <<refused, overtaken>>

handle_login_req(c) ==
    LET good == m2c # Unset /\ Head(requests[c]).code = m2c IN
    /\ Take(c, "login")
    /\ Deliver(c, "login", Unset)
    /\ refused' = IF good THEN refused ELSE refused \cup {c}
    /\ overtaken' = IF good \/ c \in asker THEN overtaken ELSE overtaken \cup {c}
    /\ UNCHANGED <<m2c, asker>>

(* A timeout at the server, seen by event_cb: the bufferevent is freed.    *)
event_cb(c) ==
    /\ open' = open \ {c} /\ c \in open
    /\ UNCHANGED <<icode, typed, requests, responses, serverVars, unheard, mangled, hasty>>

-------------------------------------------------------------------------------
(* server_msg_cb *)

(* What a client may take from the pieces that have come: the code of the  *)
(* first response, if one starts there.  Of a cut one the bytes that are   *)
(* missing are whatever the stack held.                                    *)
Parsed(c, input) ==
    LET first == Head(input)
        complete == first.kind = "whole" \/ (first.kind = "head" /\ Len(input) > 1)
    IN  IF first.kind = "tail" \/ first.event = "login" THEN {icode[c]}
        ELSE IF complete THEN {first.code} ELSE {first.code, Unset, icode[c]}

(* They are one response.                                                  *)
Intact(input) ==
    \/ Len(input) = 1 /\ Head(input).kind = "whole"
    \/ Len(input) = 2 /\ Head(input).kind = "head"

(* How many codes they told of                                             *)
Told(input) ==
    Cardinality({i \in 1..Len(input) : input[i].event = "mobile" /\ input[i].kind # "tail"})

(* The first k pieces have come when the loop gets to the callback.        *)
Read(c, k) ==
    LET input == SubSeq(responses[c], 1, k) IN
    /\ c \in open /\ k \in 1..Len(responses[c])
    /\ responses' = [responses EXCEPT ![c] = SubSeq(@, k + 1, Len(@))]
    /\ mangled' = IF Intact(input) THEN mangled ELSE mangled \cup {c}
    /\ unheard' = [unheard EXCEPT ![c] = @ - Told(input)]
    /\ UNCHANGED <<typed, requests, open, serverVars, hasty>>

MutServerMsg(c, k) ==           \* keeps the first code it was told
    /\ Read(c, k)
    /\ \E code \in Parsed(c, SubSeq(responses[c], 1, k)) :
          icode' = [icode EXCEPT ![c] = IF @ = Unset THEN code ELSE @]

server_msg_cb(c, k) ==
    /\ Read(c, k)
    /\ \E code \in Parsed(c, SubSeq(responses[c], 1, k)) :
          icode' = [icode EXCEPT ![c] = code]

-------------------------------------------------------------------------------
Next ==
    \E c \in Clients :
       \/ send_mr(c) \/ send_lr(c)
       \/ handle_mobile_code_req(c) \/ handle_login_req(c) \/ event_cb(c)
       \/ \E k \in 1..Len(responses[c]) : server_msg_cb(c, k)

-------------------------------------------------------------------------------
(* Properties *)

(* A code is refused only to a client that did not wait for the response   *)
(* with it, that read a response in pieces or together with another (the   *)
(* second is thrown away, client.cc:138), or whose number another client   *)
(* has asked a code for since.                                             *)
RefusedForAReason == refused \subseteq hasty \cup mangled \cup overtaken
===============================================================================
