------------------------------ MODULE Connection ------------------------------
(***************************************************************************)
(* One client connection of src/src/NetworkInterface.cpp: how the bytes of *)
(* the TCP stream become requests.  The client writes the packets of a     *)
(* script one after the other, each a fixed header (identifier, event id,  *)
(* body length) and a body; the network delivers the bytes in pieces of    *)
(* any size; each piece that reaches the bufferevent causes one call of    *)
(* handle_request.  A byte is known by its position in the stream.         *)
(***************************************************************************)
EXTENDS Integers, Sequences, FiniteSetsExt

CONSTANTS
    HeaderLen,      (* MESSAGE_HEADER_LEN *)
    MaxMessageLen,  (* MAX_MESSAGE_LEN *)
    Scripts         (* the packet sequences a client may send *)

(* id: the header starts with MESSAGE_HEADER_ID; len: the body length the  *)
(* header announces; known: parseEvent makes an event of it.               *)
Packets == [id : BOOLEAN, len : Nat, known : BOOLEAN]

ASSUME LengthsAssumption == HeaderLen \in Nat \ {0} /\ MaxMessageLen \in Nat
ASSUME ScriptsAssumption == Scripts \subseteq Seq(Packets)

VARIABLES
    script,         (* what this client sends *)
    arrived,        (* bytes that have reached the bufferevent *)
    pos,            (* bytes the server has read from its input buffer *)
    conn,           (* "open", or what ended the connection *)
    session_stat, req_stat,
    header,         (* the bytes in cs->header *)
    read_buf,       (* the bytes in cs->read_buf *)
    inflight,       (* the fate of the event given to enqueue *)
    requests,       (* history: the body of each request made an event *)
    answered        (* history: the number of responses written *)

session == <<session_stat, req_stat, header, read_buf>>
history == <<requests, answered>>
vars == <<script, arrived, pos, conn, session, inflight, history>>

Init ==
    /\ script \in Scripts
    /\ arrived = 0 /\ pos = 0
    /\ conn = "open"
    /\ session_stat = "SS_REQUEST" /\ req_stat = "MS_READ_HEADER"
    /\ header = <<>> /\ read_buf = <<>>
    /\ inflight = "none"
    /\ requests = <<>> /\ answered = 0

-------------------------------------------------------------------------------
(* The stream: packet k occupies the positions from Start(k) on.           *)

Bytes(from, count) == [i \in 1..count |-> from + i - 1]

Start(k) ==
    LET end[j \in 0..Len(script)] ==
          IF j = 0 THEN 0 ELSE end[j - 1] + HeaderLen + script[j].len
    IN  end[k - 1]

(* All that the client has to say.                                         *)
Sendable == Start(Len(script) + 1)

(* Another m bytes reach the input buffer of the bufferevent.              *)
Arrive(m) ==
    /\ conn = "open"
    /\ arrived + m <= Sendable
    /\ arrived' = arrived + m
    /\ UNCHANGED script

-------------------------------------------------------------------------------
(* handle_request, called when m more bytes have arrived                   *)

(* cs->header after the read of line 146; it is not read again once full.  *)
HeaderRead(m) ==
    IF req_stat = "MS_READ_MESSAGE" THEN header
    ELSE header \o Bytes(pos, Min({HeaderLen - Len(header), arrived + m - pos}))

(* What the bytes of a full header say; a header that is none of the       *)
(* client's carries no identifier.                                         *)
Garbage == [id |-> FALSE, len |-> 0, known |-> FALSE]
Announced(h) ==
    LET ks == {k \in DOMAIN script : h = Bytes(Start(k), HeaderLen)}
    IN  IF ks = {} THEN Garbage ELSE script[CHOOSE k \in ks : TRUE]

WellFormed(p) == p.id /\ p.len >= 1 /\ p.len <= MaxMessageLen

MutBodyFrom(m) == pos       \* the header is peeked at, not removed

(* The first byte left in the input buffer by the read of the header.      *)
BodyFrom(m) == pos + Len(HeaderRead(m)) - Len(header)

(* cs->read_buf after the read of line 192                                 *)
BodyRead(m) ==
    read_buf \o Bytes(BodyFrom(m),
        Min({Announced(HeaderRead(m)).len - Len(read_buf), arrived + m - BodyFrom(m)}))

HeaderFull(m) == Len(HeaderRead(m)) = HeaderLen
BodyFull(m) == Len(BodyRead(m)) = Announced(HeaderRead(m)).len

(* A response is still due: nothing is read, the bytes stay in the buffer. *)
WrongState(m) ==
    /\ Arrive(m)
    /\ session_stat # "SS_REQUEST"
    /\ UNCHANGED <<pos, conn, session, inflight, history>>

ReadHeader(m) ==
    /\ Arrive(m)
    /\ session_stat = "SS_REQUEST"
    /\ ~HeaderFull(m)
    /\ header' = HeaderRead(m)
    /\ pos' = pos + Len(header') - Len(header)
    /\ UNCHANGED <<conn, session_stat, req_stat, read_buf, inflight, history>>

(* Wrong identifier or length: the connection is closed without a word.    *)
RejectHeader(m) ==
    /\ Arrive(m)
    /\ session_stat = "SS_REQUEST"
    /\ req_stat = "MS_READ_HEADER"
    /\ HeaderFull(m)
    /\ ~WellFormed(Announced(HeaderRead(m)))
    /\ conn' = "rejected"
    /\ UNCHANGED <<pos, session, inflight, history>>

(* The header is, or was already, complete and good.                       *)
InBody(m) ==
    /\ Arrive(m)
    /\ session_stat = "SS_REQUEST"
    /\ HeaderFull(m)
    /\ req_stat = "MS_READ_HEADER" => WellFormed(Announced(HeaderRead(m)))

ReadMessage(m) ==
    /\ InBody(m)
    /\ ~BodyFull(m)
    /\ header' = HeaderRead(m)
    /\ req_stat' = "MS_READ_MESSAGE"
    /\ read_buf' = BodyRead(m)
    /\ pos' = BodyFrom(m) + Len(read_buf') - Len(read_buf)
    /\ UNCHANGED <<conn, session_stat, inflight, history>>

(* The message is complete and parseEvent makes an event of it, which goes *)
(* to the thread pool: accepted, or lost if the queue overflows, since     *)
(* nobody looks at what enqueue returns.                                   *)
DispatchRequest(m) ==
    /\ InBody(m)
    /\ BodyFull(m)
    /\ Announced(HeaderRead(m)).known
    /\ session_stat' = "SS_RESPONSE"
    /\ req_stat' = "MS_READ_MESSAGE"
    /\ header' = HeaderRead(m)
    /\ read_buf' = <<>>
    /\ pos' = BodyFrom(m) + Len(BodyRead(m)) - Len(read_buf)
    /\ requests' = Append(requests, BodyRead(m))
    /\ inflight' \in {"queued", "lost"}
    /\ UNCHANGED <<conn, answered>>

(* The message is complete and is no request: closed without a word.       *)
RejectRequest(m) ==
    /\ InBody(m)
    /\ BodyFull(m)
    /\ ~Announced(HeaderRead(m)).known
    /\ conn' = "rejected"
    /\ UNCHANGED <<pos, session, inflight, history>>

handle_request ==
    \E m \in 1..(Sendable - arrived) :
        \/ WrongState(m) \/ ReadHeader(m) \/ RejectHeader(m)
        \/ ReadMessage(m) \/ DispatchRequest(m) \/ RejectRequest(m)

-------------------------------------------------------------------------------
MutSessionReset ==          \* forgets read_header_len
    /\ session_stat' = "SS_REQUEST"
    /\ req_stat' = "MS_READ_HEADER"
    /\ read_buf' = <<>>
    /\ UNCHANGED header

session_reset ==
    /\ session_stat' = "SS_REQUEST"
    /\ req_stat' = "MS_READ_HEADER"
    /\ read_buf' = <<>>
    /\ header' = <<>>

MutSendResponse ==          \* does not reset the session
    /\ conn = "open"
    /\ inflight = "queued"
    /\ inflight' = "none"
    /\ answered' = answered + 1
    /\ UNCHANGED <<script, arrived, pos, conn, session, requests>>

(* The event comes back as a response: it is written to the bufferevent    *)
(* and the session is reset, without another look at the input buffer.     *)
send_response_message ==
    /\ conn = "open"
    /\ inflight = "queued"
    /\ inflight' = "none"
    /\ answered' = answered + 1
    /\ session_reset
    /\ UNCHANGED <<script, arrived, pos, conn, requests>>

(* handle_error on end of file, on an error or on a timeout caused by a    *)
(* slow peer or a slow server: at any time.                                *)
handle_error ==
    /\ conn = "open"
    /\ conn' = "error"
    /\ UNCHANGED <<script, arrived, pos, session, inflight, history>>

(* handle_error on the read timeout that is bound to come when the client  *)
(* has nothing more to say and the server has nothing to do for it.        *)
IdleTimeout ==
    /\ conn = "open"
    /\ arrived = Sendable
    /\ inflight # "queued"
    /\ conn' = "timeout"
    /\ UNCHANGED <<script, arrived, pos, session, inflight, history>>

Closed == conn # "open" /\ UNCHANGED vars

Next ==
    \/ handle_request
    \/ send_response_message
    \/ handle_error \/ IdleTimeout
    \/ Closed

(* What the client has sent arrives, the worker and the main loop produce  *)
(* the response, the timer fires.  Nothing obliges a peer to disconnect.   *)
Fairness ==
    /\ WF_vars(handle_request)
    /\ WF_vars(send_response_message)
    /\ WF_vars(IdleTimeout)

Spec == Init /\ [][Next]_vars
FairSpec == Spec /\ Fairness

-------------------------------------------------------------------------------
(* Properties *)

(* Every variable has its type; the buffers are within their bounds.       *)
(* Checked as a part of InSync.                                            *)
TypeOK ==
    /\ script \in Scripts
    /\ arrived \in 0..Start(Len(script) + 1)
    /\ pos \in 0..arrived
    /\ conn \in {"open", "rejected", "error", "timeout"}
    /\ session_stat \in {"SS_REQUEST", "SS_RESPONSE"}
    /\ req_stat \in {"MS_READ_HEADER", "MS_READ_MESSAGE"}
    /\ Len(header) \in 0..HeaderLen
    /\ Len(read_buf) \in 0..MaxMessageLen
    /\ inflight \in {"none", "queued", "lost"}
    /\ Len(requests) \in 0..Len(script)
    /\ answered \in 0..Len(requests)

(* However the stream is cut into pieces, the server stands inside the     *)
(* packet that follows those it has answered: its header and its buffer    *)
(* hold the beginning of that packet and nothing has been read beyond.     *)
InSync ==
    /\ TypeOK
    /\ LET k == answered + 1 IN
       conn = "open" =>
           IF session_stat = "SS_RESPONSE" THEN pos = Start(k + 1)
           ELSE /\ header = Bytes(Start(k), Len(header))
                /\ read_buf = Bytes(Start(k) + HeaderLen, Len(read_buf))
                /\ pos = Start(k) + Len(header) + Len(read_buf)
                /\ read_buf # <<>> => Len(header) = HeaderLen

(* The packet whose body is b; 0 if b is the body of none.                 *)
PacketOf(b) ==
    LET ks == {k \in DOMAIN script :
                  b = Bytes(Start(k) + HeaderLen, script[k].len)}
    IN  IF ks = {} THEN 0 ELSE CHOOSE k \in ks : TRUE

Promised == INSTANCE Session
    WITH taken <- [k \in DOMAIN requests |-> PacketOf(requests[k])],
         due <- inflight

(* However the stream is cut, the connection does what Session promises:   *)
(* the k-th event is made from exactly the body of the k-th packet, one    *)
(* request is worked on at a time, a connection is closed for what it sent *)
(* if and only if its next packet cannot be a request (wrong identifier,   *)
(* length out of 1..MAX_MESSAGE_LEN, a body parseEvent does not know), an  *)
(* accepted request is answered while the connection lasts, and every      *)
(* connection ends.                                                        *)
ImplementsSession == Promised!Spec

(* If the pool loses nothing and the peer stays, every good packet that    *)
(* the client sends is answered (README.md:4 of the repository has this    *)
(* header solve both split and coalesced packets).                         *)
AllAnswered ==
    <>(\/ answered = Len(script)
       \/ conn \in {"error", "rejected"}
       \/ inflight = "lost")

(* It is for a client that sends a packet only when the one before has     *)
(* been answered, however its packets are split.                           *)
LockstepAnswered ==
    [](answered < Len(script) => arrived <= Start(answered + 2)) => AllAnswered
===============================================================================
