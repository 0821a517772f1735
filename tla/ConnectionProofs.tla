--------------------------- MODULE ConnectionProofs ---------------------------
(***************************************************************************)
(* Framing for every header length, limit and script: the server stays in  *)
(* step with the stream, and the connection does what Session promises.    *)
(***************************************************************************)
EXTENDS Connection, SequenceTheorems, WellFoundedInduction, TLAPS

-------------------------------------------------------------------------------
(* The positions of packets.  Start is a recursive function; that there is *)
(* one, and that it grows, is shown with least counterexamples.            *)

Below == {ss \in Nat \X Nat : ss[1] < ss[2]}

LEMMA LeastElement ==
    ASSUME NEW S \in SUBSET Nat, S # {}
    PROVE  \E x \in S : \A y \in S : x <= y
<1>1. Below = OpToRel(<, Nat)
    BY DEF OpToRel, Below
<1>2. PICK x \in S : \A y \in S : ~(<<y, x>> \in Below)
    BY <1>1, NatLessThanWellFounded, WFMin
<1>3. ASSUME NEW y \in S PROVE x <= y
    <2>1. x \in Nat /\ y \in Nat
        OBVIOUS
    <2>2. <<y, x>> \in Nat \X Nat /\ <<y, x>>[1] = y /\ <<y, x>>[2] = x
        BY <2>1
    <2>3. ~(y < x)
        BY <1>2, <2>2 DEF Below
    <2> QED
        BY <2>1, <2>3
<1> QED
    BY <1>3

(* Induction over 0..n, for a set.                                         *)
LEMMA UpTo ==
    ASSUME NEW n \in Nat, NEW S, 0 \in S,
           \A j \in 0..(n - 1) : j \in S => j + 1 \in S
    PROVE  \A j \in 0..n : j \in S
<1> DEFINE Bad == {j \in 0..n : j \notin S}
<1>1. ASSUME Bad # {} PROVE FALSE
    <2>1. PICK x \in Bad : \A y \in Bad : x <= y
        <3>1. Bad \in SUBSET Nat
            OBVIOUS
        <3> QED
            BY <1>1, <3>1, LeastElement
    <2>2. x \in 1..n /\ x \notin S
        OBVIOUS
    <2>3. x - 1 \in 0..(n - 1) /\ (x - 1) + 1 = x /\ ~(x <= x - 1) /\ x - 1 \in 0..n
        BY <2>2
    <2>4. x - 1 \in S
        BY <2>1, <2>3
    <2> QED
        BY <2>2, <2>3, <2>4
<1> QED
    BY <1>1

(* The equation of Start's function, up to the n-th packet of s.           *)
IsEnd(f, s, n) ==
    f = [j \in 0..n |-> IF j = 0 THEN 0 ELSE f[j - 1] + HeaderLen + s[j].len]

LEMMA EndGrows ==
    ASSUME NEW s \in Seq(Packets), NEW n \in Nat, n + 1 <= Len(s),
           NEW g \in [0..n -> Nat], IsEnd(g, s, n)
    PROVE  \E f \in [0..(n + 1) -> Nat] : IsEnd(f, s, n + 1)
<1> DEFINE next == g[n] + HeaderLen + s[n + 1].len
           f == [j \in 0..(n + 1) |-> IF j = n + 1 THEN next ELSE g[j]]
<1>1. s[n + 1] \in Packets
    BY ElementOfSeq, LenProperties
<1>2. next \in Nat
    BY <1>1, LengthsAssumption DEF Packets
<1>3. f \in [0..(n + 1) -> Nat]
    BY <1>2
<1>4. ASSUME NEW j \in 0..(n + 1)
      PROVE  f[j] = IF j = 0 THEN 0 ELSE f[j - 1] + HeaderLen + s[j].len
    <2>1. CASE j = n + 1
        <3>1. f[j] = next /\ f[j - 1] = g[n] /\ j # 0
            BY <2>1
        <3> QED
            BY <2>1, <3>1
    <2>2. CASE j \in 0..n
        <3>1. g[j] = IF j = 0 THEN 0 ELSE g[j - 1] + HeaderLen + s[j].len
            BY <2>2 DEF IsEnd
        <3>2. f[j] = g[j]
            BY <2>2
        <3>3. j # 0 => f[j - 1] = g[j - 1]
            BY <2>2
        <3> QED
            BY <3>1, <3>2, <3>3
    <2> QED
        BY <2>1, <2>2
<1> HIDE DEF next
<1>5. IsEnd(f, s, n + 1)
    BY <1>3, <1>4 DEF IsEnd
<1> QED
    BY <1>3, <1>5

LEMMA EndExists ==
    ASSUME NEW s \in Seq(Packets), NEW n \in Nat, n <= Len(s)
    PROVE  \E f \in [0..n -> Nat] : IsEnd(f, s, n)
<1> DEFINE Has(m) == \E f \in [0..m -> Nat] : IsEnd(f, s, m)
           S == {m \in 0..n : Has(m)}
<1>1. Has(0)
    <2> DEFINE f == [j \in 0..0 |-> 0]
    <2>1. f \in [0..0 -> Nat]
        OBVIOUS
    <2>2. f = [j \in 0..0 |-> IF j = 0 THEN 0 ELSE f[j - 1] + HeaderLen + s[j].len]
        OBVIOUS
    <2> QED
        BY <2>1, <2>2 DEF IsEnd
<1>2. ASSUME NEW m \in 0..(n - 1), Has(m)
      PROVE  Has(m + 1)
    <2>1. m \in Nat /\ m + 1 <= Len(s)
        BY LenProperties
    <2>2. PICK g \in [0..m -> Nat] : IsEnd(g, s, m)
        BY <1>2
    <2> QED
        BY <2>1, <2>2, EndGrows
<1> HIDE DEF Has
<1>3. 0 \in S /\ \A m \in 0..(n - 1) : m \in S => m + 1 \in S
    BY <1>1, <1>2
<1> HIDE DEF S
<1>4. n \in S
    <2>1. n \in 0..n
        OBVIOUS
    <2> QED
        BY <1>3, <2>1, UpTo
<1> QED
    BY <1>4 DEF S, Has

(* The equation has one solution.                                          *)
LEMMA EndUnique ==
    ASSUME NEW s, NEW n \in Nat, NEW f, NEW g, IsEnd(f, s, n), IsEnd(g, s, n)
    PROVE  f = g
<1> DEFINE S == {j \in 0..n : f[j] = g[j]}
<1>1. f[0] = 0 /\ g[0] = 0
    BY DEF IsEnd
<1>2. ASSUME NEW j \in 0..(n - 1), f[j] = g[j]
      PROVE  f[j + 1] = g[j + 1]
    <2>1. j + 1 \in 0..n /\ j + 1 # 0 /\ (j + 1) - 1 = j
        OBVIOUS
    <2>2. f[j + 1] = f[j] + HeaderLen + s[j + 1].len
        BY <2>1 DEF IsEnd
    <2>3. g[j + 1] = g[j] + HeaderLen + s[j + 1].len
        BY <2>1 DEF IsEnd
    <2> QED
        BY <1>2, <2>2, <2>3
<1>3. 0 \in S /\ \A j \in 0..(n - 1) : j \in S => j + 1 \in S
    BY <1>1, <1>2
<1> HIDE DEF S
<1>4. \A j \in 0..n : j \in S
    BY <1>3, UpTo
<1>5. \A j \in 0..n : f[j] = g[j]
    BY <1>4 DEF S
<1> QED
    BY <1>5 DEF IsEnd

EndOf(s) == CHOOSE f : IsEnd(f, s, Len(s))

LEMMA EndFacts ==
    ASSUME NEW s \in Seq(Packets)
    PROVE  /\ \A j \in 0..Len(s) : EndOf(s)[j] \in Nat
           /\ EndOf(s)[0] = 0
           /\ \A j \in 1..Len(s) : EndOf(s)[j] = EndOf(s)[j - 1] + HeaderLen + s[j].len
<1> DEFINE f == EndOf(s)
           n == Len(s)
<1>1. n \in Nat
    BY LenProperties
<1>2. PICK g \in [0..n -> Nat] : IsEnd(g, s, n)
    BY <1>1, EndExists
<1>3. IsEnd(f, s, n)
    BY <1>2 DEF EndOf
<1> HIDE DEF f, n
<1>4. f = g
    BY <1>1, <1>2, <1>3, EndUnique
<1>5. f[0] = 0 /\ \A j \in 1..n : f[j] = f[j - 1] + HeaderLen + s[j].len
    BY <1>1, <1>3 DEF IsEnd
<1>6. \A j \in 0..n : f[j] \in Nat
    BY <1>2, <1>4
<1> QED
    BY <1>5, <1>6 DEF f, n

(* Where packet k of s begins.                                             *)
At(s, k) == EndOf(s)[k - 1]

LEMMA StartIsAt == \A k : Start(k) = At(script, k)
BY DEF Start, At, EndOf, IsEnd

LEMMA AtFacts ==
    ASSUME NEW s \in Seq(Packets)
    PROVE  /\ At(s, 1) = 0
           /\ \A k \in 1..(Len(s) + 1) : At(s, k) \in Nat
           /\ \A k \in 1..Len(s) : At(s, k + 1) = At(s, k) + HeaderLen + s[k].len
<1> DEFINE f == EndOf(s)
           n == Len(s)
<1>1. /\ n \in Nat
      /\ \A j \in 0..n : f[j] \in Nat
      /\ f[0] = 0
      /\ \A j \in 1..n : f[j] = f[j - 1] + HeaderLen + s[j].len
    BY EndFacts, LenProperties
<1> HIDE DEF f, n
<1>2. \A k : At(s, k) = f[k - 1]
    BY DEF At, f
<1>3. At(s, 1) = 0
    <2>1. 1 - 1 = 0
        OBVIOUS
    <2> QED
        BY <1>1, <1>2, <2>1
<1>4. ASSUME NEW k \in 1..(n + 1) PROVE At(s, k) \in Nat
    <2>1. k - 1 \in 0..n
        BY <1>1
    <2> QED
        BY <1>1, <1>2, <2>1
<1>5. ASSUME NEW k \in 1..n PROVE At(s, k + 1) = At(s, k) + HeaderLen + s[k].len
    <2>1. (k + 1) - 1 = k
        BY <1>1
    <2> QED
        BY <1>1, <1>2, <2>1
<1> QED
    BY <1>3, <1>4, <1>5 DEF n

LEMMA PacketIs ==
    ASSUME NEW s \in Seq(Packets), NEW k \in 1..Len(s)
    PROVE  s[k] \in Packets /\ s[k].len \in Nat
<1>1. s[k] \in Packets
    BY ElementOfSeq
<1> QED
    BY <1>1 DEF Packets

(* The packets do not overlap.                                             *)
LEMMA SumGrows ==
    ASSUME NEW a \in Nat, NEW b \in Nat, NEW c \in Nat, NEW d, d = a + b + c
    PROVE  a <= d
OBVIOUS

LEMMA AtGrows ==
    ASSUME NEW s \in Seq(Packets),
           NEW i \in 1..Len(s), NEW j \in 1..(Len(s) + 1), i < j
    PROVE  At(s, i + 1) <= At(s, j)
<1> DEFINE n == Len(s)
           p(x) == At(s, i + 1 + x)
           d == n - i
           S == {x \in 0..d : p(0) <= p(x)}
<1>1. /\ n \in Nat /\ HeaderLen \in Nat /\ i \in 1..n /\ d \in Nat
      /\ i \in Int /\ j \in Int
    BY LenProperties, LengthsAssumption
<1>2. /\ \A k \in 1..(n + 1) : At(s, k) \in Nat
      /\ \A k \in 1..n : At(s, k + 1) = At(s, k) + HeaderLen + s[k].len
    BY AtFacts
<1>3. \A k \in 1..n : s[k].len \in Nat
    BY PacketIs
<1> HIDE DEF n
<1>4. ASSUME NEW x \in 0..d PROVE p(x) \in Nat
    <2>1. i + 1 + x \in 1..(n + 1)
        BY <1>1
    <2> QED
        BY <1>2, <2>1
<1>5. ASSUME NEW x \in 0..(d - 1) PROVE p(x) <= p(x + 1)
    <2> DEFINE k == i + 1 + x
    <2>1. k \in 1..n /\ i + 1 + (x + 1) = k + 1
        BY <1>1
    <2>2. At(s, k + 1) = At(s, k) + HeaderLen + s[k].len
        BY <1>2, <2>1
    <2>3. At(s, k) \in Nat /\ s[k].len \in Nat
        BY <1>1, <1>2, <1>3, <2>1
    <2> HIDE DEF k
    <2>4. At(s, k) <= At(s, k + 1)
        BY <1>1, <2>2, <2>3, SumGrows
    <2> QED
        BY <2>1, <2>4 DEF k
<1>6. 0 \in S /\ \A x \in 0..(d - 1) : x \in S => x + 1 \in S
    <2>1. 0 \in 0..d /\ \A x \in 0..(d - 1) : x \in 0..d /\ x + 1 \in 0..d
        BY <1>1
    <2>2. 0 \in S
        BY <1>4, <2>1
    <2>3. ASSUME NEW x \in 0..(d - 1), p(0) <= p(x) PROVE p(0) <= p(x + 1)
        <3>1. p(0) \in Nat /\ p(x) \in Nat /\ p(x + 1) \in Nat
            BY <1>4, <2>1
        <3>2. p(x) <= p(x + 1)
            BY <1>5
        <3> HIDE DEF p
        <3> QED
            BY <2>3, <3>1, <3>2
    <2> HIDE DEF p
    <2> QED
        BY <2>1, <2>2, <2>3
<1> HIDE DEF S
<1>7. \A x \in 0..d : x \in S
    BY <1>1, <1>6, UpTo
<1>8. j - (i + 1) \in 0..d /\ i + 1 + (j - (i + 1)) = j /\ i + 1 + 0 = i + 1
    BY <1>1 DEF n
<1>9. p(0) <= p(j - (i + 1))
    BY <1>7, <1>8 DEF S
<1> QED
    BY <1>8, <1>9

LEMMA AtApart ==
    ASSUME NEW s \in Seq(Packets),
           NEW i \in 1..Len(s), NEW j \in 1..Len(s), At(s, i) = At(s, j)
    PROVE  i = j
<1>1. Len(s) \in Nat
    BY LenProperties
<1>2. ASSUME NEW x \in 1..Len(s), NEW y \in 1..Len(s), x < y
      PROVE  At(s, x) # At(s, y)
    <2>1. At(s, x + 1) <= At(s, y)
        BY <1>1, <1>2, AtGrows
    <2>2. At(s, x + 1) = At(s, x) + HeaderLen + s[x].len
        BY AtFacts
    <2>3. /\ At(s, x) \in Nat /\ At(s, y) \in Nat
          /\ s[x].len \in Nat /\ HeaderLen \in Nat \ {0}
        BY <1>1, AtFacts, PacketIs, LengthsAssumption
    <2> QED
        BY <2>1, <2>2, <2>3
<1> QED
    BY <1>1, <1>2

-------------------------------------------------------------------------------
(* Runs of bytes.                                                          *)

LEMMA MinOfTwo ==
    ASSUME NEW x \in Int, NEW y \in Int
    PROVE  Min({x, y}) = IF x <= y THEN x ELSE y
<1> DEFINE least == IF x <= y THEN x ELSE y
<1>1. least \in {x, y} /\ \A z \in {x, y} : least <= z
    OBVIOUS
<1>2. \A w \in {x, y} : (\A z \in {x, y} : w <= z) => w = least
    OBVIOUS
<1> HIDE DEF least
<1>3. Min({x, y}) = least
    BY <1>1, <1>2 DEF Min
<1> QED
    BY <1>3 DEF least

LEMMA BytesAre ==
    ASSUME NEW a \in Nat, NEW c \in Nat
    PROVE  /\ Bytes(a, c) \in Seq(Nat) /\ Len(Bytes(a, c)) = c
           /\ \A i \in 1..c : Bytes(a, c)[i] = a + i - 1
<1>1. \A i \in 1..c : a + i - 1 \in Nat
    OBVIOUS
<1>2. Bytes(a, c) \in [1..c -> Nat]
    BY <1>1 DEF Bytes
<1>3. Bytes(a, c) \in Seq(Nat)
    BY <1>2, SeqDef
<1>4. Len(Bytes(a, c)) = c
    BY <1>2, <1>3, LenProperties
<1> QED
    BY <1>3, <1>4 DEF Bytes

LEMMA NoBytes == \A a : Bytes(a, 0) = <<>>
BY DEF Bytes

LEMMA BytesJoin ==
    ASSUME NEW a \in Nat, NEW c \in Nat, NEW d \in Nat
    PROVE  Bytes(a, c) \o Bytes(a + c, d) = Bytes(a, c + d)
<1> DEFINE u == Bytes(a, c)
           v == Bytes(a + c, d)
           w == Bytes(a, c + d)
<1>1. /\ u \in Seq(Nat) /\ Len(u) = c /\ \A i \in 1..c : u[i] = a + i - 1
      /\ v \in Seq(Nat) /\ Len(v) = d /\ \A i \in 1..d : v[i] = (a + c) + i - 1
      /\ w \in Seq(Nat) /\ Len(w) = c + d /\ \A i \in 1..(c + d) : w[i] = a + i - 1
    <2>1. a + c \in Nat /\ c + d \in Nat
        OBVIOUS
    <2> QED
        BY <2>1, BytesAre
<1> HIDE DEF u, v, w
<1>2. /\ u \o v \in Seq(Nat) /\ Len(u \o v) = c + d
      /\ \A i \in 1..(c + d) : (u \o v)[i] = IF i <= c THEN u[i] ELSE v[i - c]
    <2>1. u \in Seq(Nat) /\ v \in Seq(Nat) /\ Len(u) = c /\ Len(v) = d
        BY <1>1
    <2>2. /\ u \o v \in Seq(Nat) /\ Len(u \o v) = Len(u) + Len(v)
          /\ \A i \in 1..(Len(u) + Len(v)) :
                (u \o v)[i] = IF i <= Len(u) THEN u[i] ELSE v[i - Len(u)]
        BY <2>1, ConcatProperties
    <2> QED
        BY <2>1, <2>2
<1>3. ASSUME NEW i \in 1..(c + d) PROVE (u \o v)[i] = w[i]
    <2>1. CASE i <= c
        <3>1. i \in 1..c
            BY <2>1
        <3> QED
            BY <1>1, <1>2, <2>1, <3>1
    <2>2. CASE ~(i <= c)
        <3>1. i - c \in 1..d /\ (a + c) + (i - c) - 1 = a + i - 1
            BY <2>2
        <3> QED
            BY <1>1, <1>2, <2>2, <3>1
    <2> QED
        BY <2>1, <2>2
<1>4. u \o v = w
    BY <1>1, <1>2, <1>3, SeqEqual
<1> QED
    BY <1>4 DEF u, v, w

LEMMA BytesEqual ==
    ASSUME NEW a \in Nat, NEW b \in Nat, NEW c \in Nat, NEW d \in Nat,
           Bytes(a, c) = Bytes(b, d)
    PROVE  c = d /\ (c >= 1 => a = b)
<1>1. c = d
    BY BytesAre
<1>2. ASSUME c >= 1 PROVE a = b
    <2>1. 1 \in 1..c
        BY <1>2
    <2>2. Bytes(a, c)[1] = a + 1 - 1
        BY <2>1, BytesAre
    <2>3. Bytes(b, c)[1] = b + 1 - 1
        BY <2>1, BytesAre
    <2> QED
        BY <1>1, <2>2, <2>3
<1> QED
    BY <1>1, <1>2

-------------------------------------------------------------------------------
(* The inductive invariant.  It holds in closed connections too: nothing   *)
(* but conn and arrived changes when a connection ends.                    *)

Total == At(script, Len(script) + 1)

Streaming ==
    /\ script \in Scripts /\ script \in Seq(Packets)
    /\ arrived \in Nat /\ arrived <= Total
    /\ pos \in Nat /\ pos <= arrived
    /\ conn \in {"open", "rejected", "error", "timeout"}
    /\ session_stat \in {"SS_REQUEST", "SS_RESPONSE"}
    /\ req_stat \in {"MS_READ_HEADER", "MS_READ_MESSAGE"}
    /\ inflight \in {"none", "queued", "lost"}
    /\ answered \in Nat
    /\ Len(header) \in 0..HeaderLen
    /\ Len(read_buf) \in 0..MaxMessageLen

(* A request is being read: the next packet is where pos says, and what    *)
(* has been kept of it is its beginning.                                   *)
Requesting(k) ==
    /\ k <= Len(script) + 1
    /\ Len(requests) = answered /\ inflight = "none"
    /\ header = Bytes(At(script, k), Len(header))
    /\ read_buf = Bytes(At(script, k) + HeaderLen, Len(read_buf))
    /\ pos = At(script, k) + Len(header) + Len(read_buf)
    /\ req_stat = "MS_READ_HEADER" => Len(header) < HeaderLen /\ read_buf = <<>>
    /\ req_stat = "MS_READ_MESSAGE" =>
          /\ k <= Len(script) /\ WellFormed(script[k])
          /\ Len(header) = HeaderLen /\ Len(read_buf) < script[k].len

(* A response is due for packet k, and the packet is all that was read.    *)
Responding(k) ==
    /\ k <= Len(script)
    /\ Len(requests) = answered + 1 /\ inflight \in {"queued", "lost"}
    /\ pos = At(script, k + 1)
    /\ read_buf = <<>>

(* Each request was made of the body of the packet of its number.          *)
Taken ==
    /\ requests \in Seq(Seq(Nat))
    /\ \A j \in 1..Len(requests) :
          /\ j <= Len(script) /\ WellFormed(script[j]) /\ script[j].known
          /\ requests[j] = Bytes(At(script, j) + HeaderLen, script[j].len)

Framed ==
    /\ Streaming
    /\ session_stat = "SS_REQUEST" => Requesting(answered + 1)
    /\ session_stat = "SS_RESPONSE" => Responding(answered + 1)
    /\ Taken

LEMMA SendableIs == Sendable = Total
BY StartIsAt DEF Sendable, Total

(* A full header of packet k says what packet k is: no other packet begins *)
(* where it does.                                                          *)
LEMMA AnnouncedIs ==
    ASSUME script \in Seq(Packets), NEW k \in 1..Len(script)
    PROVE  Announced(Bytes(At(script, k), HeaderLen)) = script[k]
<1> DEFINE h == Bytes(At(script, k), HeaderLen)
           ks == {i \in DOMAIN script : h = Bytes(Start(i), HeaderLen)}
<1>1. DOMAIN script = 1..Len(script) /\ Len(script) \in Nat
    BY LenProperties
<1>2. k \in ks
    BY <1>1, StartIsAt
<1>3. ASSUME NEW i \in ks PROVE i = k
    <2>1. i \in 1..Len(script) /\ h = Bytes(At(script, i), HeaderLen)
        BY <1>1, StartIsAt
    <2>2. At(script, i) \in Nat /\ At(script, k) \in Nat
        BY <1>1, <2>1, AtFacts
    <2>3. At(script, i) = At(script, k)
        BY <2>1, <2>2, BytesEqual, LengthsAssumption
    <2> QED
        BY <2>1, <2>3, AtApart
<1>4. ks = {k}
    BY <1>2, <1>3
<1> HIDE DEF ks
<1>5. ks # {} /\ (CHOOSE i \in ks : TRUE) = k
    BY <1>4
<1>6. Announced(h) = script[k]
    BY <1>5 DEF Announced, ks
<1> QED
    BY <1>6

LEMMA PacketOfIs ==
    ASSUME script \in Seq(Packets), NEW k \in 1..Len(script), script[k].len >= 1
    PROVE  PacketOf(Bytes(At(script, k) + HeaderLen, script[k].len)) = k
<1> DEFINE b == Bytes(At(script, k) + HeaderLen, script[k].len)
           ks == {i \in DOMAIN script : b = Bytes(Start(i) + HeaderLen, script[i].len)}
<1>1. DOMAIN script = 1..Len(script) /\ Len(script) \in Nat
    BY LenProperties
<1>2. k \in ks
    BY <1>1, StartIsAt
<1>3. ASSUME NEW i \in ks PROVE i = k
    <2>1. i \in 1..Len(script) /\ b = Bytes(At(script, i) + HeaderLen, script[i].len)
        BY <1>1, StartIsAt
    <2>2. /\ At(script, i) \in Nat /\ At(script, k) \in Nat
          /\ script[i].len \in Nat /\ script[k].len \in Nat /\ HeaderLen \in Nat
        BY <1>1, <2>1, AtFacts, PacketIs, LengthsAssumption
    <2>3. At(script, k) + HeaderLen \in Nat /\ At(script, i) + HeaderLen \in Nat
        BY <2>2
    <2>4. At(script, k) + HeaderLen = At(script, i) + HeaderLen
        <3>1. /\ Bytes(At(script, k) + HeaderLen, script[k].len)
                   = Bytes(At(script, i) + HeaderLen, script[i].len)
              /\ script[k].len \in Nat /\ script[i].len \in Nat
              /\ script[k].len >= 1
            BY <2>1, <2>2
        <3> QED
            BY <2>3, <3>1, BytesEqual
    <2>5. At(script, i) = At(script, k)
        BY <2>2, <2>4
    <2> QED
        BY <2>1, <2>5, AtApart
<1>4. ks = {k}
    BY <1>2, <1>3
<1> HIDE DEF ks
<1>5. ks # {} /\ (CHOOSE i \in ks : TRUE) = k
    BY <1>4
<1>6. PacketOf(b) = k
    BY <1>5 DEF PacketOf, ks
<1> QED
    BY <1>6

(* What a call of handle_request has of the header of the next packet, k.  *)
LEMMA HeaderReading ==
    ASSUME Framed, session_stat = "SS_REQUEST", NEW m \in 1..(Sendable - arrived),
           NEW k, k = answered + 1
    PROVE  /\ k \in 1..Len(script) /\ At(script, k) \in Nat
           /\ Len(HeaderRead(m)) \in Len(header)..HeaderLen
           /\ HeaderRead(m) = Bytes(At(script, k), Len(HeaderRead(m)))
           /\ BodyFrom(m) = At(script, k) + Len(HeaderRead(m)) + Len(read_buf)
           /\ BodyFrom(m) <= arrived + m
           /\ req_stat = "MS_READ_MESSAGE" => HeaderRead(m) = header
           /\ HeaderFull(m) => Announced(HeaderRead(m)) = script[k]
           /\ read_buf # <<>> => HeaderFull(m)
<1> DEFINE a == At(script, k)
           c == Len(header)
           r == Len(read_buf)
           h == HeaderRead(m)
<1>1. /\ script \in Seq(Packets) /\ Len(script) \in Nat
      /\ arrived \in Nat /\ pos \in Nat /\ pos <= arrived /\ arrived + m <= Total
      /\ m \in Nat /\ m >= 1
      /\ c \in 0..HeaderLen /\ HeaderLen \in Nat \ {0} /\ r \in Nat
      /\ k \in Nat /\ k >= 1 /\ k <= Len(script) + 1
      /\ req_stat \in {"MS_READ_HEADER", "MS_READ_MESSAGE"}
    <2>1. Total \in Nat
        <3>1. script \in Seq(Packets) /\ Len(script) + 1 \in 1..(Len(script) + 1)
            BY LenProperties DEF Framed, Streaming
        <3> QED
            BY <3>1, AtFacts DEF Total
    <2>2. arrived \in Nat /\ answered \in Nat /\ Requesting(k)
        BY DEF Framed, Streaming
    <2>3. m \in Nat /\ m >= 1 /\ arrived + m <= Total
        BY <2>1, <2>2, SendableIs
    <2> QED
        BY <2>2, <2>3, LengthsAssumption, LenProperties DEF Framed, Streaming, Requesting
<1>2. /\ header = Bytes(a, c) /\ pos = a + c + r /\ read_buf = Bytes(a + HeaderLen, r)
      /\ req_stat = "MS_READ_HEADER" => c < HeaderLen /\ read_buf = <<>>
      /\ req_stat = "MS_READ_MESSAGE" => c = HeaderLen
    BY DEF Framed, Requesting
<1>3. a \in Nat
    BY <1>1, AtFacts
<1>4. k \in 1..Len(script)
    <2>1. ASSUME k = Len(script) + 1 PROVE FALSE
        <3>1. a = Total
            BY <2>1 DEF Total
        <3> HIDE DEF a, c, r
        <3> QED
            BY <1>1, <1>2, <1>3, <3>1
    <2> QED
        BY <1>1, <2>1
<1>5. CASE req_stat = "MS_READ_MESSAGE"
    <2>1. h = header /\ c = HeaderLen
        BY <1>2, <1>5 DEF HeaderRead
    <2>2. Announced(h) = script[k]
        BY <1>1, <1>2, <1>4, <2>1, AnnouncedIs
    <2>3. BodyFrom(m) = pos
        BY <1>1, <2>1 DEF BodyFrom
    <2>4. BodyFrom(m) = a + Len(h) + r /\ BodyFrom(m) <= arrived + m
        <3> HIDE DEF a, r, h
        <3> QED
            BY <1>1, <1>2, <1>3, <2>1, <2>3
    <2>5. Len(h) \in c..HeaderLen /\ HeaderFull(m)
        BY <1>1, <2>1 DEF HeaderFull
    <2> QED
        BY <1>2, <1>3, <1>4, <2>1, <2>2, <2>4, <2>5
<1>6. CASE req_stat = "MS_READ_HEADER"
    <2> DEFINE d == Min({HeaderLen - c, arrived + m - pos})
    <2>1. read_buf = <<>> /\ r = 0 /\ pos = a + c
        BY <1>1, <1>2, <1>3, <1>6, EmptySeq
    <2>2. d \in Nat /\ d <= HeaderLen - c /\ d <= arrived + m - pos
        <3>1. HeaderLen - c \in Nat /\ arrived + m - pos \in Nat
            BY <1>1
        <3> HIDE DEF c
        <3> QED
            BY <3>1, MinOfTwo
    <2> HIDE DEF d
    <2>3. h = Bytes(a, c + d)
        <3>1. h = Bytes(a, c) \o Bytes(a + c, d)
            BY <1>2, <1>6, <2>1 DEF HeaderRead, d
        <3>2. c \in Nat
            BY <1>1
        <3> QED
            BY <1>3, <2>2, <3>1, <3>2, BytesJoin
    <2>4. Len(h) = c + d
        <3>1. c + d \in Nat
            BY <1>1, <2>2
        <3> QED
            BY <1>3, <2>3, <3>1, BytesAre
    <2>5. Len(h) \in c..HeaderLen /\ h = Bytes(a, Len(h))
        BY <1>1, <2>2, <2>3, <2>4
    <2>6. BodyFrom(m) = a + Len(h) + r /\ BodyFrom(m) <= arrived + m
        <3>1. BodyFrom(m) = pos + (c + d) - c
            BY <2>4 DEF BodyFrom
        <3> HIDE DEF a, c, r, h
        <3> QED
            BY <1>1, <1>3, <2>1, <2>2, <2>4, <3>1
    <2>7. HeaderFull(m) => Announced(h) = script[k]
        BY <1>1, <1>4, <2>5, AnnouncedIs DEF HeaderFull
    <2> QED
        BY <1>3, <1>4, <1>6, <2>1, <2>5, <2>6, <2>7
<1> QED
    BY <1>1, <1>5, <1>6

(* What it has of the body, once the header is complete and good.          *)
LEMMA BodyReading ==
    ASSUME Framed, NEW m \in 1..(Sendable - arrived), InBody(m),
           NEW k, k = answered + 1
    PROVE  /\ k \in 1..Len(script) /\ WellFormed(script[k])
           /\ script[k].len \in 1..MaxMessageLen
           /\ Announced(HeaderRead(m)) = script[k]
           /\ Len(HeaderRead(m)) = HeaderLen
           /\ HeaderRead(m) = Bytes(At(script, k), HeaderLen)
           /\ Len(BodyRead(m)) \in 0..script[k].len
           /\ BodyRead(m) = Bytes(At(script, k) + HeaderLen, Len(BodyRead(m)))
           /\ BodyFrom(m) + Len(BodyRead(m)) - Len(read_buf)
                 = At(script, k) + HeaderLen + Len(BodyRead(m))
           /\ At(script, k) + HeaderLen + Len(BodyRead(m)) <= arrived + m
<1> DEFINE a == At(script, k)
           r == Len(read_buf)
           e == script[k].len
           b == BodyFrom(m)
           d == Min({e - r, arrived + m - b})
<1>1. session_stat = "SS_REQUEST" /\ HeaderFull(m)
    BY DEF InBody
<1>2. /\ k \in 1..Len(script) /\ a \in Nat
      /\ Len(HeaderRead(m)) = HeaderLen /\ HeaderRead(m) = Bytes(a, HeaderLen)
      /\ b = a + HeaderLen + r /\ b <= arrived + m
      /\ Announced(HeaderRead(m)) = script[k]
    BY <1>1, HeaderReading DEF HeaderFull
<1>3. /\ script \in Seq(Packets) /\ arrived \in Nat /\ r \in Nat
      /\ req_stat \in {"MS_READ_HEADER", "MS_READ_MESSAGE"}
      /\ HeaderLen \in Nat /\ MaxMessageLen \in Nat
    BY LengthsAssumption DEF Framed, Streaming
<1>4. m \in Nat
    BY <1>3, SendableIs
<1>5. Requesting(k)
    BY <1>1 DEF Framed
<1>6. WellFormed(script[k])
    <2>1. CASE req_stat = "MS_READ_HEADER"
        BY <1>2, <2>1 DEF InBody
    <2>2. CASE req_stat = "MS_READ_MESSAGE"
        BY <1>5, <2>2 DEF Requesting
    <2> QED
        BY <1>3, <2>1, <2>2
<1>7. e \in 1..MaxMessageLen
    <2>1. e \in Nat
        BY <1>2, <1>3, PacketIs
    <2>2. e >= 1 /\ e <= MaxMessageLen
        BY <1>6 DEF WellFormed
    <2> QED
        BY <1>3, <2>1, <2>2
<1>8. r <= e
    <2>1. CASE req_stat = "MS_READ_HEADER"
        <3>1. r = 0
            BY <1>5, <2>1, EmptySeq DEF Requesting
        <3> QED
            BY <1>7, <3>1
    <2>2. CASE req_stat = "MS_READ_MESSAGE"
        <3>1. r < e
            BY <1>5, <2>2 DEF Requesting
        <3> QED
            BY <1>3, <1>7, <3>1
    <2> QED
        BY <1>3, <2>1, <2>2
<1>9. read_buf = Bytes(a + HeaderLen, r)
    BY <1>5 DEF Requesting
<1>10. BodyRead(m) = Bytes(a + HeaderLen, r) \o Bytes((a + HeaderLen) + r, d)
    <2>1. b = (a + HeaderLen) + r
        BY <1>2
    <2> QED
        BY <1>2, <1>9, <2>1 DEF BodyRead
<1> HIDE DEF a, r, e, b
<1>11. d \in Nat /\ d <= e - r /\ d <= arrived + m - b
    <2>1. e - r \in Nat /\ arrived + m - b \in Nat
        BY <1>2, <1>3, <1>4, <1>7, <1>8
    <2> QED
        BY <2>1, MinOfTwo
<1> HIDE DEF d
<1>12. BodyRead(m) = Bytes(a + HeaderLen, r + d)
    <2>1. a + HeaderLen \in Nat
        BY <1>2, <1>3
    <2> QED
        BY <1>3, <1>10, <1>11, <2>1, BytesJoin
<1>13. Len(BodyRead(m)) = r + d
    <2>1. a + HeaderLen \in Nat /\ r + d \in Nat
        BY <1>2, <1>3, <1>11
    <2> QED
        BY <1>12, <2>1, BytesAre
<1>14. Len(BodyRead(m)) \in 0..e
    BY <1>3, <1>7, <1>11, <1>13
<1>15. /\ b + Len(BodyRead(m)) - r = a + HeaderLen + Len(BodyRead(m))
       /\ a + HeaderLen + Len(BodyRead(m)) <= arrived + m
    BY <1>2, <1>3, <1>4, <1>7, <1>11, <1>13
<1> QED
    BY <1>2, <1>6, <1>7, <1>12, <1>13, <1>14, <1>15 DEF a, r, e, b

-------------------------------------------------------------------------------

LEMMA FramedInit == Init => Framed
<1> SUFFICES ASSUME Init PROVE Framed
    OBVIOUS
<1>1. script \in Scripts /\ script \in Seq(Packets) /\ Len(script) \in Nat
    BY ScriptsAssumption, LenProperties DEF Init
<1>2. At(script, 1) = 0 /\ Total \in Nat
    <2>1. Len(script) + 1 \in 1..(Len(script) + 1)
        BY <1>1
    <2> QED
        BY <1>1, <2>1, AtFacts DEF Total
<1>3. Len(<<>>) = 0 /\ \A S : <<>> \in Seq(S)
    BY EmptySeq
<1>4. Streaming
    BY <1>1, <1>2, <1>3, LengthsAssumption DEF Init, Streaming
<1>5. Requesting(1)
    BY <1>1, <1>2, <1>3, NoBytes, LengthsAssumption DEF Init, Requesting
<1>6. Taken
    BY <1>3 DEF Init, Taken
<1>7. session_stat = "SS_REQUEST" /\ answered + 1 = 1
    BY DEF Init
<1> QED
    BY <1>4, <1>5, <1>6, <1>7 DEF Framed

LEMMA Arriving ==
    ASSUME Framed, NEW m \in 1..(Sendable - arrived), Arrive(m)
    PROVE  /\ script' = script /\ conn = "open" /\ m \in Nat
           /\ arrived' = arrived + m /\ arrived' \in Nat
           /\ arrived' <= Total /\ pos <= arrived'
<1>1. arrived \in Nat /\ pos \in Nat /\ pos <= arrived
    BY DEF Framed, Streaming
<1>2. script \in Seq(Packets) /\ Len(script) + 1 \in 1..(Len(script) + 1)
    BY LenProperties DEF Framed, Streaming
<1>3. Total \in Nat
    BY <1>2, AtFacts DEF Total
<1>4. m \in Nat /\ arrived + m <= Total
    BY <1>1, <1>3, SendableIs
<1> QED
    BY <1>1, <1>4 DEF Arrive

(* The steps that end the connection, or only let bytes arrive.            *)
LEMMA Undisturbed ==
    ASSUME Framed, UNCHANGED <<script, pos, session, inflight, history>>,
           arrived' \in Nat, arrived' <= Total, pos <= arrived',
           conn' \in {"open", "rejected", "error", "timeout"}
    PROVE  Framed'
<1>1. UNCHANGED <<script, pos, session_stat, req_stat, header, read_buf, inflight, requests, answered>>
    BY DEF session, history
<1>2. Streaming'
    BY <1>1 DEF Framed, Streaming, Total
<1>3. (session_stat = "SS_REQUEST" => Requesting(answered + 1))'
    BY <1>1 DEF Framed, Requesting, WellFormed
<1>4. (session_stat = "SS_RESPONSE" => Responding(answered + 1))'
    BY <1>1 DEF Framed, Responding
<1>5. Taken'
    BY <1>1 DEF Framed, Taken, WellFormed
<1> QED
    BY <1>2, <1>3, <1>4, <1>5 DEF Framed

LEMMA ReadHeaderFrames ==
    ASSUME Framed, NEW m \in 1..(Sendable - arrived), ReadHeader(m)
    PROVE  Framed'
<1> DEFINE k == answered + 1
           a == At(script, k)
           h == HeaderRead(m)
<1>1. /\ UNCHANGED <<script, conn, session_stat, req_stat, read_buf, inflight, requests, answered>>
      /\ header' = h /\ pos' = pos + Len(h) - Len(header)
      /\ session_stat = "SS_REQUEST" /\ Len(h) # HeaderLen
    BY DEF ReadHeader, Arrive, history, HeaderFull
<1>2. /\ k \in 1..Len(script) /\ a \in Nat
      /\ Len(h) \in Len(header)..HeaderLen /\ h = Bytes(a, Len(h))
      /\ BodyFrom(m) = a + Len(h) + Len(read_buf) /\ BodyFrom(m) <= arrived + m
      /\ req_stat = "MS_READ_MESSAGE" => h = header
      /\ read_buf # <<>> => HeaderFull(m)
    BY <1>1, HeaderReading
<1>3. pos' = BodyFrom(m)
    BY <1>1 DEF BodyFrom
<1>4. /\ Len(header) \in 0..HeaderLen /\ Len(read_buf) \in Nat
      /\ HeaderLen \in Nat /\ MaxMessageLen \in Nat /\ arrived \in Nat
    BY LengthsAssumption DEF Framed, Streaming
<1>5. Len(h) \in 0..HeaderLen /\ Len(h) < HeaderLen
    <2> HIDE DEF h
    <2> QED
        BY <1>1, <1>2, <1>4
<1>6. read_buf = <<>> /\ req_stat # "MS_READ_MESSAGE"
    BY <1>1, <1>2 DEF HeaderFull, Framed, Requesting
<1>7. /\ arrived' = arrived + m /\ arrived' \in Nat /\ arrived' <= Total
    BY Arriving DEF ReadHeader
<1>8. pos' \in Nat /\ pos' <= arrived'
    <2> HIDE DEF a, h
    <2> QED
        BY <1>2, <1>3, <1>4, <1>5, <1>7
<1>9. Streaming'
    BY <1>1, <1>5, <1>7, <1>8 DEF Framed, Streaming, Total
<1>10. Requesting(k)
    BY <1>1 DEF Framed
<1>11. (Requesting(answered + 1))'
    <2>1. header' = Bytes(a, Len(header')) /\ Len(header') < HeaderLen
        BY <1>1, <1>2, <1>5
    <2>2. pos' = a + Len(header') + Len(read_buf')
        BY <1>1, <1>2, <1>3
    <2> QED
        BY <1>1, <1>6, <1>10, <2>1, <2>2 DEF Requesting
<1>12. Taken'
    BY <1>1 DEF Framed, Taken, WellFormed
<1> QED
    BY <1>1, <1>9, <1>11, <1>12 DEF Framed

LEMMA ReadMessageFrames ==
    ASSUME Framed, NEW m \in 1..(Sendable - arrived), ReadMessage(m)
    PROVE  Framed'
<1> DEFINE k == answered + 1
           a == At(script, k)
           b == BodyRead(m)
<1>1. /\ UNCHANGED <<script, conn, session_stat, inflight, requests, answered>>
      /\ header' = HeaderRead(m) /\ read_buf' = b /\ req_stat' = "MS_READ_MESSAGE"
      /\ pos' = BodyFrom(m) + Len(b) - Len(read_buf)
      /\ session_stat = "SS_REQUEST" /\ InBody(m)
      /\ Len(b) # Announced(HeaderRead(m)).len
    BY DEF ReadMessage, InBody, Arrive, history, BodyFull
<1>2. /\ k \in 1..Len(script) /\ WellFormed(script[k])
      /\ script[k].len \in 1..MaxMessageLen
      /\ Len(header') = HeaderLen /\ header' = Bytes(a, HeaderLen)
      /\ Len(b) \in 0..script[k].len /\ Len(b) # script[k].len
      /\ b = Bytes(a + HeaderLen, Len(b))
      /\ pos' = a + HeaderLen + Len(b) /\ pos' <= arrived + m
    BY <1>1, BodyReading
<1>3. HeaderLen \in Nat \ {0} /\ MaxMessageLen \in Nat
    BY LengthsAssumption
<1>4. /\ arrived' = arrived + m /\ arrived' \in Nat /\ arrived' <= Total
    BY Arriving DEF ReadMessage, InBody
<1>5. a \in Nat
    BY <1>1, HeaderReading
<1>6. Len(b) \in 0..MaxMessageLen /\ Len(b) < script[k].len
    <2> HIDE DEF a, k, b
    <2> QED
        BY <1>2, <1>3
<1>7. pos' \in Nat /\ pos' <= arrived'
    <2> HIDE DEF a, k, b
    <2> QED
        BY <1>2, <1>3, <1>4, <1>5, <1>6
<1>8. Streaming'
    BY <1>1, <1>2, <1>3, <1>4, <1>6, <1>7 DEF Framed, Streaming, Total
<1>9. Len(requests) = answered /\ inflight = "none" /\ k <= Len(script) + 1
    BY <1>1 DEF Framed, Requesting
<1>10. k <= Len(script)
    BY <1>2
<1>11. (Requesting(answered + 1))'
    BY <1>1, <1>2, <1>6, <1>9, <1>10 DEF Requesting, WellFormed
<1>12. Taken'
    BY <1>1 DEF Framed, Taken, WellFormed
<1> QED
    BY <1>1, <1>8, <1>11, <1>12 DEF Framed

(* A request is appended to the history.                                   *)
LEMMA TakenGrows ==
    ASSUME Taken, script' = script, NEW k \in 1..Len(script), k = Len(requests) + 1,
           WellFormed(script[k]), script[k].known,
           NEW b \in Seq(Nat), b = Bytes(At(script, k) + HeaderLen, script[k].len),
           requests' = Append(requests, b)
    PROVE  Taken' /\ Len(requests') = k
<1> DEFINE r == requests'
<1>1. /\ requests \in Seq(Seq(Nat)) /\ Len(requests) \in Nat
      /\ \A j \in 1..Len(requests) :
            /\ j <= Len(script) /\ WellFormed(script[j]) /\ script[j].known
            /\ requests[j] = Bytes(At(script, j) + HeaderLen, script[j].len)
    BY LenProperties DEF Taken
<1>2. /\ r \in Seq(Seq(Nat)) /\ Len(r) = k
      /\ \A j \in 1..Len(requests) : r[j] = requests[j]
      /\ r[k] = b
    BY <1>1, AppendProperties
<1>3. k <= Len(script)
    <2>1. k \in Int
        BY <1>1
    <2> QED
        BY <2>1
<1> HIDE DEF r
<1>4. ASSUME NEW j \in 1..k
      PROVE  /\ j <= Len(script) /\ WellFormed(script[j]) /\ script[j].known
             /\ r[j] = Bytes(At(script, j) + HeaderLen, script[j].len)
    <2>1. CASE j = k
        BY <1>2, <1>3, <2>1
    <2>2. CASE j # k
        <3>1. j \in 1..Len(requests)
            BY <1>1, <2>2
        <3> QED
            BY <1>1, <1>2, <3>1
    <2> QED
        BY <2>1, <2>2
<1>5. Len(r) = k /\ r \in Seq(Seq(Nat))
    BY <1>2
<1>6. Taken'
    BY <1>4, <1>5 DEF Taken, WellFormed, r
<1> QED
    BY <1>5, <1>6 DEF r

LEMMA DispatchRequestFrames ==
    ASSUME Framed, NEW m \in 1..(Sendable - arrived), DispatchRequest(m)
    PROVE  Framed'
<1> DEFINE k == answered + 1
           a == At(script, k)
           b == BodyRead(m)
<1>1. /\ UNCHANGED <<script, conn, answered>>
      /\ header' = HeaderRead(m) /\ read_buf' = <<>> /\ req_stat' = "MS_READ_MESSAGE"
      /\ pos' = BodyFrom(m) + Len(b) - Len(read_buf)
      /\ session_stat = "SS_REQUEST" /\ InBody(m)
      /\ Len(b) = Announced(HeaderRead(m)).len /\ Announced(HeaderRead(m)).known
      /\ session_stat' = "SS_RESPONSE" /\ inflight' \in {"queued", "lost"}
      /\ requests' = Append(requests, b)
    BY DEF DispatchRequest, InBody, Arrive, BodyFull
<1>2. /\ k \in 1..Len(script) /\ WellFormed(script[k]) /\ script[k].known
      /\ script[k].len \in 1..MaxMessageLen
      /\ Len(header') = HeaderLen
      /\ Len(b) = script[k].len
      /\ b = Bytes(a + HeaderLen, script[k].len)
      /\ pos' = a + HeaderLen + script[k].len /\ pos' <= arrived + m
    BY <1>1, BodyReading
<1>3. HeaderLen \in Nat \ {0} /\ MaxMessageLen \in Nat
    BY LengthsAssumption
<1>4. /\ arrived' = arrived + m /\ arrived' \in Nat /\ arrived' <= Total
    BY Arriving DEF DispatchRequest, InBody
<1>5. a \in Nat
    BY <1>1, HeaderReading
<1>6. pos' \in Nat /\ pos' <= arrived'
    <2> HIDE DEF a, k
    <2> QED
        BY <1>2, <1>3, <1>4, <1>5
<1>7. Streaming'
    <2>1. Len(read_buf') = 0
        BY <1>1, EmptySeq
    <2> QED
        BY <1>1, <1>2, <1>3, <1>4, <1>6, <2>1 DEF Framed, Streaming, Total
<1>8. Len(requests) = answered /\ answered \in Nat /\ script \in Seq(Packets)
    BY <1>1 DEF Framed, Requesting, Streaming
<1>9. b \in Seq(Nat)
    <2>1. a + HeaderLen \in Nat /\ script[k].len \in Nat
        BY <1>2, <1>3, <1>5
    <2> HIDE DEF a, b, k
    <2> QED
        BY <1>2, <2>1, BytesAre
<1>10. Taken' /\ Len(requests') = k
    <2> HIDE DEF b
    <2>1. Taken /\ script' = script /\ k = Len(requests) + 1
        BY <1>1, <1>8 DEF Framed
    <2> QED
        BY <1>1, <1>2, <1>9, <2>1, TakenGrows
<1>11. pos' = At(script, k + 1)
    BY <1>2, <1>8, AtFacts
<1>12. k <= Len(script)
    BY <1>2, <1>8
<1>13. (Responding(answered + 1))'
    BY <1>1, <1>10, <1>11, <1>12 DEF Responding
<1> QED
    BY <1>1, <1>7, <1>10, <1>13 DEF Framed

LEMMA ResponseFrames ==
    ASSUME Framed, send_response_message
    PROVE  Framed'
<1> DEFINE k == answered + 1
<1>1. /\ UNCHANGED <<script, arrived, pos, conn, requests>>
      /\ inflight = "queued" /\ inflight' = "none" /\ answered' = k
      /\ session_stat' = "SS_REQUEST" /\ req_stat' = "MS_READ_HEADER"
      /\ read_buf' = <<>> /\ header' = <<>>
    BY DEF send_response_message, session_reset
<1>2. Responding(k) /\ Streaming /\ Taken
    BY <1>1 DEF Framed, Streaming, Requesting
<1>3. /\ answered \in Nat /\ script \in Seq(Packets) /\ Len(script) \in Nat
      /\ HeaderLen \in Nat \ {0} /\ MaxMessageLen \in Nat
    BY <1>2, LengthsAssumption, LenProperties DEF Streaming
<1>4. Len(header') = 0 /\ Len(read_buf') = 0
    BY <1>1, EmptySeq
<1>5. Streaming'
    BY <1>1, <1>2, <1>3, <1>4 DEF Streaming, Total
<1>6. k <= Len(script) /\ Len(requests) = k /\ pos = At(script, k + 1)
    BY <1>2 DEF Responding
<1>7. At(script, k + 1) \in Nat
    <2>1. k + 1 \in 1..(Len(script) + 1)
        BY <1>3, <1>6
    <2> QED
        BY <1>3, <2>1, AtFacts
<1>8. /\ header' = Bytes(At(script, k + 1), Len(header'))
      /\ read_buf' = Bytes(At(script, k + 1) + HeaderLen, Len(read_buf'))
    BY <1>1, <1>4, NoBytes
<1>9. /\ pos' = At(script, k + 1) + Len(header') + Len(read_buf')
      /\ Len(header') < HeaderLen /\ k + 1 <= Len(script) + 1
    BY <1>1, <1>3, <1>4, <1>6, <1>7
<1>10. (Requesting(answered + 1))'
    BY <1>1, <1>6, <1>8, <1>9 DEF Requesting
<1>11. Taken'
    BY <1>1, <1>2 DEF Taken, WellFormed
<1> QED
    BY <1>1, <1>5, <1>10, <1>11 DEF Framed

(* A step that ends the connection, or only lets bytes arrive.             *)
Quiet(m) == WrongState(m) \/ RejectHeader(m) \/ RejectRequest(m)
Ending == handle_error \/ IdleTimeout \/ Closed \/ UNCHANGED vars

LEMMA ConnectionSteps ==
    ASSUME [Next]_vars
    PROVE  \/ \E m \in 1..(Sendable - arrived) :
                \/ Quiet(m) \/ ReadHeader(m) \/ ReadMessage(m) \/ DispatchRequest(m)
           \/ send_response_message
           \/ Ending
BY DEF Next, handle_request, Quiet, Ending

LEMMA FramedStep == Framed /\ [Next]_vars => Framed'
<1> SUFFICES ASSUME Framed, [Next]_vars PROVE Framed'
    OBVIOUS
<1>1. ASSUME NEW m \in 1..(Sendable - arrived), Quiet(m) PROVE Framed'
    <2>1. /\ UNCHANGED <<pos, session, inflight, history>> /\ Arrive(m)
          /\ conn' \in {conn, "rejected"}
        BY <1>1 DEF Quiet, WrongState, RejectHeader, RejectRequest, InBody
    <2>2. /\ script' = script /\ arrived' \in Nat /\ arrived' <= Total /\ pos <= arrived'
          /\ conn = "open"
        BY <2>1, Arriving
    <2> QED
        BY <2>1, <2>2, Undisturbed
<1>2. ASSUME NEW m \in 1..(Sendable - arrived), ReadHeader(m) PROVE Framed'
    BY <1>2, ReadHeaderFrames
<1>3. ASSUME NEW m \in 1..(Sendable - arrived), ReadMessage(m) PROVE Framed'
    BY <1>3, ReadMessageFrames
<1>4. ASSUME NEW m \in 1..(Sendable - arrived), DispatchRequest(m) PROVE Framed'
    BY <1>4, DispatchRequestFrames
<1>5. CASE send_response_message
    BY <1>5, ResponseFrames
<1>6. CASE Ending
    <2>1. /\ UNCHANGED <<script, arrived, pos, session, inflight, history>>
          /\ conn' \in {conn, "error", "timeout"}
        BY <1>6 DEF Ending, handle_error, IdleTimeout, Closed, vars
    <2>2. /\ arrived' \in Nat /\ arrived' <= Total /\ pos <= arrived'
          /\ conn \in {"open", "rejected", "error", "timeout"}
        BY <2>1 DEF Framed, Streaming
    <2> QED
        BY <2>1, <2>2, Undisturbed
<1> QED
    BY <1>1, <1>2, <1>3, <1>4, <1>5, <1>6, ConnectionSteps

LEMMA FramedInvariant == Spec => []Framed
BY FramedInit, FramedStep, PTL DEF Spec

LEMMA FramedInSync == Framed => InSync
<1> SUFFICES ASSUME Framed PROVE InSync
    OBVIOUS
<1> DEFINE k == answered + 1
<1>1. Streaming /\ Taken
    BY DEF Framed
<1>2. /\ script \in Seq(Packets) /\ Len(script) \in Nat /\ answered \in Nat
      /\ Start(Len(script) + 1) = Total /\ Total \in Nat
    <2>1. script \in Seq(Packets) /\ Len(script) \in Nat /\ answered \in Nat
        BY <1>1, LenProperties DEF Streaming
    <2>2. Len(script) + 1 \in 1..(Len(script) + 1)
        BY <2>1
    <2> QED
        BY <2>1, <2>2, AtFacts, StartIsAt DEF Total
<1>3. CASE session_stat = "SS_REQUEST"
    <2>1. Requesting(k)
        BY <1>3 DEF Framed
    <2>2. Len(requests) = answered /\ answered <= Len(script)
        BY <1>2, <2>1 DEF Requesting
    <2>3. TypeOK
        BY <1>1, <1>2, <2>1, <2>2 DEF Streaming, Requesting, TypeOK
    <2>4. read_buf # <<>> => Len(header) = HeaderLen
        BY <1>1, <2>1 DEF Streaming, Requesting
    <2>5. \A i : Start(i) = At(script, i)
        BY StartIsAt
    <2> QED
        BY <1>3, <2>1, <2>3, <2>4, <2>5 DEF Requesting, InSync
<1>4. CASE session_stat = "SS_RESPONSE"
    <2>1. Responding(k)
        BY <1>4 DEF Framed
    <2>2. Len(requests) = answered + 1 /\ answered + 1 <= Len(script)
        BY <2>1 DEF Responding
    <2>3. Len(requests) \in 0..Len(script) /\ answered \in 0..Len(requests)
        BY <1>2, <2>2
    <2>4. TypeOK
        BY <1>1, <1>2, <2>1, <2>3 DEF Streaming, Responding, TypeOK
    <2>5. pos = Start(k + 1)
        BY <2>1, StartIsAt DEF Responding
    <2> QED
        BY <1>4, <2>4, <2>5 DEF InSync
<1> QED
    BY <1>1, <1>3, <1>4 DEF Streaming

(* However the stream is cut into pieces, whatever the lengths and the     *)
(* packets, the server stands inside the packet that follows those it has  *)
(* answered and has read nothing beyond what it holds.                     *)
THEOREM StaysInSync == Spec => []InSync
BY FramedInvariant, FramedInSync, PTL

-------------------------------------------------------------------------------
(* The refinement.  What Session knows of the requests is their numbers.   *)

Numbers(c) == [j \in 1..c |-> j]

LEMMA NumbersAre ==
    ASSUME NEW c \in Nat
    PROVE  /\ Numbers(c) \in Seq(Nat) /\ Len(Numbers(c)) = c
           /\ Append(Numbers(c), c + 1) = Numbers(c + 1)
<1>1. ASSUME NEW d \in Nat
      PROVE  /\ Numbers(d) \in Seq(Nat) /\ Len(Numbers(d)) = d
             /\ \A j \in 1..d : Numbers(d)[j] = j
    <2>1. Numbers(d) \in [1..d -> Nat]
        BY DEF Numbers
    <2>2. Numbers(d) \in Seq(Nat)
        BY <2>1, SeqDef
    <2>3. Len(Numbers(d)) = d
        BY <2>1, <2>2, LenProperties
    <2> QED
        BY <2>2, <2>3 DEF Numbers
<1> DEFINE u == Numbers(c)
           v == Append(u, c + 1)
           w == Numbers(c + 1)
<1>2. /\ u \in Seq(Nat) /\ Len(u) = c /\ \A j \in 1..c : u[j] = j
      /\ w \in Seq(Nat) /\ Len(w) = c + 1 /\ \A j \in 1..(c + 1) : w[j] = j
    <2>1. c + 1 \in Nat
        OBVIOUS
    <2> QED
        BY <1>1, <2>1
<1> HIDE DEF u, w
<1>3. /\ v \in Seq(Nat) /\ Len(v) = c + 1
      /\ \A j \in 1..c : v[j] = u[j]
      /\ v[c + 1] = c + 1
    <2>1. c + 1 \in Nat
        OBVIOUS
    <2> QED
        BY <1>2, <2>1, AppendProperties
<1> HIDE DEF v
<1>4. ASSUME NEW j \in 1..(c + 1) PROVE v[j] = w[j]
    <2>1. j \in 1..c \/ j = c + 1
        OBVIOUS
    <2> QED
        BY <1>2, <1>3, <2>1
<1>5. v = w
    BY <1>2, <1>3, <1>4, SeqEqual
<1> QED
    BY <1>2, <1>5 DEF u, v, w

(* The variable taken of Session.                                          *)
TakenNumbers == [k \in DOMAIN requests |-> PacketOf(requests[k])]

LEMMA TakenAre == Framed => TakenNumbers = Numbers(Len(requests))
<1> SUFFICES ASSUME Framed PROVE TakenNumbers = Numbers(Len(requests))
    OBVIOUS
<1>1. /\ script \in Seq(Packets) /\ Len(script) \in Nat
      /\ DOMAIN requests = 1..Len(requests) /\ Len(requests) \in Nat
    BY LenProperties DEF Framed, Streaming, Taken
<1>2. ASSUME NEW j \in 1..Len(requests) PROVE PacketOf(requests[j]) = j
    <2>1. /\ j <= Len(script) /\ WellFormed(script[j])
          /\ requests[j] = Bytes(At(script, j) + HeaderLen, script[j].len)
        BY DEF Framed, Taken
    <2>2. j \in 1..Len(script) /\ script[j].len >= 1
        BY <1>1, <2>1 DEF WellFormed
    <2> QED
        BY <1>1, <2>1, <2>2, PacketOfIs
<1> QED
    BY <1>1, <1>2 DEF TakenNumbers, Numbers

LEMMA GoodIs ==
    ASSUME NEW p \in Packets
    PROVE  Promised!Good(p) <=> WellFormed(p) /\ p.known
<1>1. p.len \in Nat /\ MaxMessageLen \in Nat
    BY LengthsAssumption DEF Packets
<1> QED
    BY <1>1 DEF Promised!Good, WellFormed

LEMMA PromisedInit == Init => Promised!Init
BY DEF Init, Promised!Init

(* The steps in which the connection is open and a request is read.        *)
LEMMA Readiness ==
    ASSUME Framed, NEW m \in 1..(Sendable - arrived), Arrive(m), session_stat = "SS_REQUEST",
           NEW k, k = answered + 1
    PROVE  /\ Promised!Ready /\ Len(TakenNumbers) + 1 = k /\ Len(requests) = answered
           /\ k \in 1..Len(script) /\ script[k] \in Packets
<1>1. k \in 1..Len(script)
    BY HeaderReading
<1>2. answered \in Nat /\ Len(requests) = answered /\ script \in Seq(Packets)
    BY DEF Framed, Streaming, Requesting
<1>3. Len(TakenNumbers) = answered
    BY <1>2, TakenAre, NumbersAre
<1>4. script[k] \in Packets /\ answered < Len(script)
    BY <1>1, <1>2, PacketIs, LenProperties
<1>5. Promised!Ready
    BY <1>3, <1>4 DEF Arrive, Promised!Ready, TakenNumbers
<1> QED
    BY <1>1, <1>2, <1>3, <1>4, <1>5

LEMMA PromisedStutters ==
    ASSUME UNCHANGED <<script, conn, inflight, requests, answered>>
    PROVE  UNCHANGED Promised!svars
<1>1. TakenNumbers' = TakenNumbers
    BY DEF TakenNumbers, PacketOf, Start
<1> QED
    BY <1>1 DEF Promised!svars, TakenNumbers

(* The next packet is refused when its header, or its body, is no good.    *)
LEMMA Refuses ==
    ASSUME Framed, NEW m \in 1..(Sendable - arrived), RejectHeader(m) \/ RejectRequest(m)
    PROVE  Promised!Refuse
<1> DEFINE k == answered + 1
<1>1. /\ Arrive(m) /\ session_stat = "SS_REQUEST" /\ HeaderFull(m)
      /\ conn' = "rejected" /\ UNCHANGED <<script, inflight, requests, answered>>
    BY DEF RejectHeader, RejectRequest, InBody, Arrive, history
<1>2. /\ Promised!Ready /\ Len(TakenNumbers) + 1 = k
      /\ k \in 1..Len(script) /\ script[k] \in Packets
    BY <1>1, Readiness
<1>3. Announced(HeaderRead(m)) = script[k]
    BY <1>1, HeaderReading
<1>4. ~(WellFormed(script[k]) /\ script[k].known)
    BY <1>3 DEF RejectHeader, RejectRequest
<1>5. ~Promised!Good(script[k])
    BY <1>2, <1>4, GoodIs
<1>6. TakenNumbers' = TakenNumbers
    BY <1>1 DEF TakenNumbers, PacketOf, Start
<1> QED
    BY <1>1, <1>2, <1>5, <1>6 DEF Promised!Refuse, TakenNumbers

LEMMA Takes ==
    ASSUME Framed, Framed', NEW m \in 1..(Sendable - arrived), DispatchRequest(m)
    PROVE  Promised!Take
<1> DEFINE k == answered + 1
<1>1. /\ Arrive(m) /\ session_stat = "SS_REQUEST" /\ InBody(m)
      /\ Announced(HeaderRead(m)).known
      /\ inflight' \in {"queued", "lost"} /\ UNCHANGED <<script, answered, conn>>
      /\ session_stat' = "SS_RESPONSE"
    BY DEF DispatchRequest, InBody, Arrive
<1>2. /\ Promised!Ready /\ Len(TakenNumbers) + 1 = k /\ Len(requests) = answered
      /\ k \in 1..Len(script) /\ script[k] \in Packets
    BY <1>1, Readiness
<1>3. Promised!Good(script[k])
    BY <1>1, <1>2, BodyReading, GoodIs
<1>4. Len(requests') = k /\ answered \in Nat
    BY <1>1 DEF Framed, Streaming, Responding
<1>5. TakenNumbers = Numbers(answered)
    BY <1>2, TakenAre
<1>6. TakenNumbers' = Numbers(k)
    <2>1. TakenNumbers' = Numbers(Len(requests'))
        <3>1. Framed' => (TakenNumbers = Numbers(Len(requests)))'
            BY TakenAre, PTL
        <3> QED
            BY <3>1 DEF Numbers
    <2> QED
        BY <1>4, <2>1
<1>7. TakenNumbers' = Append(TakenNumbers, Len(TakenNumbers) + 1)
    BY <1>2, <1>4, <1>5, <1>6, NumbersAre
<1> QED
    BY <1>1, <1>2, <1>3, <1>7 DEF Promised!Take, TakenNumbers

LEMMA PromisedStep == Framed /\ Framed' /\ [Next]_vars => [Promised!Next]_(Promised!svars)
<1> SUFFICES ASSUME Framed, Framed', [Next]_vars
             PROVE  [Promised!Next]_(Promised!svars)
    OBVIOUS
<1>1. ASSUME NEW m \in 1..(Sendable - arrived), Quiet(m)
      PROVE  [Promised!Next]_(Promised!svars)
    <2>1. CASE WrongState(m)
        <3>1. UNCHANGED <<script, conn, inflight, requests, answered>>
            BY <2>1 DEF WrongState, Arrive, history
        <3> QED
            BY <3>1, PromisedStutters
    <2>2. CASE RejectHeader(m) \/ RejectRequest(m)
        BY <2>2, Refuses DEF Promised!Next
    <2> QED
        BY <1>1, <2>1, <2>2 DEF Quiet
<1>2. ASSUME NEW m \in 1..(Sendable - arrived), ReadHeader(m) \/ ReadMessage(m)
      PROVE  [Promised!Next]_(Promised!svars)
    <2>1. UNCHANGED <<script, conn, inflight, requests, answered>>
        BY <1>2 DEF ReadHeader, ReadMessage, InBody, Arrive, history
    <2> QED
        BY <2>1, PromisedStutters
<1>3. ASSUME NEW m \in 1..(Sendable - arrived), DispatchRequest(m)
      PROVE  [Promised!Next]_(Promised!svars)
    BY <1>3, Takes DEF Promised!Next
<1>4. CASE send_response_message
    <2>1. /\ conn = "open" /\ inflight = "queued" /\ inflight' = "none"
          /\ answered' = answered + 1 /\ UNCHANGED <<script, conn, requests>>
        BY <1>4 DEF send_response_message
    <2>2. TakenNumbers' = TakenNumbers
        BY <2>1 DEF TakenNumbers, PacketOf, Start
    <2>3. Promised!Answer
        BY <2>1, <2>2 DEF Promised!Answer, TakenNumbers
    <2> QED
        BY <2>3 DEF Promised!Next
<1>5. CASE Ending
    <2>1. UNCHANGED <<script, inflight, requests, answered>>
        BY <1>5 DEF Ending, handle_error, IdleTimeout, Closed, vars, history
    <2>2. conn' = conn \/ (conn = "open" /\ conn' \in {"error", "timeout"})
        BY <1>5 DEF Ending, handle_error, IdleTimeout, Closed, vars
    <2>3. CASE conn' = conn
        BY <2>1, <2>3, PromisedStutters
    <2>4. CASE conn = "open" /\ conn' \in {"error", "timeout"}
        <3>1. TakenNumbers' = TakenNumbers
            BY <2>1 DEF TakenNumbers, PacketOf, Start
        <3>2. Promised!End
            BY <2>1, <2>4, <3>1 DEF Promised!End, TakenNumbers
        <3> QED
            BY <3>2 DEF Promised!Next
    <2> QED
        BY <2>2, <2>3, <2>4
<1> QED
    BY <1>1, <1>2, <1>3, <1>4, <1>5, ConnectionSteps

(* However the stream is cut, the connection takes no step that Session    *)
(* does not allow: packets become requests one at a time, whole and in     *)
(* their order, and a packet is refused only when it is no request.        *)
THEOREM FramingRefinesSession == Spec => Promised!Init /\ [][Promised!Next]_(Promised!svars)
<1>1. Init => Promised!Init
    BY PromisedInit
<1>2. Framed /\ Framed' /\ [Next]_vars => [Promised!Next]_(Promised!svars)
    BY PromisedStep
<1> QED
    BY <1>1, <1>2, FramedInvariant, PTL DEF Spec
===============================================================================
