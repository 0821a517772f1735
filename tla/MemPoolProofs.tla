----------------------------- MODULE MemPoolProofs -----------------------------
(***************************************************************************)
(* The safety properties of MemPool for every block size, alignment,       *)
(* limit and request.  An allocation from the blocks is treated once       *)
(* (SmallKeeps) for all the operations that make one.                      *)
(***************************************************************************)
EXTENDS MemPool, SequenceTheorems, WellFoundedInduction, TLAPS

Chunks == [from : Nat, to : Nat]
Blocks ==
    [mem : Addresses, last : DataHeader..BlockSize, failed : 0..(FailLimit + 2),
     chunks : Seq(Chunks)]
Nodes == [alloc : Addresses \cup {Null}, at : Nat \X Nat]

Shapes ==
    /\ blocks \in Seq(Blocks)
    /\ IF blocks = <<>> THEN current = 0 ELSE current \in 1..Len(blocks)

ListShapes == large \in Seq(Nodes) /\ heap \in SUBSET Addresses

(* Chunks follow one another between the header and what is left.          *)
InOrder(c, low, high) ==
    /\ \A k \in 1..Len(c) : low <= c[k].from /\ c[k].from < c[k].to /\ c[k].to <= high
    /\ \A k \in 1..(Len(c) - 1) : c[k].to <= c[k + 1].from

Low(i) == IF i = 1 THEN Header ELSE DataHeader

LaidOut ==
    \A i \in 1..Len(blocks) :
        Low(i) <= blocks[i].last /\ InOrder(blocks[i].chunks, Low(i), blocks[i].last)

(* FailuresAlongChain for any two blocks, not only for neighbours.         *)
Failures ==
    /\ \A i \in 1..Len(blocks) : i < current <=> blocks[i].failed = FailLimit + 2
    /\ \A i, j \in 1..Len(blocks) : i < j => blocks[i].failed >= blocks[j].failed
    /\ blocks # <<>> => blocks[Len(blocks)].failed = 0

IInv ==
    /\ Shapes /\ ListShapes /\ LaidOut /\ Failures /\ HeapOwnedOnce /\ NodesInPlace
    /\ blocks = <<>> => large = <<>>

-------------------------------------------------------------------------------
(* Numbers and sequences                                                   *)

Below == {ss \in Nat \X Nat : ss[1] < ss[2]}

LEMMA MinIsLeast ==
    ASSUME NEW S \in SUBSET Nat, S # {}
    PROVE  Min(S) \in S /\ \A y \in S : Min(S) <= y
<1>1. Below = OpToRel(<, Nat)
    BY DEF OpToRel, Below
<1>2. PICK x \in S : \A y \in S : ~(<<y, x>> \in Below)
    BY <1>1, NatLessThanWellFounded, WFMin
<1>3. ASSUME NEW y \in S PROVE x <= y
    <2>1. x \in Nat /\ y \in Nat
        OBVIOUS
    <2>2. <<y, x>> \in Nat \X Nat /\ <<y, x>>[1] = y /\ <<y, x>>[2] = x
        BY <2>1
    <2>3. ~(y < x)
        BY <1>2, <2>2 DEF Below
    <2> QED
        BY <2>1, <2>3
<1> QED
    BY <1>3 DEF Min

(* The greatest is as far below a bound as the least of the distances.     *)
LEMMA MaxIsGreatest ==
    ASSUME NEW S \in SUBSET Nat, S # {}, NEW n \in Nat, \A y \in S : y <= n
    PROVE  Max(S) \in S /\ \A y \in S : Max(S) >= y
<1> DEFINE T == {n - y : y \in S}
<1>1. T \in SUBSET Nat /\ T # {}
    <2>1. \A y \in S : n - y \in Nat
        OBVIOUS
    <2> QED
        BY <2>1
<1>2. Min(T) \in T /\ \A t \in T : Min(T) <= t
    BY <1>1, MinIsLeast
<1>3. PICK x \in S : Min(T) = n - x
    BY <1>2
<1>4. \A y \in S : n - x <= n - y
    BY <1>2, <1>3
<1>5. \A y \in S : x >= y
    BY <1>4
<1> QED
    BY <1>5 DEF Max

LEMMA Division ==
    ASSUME NEW n \in Nat, NEW d \in Nat \ {0}
    PROVE  /\ n \div d \in Nat /\ n % d \in 0..(d - 1)
           /\ n = d * (n \div d) + (n % d)
OBVIOUS

LEMMA SmallModulus ==
    ASSUME NEW n \in Nat, NEW d \in Nat, n < d
    PROVE  n % d = n
OBVIOUS

LEMMA Before ==
    ASSUME NEW i \in Nat, NEW j \in Nat, NEW k \in Nat, NEW l \in Nat, i < j, j <= k, k <= l
    PROVE  i # l
OBVIOUS

(* No multiple of d lies between one and the next.                         *)
LEMMA NextMultiple ==
    ASSUME NEW d \in Nat \ {0}, NEW p \in Nat, NEW q \in Nat, d * p < d * q + d
    PROVE  d * p <= d * q
<1>1. ASSUME q + 1 <= p PROVE FALSE
    <2>1. d * (q + 1) <= d * p
        BY <1>1
    <2> QED
        BY <2>1
<1>2. p <= q
    BY <1>1
<1> QED
    BY <1>2

LEMMA AlignUp ==
    ASSUME NEW x \in Nat
    PROVE  /\ ngx_align_ptr(x) \in Nat /\ x <= ngx_align_ptr(x)
           /\ \A y \in Nat : y % Alignment = 0 /\ x <= y => ngx_align_ptr(x) <= y
<1> DEFINE d == Alignment
           n == x + d - 1
           q == n \div d
<1>1. d \in Nat \ {0} /\ n \in Nat
    BY SizesAssumption
<1> HIDE DEF d, n
<1>2. q \in Nat /\ n % d \in 0..(d - 1) /\ n = d * q + (n % d)
    BY <1>1, Division
<1>3. ngx_align_ptr(x) = q * d
    BY DEF ngx_align_ptr, d, n
<1> HIDE DEF q
<1>4. q * d = d * q /\ d * q \in Nat
    BY <1>1, <1>2
<1>5. n = x + d - 1
    BY DEF n
<1>6. x <= d * q /\ d * q <= x + d - 1
    BY <1>1, <1>2, <1>4, <1>5
<1>7. ASSUME NEW y \in Nat, y % d = 0, x <= y
      PROVE  d * q <= y
    <2> DEFINE k == y \div d
    <2>1. k \in Nat /\ y = d * k + (y % d)
        BY <1>1, Division
    <2> HIDE DEF k
    <2>2. d * k \in Nat /\ y = d * k
        BY <1>1, <1>7, <2>1
    <2>3. d * q < d * k + d
        BY <1>1, <1>4, <1>6, <1>7, <2>2
    <2> QED
        BY <1>1, <1>2, <2>1, <2>2, <2>3, NextMultiple
<1> QED
    BY <1>3, <1>4, <1>6, <1>7 DEF d

LEMMA FunctionIsSeq ==
    ASSUME NEW S, NEW n \in Nat, NEW f \in [1..n -> S]
    PROVE  f \in Seq(S) /\ Len(f) = n /\ DOMAIN f = 1..n
BY SeqDef

LEMMA SizeFacts ==
    /\ BlockSize \in Nat \ {0} /\ Header \in Nat /\ DataHeader \in Nat \ {0}
    /\ NodeSize \in Nat \ {0} /\ MaxAlloc \in Nat /\ FailLimit \in Nat /\ SizeModulus \in Nat
    /\ DataHeader <= Header /\ Header + NodeSize <= BlockSize /\ BlockSize < SizeModulus
    /\ BlockSize % Alignment = 0 /\ DataHeader % Alignment = 0
    /\ Sizes \subseteq Nat \ {0} /\ Null \notin Addresses
BY SizesAssumption

-------------------------------------------------------------------------------
(* Allocation from the blocks                                              *)

(* The unsigned difference in ngx_palloc_small never wraps around.         *)
LEMMA RoomIsReal ==
    ASSUME NEW b \in Blocks, NEW align \in BOOLEAN, NEW size \in Nat \ {0}, HasRoom(b, size, align)
    PROVE  /\ StartIn(b, align) \in Nat /\ b.last <= StartIn(b, align)
           /\ StartIn(b, align) + size <= BlockSize
<1> DEFINE at == StartIn(b, align)
<1>1. b.last \in Nat /\ b.last <= BlockSize
    BY SizeFacts DEF Blocks
<1>2. at \in Nat /\ b.last <= at /\ at <= BlockSize
    BY <1>1, AlignUp, SizeFacts DEF StartIn
<1> HIDE DEF at
<1>3. (BlockSize - at) % SizeModulus >= size
    BY DEF HasRoom, at
<1>4. BlockSize - at \in Nat /\ BlockSize - at < SizeModulus
    BY <1>2, SizeFacts
<1>5. (BlockSize - at) % SizeModulus = BlockSize - at
    BY <1>4, SmallModulus, SizeFacts
<1>6. BlockSize - at >= size
    BY <1>3, <1>5
<1> QED
    BY <1>2, <1>6, SizeFacts DEF at

Longer(d, c, new) ==
    /\ d \in Seq(Chunks) /\ Len(c) \in Nat
    /\ Len(d) = Len(c) + 1 /\ d[Len(c) + 1] = new
    /\ \A k \in 1..Len(c) : d[k] = c[k]

LEMMA LongerKeeps ==
    ASSUME NEW c, NEW d, NEW new, Longer(d, c, new), NEW k \in 1..Len(c)
    PROVE  k \in 1..Len(d) /\ d[k] = c[k]
BY DEF Longer

LEMMA InOrderAppend ==
    ASSUME NEW c \in Seq(Chunks), NEW low \in Nat, NEW high \in Nat, InOrder(c, low, high), low <= high,
           NEW from \in Nat, NEW size \in Nat \ {0}, high <= from
    PROVE  /\ InOrder(Append(c, Chunk(from, size)), low, from + size)
           /\ Longer(Append(c, Chunk(from, size)), c, Chunk(from, size))
<1> DEFINE new == Chunk(from, size)
           d == Append(c, new)
<1>1. new \in Chunks /\ new.from = from /\ new.to = from + size
    BY DEF Chunk, Chunks
<1> HIDE DEF new
<1>2. /\ d \in Seq(Chunks) /\ Len(d) = Len(c) + 1 /\ Len(c) \in Nat
      /\ \A k \in 1..Len(c) : d[k] = c[k]
      /\ d[Len(c) + 1] = new
    BY <1>1, AppendProperties, LenProperties
<1> HIDE DEF d
<1>3. \A k \in 1..Len(c) : c[k].from \in Nat /\ c[k].to \in Nat
    <2>1. \A k \in 1..Len(c) : c[k] \in Chunks
        BY ElementOfSeq
    <2> QED
        BY <2>1 DEF Chunks
<1>4. ASSUME NEW k \in 1..Len(d)
      PROVE  low <= d[k].from /\ d[k].from < d[k].to /\ d[k].to <= from + size
    <2>1. CASE k \in 1..Len(c)
        <3>1. low <= c[k].from /\ c[k].from < c[k].to /\ c[k].to <= high /\ d[k] = c[k]
            BY <1>2, <2>1 DEF InOrder
        <3>2. c[k].to \in Nat
            BY <1>3, <2>1
        <3>3. c[k].to <= from + size
            BY <3>1, <3>2
        <3> QED
            BY <3>1, <3>3
    <2>2. CASE k = Len(c) + 1
        BY <1>1, <1>2, <2>2
    <2> QED
        BY <1>2, <2>1, <2>2
<1>5. ASSUME NEW k \in 1..(Len(d) - 1)
      PROVE  d[k].to <= d[k + 1].from
    <2>1. CASE k \in 1..(Len(c) - 1)
        <3>1. k + 1 \in 1..Len(c) /\ k \in 1..Len(c)
            BY <1>2, <2>1
        <3> QED
            BY <1>2, <2>1, <3>1 DEF InOrder
    <2>2. CASE k = Len(c)
        <3>1. k \in 1..Len(c) /\ c[k].to <= high
            BY <1>2, <2>2 DEF InOrder
        <3> QED
            BY <1>1, <1>2, <1>3, <2>2, <3>1
    <2> QED
        BY <1>2, <2>1, <2>2
<1> QED
    BY <1>1, <1>2, <1>4, <1>5 DEF InOrder, Longer, d, new

(* What an allocation from the blocks leaves to its caller: the chunk is   *)
(* new, the older ones are still there, and at most one block has come.    *)
Served(at, size, used) ==
    /\ at[1] \in 1..Len(blocks') /\ at[2] \in Nat
    /\ \E k \in 1..Len(blocks'[at[1]].chunks) : blocks'[at[1]].chunks[k] = Chunk(at[2], size)
    /\ Len(blocks) <= Len(blocks')
    /\ \A i \in 1..Len(blocks) :
          /\ blocks'[i].mem = blocks[i].mem
          /\ \A k \in 1..Len(blocks[i].chunks) :
                /\ k \in 1..Len(blocks'[i].chunks)
                /\ blocks'[i].chunks[k] = blocks[i].chunks[k]
                /\ i = at[1] => blocks[i].chunks[k].from # at[2]
    /\ \/ Len(blocks') = Len(blocks) /\ heap' = used
       \/ /\ Len(blocks') = Len(blocks) + 1
          /\ blocks'[Len(blocks')].mem \in Addresses \ used
          /\ heap' = used \cup {blocks'[Len(blocks')].mem}

LEMMA RoomKeeps ==
    ASSUME Shapes, LaidOut, Failures, blocks # <<>>,
           NEW size \in Nat \ {0}, NEW align \in BOOLEAN, NEW used,
           Fitting(size, align) # {}, TakeRoom(size, align), heap' = used, current' = current
    PROVE  Shapes' /\ LaidOut' /\ Failures' /\ Served(Place(size, align), size, used)
<1> DEFINE i == Min(Fitting(size, align))
           from == StartIn(blocks[i], align)
           new == Chunk(from, size)
<1>1. /\ Len(blocks) \in Nat /\ current \in 1..Len(blocks)
      /\ DOMAIN blocks = 1..Len(blocks) /\ \A j \in 1..Len(blocks) : blocks[j] \in Blocks
    BY LenProperties, ElementOfSeq DEF Shapes
<1>2. i \in 1..Len(blocks) /\ HasRoom(blocks[i], size, align)
    <2>1. Fitting(size, align) \in SUBSET Nat
        BY <1>1 DEF Fitting
    <2>2. i \in Fitting(size, align)
        BY <2>1, MinIsLeast
    <2> HIDE DEF i
    <2> QED
        BY <1>1, <2>2 DEF Fitting
<1>3. Place(size, align) = <<i, from>>
    BY DEF Place
<1> HIDE DEF i
<1>4. from \in Nat /\ blocks[i].last <= from /\ from + size <= BlockSize
    BY <1>1, <1>2, RoomIsReal
<1> HIDE DEF from
<1> DEFINE nb == [blocks[i] EXCEPT !.last = from + size, !.chunks = Append(@, new)]
<1>5. blocks' = [blocks EXCEPT ![i].last = from + size, ![i].chunks = Append(@, new)]
    BY <1>3 DEF TakeRoom
<1>6. blocks[i] \in Blocks /\ Low(i) <= blocks[i].last /\ Low(i) \in Nat
      /\ InOrder(blocks[i].chunks, Low(i), blocks[i].last)
    BY <1>1, <1>2, SizeFacts DEF LaidOut, Low
<1>7. /\ InOrder(Append(blocks[i].chunks, new), Low(i), from + size)
      /\ Longer(Append(blocks[i].chunks, new), blocks[i].chunks, new)
    <2> DEFINE c == blocks[i].chunks
               low == Low(i)
               high == blocks[i].last
    <2>1. c \in Seq(Chunks) /\ high \in Nat
        BY <1>6, SizeFacts DEF Blocks
    <2>2. low \in Nat /\ low <= high /\ InOrder(c, low, high) /\ high <= from
        BY <1>4, <1>6
    <2> HIDE DEF c, low, high
    <2>3. InOrder(Append(c, new), low, from + size) /\ Longer(Append(c, new), c, new)
        BY <1>4, <2>1, <2>2, InOrderAppend
    <2> QED
        BY <2>3 DEF c, low, high
<1> HIDE DEF new
<1>8. /\ nb \in Blocks /\ nb.last = from + size /\ nb.chunks = Append(blocks[i].chunks, new)
      /\ nb.mem = blocks[i].mem /\ nb.failed = blocks[i].failed
    <2>1. from + size \in DataHeader..BlockSize
        BY <1>4, <1>6, SizeFacts DEF Blocks
    <2> QED
        BY <1>6, <1>7, <2>1 DEF Blocks, Longer
<1>9. blocks' = [blocks EXCEPT ![i] = nb]
    BY <1>1, <1>2, <1>5, <1>6 DEF Blocks
<1> HIDE DEF nb
<1>10. /\ blocks' \in Seq(Blocks) /\ Len(blocks') = Len(blocks)
       /\ \A j \in 1..Len(blocks) : blocks'[j] = IF j = i THEN nb ELSE blocks[j]
    BY <1>2, <1>8, <1>9, ExceptSeq DEF Shapes
<1>11. Shapes'
    BY <1>1, <1>10, EmptySeq DEF Shapes
<1>12. LaidOut'
    <2>1. ASSUME NEW j \in 1..Len(blocks)
          PROVE  Low(j) <= blocks'[j].last /\ InOrder(blocks'[j].chunks, Low(j), blocks'[j].last)
        <3>1. CASE j = i
            <4>1. blocks'[i].last = from + size /\ blocks'[i].chunks = Append(blocks[i].chunks, new)
                BY <1>2, <1>8, <1>10
            <4>2. InOrder(blocks'[i].chunks, Low(i), blocks'[i].last)
                BY <1>7, <4>1
            <4>3. Low(i) <= blocks'[i].last
                <5>1. blocks[i].last \in Nat
                    BY <1>6, SizeFacts DEF Blocks
                <5>2. Low(i) <= from + size
                    BY <1>4, <1>6, <5>1
                <5> QED
                    BY <4>1, <5>2
            <4> QED
                BY <3>1, <4>2, <4>3
        <3>2. CASE j # i
            BY <1>10, <3>2 DEF LaidOut
        <3> QED
            BY <3>1, <3>2
    <2> QED
        BY <1>10, <2>1 DEF LaidOut
<1>13. Failures'
    <2>1. \A j \in 1..Len(blocks) : blocks'[j].failed = blocks[j].failed
        BY <1>8, <1>10
    <2>2. Len(blocks) \in 1..Len(blocks)
        BY <1>1
    <2> QED
        BY <1>10, <2>1, <2>2 DEF Failures
<1>14. Served(Place(size, align), size, used)
    <2>1. /\ Place(size, align)[1] = i /\ Place(size, align)[2] = from
          /\ i \in 1..Len(blocks') /\ from \in Nat
        BY <1>2, <1>3, <1>4, <1>10
    <2>2. \E k \in 1..Len(blocks'[i].chunks) : blocks'[i].chunks[k] = Chunk(from, size)
        <3>1. blocks'[i].chunks = Append(blocks[i].chunks, new)
            BY <1>2, <1>8, <1>10
        <3> QED
            BY <1>7, <3>1 DEF new, Longer
    <2>3. ASSUME NEW j \in 1..Len(blocks)
          PROVE  /\ blocks'[j].mem = blocks[j].mem
                 /\ \A k \in 1..Len(blocks[j].chunks) :
                       /\ k \in 1..Len(blocks'[j].chunks)
                       /\ blocks'[j].chunks[k] = blocks[j].chunks[k]
                       /\ j = i => blocks[j].chunks[k].from # from
        <3>1. CASE j = i
            <4>1. ASSUME NEW k \in 1..Len(blocks[i].chunks)
                  PROVE  blocks[i].chunks[k].from # from
                <5>1. blocks[i].chunks[k] \in Chunks /\ blocks[i].last \in Nat
                    BY <1>6, ElementOfSeq, SizeFacts DEF Blocks
                <5>2. /\ blocks[i].chunks[k].from < blocks[i].chunks[k].to
                      /\ blocks[i].chunks[k].to <= blocks[i].last
                    BY <1>6 DEF InOrder
                <5>3. blocks[i].chunks[k].from \in Nat /\ blocks[i].chunks[k].to \in Nat
                    BY <5>1 DEF Chunks
                <5>4. from \in Nat /\ blocks[i].last <= from
                    BY <1>4
                <5> QED
                    BY <5>1, <5>2, <5>3, <5>4, Before
            <4>2. blocks'[i].mem = blocks[i].mem
                BY <1>2, <1>8, <1>10
            <4>3. Longer(blocks'[i].chunks, blocks[i].chunks, new)
                BY <1>2, <1>7, <1>8, <1>10
            <4>4. ASSUME NEW k \in 1..Len(blocks[i].chunks)
                  PROVE  /\ k \in 1..Len(blocks'[i].chunks)
                         /\ blocks'[i].chunks[k] = blocks[i].chunks[k]
                BY <4>3, LongerKeeps
            <4> QED
                BY <3>1, <4>1, <4>2, <4>4
        <3>2. CASE j # i
            BY <1>10, <3>2
        <3> QED
            BY <3>1, <3>2
    <2> QED
        BY <1>1, <1>10, <2>1, <2>2, <2>3 DEF Served
<1> QED
    BY <1>11, <1>12, <1>13, <1>14

(* A new block counts a failure of all but the last, and current passes    *)
(* those that have failed too often, which come first.                     *)
LEMMA NewBlockKeeps ==
    ASSUME Shapes, LaidOut, Failures, blocks # <<>>,
           NEW size \in Nat \ {0}, size <= BlockSize - Header, NEW align \in BOOLEAN,
           NEW used, NEW a \in Addresses \ used,
           Fitting(size, align) = {}, ngx_palloc_block(size, a), heap' = used \cup {a}
    PROVE  Shapes' /\ LaidOut' /\ Failures' /\ Served(Place(size, align), size, used)
<1> DEFINE n == Len(blocks)
           from == ngx_align_ptr(DataHeader)
           new == Chunk(from, size)
           nb == Block(a, from + size, <<new>>)
           failed(i) == IF i \in Failing THEN blocks[i].failed + 1 ELSE blocks[i].failed
           counted == [i \in DOMAIN blocks |->
                          IF i \in Failing THEN [blocks[i] EXCEPT !.failed = @ + 1] ELSE blocks[i]]
<1>1. /\ n \in Nat \ {0} /\ current \in 1..n
      /\ DOMAIN blocks = 1..n /\ \A i \in 1..n : blocks[i] \in Blocks
    BY LenProperties, ElementOfSeq DEF Shapes
<1>2. /\ blocks' = Append(counted, nb)
      /\ current' = (IF Tired = {} THEN current ELSE Max(Tired) + 1)
    BY DEF ngx_palloc_block
<1>3. from = DataHeader /\ from \in Nat
    BY AlignUp, SizeFacts
<1>4. new \in Chunks /\ new.from = from /\ new.to = from + size
    BY <1>3 DEF Chunk, Chunks
<1>5. from + size \in DataHeader..BlockSize
    BY <1>3, SizeFacts
<1>6. ASSUME NEW i \in 1..n
      PROVE  blocks[i].failed \in 0..(FailLimit + 2) /\ failed(i) \in 0..(FailLimit + 2)
    <2>1. blocks[i].failed \in 0..(FailLimit + 2)
        BY <1>1 DEF Blocks
    <2>2. i \in Failing => blocks[i].failed # FailLimit + 2
        BY <1>1 DEF Failing, Failures
    <2> QED
        BY <2>1, <2>2, SizeFacts
<1>7. ASSUME NEW i \in 1..n
      PROVE  /\ counted[i] \in Blocks /\ counted[i].failed = failed(i)
             /\ counted[i].mem = blocks[i].mem /\ counted[i].last = blocks[i].last
             /\ counted[i].chunks = blocks[i].chunks
    BY <1>1, <1>6 DEF Blocks
<1>8. nb \in Blocks /\ nb.failed = 0 /\ nb.mem = a /\ nb.last = from + size /\ nb.chunks = <<new>>
    <2>1. <<new>> \in Seq(Chunks)
        BY <1>4
    <2> HIDE DEF new, from
    <2> QED
        BY <1>5, <2>1, SizeFacts DEF Block, Blocks
<1>9. counted \in Seq(Blocks) /\ Len(counted) = n
    <2>1. counted \in [1..n -> Blocks]
        BY <1>1, <1>7
    <2> HIDE DEF counted
    <2> QED
        BY <1>1, <2>1, FunctionIsSeq
<1> HIDE DEF n, from, new, nb, counted, failed
<1>10. /\ blocks' \in Seq(Blocks) /\ Len(blocks') = n + 1 /\ blocks' # <<>>
       /\ \A i \in 1..n : blocks'[i] = counted[i]
       /\ blocks'[n + 1] = nb
    BY <1>2, <1>8, <1>9, AppendProperties
<1>11. Failing = current..(n - 1)
    BY DEF Failing, n
<1>12. \A i \in Tired : i \in Failing /\ blocks[i].failed > FailLimit
    BY DEF Tired
<1>13. \A i \in Failing : i \notin Tired => ~(blocks[i].failed > FailLimit)
    BY DEF Tired
<1>14. Tired # {} => /\ Max(Tired) \in Tired /\ Max(Tired) \in 1..(n - 1)
                     /\ \A i \in Tired : i <= Max(Tired)
    <2>1. Tired \in SUBSET Nat /\ \A i \in Tired : i <= n
        BY <1>1, <1>11, <1>12
    <2>2. ASSUME Tired # {}
          PROVE  Max(Tired) \in Tired /\ \A i \in Tired : Max(Tired) >= i
        BY <1>1, <2>1, <2>2, MaxIsGreatest
    <2>3. ASSUME Tired # {}
          PROVE  Max(Tired) \in 1..(n - 1)
        <3>1. Max(Tired) \in Failing
            BY <1>12, <2>2, <2>3
        <3> QED
            BY <1>1, <1>11, <3>1
    <2>4. ASSUME Tired # {}, NEW i \in Tired
          PROVE  i <= Max(Tired)
        <3>1. i \in Nat /\ Max(Tired) \in Nat /\ Max(Tired) >= i
            BY <2>1, <2>2, <2>4
        <3> QED
            BY <3>1
    <2> QED
        BY <2>2, <2>3, <2>4
<1>15. Shapes'
    BY <1>1, <1>2, <1>10, <1>14 DEF Shapes
<1>16. LaidOut'
    <2>1. ASSUME NEW i \in 1..n
          PROVE  Low(i) <= blocks'[i].last /\ InOrder(blocks'[i].chunks, Low(i), blocks'[i].last)
        <3>1. blocks'[i].last = blocks[i].last /\ blocks'[i].chunks = blocks[i].chunks
            BY <1>7, <1>10
        <3> QED
            BY <3>1 DEF LaidOut, n
    <2>2. /\ Low(n + 1) = DataHeader /\ DataHeader <= blocks'[n + 1].last
          /\ blocks'[n + 1].chunks = <<new>> /\ blocks'[n + 1].last = from + size
        BY <1>1, <1>3, <1>5, <1>8, <1>10 DEF Low
    <2>3. InOrder(<<new>>, DataHeader, from + size)
        BY <1>3, <1>4 DEF InOrder
    <2>4. ASSUME NEW i \in 1..Len(blocks')
          PROVE  Low(i) <= blocks'[i].last /\ InOrder(blocks'[i].chunks, Low(i), blocks'[i].last)
        <3>1. i \in 1..n \/ i = n + 1
            BY <1>1, <1>10
        <3>2. CASE i = n + 1
            BY <2>2, <2>3, <3>2
        <3> QED
            BY <2>1, <3>1, <3>2
    <2> QED
        BY <2>4 DEF LaidOut
<1>17. Failures'
    <2>1. /\ \A i \in 1..n : blocks'[i].failed = failed(i)
          /\ blocks'[n + 1].failed = 0
        BY <1>7, <1>8, <1>10
    <2>2. \A i \in 1..n : failed(i) =
              IF i \in current..(n - 1) THEN blocks[i].failed + 1 ELSE blocks[i].failed
        BY <1>11 DEF failed
    <2>3. /\ \A i \in 1..n : i < current <=> blocks[i].failed = FailLimit + 2
          /\ \A i, j \in 1..n : i < j => blocks[i].failed >= blocks[j].failed
          /\ blocks[n].failed = 0
        BY DEF Failures, n
    <2>4. ASSUME NEW i \in 1..(n + 1)
          PROVE  i < current' <=> blocks'[i].failed = FailLimit + 2
        <3>0. current' \in 1..n
            <4>1. CASE Tired = {}
                BY <1>1, <1>2, <4>1
            <4>2. CASE Tired # {}
                BY <1>1, <1>2, <1>14, <4>2
            <4> QED
                BY <4>1, <4>2
        <3>1. CASE i = n + 1
            <4>1. ~(i < current')
                BY <1>1, <3>0, <3>1
            <4>2. blocks'[i].failed = 0
                BY <2>1, <3>1
            <4> QED
                BY <4>1, <4>2, SizeFacts
        <3>2. CASE i = n
            <4>1. failed(n) = 0
                BY <1>1, <2>2, <2>3
            <4>2. ~(i < current')
                BY <1>1, <3>0, <3>2
            <4>3. blocks'[i].failed = 0
                BY <1>1, <2>1, <3>2, <4>1
            <4> QED
                BY <4>2, <4>3, SizeFacts
        <3>3. CASE i \in 1..(n - 1) /\ i < current
            <4>1. failed(i) = FailLimit + 2
                BY <1>1, <2>2, <2>3, <3>3
            <4>2. i < current'
                BY <1>1, <1>2, <1>11, <1>12, <1>14, <3>3
            <4> QED
                BY <1>1, <2>1, <3>3, <4>1, <4>2
        <3>4. CASE i \in current..(n - 1) /\ Tired = {}
            <4>0. i \in 1..n /\ i \in Failing /\ i \notin Tired
                BY <1>1, <1>11, <3>4
            <4>1. blocks[i].failed <= FailLimit
                <5>1. blocks[i].failed \in 0..(FailLimit + 2) /\ ~(blocks[i].failed > FailLimit)
                    BY <1>6, <1>13, <4>0
                <5> QED
                    BY <5>1, SizeFacts
            <4>2. failed(i) # FailLimit + 2
                BY <1>1, <1>6, <2>2, <3>4, <4>1, SizeFacts
            <4>3. ~(i < current')
                BY <1>1, <1>2, <3>4
            <4>4. blocks'[i].failed # FailLimit + 2
                BY <1>1, <2>1, <3>4, <4>2
            <4> QED
                BY <4>3, <4>4
        <3>5. CASE i \in current..(n - 1) /\ Tired # {} /\ i <= Max(Tired)
            <4>1. Max(Tired) \in 1..n /\ blocks[Max(Tired)].failed > FailLimit
                BY <1>1, <1>12, <1>14, <3>5
            <4>2. blocks[i].failed > FailLimit
                <5>1. i \in 1..n /\ (i < Max(Tired) \/ i = Max(Tired))
                    BY <1>1, <3>5, <4>1
                <5>2. blocks[i].failed >= blocks[Max(Tired)].failed
                    <6>1. blocks[i].failed \in 0..(FailLimit + 2)
                        BY <1>6, <5>1
                    <6> QED
                        BY <2>3, <4>1, <5>1, <6>1, SizeFacts
                <5>3. /\ blocks[i].failed \in 0..(FailLimit + 2)
                      /\ blocks[Max(Tired)].failed \in 0..(FailLimit + 2)
                    BY <1>6, <4>1, <5>1
                <5> QED
                    BY <4>1, <5>2, <5>3, SizeFacts
            <4>3. blocks[i].failed # FailLimit + 2
                BY <1>1, <2>3, <3>5
            <4>4. failed(i) = FailLimit + 2
                <5>1. failed(i) = blocks[i].failed + 1
                    BY <1>1, <2>2, <3>5
                <5>2. blocks[i].failed \in 0..(FailLimit + 2)
                    BY <1>1, <1>6, <3>5
                <5> QED
                    BY <4>2, <4>3, <5>1, <5>2, SizeFacts
            <4>5. i < current'
                BY <1>1, <1>2, <1>14, <3>5
            <4> QED
                BY <1>1, <2>1, <3>5, <4>4, <4>5
        <3>6. CASE i \in current..(n - 1) /\ Tired # {} /\ ~(i <= Max(Tired))
            <4>1. i \notin Tired
                BY <1>14, <3>6
            <4>2. blocks[i].failed <= FailLimit
                <5>1. i \in 1..n /\ i \in Failing
                    BY <1>1, <1>11, <3>6
                <5>2. blocks[i].failed \in 0..(FailLimit + 2) /\ ~(blocks[i].failed > FailLimit)
                    BY <1>6, <1>13, <4>1, <5>1
                <5> QED
                    BY <5>2, SizeFacts
            <4>3. failed(i) # FailLimit + 2
                <5>1. failed(i) = blocks[i].failed + 1
                    BY <1>1, <2>2, <3>6
                <5>2. blocks[i].failed \in 0..(FailLimit + 2)
                    BY <1>1, <1>6, <3>6
                <5> QED
                    BY <4>2, <5>1, <5>2, SizeFacts
            <4>4. ~(i < current')
                BY <1>1, <1>2, <1>14, <3>6
            <4> QED
                BY <1>1, <2>1, <3>6, <4>3, <4>4
        <3> QED
            BY <1>1, <3>1, <3>2, <3>3, <3>4, <3>5, <3>6
    <2>5. ASSUME NEW i \in 1..(n + 1), NEW j \in 1..(n + 1), i < j
          PROVE  blocks'[i].failed >= blocks'[j].failed
        <3>1. i \in 1..n /\ blocks'[i].failed = failed(i) /\ failed(i) \in 0..(FailLimit + 2)
            BY <1>1, <1>6, <2>1, <2>5
        <3>2. CASE j = n + 1
            BY <2>1, <3>1, <3>2, SizeFacts
        <3>3. CASE j \in 1..n
            <4>1. /\ blocks'[j].failed = failed(j) /\ failed(j) \in 0..(FailLimit + 2)
                  /\ blocks[i].failed \in 0..(FailLimit + 2)
                  /\ blocks[j].failed \in 0..(FailLimit + 2)
                  /\ blocks[i].failed >= blocks[j].failed
                BY <1>6, <2>1, <2>3, <2>5, <3>1, <3>3
            <4>2. CASE i < current
                <5>1. failed(i) = FailLimit + 2
                    BY <1>1, <2>2, <2>3, <3>1, <4>2
                <5> QED
                    BY <3>1, <4>1, <5>1, SizeFacts
            <4>3. CASE ~(i < current)
                <5>1. failed(i) = blocks[i].failed + 1
                    BY <1>1, <2>2, <2>5, <3>1, <3>3, <4>3
                <5>2. failed(j) <= blocks[j].failed + 1
                    BY <1>1, <2>2, <3>3, <4>1, SizeFacts
                <5>3. /\ failed(j) \in Nat /\ blocks[i].failed \in Nat /\ blocks[j].failed \in Nat
                      /\ blocks[i].failed >= blocks[j].failed
                    BY <4>1, SizeFacts
                <5>4. failed(i) >= failed(j)
                    BY <5>1, <5>2, <5>3
                <5> QED
                    BY <3>1, <4>1, <5>4
            <4> QED
                BY <4>2, <4>3
        <3> QED
            BY <1>1, <3>2, <3>3
    <2> QED
        BY <1>10, <2>1, <2>4, <2>5 DEF Failures
<1>18. Served(Place(size, align), size, used)
    <2>1. Place(size, align) = <<n + 1, from>>
        BY DEF Place, n, from
    <2>2. /\ n + 1 \in 1..Len(blocks') /\ blocks'[n + 1].chunks = <<new>>
          /\ blocks'[n + 1].mem = a /\ <<new>>[1] = new /\ Len(<<new>>) = 1
        BY <1>1, <1>8, <1>10
    <2>3. \E k \in 1..Len(blocks'[n + 1].chunks) : blocks'[n + 1].chunks[k] = Chunk(from, size)
        BY <2>2 DEF new
    <2>4. ASSUME NEW i \in 1..n
          PROVE  blocks'[i].mem = blocks[i].mem /\ blocks'[i].chunks = blocks[i].chunks /\ i # n + 1
        BY <1>1, <1>7, <1>10
    <2>5. Place(size, align)[1] = n + 1 /\ Place(size, align)[2] = from
        BY <2>1
    <2>6. /\ Len(blocks') = n + 1 /\ blocks'[Len(blocks')].mem \in Addresses \ used
          /\ heap' = used \cup {blocks'[Len(blocks')].mem}
        BY <1>10, <2>2
    <2>7. n <= Len(blocks')
        BY <1>1, <1>10
    <2> QED
        BY <1>3, <2>2, <2>3, <2>4, <2>5, <2>6, <2>7 DEF Served, n
<1> QED
    BY <1>15, <1>16, <1>17, <1>18

LEMMA SmallKeeps ==
    ASSUME Shapes, LaidOut, Failures, blocks # <<>>,
           NEW size \in Nat \ {0}, size <= BlockSize - Header, NEW align \in BOOLEAN,
           NEW used, ngx_palloc_small(size, align, used)
    PROVE  Shapes' /\ LaidOut' /\ Failures' /\ Served(Place(size, align), size, used)
<1>1. CASE Fitting(size, align) # {}
    BY <1>1, RoomKeeps DEF ngx_palloc_small
<1>2. CASE Fitting(size, align) = {}
    BY <1>2, NewBlockKeeps DEF ngx_palloc_small
<1> QED
    BY <1>1, <1>2

-------------------------------------------------------------------------------
(* The heap and the list                                                   *)

LEMMA ElementsOfSeq ==
    ASSUME NEW S, NEW c \in Seq(S)
    PROVE  \A v : v \in Range(c) <=> (\E k \in 1..Len(c) : c[k] = v)
<1>1. DOMAIN c = 1..Len(c)
    BY LenProperties
<1>2. Range(c) = {c[k] : k \in 1..Len(c)}
    BY <1>1 DEF Range
<1>3. QED
    BY <1>2

BlocksApart == \A i, j \in DOMAIN blocks : blocks[i].mem = blocks[j].mem => i = j

(* Whatever is served, what is taken afterwards is what was taken before   *)
(* and the blocks, and only a new block can be new.                        *)
LEMMA ServedMems ==
    ASSUME Shapes, Shapes', BlocksApart, NEW used \in SUBSET Addresses, Mems \subseteq used,
           NEW at, NEW size, Served(at, size, used)
    PROVE  /\ heap' \in SUBSET Addresses /\ heap' = used \cup Mems'
           /\ Mems \subseteq Mems' /\ Mems' \cap used = Mems
           /\ BlocksApart'
<1> DEFINE n == Len(blocks)
           a == blocks'[Len(blocks')].mem
<1>1. n \in Nat /\ DOMAIN blocks = 1..n /\ DOMAIN blocks' = 1..Len(blocks')
    BY LenProperties DEF Shapes
<1>2. \A i \in 1..n : blocks'[i].mem = blocks[i].mem
    BY DEF Served
<1>3. CASE Len(blocks') = n /\ heap' = used
    <2>1. Mems' = Mems
        BY <1>1, <1>2, <1>3 DEF Mems
    <2>2. BlocksApart'
        BY <1>1, <1>2, <1>3 DEF BlocksApart
    <2> QED
        BY <1>3, <2>1, <2>2
<1>4. CASE Len(blocks') = n + 1 /\ a \in Addresses \ used /\ heap' = used \cup {a}
    <2>1. \A i \in 1..(n + 1) : i \in 1..n \/ i = n + 1
        BY <1>1
    <2>2. n + 1 \in 1..(n + 1) /\ 1..n \subseteq 1..(n + 1) /\ blocks'[n + 1].mem = a
        BY <1>1, <1>4
    <2>3. \A i \in 1..n : blocks[i].mem \in used
        BY <1>1 DEF Mems
    <2>4. Mems' = Mems \cup {a}
        BY <1>1, <1>2, <1>4, <2>1, <2>2 DEF Mems
    <2>5. BlocksApart'
        BY <1>1, <1>2, <1>4, <2>1, <2>2, <2>3 DEF BlocksApart
    <2> QED
        BY <1>4, <2>4, <2>5
<1> QED
    BY <1>3, <1>4 DEF Served

(* NodesInPlace as a matter of positions in the chain bs.                  *)
NodeAt(bs, at) ==
    /\ at[1] \in 1..Len(bs)
    /\ \E k \in 1..Len(bs[at[1]].chunks) : bs[at[1]].chunks[k] = Chunk(at[2], NodeSize)

NodesAt(bs, ns) ==
    /\ \A j \in 1..Len(ns) : NodeAt(bs, ns[j].at)
    /\ \A j, k \in 1..Len(ns) : ns[j].at = ns[k].at => j = k

InPlace(bs, ns) ==
    /\ \A j \in DOMAIN ns :
          LET at == ns[j].at IN
          at[1] \in DOMAIN bs /\ Chunk(at[2], NodeSize) \in Range(bs[at[1]].chunks)
    /\ \A j, k \in DOMAIN ns : ns[j].at = ns[k].at => j = k

LEMMA NodesAreAt ==
    ASSUME NEW bs \in Seq(Blocks), NEW ns \in Seq(Nodes)
    PROVE  InPlace(bs, ns) <=> NodesAt(bs, ns)
<1>1. DOMAIN ns = 1..Len(ns) /\ DOMAIN bs = 1..Len(bs)
    BY LenProperties
<1>2. ASSUME NEW i \in 1..Len(bs)
      PROVE  bs[i].chunks \in Seq(Chunks)
    <2>1. bs[i] \in Blocks
        BY ElementOfSeq
    <2> QED
        BY <2>1 DEF Blocks
<1>3. ASSUME NEW i \in 1..Len(bs), NEW x
      PROVE  x \in Range(bs[i].chunks) <=> \E k \in 1..Len(bs[i].chunks) : bs[i].chunks[k] = x
    <2> DEFINE c == bs[i].chunks
    <2>1. c \in Seq(Chunks)
        BY <1>2
    <2> HIDE DEF c
    <2>2. x \in Range(c) <=> \E k \in 1..Len(c) : c[k] = x
        BY <2>1, ElementsOfSeq
    <2> QED
        BY <2>2 DEF c
<1>4. ASSUME NEW j \in 1..Len(ns)
      PROVE  /\ ns[j].at[1] \in DOMAIN bs
             /\ Chunk(ns[j].at[2], NodeSize) \in Range(bs[ns[j].at[1]].chunks)
             <=> NodeAt(bs, ns[j].at)
    BY <1>1, <1>3 DEF NodeAt
<1> QED
    BY <1>1, <1>4 DEF InPlace, NodesAt

LEMMA InPlaceNow == NodesInPlace <=> InPlace(blocks, large)
BY DEF NodesInPlace, InPlace

LEMMA InPlaceNext == NodesInPlace' <=> InPlace(blocks', large')
BY DEF NodesInPlace, InPlace

(* The nodes keep their chunks, and none of them has the new one.          *)
LEMMA ServedNodes ==
    ASSUME NodesAt(blocks, large), Shapes, NEW at, NEW size, NEW used, Served(at, size, used),
           NEW j \in 1..Len(large)
    PROVE  NodeAt(blocks', large[j].at) /\ large[j].at # at
<1> DEFINE o == large[j].at
<1>1. o[1] \in 1..Len(blocks)
    BY DEF NodesAt, NodeAt
<1>2. PICK k \in 1..Len(blocks[o[1]].chunks) : blocks[o[1]].chunks[k] = Chunk(o[2], NodeSize)
    BY DEF NodesAt, NodeAt
<1> HIDE DEF o
<1>3. /\ k \in 1..Len(blocks'[o[1]].chunks)
      /\ blocks'[o[1]].chunks[k] = blocks[o[1]].chunks[k]
      /\ o[1] = at[1] => blocks[o[1]].chunks[k].from # at[2]
    BY <1>1, <1>2 DEF Served
<1>4. Chunk(o[2], NodeSize).from = o[2]
    BY DEF Chunk
<1>5. o # at
    BY <1>2, <1>3, <1>4
<1>6. Len(blocks) \in Nat /\ Len(blocks') \in Nat /\ Len(blocks) <= Len(blocks')
    <2>1. Len(blocks) \in Nat
        BY LenProperties DEF Shapes
    <2> QED
        BY <2>1 DEF Served
<1>7. o[1] \in 1..Len(blocks')
    BY <1>1, <1>6
<1> QED
    BY <1>2, <1>3, <1>5, <1>7 DEF NodeAt, o

(* A node at the head of the list.                                         *)
LEMMA Pushed ==
    ASSUME NEW l \in Seq(Nodes), NEW node \in Nodes, NEW m, m = <<node>> \o l
    PROVE  /\ m \in Seq(Nodes) /\ Len(l) \in Nat
           /\ Len(m) = Len(l) + 1 /\ m[1] = node
           /\ \A j \in 1..Len(l) : j + 1 \in 1..Len(m) /\ m[j + 1] = l[j]
           /\ \A j \in 1..Len(m) : j = 1 \/ (j - 1 \in 1..Len(l) /\ m[j] = l[j - 1])
<1>1. <<node>> \in Seq(Nodes) /\ Len(<<node>>) = 1 /\ <<node>>[1] = node /\ Len(l) \in Nat
    BY LenProperties
<1> DEFINE s == <<node>>
<1> HIDE DEF s
<1>2. s \in Seq(Nodes) /\ Len(s) = 1 /\ s[1] = node /\ m = s \o l
    BY <1>1 DEF s
<1>3. /\ s \o l \in Seq(Nodes) /\ Len(s \o l) = Len(s) + Len(l)
      /\ \A i \in 1..(Len(s) + Len(l)) :
            (s \o l)[i] = IF i <= Len(s) THEN s[i] ELSE l[i - Len(s)]
    BY <1>2, ConcatProperties
<1>4. /\ m \in Seq(Nodes) /\ Len(m) = Len(l) + 1
      /\ \A i \in 1..(Len(l) + 1) : m[i] = IF i <= 1 THEN node ELSE l[i - 1]
    BY <1>1, <1>2, <1>3
<1>5. m[1] = node
    BY <1>1, <1>4
<1>6. ASSUME NEW j \in 1..Len(l)
      PROVE  j + 1 \in 1..Len(m) /\ m[j + 1] = l[j]
    <2>1. j + 1 \in 1..(Len(l) + 1) /\ ~(j + 1 <= 1) /\ (j + 1) - 1 = j
        BY <1>1
    <2> QED
        BY <1>4, <2>1
<1>7. ASSUME NEW j \in 1..Len(m), j # 1
      PROVE  j - 1 \in 1..Len(l) /\ m[j] = l[j - 1]
    BY <1>1, <1>4, <1>7
<1> QED
    BY <1>1, <1>4, <1>5, <1>6, <1>7

-------------------------------------------------------------------------------
(* The operations                                                          *)

(* What the lemmas below need of the lists in both states.                 *)
LEMMA ListFacts ==
    ASSUME Shapes, ListShapes, HeapOwnedOnce
    PROVE  /\ DOMAIN large = 1..Len(large) /\ Len(large) \in Nat
           /\ \A j \in 1..Len(large) : large[j] \in Nodes
           /\ Mems \subseteq heap /\ Allocs \subseteq heap /\ heap \subseteq Addresses
           /\ BlocksApart
BY LenProperties, ElementOfSeq DEF Shapes, ListShapes, HeapOwnedOnce, BlocksApart

LEMMA CreateKeeps ==
    ASSUME IInv, ngx_create_pool
    PROVE  IInv'
<1>1. PICK a \in Addresses \ heap :
        blocks' = <<Block(a, Header, <<>>)>> /\ heap' = heap \cup {a}
    BY DEF ngx_create_pool
<1> DEFINE b == Block(a, Header, <<>>)
<1>2. b \in Blocks /\ b.mem = a /\ b.last = Header /\ b.failed = 0 /\ b.chunks = <<>>
    BY <1>1, SizeFacts, EmptySeq DEF Block, Blocks
<1> HIDE DEF b
<1>3. /\ blocks' = <<b>> /\ heap' = heap \cup {a} /\ current' = 1 /\ large' = <<>>
      /\ a \in Addresses \ heap /\ large = <<>> /\ blocks = <<>>
    BY <1>1 DEF ngx_create_pool, IInv, b
<1>4. /\ blocks' \in Seq(Blocks) /\ Len(blocks') = 1 /\ blocks'[1] = b /\ DOMAIN blocks' = 1..1
      /\ large' \in Seq(Nodes) /\ Len(large') = 0 /\ DOMAIN large' = {} /\ blocks' # <<>>
    BY <1>2, <1>3
<1>5. heap = {}
    <2>1. Mems = {} /\ Allocs = {}
        BY <1>3 DEF Mems, Allocs
    <2> QED
        BY <2>1 DEF IInv, HeapOwnedOnce
<1>6. Shapes' /\ ListShapes'
    BY <1>3, <1>4, <1>5 DEF Shapes, ListShapes
<1>7. LaidOut'
    <2>1. InOrder(<<>>, Header, Header)
        BY DEF InOrder
    <2> QED
        BY <1>2, <1>4, <2>1, SizeFacts DEF LaidOut, Low
<1>8. Failures'
    BY <1>2, <1>3, <1>4, SizeFacts DEF Failures
<1>9. HeapOwnedOnce'
    BY <1>2, <1>3, <1>4, <1>5 DEF HeapOwnedOnce, Mems, Allocs
<1>10. NodesInPlace'
    BY <1>4 DEF NodesInPlace
<1> QED
    BY <1>4, <1>6, <1>7, <1>8, <1>9, <1>10 DEF IInv

LEMMA SmallAllocKeeps ==
    ASSUME IInv, NEW size \in Sizes, NEW align \in BOOLEAN, AllocSmall(size, align)
    PROVE  IInv'
<1> DEFINE at == Place(size, align)
<1>1. size \in Nat \ {0} /\ size <= BlockSize - Header
    <2>1. {BlockSize - Header, MaxAlloc} \in SUBSET Nat
        BY SizeFacts
    <2>2. MaxSmall \in Nat /\ MaxSmall <= BlockSize - Header
        BY <2>1, MinIsLeast DEF MaxSmall
    <2>3. size <= MaxSmall
        BY DEF AllocSmall
    <2> QED
        BY <2>2, <2>3, SizeFacts
<1>2. blocks # <<>> /\ ngx_palloc_small(size, align, heap) /\ large' = large
    BY DEF AllocSmall
<1>3. Shapes' /\ LaidOut' /\ Failures' /\ Served(at, size, heap)
    BY <1>1, <1>2, SmallKeeps DEF IInv
<1> HIDE DEF at
<1>4. /\ DOMAIN large = 1..Len(large) /\ Mems \subseteq heap /\ Allocs \subseteq heap
      /\ heap \subseteq Addresses /\ BlocksApart
    BY ListFacts DEF IInv
<1>5. /\ heap' \in SUBSET Addresses /\ heap' = heap \cup Mems'
      /\ Mems \subseteq Mems' /\ Mems' \cap heap = Mems /\ BlocksApart'
    BY <1>3, <1>4, ServedMems DEF IInv
<1>6. ListShapes'
    BY <1>2, <1>5 DEF IInv, ListShapes
<1>7. HeapOwnedOnce'
    <2>1. Allocs' = Allocs
        BY <1>2 DEF Allocs
    <2> QED
        BY <1>2, <1>4, <1>5, <2>1 DEF IInv, HeapOwnedOnce, BlocksApart
<1>8. NodesInPlace'
    <2>1. NodesAt(blocks, large)
        BY InPlaceNow, NodesAreAt DEF IInv, Shapes, ListShapes
    <2>2. \A j \in 1..Len(large) : NodeAt(blocks', large[j].at)
        BY <1>3, <2>1, ServedNodes DEF IInv
    <2>3. NodesAt(blocks', large')
        BY <1>2, <2>1, <2>2 DEF NodesAt
    <2> QED
        BY <1>3, <1>6, <2>3, InPlaceNext, NodesAreAt DEF Shapes, ListShapes
<1>9. blocks' # <<>>
    <2>1. 1..Len(blocks') # {}
        BY <1>3 DEF Served
    <2> QED
        BY <2>1
<1> QED
    BY <1>3, <1>6, <1>7, <1>8, <1>9 DEF IInv

LEMMA AddNodeKeeps ==
    ASSUME IInv, blocks # <<>>, NEW p \in Addresses \ heap, AddNode(p)
    PROVE  IInv'
<1> DEFINE at == Place(NodeSize, TRUE)
           used == heap \cup {p}
           node == [alloc |-> p, at |-> at]
<1>1. NodeSize \in Nat \ {0} /\ NodeSize <= BlockSize - Header
    BY SizeFacts
<1>2. ngx_palloc_small(NodeSize, TRUE, used) /\ large' = <<node>> \o large
    BY DEF AddNode
<1>3. Shapes' /\ LaidOut' /\ Failures' /\ Served(at, NodeSize, used)
    BY <1>1, <1>2, SmallKeeps DEF IInv
<1>4. at \in Nat \X Nat /\ node \in Nodes /\ node.alloc = p /\ node.at = at
    <2>1. at = <<at[1], at[2]>>
        BY DEF Place
    <2> HIDE DEF at
    <2>2. Len(blocks') \in Nat
        BY <1>3, LenProperties DEF Shapes
    <2>3. at[1] \in Nat /\ at[2] \in Nat
        BY <1>3, <2>2 DEF Served
    <2>4. at \in Nat \X Nat
        BY <2>1, <2>3
    <2> QED
        BY <2>4 DEF Nodes
<1> HIDE DEF at, node
<1>5. /\ DOMAIN large = 1..Len(large) /\ Len(large) \in Nat
      /\ Mems \subseteq heap /\ Allocs \subseteq heap
      /\ heap \subseteq Addresses /\ BlocksApart
    BY ListFacts DEF IInv
<1>6. used \in SUBSET Addresses /\ Mems \subseteq used
    BY <1>5
<1>7. /\ heap' \in SUBSET Addresses /\ heap' = used \cup Mems'
      /\ Mems \subseteq Mems' /\ Mems' \cap used = Mems /\ BlocksApart'
    <2> HIDE DEF used
    <2> QED
        BY <1>3, <1>5, <1>6, ServedMems DEF IInv
<1>8. /\ large' \in Seq(Nodes) /\ Len(large') = Len(large) + 1 /\ large'[1] = node
      /\ \A j \in 1..Len(large) : j + 1 \in 1..Len(large') /\ large'[j + 1] = large[j]
      /\ \A j \in 1..Len(large') : j = 1 \/ (j - 1 \in 1..Len(large) /\ large'[j] = large[j - 1])
    <2>1. large \in Seq(Nodes)
        BY DEF IInv, ListShapes
    <2> QED
        BY <1>2, <1>4, <2>1, Pushed
<1>9. ListShapes' /\ DOMAIN large' = 1..Len(large')
    BY <1>7, <1>8, LenProperties DEF ListShapes
<1>10. \A j \in 1..Len(large) : large[j].alloc # p
    BY <1>5, SizeFacts DEF Allocs
<1>11. HeapOwnedOnce'
    <2>1. Allocs' = Allocs \cup {p}
        <3>1. 1 \in 1..Len(large') /\ p # Null
            BY <1>5, <1>8, SizeFacts
        <3>2. ASSUME NEW v \in Allocs'
              PROVE  v \in Allocs \cup {p}
            <4>1. PICK j \in 1..Len(large') : v = large'[j].alloc /\ v # Null
                BY <1>9 DEF Allocs
            <4>2. CASE j = 1
                BY <1>4, <1>8, <4>1, <4>2
            <4>3. CASE j # 1
                <5>1. j - 1 \in 1..Len(large) /\ v = large[j - 1].alloc
                    BY <1>8, <4>1, <4>3
                <5> QED
                    BY <1>5, <4>1, <5>1 DEF Allocs
            <4> QED
                BY <4>2, <4>3
        <3>3. ASSUME NEW v \in Allocs
              PROVE  v \in Allocs'
            BY <1>5, <1>8, <1>9 DEF Allocs
        <3>4. p \in Allocs'
            BY <1>4, <1>8, <1>9, <3>1 DEF Allocs
        <3> QED
            BY <3>2, <3>3, <3>4
    <2>2. heap' = Mems' \cup Allocs' /\ Mems' \cap Allocs' = {}
        BY <1>5, <1>7, <2>1 DEF IInv, HeapOwnedOnce
    <2>3. ASSUME NEW i \in 1..Len(large'), NEW j \in 1..Len(large'),
                 large'[i].alloc = large'[j].alloc, large'[i].alloc # Null
          PROVE  i = j
        <3>1. CASE i = 1 /\ j = 1
            BY <3>1
        <3>2. CASE i = 1 /\ j # 1
            BY <1>4, <1>8, <1>10, <2>3, <3>2
        <3>3. CASE i # 1 /\ j = 1
            BY <1>4, <1>8, <1>10, <2>3, <3>3
        <3>4. CASE i # 1 /\ j # 1
            <4>1. /\ i - 1 \in 1..Len(large) /\ j - 1 \in 1..Len(large)
                  /\ large[i - 1].alloc = large[j - 1].alloc /\ large[i - 1].alloc # Null
                BY <1>8, <2>3, <3>4
            <4>2. i - 1 = j - 1
                BY <1>5, <4>1 DEF IInv, HeapOwnedOnce
            <4> QED
                BY <4>2
        <3> QED
            BY <3>1, <3>2, <3>3, <3>4
    <2> QED
        BY <1>7, <1>9, <2>2, <2>3 DEF HeapOwnedOnce, BlocksApart
<1>12. NodesInPlace'
    <2>1. NodesAt(blocks, large)
        BY InPlaceNow, NodesAreAt DEF IInv, Shapes, ListShapes
    <2>2. \A j \in 1..Len(large) : NodeAt(blocks', large[j].at) /\ large[j].at # at
        BY <1>3, <2>1, ServedNodes DEF IInv
    <2>3. NodeAt(blocks', at)
        BY <1>3 DEF NodeAt, Served
    <2>4. \A j \in 1..Len(large') : NodeAt(blocks', large'[j].at)
        BY <1>4, <1>8, <2>2, <2>3
    <2>5. ASSUME NEW i \in 1..Len(large'), NEW j \in 1..Len(large'), large'[i].at = large'[j].at
          PROVE  i = j
        <3>1. CASE i = 1 /\ j = 1
            BY <3>1
        <3>2. CASE i = 1 /\ j # 1
            BY <1>4, <1>8, <2>2, <2>5, <3>2
        <3>3. CASE i # 1 /\ j = 1
            BY <1>4, <1>8, <2>2, <2>5, <3>3
        <3>4. CASE i # 1 /\ j # 1
            <4>1. /\ i - 1 \in 1..Len(large) /\ j - 1 \in 1..Len(large)
                  /\ large[i - 1].at = large[j - 1].at
                BY <1>8, <2>5, <3>4
            <4>2. i - 1 = j - 1
                BY <2>1, <4>1 DEF NodesAt
            <4> QED
                BY <4>2
        <3> QED
            BY <3>1, <3>2, <3>3, <3>4
    <2>6. NodesAt(blocks', large')
        BY <2>4, <2>5 DEF NodesAt
    <2> QED
        BY <1>3, <1>9, <2>6, InPlaceNext, NodesAreAt DEF Shapes, ListShapes
<1>13. blocks' # <<>>
    <2>1. 1..Len(blocks') # {}
        BY <1>3 DEF Served
    <2> QED
        BY <2>1
<1> QED
    BY <1>3, <1>9, <1>11, <1>12, <1>13 DEF IInv

(* A change of one node's alloc, to what is not in the list or to null.    *)
LEMMA ChangeKeeps ==
    ASSUME IInv, NEW i \in 1..Len(large), NEW p \in Addresses \cup {Null},
           large' = [large EXCEPT ![i].alloc = p],
           p \notin heap,
           heap' = (heap \ ({large[i].alloc} \ {Null})) \cup ({p} \ {Null}),
           blocks' = blocks, current' = current
    PROVE  IInv'
<1> DEFINE o == large[i].alloc
<1>1. /\ DOMAIN large = 1..Len(large) /\ Len(large) \in Nat
      /\ \A j \in 1..Len(large) : large[j] \in Nodes
      /\ Mems \subseteq heap /\ Allocs \subseteq heap
      /\ heap \subseteq Addresses /\ BlocksApart
    BY ListFacts DEF IInv
<1> DEFINE node == [large[i] EXCEPT !.alloc = p]
<1>2. node \in Nodes /\ node.alloc = p /\ node.at = large[i].at
    BY <1>1 DEF Nodes
<1>3. large' = [large EXCEPT ![i] = node]
    BY <1>1 DEF Nodes
<1> HIDE DEF node
<1>4. /\ large' \in Seq(Nodes) /\ Len(large') = Len(large)
      /\ \A j \in 1..Len(large) : large'[j] = IF j = i THEN node ELSE large[j]
    BY <1>2, <1>3, ExceptSeq DEF IInv, ListShapes
<1>5. /\ \A j \in 1..Len(large) : large'[j].at = large[j].at
      /\ \A j \in 1..Len(large) : j # i => large'[j].alloc = large[j].alloc
      /\ large'[i].alloc = p
    BY <1>2, <1>4
<1>6. ListShapes' /\ DOMAIN large' = 1..Len(large)
    BY <1>1, <1>4, LenProperties DEF ListShapes
<1>7. /\ Shapes' /\ LaidOut' /\ Failures' /\ Mems' = Mems /\ BlocksApart'
    BY <1>1 DEF IInv, Shapes, LaidOut, Failures, Mems, BlocksApart
<1>8. /\ heap = Mems \cup Allocs /\ Mems \cap Allocs = {}
      /\ \A j, k \in 1..Len(large) :
            large[j].alloc = large[k].alloc /\ large[j].alloc # Null => j = k
    BY <1>1 DEF IInv, HeapOwnedOnce
<1>9. \A j \in 1..Len(large) : large[j].alloc # Null => large[j].alloc \in Allocs
    BY <1>1 DEF Allocs
<1>10. Allocs' = (Allocs \ ({o} \ {Null})) \cup ({p} \ {Null})
    <2>1. ASSUME NEW v \in Allocs'
          PROVE  v \in (Allocs \ ({o} \ {Null})) \cup ({p} \ {Null})
        <3>1. PICK j \in 1..Len(large) : v = large'[j].alloc /\ v # Null
            BY <1>6 DEF Allocs
        <3>2. CASE j = i
            BY <1>5, <3>1, <3>2
        <3>3. CASE j # i
            BY <1>5, <1>8, <1>9, <3>1, <3>3
        <3> QED
            BY <3>2, <3>3
    <2>2. ASSUME NEW v \in (Allocs \ ({o} \ {Null})) \cup ({p} \ {Null})
          PROVE  v \in Allocs'
        <3>1. CASE v = p /\ p # Null
            BY <1>5, <1>6, <3>1 DEF Allocs
        <3>2. CASE v \in Allocs /\ v # o
            <4>1. PICK j \in 1..Len(large) : v = large[j].alloc /\ v # Null
                BY <1>1, <3>2 DEF Allocs
            <4>2. j # i
                BY <3>2, <4>1
            <4> QED
                BY <1>5, <1>6, <4>1, <4>2 DEF Allocs
        <3>3. v # Null
            BY DEF Allocs
        <3> QED
            BY <3>1, <3>2, <3>3
    <2> QED
        BY <2>1, <2>2
<1>11. HeapOwnedOnce'
    <2>1. heap' = Mems' \cup Allocs' /\ Mems' \cap Allocs' = {}
        BY <1>7, <1>8, <1>9, <1>10
    <2>2. ASSUME NEW j \in 1..Len(large), NEW k \in 1..Len(large),
                 large'[j].alloc = large'[k].alloc, large'[j].alloc # Null
          PROVE  j = k
        <3>1. CASE j # i /\ k # i
            BY <1>5, <1>8, <2>2, <3>1
        <3>2. CASE j = i /\ k # i
            BY <1>1, <1>5, <1>9, <2>2, <3>2
        <3>3. CASE j # i /\ k = i
            BY <1>1, <1>5, <1>9, <2>2, <3>3
        <3> QED
            BY <3>1, <3>2, <3>3
    <2> QED
        BY <1>6, <1>7, <2>1, <2>2 DEF HeapOwnedOnce, BlocksApart
<1>12. NodesInPlace'
    BY <1>1, <1>5, <1>6 DEF IInv, NodesInPlace
<1>13. blocks' # <<>>
    BY <1>1 DEF IInv
<1> QED
    BY <1>6, <1>7, <1>11, <1>12, <1>13 DEF IInv

LEMMA SameKeeps ==
    ASSUME IInv, UNCHANGED vars
    PROVE  IInv'
<1>1. blocks' = blocks /\ current' = current /\ large' = large /\ heap' = heap
    BY DEF vars
<1>2. Shapes' /\ ListShapes'
    BY <1>1 DEF IInv, Shapes, ListShapes
<1>3. LaidOut'
    BY <1>1 DEF IInv, LaidOut
<1>4. Failures'
    BY <1>1 DEF IInv, Failures
<1>5. HeapOwnedOnce'
    BY <1>1 DEF IInv, HeapOwnedOnce, Mems, Allocs
<1>6. NodesInPlace'
    BY <1>1 DEF IInv, NodesInPlace
<1> QED
    BY <1>1, <1>2, <1>3, <1>4, <1>5, <1>6 DEF IInv

LEMMA LargeAllocKeeps ==
    ASSUME IInv, blocks # <<>>, NEW p \in Addresses \ heap, ngx_palloc_large(p)
    PROVE  IInv'
<1>1. CASE FreeSlots # {} /\ ReuseNode(p)
    <2> DEFINE i == Min(FreeSlots)
    <2>1. DOMAIN large = 1..Len(large)
        BY ListFacts DEF IInv
    <2>2. FreeSlots \in SUBSET Nat
        BY <2>1 DEF FreeSlots, Probed
    <2>3. i \in FreeSlots
        BY <1>1, <2>2, MinIsLeast
    <2>4. i \in 1..Len(large) /\ large[i].alloc = Null
        BY <2>1, <2>3 DEF FreeSlots, Probed
    <2>5. large' = [large EXCEPT ![i].alloc = p] /\ heap' = heap \cup {p}
          /\ blocks' = blocks /\ current' = current
        BY <1>1 DEF ReuseNode
    <2> HIDE DEF i
    <2>6. heap' = (heap \ ({large[i].alloc} \ {Null})) \cup ({p} \ {Null})
        BY <2>4, <2>5, SizeFacts
    <2> QED
        BY <2>4, <2>5, <2>6, ChangeKeeps
<1>2. CASE AddNode(p)
    BY <1>2, AddNodeKeeps
<1>3. CASE NoNode(p)
    <2>1. heap' = heap /\ blocks' = blocks /\ current' = current /\ large' = large
        BY <1>3 DEF NoNode
    <2> QED
        BY <2>1, SameKeeps DEF vars
<1> QED
    BY <1>1, <1>2, <1>3 DEF ngx_palloc_large

LEMMA FreeKeeps ==
    ASSUME IInv, NEW p \in Addresses, ngx_pfree(p)
    PROVE  IInv'
<1> DEFINE S == {i \in DOMAIN large : large[i].alloc = p}
           j == Min(S)
<1>1. DOMAIN large = 1..Len(large) /\ Allocs \subseteq heap /\ heap \subseteq Addresses
    BY ListFacts DEF IInv
<1>2. S \in SUBSET Nat /\ S # {} /\ p # Null
    BY <1>1 DEF ngx_pfree, Allocs
<1>3. j \in S
    BY <1>2, MinIsLeast
<1>4. /\ large' = [large EXCEPT ![j].alloc = Null] /\ heap' = heap \ {p}
      /\ blocks' = blocks /\ current' = current
    BY DEF ngx_pfree
<1>5. j \in 1..Len(large) /\ large[j].alloc = p
    BY <1>1, <1>3
<1> HIDE DEF j
<1>6. Null \notin heap
    BY <1>1, SizeFacts
<1>7. heap' = (heap \ ({large[j].alloc} \ {Null})) \cup ({Null} \ {Null})
    BY <1>2, <1>4, <1>5
<1> QED
    BY <1>4, <1>5, <1>6, <1>7, ChangeKeeps

LEMMA ResetKeeps ==
    ASSUME IInv, ngx_reset_pool
    PROVE  IInv'
<1> DEFINE n == Len(blocks)
           fresh == [i \in DOMAIN blocks |-> Block(blocks[i].mem, Header, <<>>)]
<1>1. /\ n \in Nat \ {0} /\ DOMAIN blocks = 1..n /\ \A i \in 1..n : blocks[i] \in Blocks
      /\ blocks # <<>>
    BY LenProperties, ElementOfSeq DEF ngx_reset_pool, IInv, Shapes
<1>2. /\ blocks' = fresh /\ heap' = heap \ Allocs /\ current' = 1 /\ large' = <<>>
    BY DEF ngx_reset_pool
<1>3. ASSUME NEW i \in 1..n
      PROVE  /\ fresh[i] \in Blocks /\ fresh[i].mem = blocks[i].mem /\ fresh[i].last = Header
             /\ fresh[i].failed = 0 /\ fresh[i].chunks = <<>>
    BY <1>1, SizeFacts, EmptySeq DEF Block, Blocks
<1>4. fresh \in [1..n -> Blocks]
    BY <1>1, <1>3
<1> HIDE DEF n, fresh
<1>5. blocks' \in Seq(Blocks) /\ Len(blocks') = n /\ DOMAIN blocks' = 1..n
    BY <1>1, <1>2, <1>4, FunctionIsSeq
<1>6. blocks' # <<>>
    <2>1. Len(blocks') # 0
        BY <1>1, <1>5
    <2> QED
        BY <2>1
<1>7. /\ large' \in Seq(Nodes) /\ Len(large') = 0 /\ DOMAIN large' = {}
    BY <1>2
<1>8. heap \in SUBSET Addresses
    BY DEF IInv, ListShapes
<1>9. Shapes' /\ ListShapes'
    BY <1>1, <1>2, <1>5, <1>7, <1>8 DEF Shapes, ListShapes
<1>10. LaidOut'
    <2>1. InOrder(<<>>, Header, Header) /\ InOrder(<<>>, DataHeader, Header)
        BY DEF InOrder
    <2>2. \A i : Low(i) \in {Header, DataHeader}
        BY DEF Low
    <2> QED
        BY <1>2, <1>3, <1>5, <2>1, <2>2, SizeFacts DEF LaidOut
<1>11. Failures'
    <2>1. \A i \in 1..n : blocks'[i].failed = 0
        BY <1>2, <1>3
    <2>2. \A i \in 1..n : ~(i < current')
        BY <1>1, <1>2
    <2>3. FailLimit + 2 # 0
        BY SizeFacts
    <2> QED
        BY <1>1, <1>5, <2>1, <2>2, <2>3 DEF Failures
<1>12. HeapOwnedOnce'
    <2>1. Mems' = Mems
        BY <1>1, <1>2, <1>3, <1>5 DEF Mems
    <2>2. Allocs' = {}
        BY <1>7 DEF Allocs
    <2>3. \A i, j \in DOMAIN blocks' : blocks'[i].mem = blocks'[j].mem => i = j
        BY <1>1, <1>2, <1>3, <1>5 DEF IInv, HeapOwnedOnce
    <2>4. heap = Mems \cup Allocs /\ Mems \cap Allocs = {}
        BY DEF IInv, HeapOwnedOnce
    <2> QED
        BY <1>2, <1>7, <2>1, <2>2, <2>3, <2>4 DEF HeapOwnedOnce
<1>13. NodesInPlace'
    BY <1>7 DEF NodesInPlace
<1> QED
    BY <1>6, <1>9, <1>10, <1>11, <1>12, <1>13 DEF IInv

LEMMA EmptyHolds ==
    ASSUME blocks = <<>>, current = 0, large = <<>>, heap = {}
    PROVE  IInv
<1>1. /\ blocks \in Seq(Blocks) /\ large \in Seq(Nodes) /\ Len(blocks) = 0
      /\ DOMAIN blocks = {} /\ DOMAIN large = {}
    OBVIOUS
<1>2. Shapes /\ ListShapes /\ LaidOut /\ Failures
    BY <1>1 DEF Shapes, ListShapes, LaidOut, Failures
<1>3. HeapOwnedOnce /\ NodesInPlace
    BY <1>1 DEF HeapOwnedOnce, NodesInPlace, Mems, Allocs
<1> QED
    BY <1>2, <1>3 DEF IInv

LEMMA DestroyKeeps ==
    ASSUME IInv, ngx_destroy_pool
    PROVE  IInv'
<1>1. blocks' = <<>> /\ current' = 0 /\ large' = <<>> /\ heap' = {}
    BY DEF ngx_destroy_pool, IInv, HeapOwnedOnce
<1>2. /\ blocks' \in Seq(Blocks) /\ large' \in Seq(Nodes) /\ Len(blocks') = 0
      /\ DOMAIN blocks' = {} /\ DOMAIN large' = {}
    BY <1>1
<1>3. Shapes' /\ ListShapes' /\ LaidOut' /\ Failures'
    BY <1>1, <1>2 DEF Shapes, ListShapes, LaidOut, Failures
<1>4. HeapOwnedOnce' /\ NodesInPlace'
    BY <1>1, <1>2 DEF HeapOwnedOnce, NodesInPlace, Mems, Allocs
<1> QED
    BY <1>1, <1>3, <1>4 DEF IInv

LEMMA NextInvariant == IInv /\ [Next]_vars => IInv'
<1> SUFFICES ASSUME IInv, [Next]_vars PROVE IInv'
    OBVIOUS
<1>1. CASE ngx_create_pool
    BY <1>1, CreateKeeps
<1>2. ASSUME NEW size \in Sizes, NEW align \in BOOLEAN, AllocSmall(size, align)
      PROVE  IInv'
    BY <1>2, SmallAllocKeeps
<1>3. ASSUME NEW size \in Sizes, NEW p \in Addresses \ heap, AllocLarge(size, p)
      PROVE  IInv'
    BY <1>3, LargeAllocKeeps DEF AllocLarge
<1>4. ASSUME NEW p \in Addresses \ heap, ngx_pmemalign(p)
      PROVE  IInv'
    <2>1. CASE AddNode(p)
        BY <1>4, <2>1, AddNodeKeeps DEF ngx_pmemalign
    <2>2. CASE NoNode(p)
        <3>1. heap' = heap /\ blocks' = blocks /\ current' = current /\ large' = large
            BY <2>2 DEF NoNode
        <3> QED
            BY <3>1, SameKeeps DEF vars
    <2> QED
        BY <1>4, <2>1, <2>2 DEF ngx_pmemalign
<1>5. ASSUME NEW p \in Addresses, ngx_pfree(p)
      PROVE  IInv'
    BY <1>5, FreeKeeps
<1>6. CASE ngx_reset_pool
    BY <1>6, ResetKeeps
<1>7. CASE ngx_destroy_pool
    BY <1>7, DestroyKeeps
<1>8. CASE UNCHANGED vars
    BY <1>8, SameKeeps
<1> QED
    BY <1>1, <1>2, <1>3, <1>4, <1>5, <1>6, <1>7, <1>8 DEF Next

THEOREM Invariant == Spec => []IInv
<1>1. Init => IInv
    BY EmptyHolds DEF Init
<1> QED
    BY <1>1, NextInvariant, PTL DEF Spec

-------------------------------------------------------------------------------
(* The properties                                                          *)

(* Type correctness for every block size, alignment, limit and request.    *)
LEMMA Typed == IInv => TypeOK
<1> SUFFICES ASSUME IInv PROVE TypeOK
    OBVIOUS
<1>1. /\ DOMAIN large = 1..Len(large) /\ \A j \in 1..Len(large) : large[j] \in Nodes
      /\ Mems \subseteq heap /\ Allocs \subseteq heap
    BY ListFacts DEF IInv
<1>2. /\ DOMAIN blocks = 1..Len(blocks) /\ \A i \in 1..Len(blocks) : blocks[i] \in Blocks
    BY LenProperties, ElementOfSeq DEF IInv, Shapes
<1>3. ASSUME NEW i \in DOMAIN blocks
      PROVE  /\ blocks[i].mem \in heap /\ blocks[i].last \in DataHeader..BlockSize
             /\ blocks[i].failed \in 0..(FailLimit + 2)
    BY <1>1, <1>2 DEF Mems, Blocks
<1>4. IF blocks = <<>> THEN current = 0 ELSE current \in DOMAIN blocks
    BY <1>2 DEF IInv, Shapes
<1>5. \A j \in DOMAIN large : large[j].alloc \in heap \cup {Null}
    BY <1>1 DEF Allocs
<1> QED
    BY <1>3, <1>4, <1>5 DEF TypeOK

(* No two chunks of a block overlap, and none reaches into a header, past  *)
(* the end or into what is still to be handed out (mem_pool_palloc.c:156). *)
THEOREM NoChunkOverlaps == Spec => []ChunksApart
<1>1. ASSUME IInv PROVE ChunksApart
    <2>1. ASSUME NEW i \in DOMAIN blocks
          PROVE  LET c == blocks[i].chunks IN
                 /\ c # <<>> => c[1].from >= DataHeader /\ Last(c).to <= blocks[i].last
                 /\ \A k \in 1..(Len(c) - 1) : c[k].to <= c[k + 1].from
                 /\ i = 1 /\ c # <<>> => c[1].from >= Header
                 /\ blocks[i].last <= BlockSize
        <3> DEFINE c == blocks[i].chunks
        <3>1. i \in 1..Len(blocks) /\ blocks[i] \in Blocks
            BY <1>1, LenProperties, ElementOfSeq DEF IInv, Shapes
        <3>2. c \in Seq(Chunks) /\ blocks[i].last \in DataHeader..BlockSize
            BY <3>1 DEF Blocks
        <3>3. InOrder(c, Low(i), blocks[i].last)
            BY <1>1, <3>1 DEF IInv, LaidOut
        <3> HIDE DEF c
        <3>4. c # <<>> => 1 \in 1..Len(c) /\ Len(c) \in 1..Len(c)
            BY <3>2, EmptySeq, LenProperties
        <3>5. \A k \in 1..Len(c) : c[k].from \in Nat
            <4>1. \A k \in 1..Len(c) : c[k] \in Chunks
                BY <3>2, ElementOfSeq
            <4> QED
                BY <4>1 DEF Chunks
        <3>6. c # <<>> => c[1].from >= Low(i) /\ Last(c).to <= blocks[i].last
            BY <3>3, <3>4, <3>5, SizeFacts DEF InOrder, Last, Low
        <3>7. c # <<>> => c[1].from >= DataHeader
            BY <3>4, <3>5, <3>6, SizeFacts DEF Low
        <3>8. \A k \in 1..(Len(c) - 1) : c[k].to <= c[k + 1].from
            BY <3>3 DEF InOrder
        <3>9. i = 1 /\ c # <<>> => c[1].from >= Header
            BY <3>6 DEF Low
        <3>10. blocks[i].last <= BlockSize
            BY <3>2, SizeFacts
        <3> QED
            BY <3>6, <3>7, <3>8, <3>9, <3>10 DEF c
    <2> QED
        BY <1>1, <2>1, Typed DEF ChunksApart
<1> QED
    BY <1>1, Invariant, PTL

(* Nothing leaks, nothing is freed twice and no two owners share memory    *)
(* (mem_pool_palloc.c:82-94, :239).                                        *)
THEOREM HeapIsOwned == Spec => []HeapOwnedOnce
<1>1. IInv => HeapOwnedOnce
    BY DEF IInv
<1> QED
    BY <1>1, Invariant, PTL

(* Every node of the list lies in a chunk of its own that the pool has     *)
(* handed out and not taken back (mem_pool_palloc.c:117, :237).            *)
THEOREM NodesStayInPlace == Spec => []NodesInPlace
<1>1. IInv => NodesInPlace
    BY DEF IInv
<1> QED
    BY <1>1, Invariant, PTL

(* A block is given up after exactly FailLimit + 2 failures, and failures  *)
(* fall along the chain (mem_pool_palloc.c:200).                           *)
THEOREM FailuresFall == Spec => []FailuresAlongChain
<1>1. ASSUME IInv PROVE FailuresAlongChain
    <2>1. DOMAIN blocks = 1..Len(blocks) /\ Len(blocks) \in Nat
        BY <1>1, LenProperties DEF IInv, Shapes
    <2>2. \A i \in DOMAIN blocks : i < current <=> blocks[i].failed = FailLimit + 2
        BY <1>1, <2>1 DEF IInv, Failures
    <2>3. ASSUME NEW i \in 1..(Len(blocks) - 1)
          PROVE  blocks[i].failed >= blocks[i + 1].failed
        <3>1. i \in 1..Len(blocks) /\ i + 1 \in 1..Len(blocks) /\ i < i + 1
            BY <2>1
        <3> QED
            BY <1>1, <3>1 DEF IInv, Failures
    <2>4. blocks # <<>> => Last(blocks).failed = 0
        BY <1>1 DEF IInv, Failures, Last
    <2> QED
        BY <2>2, <2>3, <2>4 DEF FailuresAlongChain
<1> QED
    BY <1>1, Invariant, PTL
===============================================================================
