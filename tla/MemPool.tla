-------------------------------- MODULE MemPool --------------------------------
(***************************************************************************)
(* The region allocator of src/mem_pool: a chain of blocks of one size in  *)
(* which small requests are laid out one after the other, and a list of    *)
(* large requests that go to malloc, whose nodes lie in the blocks         *)
(* themselves.  Offsets count from the start of a block, and malloc may    *)
(* fail at any call, for certain when every address is taken.              *)
(***************************************************************************)
EXTENDS Integers, Sequences, FiniteSets, FiniteSetsExt, SequencesExt

CONSTANTS
    Addresses,      (* what malloc can return; no two lie in one another *)
    Null,           (* the null pointer *)
    BlockSize,      (* the argument of ngx_create_pool *)
    Header,         (* sizeof(ngx_pool_t) *)
    DataHeader,     (* sizeof(ngx_pool_data_t) *)
    NodeSize,       (* sizeof(ngx_pool_large_t) *)
    Alignment,      (* NGX_ALIGNMENT *)
    MaxAlloc,       (* NGX_MAX_ALLOC_FROM_POOL *)
    SizeModulus,    (* values of a size_t *)
    FailLimit,      (* 4 in ngx_palloc_block *)
    ProbeLimit,     (* 3 in ngx_palloc_large *)
    Sizes           (* the requests that are made *)

(* The block size that main uses is a multiple of the alignment, and a     *)
(* block has room for its header and a node (NGX_MIN_POOL_SIZE).           *)
ASSUME SizesAssumption ==
    /\ {BlockSize, Header, DataHeader, NodeSize, Alignment, MaxAlloc} \subseteq Nat \ {0}
    /\ {SizeModulus, FailLimit, ProbeLimit} \subseteq Nat /\ Sizes \subseteq Nat \ {0}
    /\ BlockSize % Alignment = 0 /\ Header % Alignment = 0 /\ DataHeader % Alignment = 0
    /\ DataHeader <= Header /\ Header + NodeSize <= BlockSize
    /\ NodeSize <= MaxAlloc /\ BlockSize < SizeModulus
    /\ Null \notin Addresses

VARIABLES
    blocks,     (* the chain from the pool on: address, last, failed and, as *)
                (* history, the chunks handed out since creation or reset    *)
    current,    (* the position of pool->current in the chain *)
    large,      (* the list of large allocations: alloc, and where the node is *)
    heap        (* addresses that are allocated *)

vars == <<blocks, current, large, heap>>

Mems == {blocks[i].mem : i \in DOMAIN blocks}
Allocs == {large[j].alloc : j \in DOMAIN large} \ {Null}

Init == blocks = <<>> /\ current = 0 /\ large = <<>> /\ heap = {}

Block(mem, last, chunks) == [mem |-> mem, last |-> last, failed |-> 0, chunks |-> chunks]
Chunk(from, size) == [from |-> from, to |-> from + size]

ngx_create_pool ==
    /\ blocks = <<>>
    /\ \E a \in Addresses \ heap :
          /\ blocks' = <<Block(a, Header, <<>>)>>
          /\ heap' = heap \cup {a}
    /\ current' = 1
    /\ large' = <<>>

(* p->max *)
MaxSmall == Min({BlockSize - Header, MaxAlloc})

ngx_align_ptr(offset) == ((offset + Alignment - 1) \div Alignment) * Alignment
StartIn(b, align) == IF align THEN ngx_align_ptr(b.last) ELSE b.last

MutHasRoom(b, size, align) ==   \* compares before aligning
    (BlockSize - b.last) % SizeModulus >= size

(* (size_t) (p->d.end - m) >= size: the difference is taken as unsigned.   *)
HasRoom(b, size, align) == (BlockSize - StartIn(b, align)) % SizeModulus >= size
Fitting(size, align) == {i \in current..Len(blocks) : HasRoom(blocks[i], size, align)}

(* The block and the offset that ngx_palloc_small gives a request.         *)
Place(size, align) ==
    IF Fitting(size, align) # {}
    THEN LET i == Min(Fitting(size, align)) IN <<i, StartIn(blocks[i], align)>>
    ELSE <<Len(blocks) + 1, ngx_align_ptr(DataHeader)>>

(* A request that a block has room for.                                    *)
TakeRoom(size, align) ==
    LET at == Place(size, align) IN
    blocks' = [blocks EXCEPT ![at[1]].last = at[2] + size,
                             ![at[1]].chunks = Append(@, Chunk(at[2], size))]

(* The blocks that ngx_palloc_block counts a failure of, and those of them *)
(* that have failed too often.                                             *)
Failing == current..(Len(blocks) - 1)
MutTired == {i \in Failing : blocks[i].failed >= FailLimit}   \* off by one
Tired == {i \in Failing : blocks[i].failed > FailLimit}

ngx_palloc_block(size, a) ==
    LET at == ngx_align_ptr(DataHeader)
        counted == [i \in DOMAIN blocks |->
                      IF i \in Failing THEN [blocks[i] EXCEPT !.failed = @ + 1] ELSE blocks[i]]
    IN  /\ blocks' = Append(counted, Block(a, at + size, <<Chunk(at, size)>>))
        /\ current' = IF Tired = {} THEN current ELSE Max(Tired) + 1

(* A successful ngx_palloc_small while the addresses in used are taken.    *)
ngx_palloc_small(size, align, used) ==
    \/ /\ Fitting(size, align) # {}
       /\ TakeRoom(size, align)
       /\ heap' = used
       /\ UNCHANGED current
    \/ /\ Fitting(size, align) = {}
       /\ \E a \in Addresses \ used :
             /\ ngx_palloc_block(size, a)
             /\ heap' = used \cup {a}

(* ngx_palloc, ngx_pcalloc (align) and ngx_pnalloc of a small size.        *)
AllocSmall(size, align) ==
    /\ blocks # <<>> /\ size <= MaxSmall
    /\ ngx_palloc_small(size, align, heap)
    /\ UNCHANGED large

(* The node of a large allocation, from the pool itself; without one the   *)
(* memory goes back.                                                       *)
AddNode(p) ==
    /\ ngx_palloc_small(NodeSize, TRUE, heap \cup {p})
    /\ large' = <<[alloc |-> p, at |-> Place(NodeSize, TRUE)]>> \o large
MutNoNode(p) ==                     \* does not give the memory back
    /\ Fitting(NodeSize, TRUE) = {}
    /\ heap' = heap \cup {p}
    /\ UNCHANGED <<blocks, current, large>>
NoNode(p) ==
    /\ Fitting(NodeSize, TRUE) = {}
    /\ heap' = (heap \cup {p}) \ {p}
    /\ UNCHANGED <<blocks, current, large>>

(* The nodes at the head of the list that ngx_palloc_large looks at.       *)
Probed == {j \in DOMAIN large : j <= ProbeLimit + 2}
FreeSlots == {j \in Probed : large[j].alloc = Null}

ReuseNode(p) ==
    /\ large' = [large EXCEPT ![Min(FreeSlots)].alloc = p]
    /\ heap' = heap \cup {p}
    /\ UNCHANGED <<blocks, current>>

ngx_palloc_large(p) ==
    \/ FreeSlots # {} /\ ReuseNode(p)
    \/ FreeSlots = {} /\ (AddNode(p) \/ NoNode(p))

AllocLarge(size, p) ==
    /\ blocks # <<>> /\ size > MaxSmall
    /\ ngx_palloc_large(p)

ngx_pmemalign(p) == blocks # <<>> /\ (AddNode(p) \/ NoNode(p))

(* The caller gives one of its large allocations back; any other pointer   *)
(* is declined.                                                            *)
ngx_pfree(p) ==
    LET j == Min({i \in DOMAIN large : large[i].alloc = p}) IN
    /\ p \in Allocs
    /\ large' = [large EXCEPT ![j].alloc = Null]
    /\ heap' = heap \ {p}
    /\ UNCHANGED <<blocks, current>>

MutResetPool ==                     \* marks the nodes free and keeps them
    /\ blocks # <<>>
    /\ heap' = heap \ Allocs
    /\ blocks' = [i \in DOMAIN blocks |-> Block(blocks[i].mem, Header, <<>>)]
    /\ current' = 1
    /\ large' = [j \in DOMAIN large |-> [large[j] EXCEPT !.alloc = Null]]

ngx_reset_pool ==
    /\ blocks # <<>>
    /\ heap' = heap \ Allocs
    /\ blocks' = [i \in DOMAIN blocks |-> Block(blocks[i].mem, Header, <<>>)]
    /\ current' = 1
    /\ large' = <<>>

ngx_destroy_pool ==
    /\ blocks # <<>>
    /\ heap' = heap \ (Allocs \cup Mems)
    /\ blocks' = <<>> /\ current' = 0 /\ large' = <<>>

Next ==
    \/ ngx_create_pool
    \/ \E size \in Sizes, align \in BOOLEAN : AllocSmall(size, align)
    \/ \E size \in Sizes, p \in Addresses \ heap : AllocLarge(size, p)
    \/ \E p \in Addresses \ heap : ngx_pmemalign(p)
    \/ \E p \in Addresses : ngx_pfree(p)
    \/ ngx_reset_pool
    \/ ngx_destroy_pool

Spec == Init /\ [][Next]_vars

(***************************************************************************)
(* Properties.                                                             *)
(***************************************************************************)
(* Every block is an allocated address with last within it, and current is *)
(* a block of the chain (mem_pool_palloc.c:162, :202).  Checked as a part  *)
(* of ChunksApart.                                                         *)
TypeOK ==
    /\ \A i \in DOMAIN blocks :
          /\ blocks[i].mem \in heap
          /\ blocks[i].last \in DataHeader..BlockSize
          /\ blocks[i].failed \in 0..(FailLimit + 2)
    /\ IF blocks = <<>> THEN current = 0 ELSE current \in DOMAIN blocks
    /\ \A j \in DOMAIN large : large[j].alloc \in heap \cup {Null}

(* No two chunks of a block overlap, none reaches into the header or past  *)
(* the end, and none has memory that is still to be handed out             *)
(* (ngx_palloc_small, mem_pool_palloc.c:156).                              *)
ChunksApart == TypeOK /\
    \A i \in DOMAIN blocks :
       LET c == blocks[i].chunks IN
       /\ c # <<>> => c[1].from >= DataHeader /\ Last(c).to <= blocks[i].last
       /\ \A k \in 1..(Len(c) - 1) : c[k].to <= c[k + 1].from
       /\ i = 1 /\ c # <<>> => c[1].from >= Header
       /\ blocks[i].last <= BlockSize

(* The pool and the heap agree: every allocated address is that of one     *)
(* block or in one node, so that nothing leaks, nothing is freed twice and *)
(* nothing is left after ngx_destroy_pool (mem_pool_palloc.c:82-94, :239). *)
HeapOwnedOnce ==
    /\ heap = Mems \cup Allocs /\ Mems \cap Allocs = {}
    /\ \A i, j \in DOMAIN blocks : blocks[i].mem = blocks[j].mem => i = j
    /\ \A i, j \in DOMAIN large :
          large[i].alloc = large[j].alloc /\ large[i].alloc # Null => i = j

(* The list of large allocations lies in memory that the pool handed out   *)
(* for it: each node in a chunk of its own, none of which a reset has      *)
(* taken back (mem_pool_palloc.c:117, :237).                               *)
NodesInPlace ==
    /\ \A j \in DOMAIN large :
          LET at == large[j].at IN
          at[1] \in DOMAIN blocks /\ Chunk(at[2], NodeSize) \in Range(blocks[at[1]].chunks)
    /\ \A j, k \in DOMAIN large : large[j].at = large[k].at => j = k

(* Failures fall along the chain, the last block has none, and current has *)
(* passed exactly the blocks that failed FailLimit + 2 times: a block is   *)
(* never given up early, nor searched for ever (mem_pool_palloc.c:200).    *)
FailuresAlongChain ==
    /\ \A i \in DOMAIN blocks : i < current <=> blocks[i].failed = FailLimit + 2
    /\ \A i \in 1..(Len(blocks) - 1) : blocks[i].failed >= blocks[i + 1].failed
    /\ blocks # <<>> => Last(blocks).failed = 0

================================================================================
