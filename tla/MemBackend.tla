---------------------------- MODULE MemBackend -----------------------------
(***************************************************************************)
(* The memory backend of lib.c: blocks of the operating system, tracked in *)
(* a counted list so that releasing the backend frees them all, and pools  *)
(* of chunks of 2^k bytes cut out of slabs.  The mutex of a backend makes  *)
(* each operation atomic but for the calls of xMemError, during which the  *)
(* host runs; hosts use that callback to free memory.                      *)
(***************************************************************************)
EXTENDS DList, FiniteSets

CONSTANTS
  Blocks,            \* what the operating system can hand out
  INCR, NBUCKETS,    \* SXMEM_POOL_INCR and SXMEM_POOL_NBUCKETS
  RETRY,             \* SXMEM_BACKEND_RETRY
  Sizes,             \* the sizes in bytes the users ask for
  CallbackFrees      \* does xMemError free memory of this backend?

(* The powers of two that the macros write as 1u << n. *)
TwoTo[n \in 0 .. (NBUCKETS + INCR)] == IF n = 0 THEN 1 ELSE 2 * TwoTo[n-1]

HDR == TwoTo[INCR]                    \* sizeof(SyMemHeader)
MAXALLOC == TwoTo[NBUCKETS + INCR]    \* SXMEM_POOL_MAXALLOC
Buckets == 0 .. NBUCKETS
BucketSize(k) == TwoTo[k + INCR]
Chunks == Blocks \X (0 .. (MAXALLOC - 1))

ASSUME MemBackendAssumption ==
  /\ IsFiniteSet(Blocks)
  /\ NULL \notin Blocks \cup Chunks
  /\ INCR \in Nat /\ NBUCKETS \in Nat /\ RETRY \in Nat
  /\ Sizes \subseteq Nat
  /\ CallbackFrees \in BOOLEAN

VARIABLES
  os,        \* the blocks that are allocated
  size,      \* the bytes of each block behind its SyMemBlock, 0 of a free one
  list,      \* pBackend->pBlocks and the links of the blocks
  nBlock,    \* pBackend->nBlock
  apPool,    \* the free list of every bucket
  header,    \* the SyMemHeader of every chunk
  ptrs,      \* the pointers the users hold
  call       \* the operation that waits for the operating system

vars == <<os, size, list, nBlock, apPool, header, ptrs, call>>
pool == <<apPool, header>>

Big == NBUCKETS + 1                   \* the bucket number SXU16_HIGH
Used(k) == [kind |-> "used", bucket |-> k, next |-> NULL]
FreeHeader(nxt) == [kind |-> "free", bucket |-> 0, next |-> nxt]
Raw == [kind |-> "raw", bucket |-> 0, next |-> NULL]

(* A pointer: block and offset of its chunk (direct blocks have no chunk), its size. *)
Pointers == [block : Blocks, off : 0 .. MAXALLOC, n : Sizes, pooled : BOOLEAN]
Idle == [op |-> "none", n |-> 0, k |-> 0, p |-> NULL, retry |-> 0, at |-> "os",
         prv |-> NULL, nxt |-> NULL]

Init ==
  /\ os = {} /\ size = [b \in Blocks |-> 0]
  /\ list = EmptyList(Blocks) /\ nBlock = 0
  /\ apPool = [k \in Buckets |-> NULL]
  /\ header = [c \in Chunks |-> Raw]
  /\ ptrs = {} /\ call = Idle

(***************************************************************************)
(* The chunks a slab is cut into: a chunk is linked while the next one     *)
(* starts inside the slab.                                                 *)
(***************************************************************************)
Starts(k) == {o \in 0 .. (MAXALLOC - 1) : o % BucketSize(k) = 0}
CutSlab(b, k) ==
  [c \in Chunks |->
     IF c[1] = b /\ c[2] \in Starts(k)
     THEN FreeHeader(IF c[2] + BucketSize(k) >= MAXALLOC THEN NULL
                     ELSE <<b, c[2] + BucketSize(k)>>)
     ELSE header[c]]

(* The first bucket whose chunks hold n bytes and the header. *)
BucketOf(n) ==
  CHOOSE k \in Buckets :
    BucketSize(k) >= n + HDR /\ \A j \in Buckets : BucketSize(j) >= n + HDR => j >= k

IsBig(n) == n + HDR >= MAXALLOC

(* SyMemBackendAlloc *)
Alloc(n) ==
  /\ call = Idle
  /\ call' = [Idle EXCEPT !.op = "alloc", !.n = n]
  /\ UNCHANGED <<os, size, list, nBlock, pool, ptrs>>

(* Take a chunk off a free list and mark it. *)
TakeChunk(c, hdrs, k, n) ==
  /\ apPool' = [apPool EXCEPT ![k] = hdrs[c].next]
  /\ header' = [hdrs EXCEPT ![c] = Used(k)]
  /\ ptrs' = ptrs \cup {[block |-> c[1], off |-> c[2], n |-> n, pooled |-> TRUE]}

(* SyMemBackendPoolAlloc: a big block, a chunk of its bucket, or a new slab. *)
PoolAlloc(n) ==
  /\ call = Idle
  /\ \/ /\ IsBig(n)
        /\ call' = [Idle EXCEPT !.op = "big", !.n = n]
        /\ UNCHANGED <<pool, ptrs>>
     \/ /\ ~IsBig(n) /\ apPool[BucketOf(n)] # NULL
        /\ TakeChunk(apPool[BucketOf(n)], header, BucketOf(n), n)
        /\ UNCHANGED call
     \/ /\ ~IsBig(n) /\ apPool[BucketOf(n)] = NULL
        /\ call' = [Idle EXCEPT !.op = "slab", !.n = n, !.k = BucketOf(n)]
        /\ UNCHANGED <<pool, ptrs>>
  /\ UNCHANGED <<os, size, list, nBlock>>

(* SyMemBackendRealloc reads the neighbours of the block first. *)
Realloc(p, n) ==
  /\ call = Idle
  /\ p \in ptrs /\ ~p.pooled
  /\ call' = [Idle EXCEPT !.op = "realloc", !.n = n, !.p = p,
                          !.prv = list.prev[p.block], !.nxt = list.next[p.block]]
  /\ UNCHANGED <<os, size, list, nBlock, pool, ptrs>>

(***************************************************************************)
(* xAlloc succeeds: the block is linked and counted, and the operation     *)
(* that asked for it ends.                                                 *)
(***************************************************************************)
Track(b, bytes) ==
  /\ os' = os \cup {b}
  /\ size' = [size EXCEPT ![b] = bytes]
  /\ list' = LdPush(ZeroLinks(list, b), b)
  /\ nBlock' = nBlock + 1

GotBlock(b) ==
  /\ call.op \in {"alloc", "big", "slab"} /\ call.at = "os"
  /\ b \notin os
  /\ \/ /\ call.op = "alloc"
        /\ Track(b, call.n)
        /\ ptrs' = ptrs \cup {[block |-> b, off |-> 0, n |-> call.n, pooled |-> FALSE]}
        /\ UNCHANGED pool
     \/ /\ call.op = "big"
        /\ Track(b, call.n + HDR)
        /\ header' = [header EXCEPT ![<<b, 0>>] = Used(Big)]
        /\ ptrs' = ptrs \cup {[block |-> b, off |-> 0, n |-> call.n, pooled |-> TRUE]}
        /\ UNCHANGED apPool
     \/ /\ call.op = "slab"
        /\ Track(b, MAXALLOC)
        /\ TakeChunk(<<b, 0>>, CutSlab(b, call.k), call.k, call.n)
  /\ call' = Idle

(* Mutation: the successor keeps its link to the old address. *)
RelinkForward(l, old, new, prv, nxt) ==
  [head |-> IF prv = NULL THEN new ELSE l.head,
   next |-> [a \in DOMAIN l.next |->
               IF a = prv THEN new ELSE IF a = new THEN l.next[old] ELSE l.next[a]],
   prev |-> [l.prev EXCEPT ![new] = l.prev[old]]]

(* The links of a block that xRealloc moved, from the neighbours read before. *)
Relink(l, old, new, prv, nxt) ==
  [head |-> IF prv = NULL THEN new ELSE l.head,
   next |-> [a \in DOMAIN l.next |->
               IF a = prv THEN new ELSE IF a = new THEN l.next[old] ELSE l.next[a]],
   prev |-> [a \in DOMAIN l.prev |->
               IF a = nxt THEN new ELSE IF a = new THEN l.prev[old] ELSE l.prev[a]]]

(* xRealloc succeeds, in place or at a new address. *)
GotRealloc(b) ==
  LET p == call.p IN
  /\ call.op = "realloc" /\ call.at = "os"
  /\ b \notin os \/ b = p.block
  /\ os' = (os \ {p.block}) \cup {b}
  /\ size' = [size EXCEPT ![p.block] = 0, ![b] = call.n]
  /\ list' = IF b = p.block THEN list ELSE Relink(list, p.block, b, call.prv, call.nxt)
  /\ ptrs' = (ptrs \ {p}) \cup {[p EXCEPT !.block = b, !.n = call.n]}
  /\ call' = Idle
  /\ UNCHANGED <<nBlock, pool>>

(* Mutation: the retries are not bounded. *)
NoMemoryEver ==
  /\ call # Idle /\ call.at = "os"
  /\ call' = [call EXCEPT !.at = "callback"]
  /\ UNCHANGED <<os, size, list, nBlock, pool, ptrs>>

(* The operating system has no memory: ask xMemError, if there are retries left. *)
NoMemory ==
  /\ call # Idle /\ call.at = "os"
  /\ call' = IF call.retry > RETRY THEN Idle ELSE [call EXCEPT !.at = "callback"]
  /\ UNCHANGED <<os, size, list, nBlock, pool, ptrs>>

(* Mutation: a retry is not counted. *)
AnswerUncounted ==
  /\ call.at = "callback"
  /\ \/ call' = [call EXCEPT !.at = "os"]
     \/ call' = Idle
  /\ UNCHANGED <<os, size, list, nBlock, pool, ptrs>>

(* xMemError answers SXERR_RETRY or not; a backend without one behaves as not. *)
Answer ==
  /\ call.at = "callback"
  /\ \/ call' = [call EXCEPT !.at = "os", !.retry = @ + 1]
     \/ call' = Idle
  /\ UNCHANGED <<os, size, list, nBlock, pool, ptrs>>

(* The users may free: outside of any operation, or in the callback. *)
MayFree == call = Idle \/ (call.at = "callback" /\ CallbackFrees)

(* MemBackendFree: unlink the block and give it back. *)
Untrack(b) ==
  /\ list' = LdRemove(list, b)
  /\ nBlock' = nBlock - 1
  /\ os' = os \ {b}
  /\ size' = [size EXCEPT ![b] = 0]

Free(p) ==
  /\ MayFree
  /\ p \in ptrs \ {call.p} /\ ~p.pooled
  /\ IF nBlock > 0 THEN Untrack(p.block) ELSE UNCHANGED <<os, size, list, nBlock>>
  /\ ptrs' = ptrs \ {p}
  /\ UNCHANGED <<pool, call>>

(* Mutation: the mark in the header is not tested. *)
PoolFreeUnmarked(c) ==
  /\ MayFree
  /\ c[1] \in os /\ header[c].kind # "raw" /\ header[c].bucket # Big
  /\ header' = [header EXCEPT ![c] = FreeHeader(apPool[header[c].bucket])]
  /\ apPool' = [apPool EXCEPT ![header[c].bucket] = c]
  /\ ptrs' = {q \in ptrs : ~q.pooled \/ <<q.block, q.off>> # c}
  /\ UNCHANGED <<os, list, nBlock, size, call>>

(* SyMemBackendPoolFree: the mark in the header tells a big block, a chunk  *)
(* and, for a pointer that was freed already, neither.                      *)
PoolFree(c) ==
  /\ MayFree
  /\ c[1] \in os
  /\ LET p == {q \in ptrs : q.pooled /\ <<q.block, q.off>> = c} IN
     \/ /\ header[c].kind = "used" /\ header[c].bucket = Big
        /\ Untrack(c[1])
        /\ header' = [header EXCEPT ![c] = Raw]
        /\ ptrs' = ptrs \ p
        /\ UNCHANGED apPool
     \/ /\ header[c].kind = "used" /\ header[c].bucket # Big
        /\ header' = [header EXCEPT ![c] = FreeHeader(apPool[header[c].bucket])]
        /\ apPool' = [apPool EXCEPT ![header[c].bucket] = c]
        /\ ptrs' = ptrs \ p
        /\ UNCHANGED <<os, size, list, nBlock>>
     \/ /\ header[c].kind = "free"
        /\ UNCHANGED <<os, size, list, nBlock, pool, ptrs>>
  /\ UNCHANGED call

(* Mutation: the free lists survive the release of their slabs. *)
ReleaseKeepsPools ==
  /\ call = Idle
  /\ os' = os \ FirstItems(list, nBlock)
  /\ nBlock' = 0
  /\ list' = EmptyList(Blocks)
  /\ header' = [c \in Chunks |-> Raw]
  /\ ptrs' = {}
  /\ size' = [b \in Blocks |-> IF b \in os' THEN size[b] ELSE 0]
  /\ UNCHANGED <<apPool, call>>

(* SyMemBackendRelease walks nBlock blocks from the head; the next          *)
(* SyMemBackendInit zeroes the backend.                                     *)
ReleaseBackend ==
  /\ call = Idle
  /\ os' = os \ FirstItems(list, nBlock)
  /\ nBlock' = 0
  /\ list' = EmptyList(Blocks)
  /\ apPool' = [k \in Buckets |-> NULL]
  /\ header' = [c \in Chunks |-> Raw]
  /\ ptrs' = {}
  /\ size' = [b \in Blocks |-> IF b \in os' THEN size[b] ELSE 0]
  /\ UNCHANGED call

Next ==
  \/ \E n \in Sizes : Alloc(n) \/ PoolAlloc(n) \/ \E p \in ptrs : Realloc(p, n)
  \/ \E b \in Blocks : GotBlock(b) \/ GotRealloc(b)
  \/ NoMemory \/ Answer
  \/ \E p \in ptrs : Free(p)
  \/ \E c \in Chunks : PoolFree(c)
  \/ ReleaseBackend

Spec == Init /\ [][Next]_vars

(* Neither the operating system nor xMemError keeps a caller waiting. *)
FairSpec ==
  Spec /\ WF_vars((\E b \in Blocks : GotBlock(b) \/ GotRealloc(b)) \/ NoMemory \/ Answer)
----------------------------------------------------------------------------
TypeOK ==
  /\ os \subseteq Blocks
  /\ size \in [Blocks -> Nat]
  /\ list \in Lists(Blocks)
  /\ nBlock \in Int
  /\ apPool \in [Buckets -> Chunks \cup {NULL}]
  /\ header \in [Chunks -> [kind : {"used", "free", "raw"}, bucket : 0..Big,
                            next : Chunks \cup {NULL}]]
  /\ ptrs \subseteq Pointers
  /\ call \in [op : {"none", "alloc", "big", "slab", "realloc"}, n : Sizes \cup {0},
               k : Buckets, p : Pointers \cup {NULL}, retry : 0..(RETRY + 1),
               at : {"os", "callback"}, prv : Blocks \cup {NULL}, nxt : Blocks \cup {NULL}]

(***************************************************************************)
(* The list holds exactly the blocks the backend owns and nBlock counts    *)
(* them: the counted walk of MemBackendRelease (lib.c:1495-1536) frees each*)
(* block once and leaks none.                                              *)
(***************************************************************************)
BlocksTracked == Linked(list, os) /\ nBlock = Cardinality(os)

(***************************************************************************)
(* A free list leads, without a cycle, through free chunks of its own      *)
(* bucket, and a slab's chunks are on their free list or with a user: none *)
(* is lost, none is twice.                                                 *)
(***************************************************************************)
FreeOf(k) ==
  LET reach[i \in 0 .. Cardinality(Chunks)] ==
        IF i = 0 THEN {apPool[k]} \ {NULL}
        ELSE LET before == reach[i-1]
             IN before \cup ({header[c].next : c \in before} \ {NULL})
  IN reach[Cardinality(Chunks)]
InUse == {<<p.block, p.off>> : p \in {q \in ptrs : q.pooled}}
PoolsSound ==
  /\ \A k \in Buckets : \A c \in FreeOf(k) :
       /\ c[1] \in os /\ c[2] + BucketSize(k) <= size[c[1]]
       /\ header[c].kind = "free" /\ c \notin InUse
       /\ Cardinality({d \in FreeOf(k) : header[d].next = c} ) = (IF c = apPool[k] THEN 0 ELSE 1)
       /\ \A j \in Buckets \ {k} : c \notin FreeOf(j)
  /\ \A c \in Chunks : (c[1] \in os /\ header[c].kind = "free") => \E k \in Buckets : c \in FreeOf(k)

(* The operating system is asked again only a bounded number of times. *)
AllocReturns == call # Idle ~> call = Idle

(***************************************************************************)
(* Refinement: a pointer owns the bytes its user asked for.                *)
(***************************************************************************)
Cell == Blocks \X Nat
Region(p) ==
  {<<p.block, x>> : x \in LET from == p.off + (IF p.pooled THEN HDR ELSE 0)
                          IN from .. (from + p.n - 1)}
TheHeap == INSTANCE Heap WITH Cells <- Cell, used <- {Region(p) : p \in ptrs}
HeapSpec == TheHeap!Spec

============================================================================
