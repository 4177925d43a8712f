-------------------------- MODULE MemBackendProofs --------------------------
(***************************************************************************)
(* Proofs about the memory backend, for every number of blocks, buckets and*)
(* sizes: types, the list of blocks, the free lists of the pools, and that *)
(* the backend implements Heap.                                            *)
(***************************************************************************)
EXTENDS MemBackend, DListTheorems

(***************************************************************************)
(* Numbers: the sizes are powers of two, each a multiple of the smaller.   *)
(***************************************************************************)
LEMMA TwoToSteps ==
  /\ TwoTo[0] = 1
  /\ \A n \in 1 .. (NBUCKETS + INCR) : TwoTo[n] = 2 * TwoTo[n-1]
<1> DEFINE N == NBUCKETS + INCR
           Solves(f) == f = [n \in 0..N |-> IF n = 0 THEN 1 ELSE 2 * f[n-1]]
           double == [x \in Nat |-> 2 * x]
<1>1. N \in Nat
  BY MemBackendAssumption
<1>2. double \in [Nat -> Nat] /\ 1 \in Nat
  OBVIOUS
<1>3. PICK f \in [0..N -> Nat] : Iterated(f, double, 1, N)
  <2> HIDE DEF N, double
  <2> QED BY <1>1, <1>2, Iterates
<1>4. Solves(f)
  <2>1. ASSUME NEW n \in 0..N PROVE f[n] = IF n = 0 THEN 1 ELSE 2 * f[n-1]
    <3>1. n # 0 => n \in 1..N /\ n - 1 \in 0..N
      BY <1>1
    <3> QED BY <1>3, <3>1 DEF Iterated
  <2> QED BY <2>1
<1>5. TwoTo = CHOOSE g : Solves(g)
  BY DEF TwoTo
<1>6. Solves(TwoTo)
  <2> HIDE DEF Solves
  <2> QED BY <1>4, <1>5
<1> QED BY <1>1, <1>6

LEMMA TwoToPositive == \A n \in 0 .. (NBUCKETS + INCR) : TwoTo[n] \in Nat \ {0}
<1> DEFINE N == NBUCKETS + INCR
           G == {n \in 0..N : TwoTo[n] \in Nat \ {0}}
<1>1. N \in Nat
  BY MemBackendAssumption
<1>2. 0 \in G
  BY <1>1, TwoToSteps
<1>3. \A n \in 0..N : (n < N /\ n \in G) => (n + 1 \in G)
  BY <1>1, TwoToSteps
<1>4. 0..N \subseteq G
  <2> HIDE DEF G, N
  <2> QED BY <1>1, <1>2, <1>3, UpTo
<1> QED BY <1>4

(* What the division by a positive number says of its multiples. *)
LEMMA Multiple ==
  ASSUME NEW B \in Nat \ {0}, NEW o \in Nat, o % B = 0
  PROVE  \E q \in Nat : o = q * B
<1>1. o = B * (o \div B) + (o % B)
  OBVIOUS
<1>2. o \div B \in Nat
  OBVIOUS
<1> QED BY <1>1, <1>2

LEMMA MultipleOf ==
  ASSUME NEW B \in Nat \ {0}, NEW q \in Nat
  PROVE  (q * B) % B = 0
OBVIOUS

LEMMA NextMultiple ==
  ASSUME NEW B \in Nat \ {0}, NEW o \in Nat, o % B = 0
  PROVE  (o + B) % B = 0
<1>1. PICK q \in Nat : o = q * B
  BY Multiple
<1>2. o + B = (q + 1) * B /\ q + 1 \in Nat
  BY <1>1
<1> QED BY <1>2, MultipleOf

LEMMA PreviousMultiple ==
  ASSUME NEW B \in Nat \ {0}, NEW o \in Nat, o % B = 0, o # 0
  PROVE  o - B \in Nat /\ (o - B) % B = 0
<1>1. PICK q \in Nat : o = q * B
  BY Multiple
<1>2. o - B = (q - 1) * B /\ q - 1 \in Nat
  BY <1>1
<1>3. (q - 1) * B \in Nat
  BY <1>2
<1> QED BY <1>2, <1>3, MultipleOf

LEMMA MultiplesApart ==
  ASSUME NEW B \in Nat \ {0}, NEW o \in Nat, NEW p \in Nat, o % B = 0, p % B = 0, o < p
  PROVE  o + B <= p
<1>1. PICK i \in Nat : o = i * B
  BY Multiple
<1>2. PICK j \in Nat : p = j * B
  BY Multiple
<1>3. i < j
  BY <1>1, <1>2
<1>4. (i + 1) * B <= j * B
  BY <1>3
<1> QED BY <1>1, <1>2, <1>4

(* A slab is a whole number of chunks of each bucket. *)
LEMMA SlabMultiple ==
  ASSUME NEW k \in Buckets
  PROVE  MAXALLOC % BucketSize(k) = 0
<1> DEFINE N == NBUCKETS + INCR
           j == k + INCR
           B == TwoTo[j]
           G == {i \in 0..(N - j) : TwoTo[j + i] % B = 0}
<1>1. /\ N \in Nat /\ j \in 0..N /\ N - j \in Nat
      /\ \A i \in 0..(N - j) : j + i \in 0..N
      /\ \A i \in 0..(N - j) : i < N - j => (j + (i + 1) \in 1..N /\ j + (i + 1) - 1 = j + i)
  BY MemBackendAssumption DEF Buckets
<1>2. B \in Nat \ {0}
  BY <1>1, TwoToPositive
<1>3. 0 \in G
  <2>1. B % B = 0
    BY <1>2
  <2> QED BY <1>1, <2>1
<1>4. ASSUME NEW i \in 0..(N - j), i < N - j, i \in G PROVE i + 1 \in G
  <2>1. TwoTo[j + i] \in Nat /\ TwoTo[j + i] % B = 0
    BY <1>1, <1>4, TwoToPositive
  <2>2. TwoTo[j + (i + 1)] = 2 * TwoTo[j + i]
    BY <1>1, <1>4, TwoToSteps
  <2> HIDE DEF B
  <2>3. PICK q \in Nat : TwoTo[j + i] = q * B
    BY <1>2, <2>1, Multiple
  <2>4. TwoTo[j + (i + 1)] = (2 * q) * B /\ 2 * q \in Nat
    BY <1>2, <2>2, <2>3
  <2>5. TwoTo[j + (i + 1)] % B = 0
    BY <1>2, <2>4, MultipleOf
  <2> QED BY <1>1, <1>4, <2>5
<1>5. 0..(N - j) \subseteq G
  <2> HIDE DEF G, N, j
  <2> QED BY <1>1, <1>3, <1>4, UpTo
<1>6. N - j \in G /\ j + (N - j) = N
  BY <1>1, <1>5
<1> QED BY <1>6 DEF MAXALLOC, BucketSize

LEMMA SizesPositive ==
  /\ HDR \in Nat \ {0} /\ MAXALLOC \in Nat \ {0}
  /\ \A k \in Buckets : BucketSize(k) \in Nat \ {0}
  /\ BucketSize(NBUCKETS) = MAXALLOC
<1>1. /\ INCR \in 0..(NBUCKETS + INCR) /\ NBUCKETS + INCR \in 0..(NBUCKETS + INCR)
      /\ \A k \in Buckets : k + INCR \in 0..(NBUCKETS + INCR)
  BY MemBackendAssumption DEF Buckets
<1> QED BY <1>1, TwoToPositive DEF HDR, MAXALLOC, BucketSize

(* The bucket of a size that is not big: the loop finds one that fits. *)
LEMMA BucketFits ==
  ASSUME NEW n \in Sizes, ~ IsBig(n)
  PROVE  BucketOf(n) \in Buckets /\ BucketSize(BucketOf(n)) >= n + HDR
<1> DEFINE Fit == {k \in Buckets : BucketSize(k) >= n + HDR}
<1>1. n \in Nat /\ NBUCKETS \in Nat
  BY MemBackendAssumption
<1>2. NBUCKETS \in Fit
  BY <1>1, SizesPositive DEF IsBig, Buckets
<1>3. PICK k \in Fit : \A j \in Fit : ~ (j < k)
  <2>1. Fit \in SUBSET Nat /\ Fit # {}
    BY <1>1, <1>2 DEF Buckets
  <2> QED BY <2>1, LeastNatural
<1>4. \E i \in Buckets : BucketSize(i) >= n + HDR /\ \A j \in Buckets : BucketSize(j) >= n + HDR => j >= i
  BY <1>1, <1>3 DEF Buckets
<1> QED BY <1>4 DEF BucketOf
----------------------------------------------------------------------------
(***************************************************************************)
(* Types.  What the operation in progress has noted is needed to type its  *)
(* end: an idle backend has noted nothing, a wait for xMemError has a retry*)
(* left.                                                                   *)
(***************************************************************************)
CallNoted ==
  /\ call.op = "none" => call = Idle
  /\ call.op # "none" => call.n \in Sizes
  /\ call.op = "realloc" => call.p \in Pointers
  /\ call.at = "callback" => call.retry <= RETRY

Typed == TypeOK /\ CallNoted

LEMMA InitTyped == Init => Typed
<1> SUFFICES ASSUME Init PROVE Typed
  OBVIOUS
<1> USE MemBackendAssumption, SizesPositive
<1>1. os \subseteq Blocks /\ nBlock \in Int /\ ptrs \subseteq Pointers /\ size \in [Blocks -> Nat]
  BY DEF Init
<1>2. list \in Lists(Blocks)
  BY DEF Init, EmptyList, Lists
<1>3. apPool \in [Buckets -> Chunks \cup {NULL}]
  BY DEF Init
<1>4. header \in [Chunks -> [kind : {"used", "free", "raw"}, bucket : 0..Big, next : Chunks \cup {NULL}]]
  <2>1. 0 \in 0..Big
    BY DEF Big
  <2> QED BY <2>1 DEF Init, Raw
<1>5. call = Idle
  BY DEF Init
<1>6. Idle.k \in Buckets /\ Idle.retry \in 0..(RETRY + 1) /\ Idle.retry <= RETRY
  BY DEF Idle, Buckets
<1> QED BY <1>1, <1>2, <1>3, <1>4, <1>5, <1>6 DEF Typed, TypeOK, CallNoted, Idle

Headers == [kind : {"used", "free", "raw"}, bucket : 0..Big, next : Chunks \cup {NULL}]

(* The headers the code writes. *)
LEMMA HeaderTypes ==
  /\ Raw \in Headers
  /\ \A k \in Buckets \cup {Big} : Used(k) \in Headers
  /\ \A c \in Chunks \cup {NULL} : FreeHeader(c) \in Headers
<1>1. 0 \in 0..Big /\ \A k \in Buckets \cup {Big} : k \in 0..Big
  BY MemBackendAssumption DEF Big, Buckets
<1> QED BY <1>1 DEF Raw, Used, FreeHeader, Headers

LEMMA CutTyped ==
  ASSUME TypeOK, NEW b \in Blocks, NEW k \in Buckets
  PROVE  CutSlab(b, k) \in [Chunks -> Headers]
<1>1. ASSUME NEW c \in Chunks
      PROVE  (IF c[2] + BucketSize(k) >= MAXALLOC THEN NULL ELSE <<b, c[2] + BucketSize(k)>>)
               \in Chunks \cup {NULL}
  <2>1. c[2] \in Nat /\ BucketSize(k) \in Nat /\ MAXALLOC \in Nat
    BY SizesPositive DEF Chunks
  <2> QED BY <2>1 DEF Chunks
<1>2. header \in [Chunks -> Headers]
  BY DEF TypeOK, Headers
<1>3. \A c \in Chunks :
        FreeHeader(IF c[2] + BucketSize(k) >= MAXALLOC THEN NULL ELSE <<b, c[2] + BucketSize(k)>>) \in Headers
  BY <1>1, HeaderTypes
<1> QED BY <1>2, <1>3 DEF CutSlab

LEMMA TrackTyped ==
  ASSUME TypeOK, NEW b \in Blocks, NEW bytes \in Nat, Track(b, bytes)
  PROVE  os' \subseteq Blocks /\ size' \in [Blocks -> Nat] /\ list' \in Lists(Blocks) /\ nBlock' \in Int
<1>1. list' \in Lists(Blocks)
  <2>1. ZeroLinks(list, b) \in Lists(Blocks)
    BY ZeroLinksType DEF TypeOK
  <2> QED BY <2>1, LdPushType DEF Track
<1> QED BY <1>1 DEF Track, TypeOK

LEMMA UntrackTyped ==
  ASSUME TypeOK, NEW b \in Blocks, Untrack(b)
  PROVE  os' \subseteq Blocks /\ size' \in [Blocks -> Nat] /\ list' \in Lists(Blocks) /\ nBlock' \in Int
<1>1. list' \in Lists(Blocks)
  BY LdRemoveType DEF TypeOK, Untrack
<1> QED BY <1>1 DEF Untrack, TypeOK

LEMMA TakeTyped ==
  ASSUME TypeOK, NEW c \in Chunks, NEW hdrs \in [Chunks -> Headers], NEW k \in Buckets,
         NEW n \in Sizes, TakeChunk(c, hdrs, k, n)
  PROVE  /\ apPool' \in [Buckets -> Chunks \cup {NULL}]
         /\ header' \in [Chunks -> Headers]
         /\ ptrs' \subseteq Pointers
<1>1. hdrs[c].next \in Chunks \cup {NULL}
  BY DEF Headers
<1>2. apPool' \in [Buckets -> Chunks \cup {NULL}]
  BY <1>1 DEF TakeChunk, TypeOK
<1>3. header' \in [Chunks -> Headers]
  BY HeaderTypes DEF TakeChunk
<1>4. [block |-> c[1], off |-> c[2], n |-> n, pooled |-> TRUE] \in Pointers
  BY SizesPositive DEF Chunks, Pointers
<1> QED BY <1>2, <1>3, <1>4 DEF TakeChunk, TypeOK

(* The neighbours that a reallocation relinks are links of the list. *)
LEMMA RelinkType ==
  ASSUME NEW Addr, NEW l \in Lists(Addr), NEW old \in Addr, NEW fresh \in Addr, NEW prv, NEW nxt
  PROVE  Relink(l, old, fresh, prv, nxt) \in Lists(Addr)
BY DEF Relink, Lists

Operations ==
  [op : {"none", "alloc", "big", "slab", "realloc"}, n : Sizes \cup {0}, k : Buckets,
   p : Pointers \cup {NULL}, retry : 0..(RETRY + 1), at : {"os", "callback"},
   prv : Blocks \cup {NULL}, nxt : Blocks \cup {NULL}]

LEMMA IdleTyped == Idle \in Operations /\ Idle.op = "none" /\ Idle.at = "os"
<1>1. 0 \in Buckets /\ 0 \in 0..(RETRY + 1)
  BY MemBackendAssumption DEF Buckets
<1> QED BY <1>1 DEF Idle, Operations

LEMMA TypedStep == Typed /\ [Next]_vars => Typed'
<1> SUFFICES ASSUME Typed, [Next]_vars PROVE Typed'
  OBVIOUS
<1> USE DEF Typed
<1>0. /\ header \in [Chunks -> Headers]
      /\ Idle.n \in Sizes \cup {0} /\ Idle.k \in Buckets /\ Idle.retry \in 0..(RETRY + 1) /\ Idle.retry <= RETRY
      /\ Idle.op = "none" /\ Idle.p = NULL /\ Idle.at = "os" /\ Idle.prv = NULL /\ Idle.nxt = NULL
      /\ Sizes \subseteq Nat /\ RETRY \in Nat /\ HDR \in Nat /\ MAXALLOC \in Nat \ {0}
  BY MemBackendAssumption, SizesPositive DEF TypeOK, Headers, Idle, Buckets
<1>1. ASSUME NEW n \in Sizes, Alloc(n) PROVE Typed'
  BY <1>0, <1>1 DEF Alloc, TypeOK, CallNoted, Idle, pool
<1>2. ASSUME NEW n \in Sizes, PoolAlloc(n) PROVE Typed'
  <2>1. UNCHANGED <<os, size, list, nBlock>> /\ call = Idle
    BY <1>2 DEF PoolAlloc
  <2>2. CASE IsBig(n) /\ call' = [Idle EXCEPT !.op = "big", !.n = n] /\ UNCHANGED <<pool, ptrs>>
    BY <1>0, <2>1, <2>2 DEF TypeOK, CallNoted, Idle, pool
  <2>3. CASE /\ ~IsBig(n) /\ apPool[BucketOf(n)] # NULL
             /\ TakeChunk(apPool[BucketOf(n)], header, BucketOf(n), n)
             /\ UNCHANGED call
    <3>1. BucketOf(n) \in Buckets /\ apPool[BucketOf(n)] \in Chunks
      BY <2>3, BucketFits DEF TypeOK
    <3>2. /\ apPool' \in [Buckets -> Chunks \cup {NULL}]
          /\ header' \in [Chunks -> Headers]
          /\ ptrs' \subseteq Pointers
      BY <1>0, <2>3, <3>1, TakeTyped
    <3> QED BY <2>1, <2>3, <3>2 DEF TypeOK, CallNoted, Headers
  <2>4. CASE ~IsBig(n) /\ call' = [Idle EXCEPT !.op = "slab", !.n = n, !.k = BucketOf(n)] /\ UNCHANGED <<pool, ptrs>>
    <3>1. BucketOf(n) \in Buckets
      BY <2>4, BucketFits
    <3> QED BY <1>0, <2>1, <2>4, <3>1 DEF TypeOK, CallNoted, Idle, pool
  <2> QED BY <1>2, <2>2, <2>3, <2>4 DEF PoolAlloc
<1>3. ASSUME NEW p \in ptrs, NEW n \in Sizes, Realloc(p, n) PROVE Typed'
  <2>1. p \in Pointers /\ list.prev[p.block] \in Blocks \cup {NULL} /\ list.next[p.block] \in Blocks \cup {NULL}
    BY DEF TypeOK, Lists, Pointers
  <2> QED BY <1>0, <1>3, <2>1 DEF Realloc, TypeOK, CallNoted, Idle, pool
<1>4. ASSUME NEW b \in Blocks, GotBlock(b) PROVE Typed'
  <2>1. call.n \in Sizes /\ call.n \in Nat /\ call' = Idle /\ call.k \in Buckets
    BY <1>0, <1>4 DEF GotBlock, CallNoted, TypeOK
  <2>2. call' \in Operations /\ CallNoted'
    BY <2>1, IdleTyped DEF CallNoted
  <2>a. \A pooled \in BOOLEAN : [block |-> b, off |-> 0, n |-> call.n, pooled |-> pooled] \in Pointers
    <3>1. 0 \in 0..MAXALLOC
      BY <1>0
    <3> QED BY <2>1, <3>1 DEF Pointers
  <2>3. CASE call.op = "alloc"
    <3>1. Track(b, call.n) /\ UNCHANGED pool
          /\ ptrs' = ptrs \cup {[block |-> b, off |-> 0, n |-> call.n, pooled |-> FALSE]}
      BY <1>4, <2>3 DEF GotBlock
    <3>2. ptrs' \subseteq Pointers
      BY <2>a, <3>1 DEF TypeOK
    <3>3. os' \subseteq Blocks /\ size' \in [Blocks -> Nat] /\ list' \in Lists(Blocks) /\ nBlock' \in Int
      BY <2>1, <3>1, TrackTyped
    <3> QED BY <2>2, <3>1, <3>2, <3>3 DEF TypeOK, Operations, pool
  <2>4. CASE call.op = "big"
    <3>1. /\ Track(b, call.n + HDR) /\ UNCHANGED apPool
          /\ header' = [header EXCEPT ![<<b, 0>>] = Used(Big)]
          /\ ptrs' = ptrs \cup {[block |-> b, off |-> 0, n |-> call.n, pooled |-> TRUE]}
      BY <1>4, <2>4 DEF GotBlock
    <3>2. ptrs' \subseteq Pointers
      BY <2>a, <3>1 DEF TypeOK
    <3>3. os' \subseteq Blocks /\ size' \in [Blocks -> Nat] /\ list' \in Lists(Blocks) /\ nBlock' \in Int
      <4>1. call.n + HDR \in Nat
        BY <1>0, <2>1
      <4> QED BY <3>1, <4>1, TrackTyped
    <3>4. header' \in [Chunks -> Headers]
      BY <1>0, <3>1, HeaderTypes
    <3> QED BY <2>2, <3>1, <3>2, <3>3, <3>4 DEF TypeOK, Operations, Headers
  <2>5. CASE call.op = "slab"
    <3>1. Track(b, MAXALLOC) /\ TakeChunk(<<b, 0>>, CutSlab(b, call.k), call.k, call.n)
      BY <1>4, <2>5 DEF GotBlock
    <3>2. os' \subseteq Blocks /\ size' \in [Blocks -> Nat] /\ list' \in Lists(Blocks) /\ nBlock' \in Int
      BY <1>0, <3>1, TrackTyped
    <3>3. <<b, 0>> \in Chunks
      BY <1>0 DEF Chunks
    <3>4. /\ apPool' \in [Buckets -> Chunks \cup {NULL}]
          /\ header' \in [Chunks -> Headers]
          /\ ptrs' \subseteq Pointers
      BY <2>1, <3>1, <3>3, CutTyped, TakeTyped
    <3> QED BY <2>2, <3>2, <3>4 DEF TypeOK, Operations, Headers
  <2> QED BY <1>4, <2>3, <2>4, <2>5 DEF GotBlock
<1>5. ASSUME NEW b \in Blocks, GotRealloc(b) PROVE Typed'
  <2>1. call.p \in Pointers /\ call.n \in Sizes /\ call.n \in Nat /\ call' = Idle /\ UNCHANGED <<nBlock, pool>>
    BY <1>0, <1>5 DEF GotRealloc, CallNoted
  <2>2. os' \subseteq Blocks /\ size' \in [Blocks -> Nat]
    BY <1>5, <2>1 DEF GotRealloc, TypeOK, Pointers
  <2>3. list' \in Lists(Blocks)
    BY <1>5, <2>1, RelinkType DEF GotRealloc, TypeOK, Pointers
  <2>4. ptrs' \subseteq Pointers
    BY <1>5, <2>1 DEF GotRealloc, TypeOK, Pointers
  <2>5. call' \in Operations /\ CallNoted'
    BY <2>1, IdleTyped DEF CallNoted
  <2> QED BY <2>1, <2>2, <2>3, <2>4, <2>5 DEF TypeOK, Operations, pool
<1>6. ASSUME NoMemory PROVE Typed'
  <2>1. call.op # "none"
    BY <1>6 DEF NoMemory, CallNoted
  <2> QED BY <1>0, <1>6, <2>1 DEF NoMemory, TypeOK, CallNoted, Idle, pool
<1>7. ASSUME Answer PROVE Typed'
  <2>1. call \in Operations /\ call.at = "callback" /\ call.retry <= RETRY /\ UNCHANGED <<os, size, list, nBlock, pool, ptrs>>
    BY <1>7 DEF Answer, TypeOK, CallNoted, Operations
  <2>2. CASE call' = [call EXCEPT !.at = "os", !.retry = @ + 1]
    <3>1. call.retry + 1 \in 0..(RETRY + 1)
      BY <1>0, <2>1 DEF Operations
    <3>2. call' \in Operations /\ call'.at = "os" /\ call'.op = call.op /\ call'.n = call.n /\ call'.p = call.p
      BY <2>1, <2>2, <3>1 DEF Operations
    <3>3. call.op # "none"
      BY <2>1, IdleTyped DEF CallNoted
    <3>4. CallNoted'
      BY <3>2, <3>3 DEF CallNoted
    <3> QED BY <2>1, <3>2, <3>4 DEF TypeOK, Operations, pool
  <2>3. CASE call' = Idle
    <3>1. call' \in Operations /\ CallNoted'
      BY <2>3, IdleTyped DEF CallNoted
    <3> QED BY <2>1, <3>1 DEF TypeOK, Operations, pool
  <2> QED BY <1>7, <2>2, <2>3 DEF Answer
<1>8. ASSUME NEW p \in ptrs, Free(p) PROVE Typed'
  <2>1. p.block \in Blocks /\ UNCHANGED <<pool, call>> /\ ptrs' \subseteq ptrs
    BY <1>8 DEF Free, TypeOK, Pointers
  <2>2. os' \subseteq Blocks /\ size' \in [Blocks -> Nat] /\ list' \in Lists(Blocks) /\ nBlock' \in Int
    BY <1>8, <2>1, UntrackTyped DEF Free, TypeOK
  <2> QED BY <2>1, <2>2 DEF TypeOK, CallNoted, pool
<1>9. ASSUME NEW c \in Chunks, PoolFree(c) PROVE Typed'
  <2>0. c[1] \in Blocks /\ UNCHANGED call
    BY <1>9 DEF PoolFree, Chunks
  <2>1. CASE header[c].kind = "used" /\ header[c].bucket = Big
    <3>1. Untrack(c[1]) /\ header' = [header EXCEPT ![c] = Raw] /\ ptrs' \subseteq ptrs /\ UNCHANGED apPool
      BY <1>9, <2>1 DEF PoolFree
    <3>2. os' \subseteq Blocks /\ size' \in [Blocks -> Nat] /\ list' \in Lists(Blocks) /\ nBlock' \in Int
      BY <2>0, <3>1, UntrackTyped
    <3>3. header' \in [Chunks -> Headers]
      BY <1>0, <3>1, HeaderTypes
    <3> QED BY <2>0, <3>1, <3>2, <3>3 DEF TypeOK, CallNoted, Headers
  <2>2. CASE header[c].kind = "used" /\ header[c].bucket # Big
    <3>1. /\ header' = [header EXCEPT ![c] = FreeHeader(apPool[header[c].bucket])]
          /\ apPool' = [apPool EXCEPT ![header[c].bucket] = c]
          /\ ptrs' \subseteq ptrs /\ UNCHANGED <<os, size, list, nBlock>>
      BY <1>9, <2>2 DEF PoolFree
    <3>2. header[c].bucket \in Buckets
      BY <1>0, <2>2, MemBackendAssumption DEF Headers, Big, Buckets
    <3>3. FreeHeader(apPool[header[c].bucket]) \in Headers
      BY <3>2, HeaderTypes DEF TypeOK
    <3>4. header' \in [Chunks -> Headers] /\ apPool' \in [Buckets -> Chunks \cup {NULL}]
      BY <1>0, <3>1, <3>2, <3>3 DEF TypeOK
    <3> QED BY <2>0, <3>1, <3>4 DEF TypeOK, CallNoted, Headers
  <2>3. CASE header[c].kind = "free"
    BY <1>9, <2>0, <2>3 DEF PoolFree, TypeOK, CallNoted, pool
  <2> QED BY <1>9, <2>1, <2>2, <2>3 DEF PoolFree
<1>10. ASSUME ReleaseBackend PROVE Typed'
  <2>1. list' \in Lists(Blocks)
    BY <1>10 DEF ReleaseBackend, EmptyList, Lists
  <2>2. header' \in [Chunks -> Headers]
    BY <1>10, HeaderTypes DEF ReleaseBackend
  <2>3. os' \subseteq Blocks /\ size' \in [Blocks -> Nat] /\ nBlock' \in Int /\ ptrs' \subseteq Pointers
        /\ apPool' \in [Buckets -> Chunks \cup {NULL}] /\ UNCHANGED call
    BY <1>10 DEF ReleaseBackend, TypeOK
  <2> QED BY <2>1, <2>2, <2>3 DEF TypeOK, CallNoted, Headers
<1>11. CASE UNCHANGED vars
  BY <1>11 DEF vars, pool, TypeOK, CallNoted
<1> QED BY <1>1, <1>2, <1>3, <1>4, <1>5, <1>6, <1>7, <1>8, <1>9, <1>10, <1>11 DEF Next

LEMMA TypedInvariance == Spec => []Typed
<1> QED BY InitTyped, TypedStep, PTL DEF Spec

(***************************************************************************)
(* The state of the backend and of the operation in progress keeps its     *)
(* type, whatever the callback of the host frees: the retries stay within  *)
(* SXMEM_BACKEND_RETRY, every link leads to a block of the backend and     *)
(* every mark of a header names a bucket.                                  *)
(***************************************************************************)
THEOREM TypeCorrect == Spec => []TypeOK
<1>1. Typed => TypeOK
  BY DEF Typed
<1> QED BY <1>1, TypedInvariance, PTL
----------------------------------------------------------------------------
(***************************************************************************)
(* The inductive invariant, for a host whose xMemError frees nothing.      *)
(* What a block is used for is nowhere written down: a slab of a bucket, a *)
(* big block or a block of its own.  The invariant says that there is an   *)
(* answer for every block that explains every header, pointer and free     *)
(* list.                                                                   *)
(***************************************************************************)
Direct == Big + 1
Uses == 0 .. Direct

(* Marked and linked headers are where the use of their block has chunks. *)
HeadersSound(use) ==
  \A c \in Chunks : header[c].kind # "raw" =>
     /\ c[1] \in os
     /\ \/ /\ use[c[1]] \in Buckets
           /\ size[c[1]] = MAXALLOC
           /\ c[2] \in Starts(use[c[1]])
           /\ header[c].kind = "used" => header[c].bucket = use[c[1]]
        \/ use[c[1]] = Big /\ c[2] = 0 /\ header[c].kind = "used" /\ header[c].bucket = Big

(* A pointer is to a marked chunk that holds its bytes or to a block of its own. *)
PtrSound(p, use) ==
  /\ p.block \in os
  /\ IF p.pooled
     THEN /\ <<p.block, p.off>> \in Chunks
          /\ header[<<p.block, p.off>>].kind = "used"
          /\ use[p.block] \in Buckets => p.n + HDR <= BucketSize(use[p.block])
     ELSE p.off = 0 /\ use[p.block] = Direct

PtrsSound(use) ==
  /\ \A p \in ptrs : PtrSound(p, use)
  /\ \A p, q \in ptrs : (p.block = q.block /\ p.off = q.off) => p = q

(***************************************************************************)
(* A free list from head through hdrs has exactly the chunks of F: each is *)
(* the head or the next of one other, and no part of F hangs on a cycle.   *)
(***************************************************************************)
FreeList(F, head, hdrs) ==
  /\ head \in F \cup {NULL}
  /\ \A c \in F : /\ hdrs[c].next \in F \cup {NULL}
                  /\ hdrs[c].next # NULL => hdrs[c].next # head
  /\ \A c, d \in F : (hdrs[c].next = hdrs[d].next /\ hdrs[c].next # NULL) => c = d
  /\ \A T \in SUBSET F : T # {} =>
        \E x \in T : x = head \/ \E d \in F \ T : hdrs[d].next = x

FreeIn(use, k) == {c \in Chunks : header[c].kind = "free" /\ use[c[1]] = k}

ListsSound(use) == \A k \in Buckets : FreeList(FreeIn(use, k), apPool[k], header)

Sound(use) == HeadersSound(use) /\ PtrsSound(use) /\ ListsSound(use)

(* What an operation noted before it asked for memory still holds. *)
NotedSound ==
  /\ call.op = "realloc" => /\ call.p \in ptrs /\ ~call.p.pooled
                            /\ call.prv = list.prev[call.p.block]
                            /\ call.nxt = list.next[call.p.block]
  /\ call.op = "slab" => call.n + HDR <= BucketSize(call.k) /\ apPool[call.k] = NULL

Tracked == IsFiniteSet(os) /\ BlocksTracked

IInv ==
  /\ Typed
  /\ Tracked
  /\ NotedSound
  /\ \E use \in [Blocks -> Uses] : Sound(use)
----------------------------------------------------------------------------
(***************************************************************************)
(* What the pool operations make of a free list.                           *)
(***************************************************************************)
LEMMA NullNoChunk == NULL \notin Chunks
BY MemBackendAssumption

LEMMA NoList == ASSUME NEW hdrs PROVE FreeList({}, NULL, hdrs)
BY DEF FreeList

LEMMA SameList ==
  ASSUME NEW F \in SUBSET Chunks, NEW head, NEW old, NEW fresh, FreeList(F, head, old),
         \A c \in F : fresh[c].next = old[c].next
  PROVE  FreeList(F, head, fresh)
BY DEF FreeList

(* The head is taken off: its next becomes the head. *)
LEMMA TakeList ==
  ASSUME NEW F \in SUBSET Chunks, NEW head \in Chunks, NEW old, NEW fresh, FreeList(F, head, old),
         \A c \in F \ {head} : fresh[c].next = old[c].next
  PROVE  head \in F /\ FreeList(F \ {head}, old[head].next, fresh)
<1> DEFINE R == F \ {head}
           first == old[head].next
<1>1. head \in F /\ NULL \notin F
  BY NullNoChunk DEF FreeList
<1>2. first \in R \cup {NULL}
  BY <1>1 DEF FreeList
<1>3. \A c \in R : /\ fresh[c].next \in R \cup {NULL}
                  /\ fresh[c].next # NULL => fresh[c].next # first
  BY <1>1 DEF FreeList
<1>4. \A c, d \in R : (fresh[c].next = fresh[d].next /\ fresh[c].next # NULL) => c = d
  BY DEF FreeList
<1>5. ASSUME NEW T \in SUBSET R, T # {}
      PROVE  \E x \in T : x = first \/ \E d \in R \ T : fresh[d].next = x
  <2>1. PICK x \in T : x = head \/ \E d \in F \ T : old[d].next = x
    BY <1>5 DEF FreeList
  <2>2. PICK d \in F \ T : old[d].next = x
    BY <2>1
  <2> QED BY <2>2
<1> QED BY <1>1, <1>2, <1>3, <1>4, <1>5 DEF FreeList

(* A chunk is given back: it becomes the head. *)
LEMMA GiveList ==
  ASSUME NEW F \in SUBSET Chunks, NEW head, NEW c \in Chunks \ F, NEW old, NEW fresh,
         FreeList(F, head, old),
         \A d \in F : fresh[d].next = old[d].next, fresh[c].next = head
  PROVE  FreeList(F \cup {c}, c, fresh)
<1> DEFINE G == F \cup {c}
<1>1. head \in F \cup {NULL} /\ NULL \notin G
  BY NullNoChunk DEF FreeList
<1>2. \A d \in G : /\ fresh[d].next \in G \cup {NULL}
                  /\ fresh[d].next # NULL => fresh[d].next # c
  BY <1>1 DEF FreeList
<1>3. \A d, e \in G : (fresh[d].next = fresh[e].next /\ fresh[d].next # NULL) => d = e
  BY <1>1 DEF FreeList
<1>4. ASSUME NEW T \in SUBSET G, T # {}
      PROVE  \E x \in T : x = c \/ \E d \in G \ T : fresh[d].next = x
  <2>1. CASE c \in T
    BY <2>1
  <2>2. CASE c \notin T
    <3>1. PICK x \in T : x = head \/ \E d \in F \ T : old[d].next = x
      BY <1>4, <2>2 DEF FreeList
    <3>2. CASE x = head
      BY <2>2, <3>2
    <3>3. CASE \E d \in F \ T : old[d].next = x
      BY <3>3
    <3> QED BY <3>1, <3>2, <3>3
  <2> QED BY <2>1, <2>2
<1> QED BY <1>2, <1>3, <1>4 DEF FreeList

(* MemPoolBucketAlloc links the chunks of a slab from its start to its end. *)
LEMMA CutList ==
  ASSUME NEW b \in Blocks, NEW k \in Buckets
  PROVE  FreeList({<<b, o>> : o \in Starts(k)}, <<b, 0>>, CutSlab(b, k))
<1> DEFINE B == BucketSize(k)
           M == MAXALLOC
           F == {<<b, o>> : o \in Starts(k)}
           hdrs == CutSlab(b, k)
<1>1. B \in Nat \ {0} /\ M \in Nat \ {0} /\ M % B = 0
  BY SizesPositive, SlabMultiple
<1> HIDE DEF B, M
<1>2. Starts(k) = {o \in 0 .. (M - 1) : o % B = 0}
  BY DEF Starts, B, M
<1>3. 0 \in Starts(k)
  BY <1>1, <1>2
<1>4. F \subseteq Chunks /\ NULL \notin F
  <2>1. \A o \in Starts(k) : <<b, o>> \in Chunks
    BY <1>1, <1>2 DEF Chunks, M
  <2> QED BY <2>1, NullNoChunk
<1>5. ASSUME NEW o \in Starts(k)
      PROVE  hdrs[<<b, o>>].next = IF o + B >= M THEN NULL ELSE <<b, o + B>>
  <2>1. <<b, o>> \in Chunks
    BY <1>4
  <2> QED BY <2>1 DEF CutSlab, FreeHeader, B, M
<1> HIDE DEF hdrs
<1>6. ASSUME NEW o \in Starts(k), o + B < M PROVE o + B \in Starts(k)
  <2>1. (o + B) % B = 0
    BY <1>1, <1>2, NextMultiple
  <2> QED BY <1>1, <1>2, <1>6, <2>1
<1>a. ASSUME NEW x \in Int, NEW y \in Int, <<b, x>> = <<b, y>> PROVE x = y
  BY <1>a
<1>7. ASSUME NEW c \in F
      PROVE  /\ hdrs[c].next \in F \cup {NULL}
             /\ hdrs[c].next # NULL => hdrs[c].next # <<b, 0>>
  <2>1. PICK o \in Starts(k) : c = <<b, o>>
    OBVIOUS
  <2>2. CASE o + B >= M
    BY <1>5, <2>1, <2>2
  <2>3. CASE ~ (o + B >= M)
    <3>1. o \in Nat /\ o + B # 0 /\ o + B < M
      BY <1>1, <1>2, <2>3
    <3>2. o + B \in Starts(k)
      BY <1>6, <3>1
    <3>3. hdrs[c].next = <<b, o + B>>
      BY <1>5, <2>1, <2>3
    <3>4. hdrs[c].next \in F
      BY <3>2, <3>3
    <3>5. <<b, o + B>> # <<b, 0>>
      BY <1>1, <1>a, <3>1
    <3> QED BY <3>3, <3>4, <3>5
  <2> QED BY <2>2, <2>3
<1>8. ASSUME NEW c \in F, NEW d \in F, hdrs[c].next = hdrs[d].next, hdrs[c].next # NULL
      PROVE  c = d
  <2>1. PICK o \in Starts(k), q \in Starts(k) : c = <<b, o>> /\ d = <<b, q>>
    OBVIOUS
  <2>2. hdrs[c].next = <<b, o + B>> /\ hdrs[d].next = <<b, q + B>>
    BY <1>5, <1>8, <2>1
  <2>3. o \in Nat /\ q \in Nat
    BY <1>1, <1>2
  <2>4. o + B = q + B
    <3>1. <<b, o + B>> = <<b, q + B>>
      BY <1>8, <2>2, Zenon
    <3>2. o + B \in Int /\ q + B \in Int
      BY <1>1, <2>3
    <3> QED BY <1>a, <3>1, <3>2
  <2> QED BY <1>1, <2>1, <2>3, <2>4
<1>9. ASSUME NEW T \in SUBSET F, T # {}
      PROVE  \E x \in T : x = <<b, 0>> \/ \E d \in F \ T : hdrs[d].next = x
  <2> DEFINE Offs == {o \in Starts(k) : <<b, o>> \in T}
  <2>1. Offs \in SUBSET Nat /\ Offs # {}
    BY <1>2, <1>9
  <2>2. PICK o \in Offs : \A q \in Offs : ~ (q < o)
    <3> HIDE DEF Offs
    <3> QED BY <2>1, LeastNatural
  <2>3. CASE o = 0
    BY <2>3
  <2>4. CASE o # 0
    <3>1. o \in Nat /\ o % B = 0 /\ o < M
      BY <1>1, <1>2
    <3>2. o - B \in Nat /\ (o - B) % B = 0
      BY <1>1, <2>4, <3>1, PreviousMultiple
    <3>3. o - B \in Starts(k) /\ o - B < o
      BY <1>1, <1>2, <3>1, <3>2
    <3>4. <<b, o - B>> \in F \ T
      BY <2>2, <3>3
    <3>5. hdrs[<<b, o - B>>].next = <<b, o>>
      BY <1>1, <1>5, <3>1, <3>2, <3>3
    <3> QED BY <3>4, <3>5
  <2> QED BY <2>3, <2>4
<1>10. <<b, 0>> \in F
  BY <1>3
<1> HIDE DEF F
<1> QED BY <1>7, <1>8, <1>9, <1>10 DEF FreeList, hdrs, F
----------------------------------------------------------------------------
(***************************************************************************)
(* The list of blocks.  A block that xRealloc moved takes the place of the *)
(* block it was, wherever that was in the list.                            *)
(***************************************************************************)
LEMMA RelinkLinked ==
  ASSUME NEW Addr, NULL \notin Addr, NEW l \in Lists(Addr), NEW S \in SUBSET Addr, Linked(l, S),
         NEW old \in S, NEW fresh \in Addr \ S
  PROVE  Linked(Relink(l, old, fresh, l.prev[old], l.next[old]), (S \ {old}) \cup {fresh})
<1> DEFINE prv == l.prev[old]
           nxt == l.next[old]
           m == Relink(l, old, fresh, prv, nxt)
           R == (S \ {old}) \cup {fresh}
<1>1. Consistent(l, S, NULL) /\ Acyclic(l, S)
  BY DEF Linked, LinkedTo
<1>2. /\ prv \in S \cup {NULL} /\ nxt \in S \cup {NULL}
      /\ nxt # NULL => l.prev[nxt] = old
      /\ prv # NULL => l.next[prv] = old
      /\ prv = NULL <=> old = l.head
  BY <1>1 DEF Consistent
<1>3. prv # old /\ nxt # old /\ (prv # NULL => prv # nxt)
  <2>1. prv # old
    <3>1. \E x \in {old} : l.prev[x] \notin {old}
      BY <1>1 DEF Acyclic
    <3> QED BY <3>1
  <2>2. nxt # old
    BY <1>2, <2>1
  <2>3. prv # NULL => prv # nxt
    <3> SUFFICES ASSUME prv # NULL, prv = nxt PROVE FALSE
      OBVIOUS
    <3>1. {old, prv} \in SUBSET S
      BY <1>2
    <3>2. \E x \in {old, prv} : l.prev[x] \notin {old, prv}
      BY <1>1, <3>1 DEF Acyclic
    <3> QED BY <1>2, <3>2
  <2> QED BY <2>1, <2>2, <2>3
<1>4. /\ m.head = (IF prv = NULL THEN fresh ELSE l.head)
      /\ m.next[fresh] = nxt /\ m.prev[fresh] = prv
      /\ prv # NULL => m.next[prv] = fresh
      /\ nxt # NULL => m.prev[nxt] = fresh
      /\ \A x \in S : x # prv => m.next[x] = l.next[x]
      /\ \A x \in S : x # nxt => m.prev[x] = l.prev[x]
  BY <1>2 DEF Relink, Lists
<1> HIDE DEF m
<1>5. \A x \in S \ {old} :
         /\ x # prv => l.next[x] # old
         /\ x # nxt => l.prev[x] # old
  BY <1>1 DEF Consistent
<1>6. Consistent(m, R, NULL)
  <2>1. NULL \notin R /\ m.head \in R \cup {NULL} /\ (m.head = NULL => R = {})
    BY <1>1, <1>2, <1>4 DEF Consistent
  <2>2. ASSUME NEW x \in R
        PROVE  /\ m.next[x] \in R \cup {NULL}
               /\ m.prev[x] \in R \cup {NULL}
               /\ (m.next[x] # NULL) => (m.prev[m.next[x]] = x)
               /\ (m.prev[x] # NULL) => (m.next[m.prev[x]] = x)
               /\ (m.prev[x] = NULL) <=> (x = m.head)
    <3>1. CASE x = fresh
      BY <1>1, <1>2, <1>3, <1>4, <3>1 DEF Consistent
    <3>2. CASE x # fresh
      <4>0. x \in S \ {old} /\ NULL \notin S
        BY <3>2
      <4>1. m.next[x] \in R \cup {NULL} /\ (m.next[x] # NULL => m.prev[m.next[x]] = x)
        <5>1. CASE x = prv
          BY <1>4, <4>0, <5>1
        <5>2. CASE x # prv
          <6>1. m.next[x] = l.next[x] /\ l.next[x] # old
            BY <1>4, <1>5, <4>0, <5>2
          <6>2. l.next[x] \in S \cup {NULL} /\ (l.next[x] # NULL => l.prev[l.next[x]] = x)
            BY <1>1, <4>0 DEF Consistent
          <6>3. l.next[x] # NULL => l.next[x] # nxt
            BY <1>2, <4>0, <6>2
          <6> QED BY <1>4, <6>1, <6>2, <6>3
        <5> QED BY <5>1, <5>2
      <4>2. m.prev[x] \in R \cup {NULL} /\ (m.prev[x] # NULL => m.next[m.prev[x]] = x)
        <5>1. CASE x = nxt
          BY <1>4, <4>0, <5>1
        <5>2. CASE x # nxt
          <6>1. m.prev[x] = l.prev[x] /\ l.prev[x] # old
            BY <1>4, <1>5, <4>0, <5>2
          <6>2. l.prev[x] \in S \cup {NULL} /\ (l.prev[x] # NULL => l.next[l.prev[x]] = x)
            BY <1>1, <4>0 DEF Consistent
          <6>3. l.prev[x] # NULL => l.prev[x] # prv
            BY <1>2, <4>0, <6>2
          <6> QED BY <1>4, <6>1, <6>2, <6>3
        <5> QED BY <5>1, <5>2
      <4>3. (m.prev[x] = NULL) <=> (x = m.head)
        <5>1. (l.prev[x] = NULL) <=> (x = l.head)
          BY <1>1, <4>0 DEF Consistent
        <5>2. CASE x = nxt
          BY <1>2, <1>4, <3>2, <4>0, <5>1, <5>2
        <5>3. CASE x # nxt
          BY <1>2, <1>4, <3>2, <4>0, <5>1, <5>3
        <5> QED BY <5>2, <5>3
      <4> QED BY <4>1, <4>2, <4>3
    <3> QED BY <3>1, <3>2
  <2> QED BY <2>1, <2>2 DEF Consistent
<1>7. Acyclic(m, R)
  <2> SUFFICES ASSUME NEW T \in SUBSET R, T # {}
               PROVE  \E x \in T : m.prev[x] \notin T
    BY DEF Acyclic
  <2> DEFINE U == (T \ {fresh}) \cup (IF fresh \in T THEN {old} ELSE {})
  <2>1. U \in SUBSET S /\ U # {}
    OBVIOUS
  <2>2. PICK x \in U : l.prev[x] \notin U
    BY <1>1, <2>1 DEF Acyclic
  <2>3. CASE x = old
    <3>1. fresh \in T /\ prv \notin T
      BY <1>2, <1>3, <2>2, <2>3
    <3> QED BY <1>4, <3>1
  <2>4. CASE x # old
    <3>1. x \in T /\ x \in S
      BY <2>2, <2>4
    <3>2. CASE x = nxt
      BY <1>2, <1>4, <2>2, <3>1, <3>2
    <3>3. CASE x # nxt
      <4>1. m.prev[x] = l.prev[x] /\ l.prev[x] \in S \cup {NULL}
        BY <1>1, <1>4, <3>1, <3>3 DEF Consistent
      <4>2. l.prev[x] \notin T
        BY <2>2, <4>1
      <4> QED BY <3>1, <4>1, <4>2
    <3> QED BY <3>2, <3>3
  <2> QED BY <2>3, <2>4
<1> QED BY <1>6, <1>7 DEF Linked, LinkedTo, m

LEMMA TrackLinked ==
  ASSUME TypeOK, Tracked, NEW b \in Blocks \ os, NEW bytes, Track(b, bytes)
  PROVE  Tracked'
<1> DEFINE l == ZeroLinks(list, b)
<1>1. l \in Lists(Blocks) /\ l.next[b] = NULL /\ l.prev[b] = NULL
  <2>1. l \in Lists(Blocks)
    BY ZeroLinksType DEF TypeOK
  <2> QED BY <2>1 DEF ZeroLinks, TypeOK, Lists
<1>2. LinkedTo(l, os, NULL)
  BY ZeroLinksLinked DEF TypeOK, Tracked, BlocksTracked, Linked
<1> HIDE DEF l
<1>3. LinkedTo(LdPush(l, b), os \cup {b}, NULL)
  BY <1>1, <1>2, LdPushLinked, MemBackendAssumption DEF TypeOK
<1>4. IsFiniteSet(os') /\ nBlock' = Cardinality(os')
  BY FS_AddElement DEF Track, Tracked, BlocksTracked
<1> QED BY <1>3, <1>4 DEF Track, Tracked, BlocksTracked, Linked, l

LEMMA UntrackLinked ==
  ASSUME TypeOK, Tracked, NEW b \in os, Untrack(b)
  PROVE  Tracked'
<1>1. LinkedTo(LdRemove(list, b), os \ {b}, NULL)
  BY LdRemoveLinked, MemBackendAssumption DEF TypeOK, Tracked, BlocksTracked, Linked
<1>2. IsFiniteSet(os') /\ nBlock' = Cardinality(os')
  BY FS_RemoveElement DEF Untrack, Tracked, BlocksTracked
<1> QED BY <1>1, <1>2 DEF Untrack, Tracked, BlocksTracked, Linked

LEMMA ReallocLinked ==
  ASSUME TypeOK, Tracked, NEW old \in os, NEW b \in Blocks \ os,
         os' = (os \ {old}) \cup {b}, nBlock' = nBlock,
         list' = Relink(list, old, b, list.prev[old], list.next[old])
  PROVE  Tracked'
<1>1. Linked(list', os')
  BY RelinkLinked, MemBackendAssumption DEF TypeOK, Tracked, BlocksTracked
<1>2. IsFiniteSet(os \ {old}) /\ Cardinality(os \ {old}) = Cardinality(os) - 1
  BY FS_RemoveElement DEF Tracked
<1>3. IsFiniteSet(os') /\ Cardinality(os') = Cardinality(os \ {old}) + 1
  BY <1>2, FS_AddElement
<1>4. Cardinality(os) \in Nat
  BY FS_CardinalityType DEF Tracked
<1> QED BY <1>1, <1>2, <1>3, <1>4 DEF Tracked, BlocksTracked

LEMMA TrackedStep == IInv /\ ~CallbackFrees /\ [Next]_vars => Tracked'
<1> SUFFICES ASSUME IInv, ~CallbackFrees, [Next]_vars PROVE Tracked'
  OBVIOUS
<1>0. TypeOK /\ CallNoted /\ Tracked /\ NotedSound
  BY DEF IInv, Typed
<1>a. \A p \in ptrs : ~p.pooled => p.block \in os
  BY DEF IInv, Sound, PtrsSound, PtrSound
<1>b. UNCHANGED <<os, list, nBlock>> => Tracked'
  BY <1>0 DEF Tracked, BlocksTracked
<1>1. ASSUME NEW b \in Blocks, GotBlock(b) PROVE Tracked'
  <2>1. PICK bytes : Track(b, bytes) /\ b \in Blocks \ os
    BY <1>1 DEF GotBlock
  <2> QED BY <1>0, <2>1, TrackLinked
<1>2. ASSUME NEW b \in Blocks, GotRealloc(b) PROVE Tracked'
  <2>1. /\ call.p.block \in os /\ (b \in Blocks \ os \/ b = call.p.block)
        /\ call.prv = list.prev[call.p.block] /\ call.nxt = list.next[call.p.block]
    BY <1>0, <1>2, <1>a DEF GotRealloc, NotedSound
  <2>2. /\ os' = (os \ {call.p.block}) \cup {b} /\ nBlock' = nBlock
        /\ list' = IF b = call.p.block THEN list ELSE Relink(list, call.p.block, b, call.prv, call.nxt)
    BY <1>2 DEF GotRealloc
  <2>3. CASE b = call.p.block
    BY <1>b, <2>1, <2>2, <2>3
  <2>4. CASE b # call.p.block
    BY <1>0, <2>1, <2>2, <2>4, ReallocLinked
  <2> QED BY <2>3, <2>4
<1>3. ASSUME NEW p \in ptrs, Free(p) PROVE Tracked'
  <2>1. CASE nBlock > 0
    BY <1>0, <1>3, <1>a, <2>1, UntrackLinked DEF Free
  <2>2. CASE ~ (nBlock > 0)
    BY <1>3, <1>b, <2>2 DEF Free
  <2> QED BY <2>1, <2>2
<1>4. ASSUME NEW c \in Chunks, PoolFree(c) PROVE Tracked'
  <2>1. c[1] \in os /\ (Untrack(c[1]) \/ UNCHANGED <<os, list, nBlock>>)
    BY <1>4 DEF PoolFree
  <2> QED BY <1>0, <1>b, <2>1, UntrackLinked
<1>5. ASSUME ReleaseBackend PROVE Tracked'
  <2>1. FirstItems(list, nBlock) = os
    BY <1>0, CountedWalk, MemBackendAssumption DEF TypeOK, Tracked, BlocksTracked, Linked
  <2>2. os' = {} /\ nBlock' = 0 /\ list' = EmptyList(Blocks)
    BY <1>5, <2>1 DEF ReleaseBackend
  <2>3. Linked(EmptyList(Blocks), {})
    BY DEF Linked, LinkedTo, Consistent, Acyclic, EmptyList
  <2> QED BY <2>2, <2>3, FS_EmptySet DEF Tracked, BlocksTracked
<1>6. ASSUME NEW n \in Sizes, Alloc(n) PROVE Tracked'
  BY <1>6, <1>b DEF Alloc
<1>7. ASSUME NEW n \in Sizes, PoolAlloc(n) PROVE Tracked'
  BY <1>7, <1>b DEF PoolAlloc
<1>8. ASSUME NEW p \in ptrs, NEW n \in Sizes, Realloc(p, n) PROVE Tracked'
  BY <1>8, <1>b DEF Realloc
<1>9. CASE NoMemory \/ Answer
  BY <1>9, <1>b DEF NoMemory, Answer
<1>10. CASE UNCHANGED vars
  BY <1>10, <1>b DEF vars
<1> QED BY <1>1, <1>2, <1>3, <1>4, <1>5, <1>6, <1>7, <1>8, <1>9, <1>10 DEF Next

LEMMA NotedStep == IInv /\ ~CallbackFrees /\ [Next]_vars => NotedSound'
<1> SUFFICES ASSUME IInv, ~CallbackFrees, [Next]_vars PROVE NotedSound'
  OBVIOUS
<1>0. TypeOK /\ CallNoted /\ NotedSound
  BY DEF IInv, Typed
<1>a. call' = Idle => NotedSound'
  BY IdleTyped DEF NotedSound
<1>1. ASSUME NEW n \in Sizes, Alloc(n) PROVE NotedSound'
  BY <1>1 DEF Alloc, NotedSound, Idle
<1>2. ASSUME NEW n \in Sizes, PoolAlloc(n) PROVE NotedSound'
  <2>1. CASE IsBig(n) /\ call' = [Idle EXCEPT !.op = "big", !.n = n]
    BY <2>1 DEF NotedSound, Idle
  <2>2. CASE ~IsBig(n) /\ apPool[BucketOf(n)] = NULL /\ UNCHANGED pool
             /\ call' = [Idle EXCEPT !.op = "slab", !.n = n, !.k = BucketOf(n)]
    <3>1. BucketOf(n) \in Buckets /\ BucketSize(BucketOf(n)) >= n + HDR
      BY <2>2, BucketFits
    <3>2. n \in Nat /\ HDR \in Nat /\ BucketSize(BucketOf(n)) \in Nat
      BY <3>1, MemBackendAssumption, SizesPositive
    <3>3. n + HDR <= BucketSize(BucketOf(n))
      BY <3>1, <3>2
    <3> QED BY <2>2, <3>3 DEF NotedSound, Idle, pool
  <2>3. CASE UNCHANGED call /\ call = Idle
    BY <1>a, <2>3
  <2> QED BY <1>2, <2>1, <2>2, <2>3 DEF PoolAlloc
<1>3. ASSUME NEW p \in ptrs, NEW n \in Sizes, Realloc(p, n) PROVE NotedSound'
  BY <1>3 DEF Realloc, NotedSound, Idle
<1>4. ASSUME NEW b \in Blocks, GotBlock(b) \/ GotRealloc(b) PROVE NotedSound'
  BY <1>4, <1>a DEF GotBlock, GotRealloc
<1>5. CASE NoMemory \/ Answer
  <2>1. /\ call' = Idle \/ (call' \in Operations /\ call'.op = call.op /\ call'.n = call.n /\ call'.k = call.k
                             /\ call'.p = call.p /\ call'.prv = call.prv /\ call'.nxt = call.nxt)
        /\ UNCHANGED <<list, pool, ptrs>>
    <3>1. call \in Operations
      BY <1>0 DEF TypeOK, Operations
    <3>2. CASE NoMemory
      BY <3>1, <3>2 DEF NoMemory, Operations
    <3>3. CASE Answer
      <4>1. call.retry + 1 \in 0..(RETRY + 1)
        BY <1>0, <3>1, <3>3, MemBackendAssumption DEF Answer, CallNoted, Operations
      <4> QED BY <3>1, <3>3, <4>1 DEF Answer, Operations
    <3> QED BY <1>5, <3>2, <3>3
  <2> QED BY <1>0, <1>a, <2>1 DEF NotedSound, pool
<1>6. ASSUME NEW p \in ptrs, Free(p) PROVE NotedSound'
  BY <1>6, <1>a DEF Free, MayFree
<1>7. ASSUME NEW c \in Chunks, PoolFree(c) PROVE NotedSound'
  BY <1>7, <1>a DEF PoolFree, MayFree
<1>8. ASSUME ReleaseBackend PROVE NotedSound'
  BY <1>8, <1>a DEF ReleaseBackend
<1>9. CASE UNCHANGED vars
  BY <1>0, <1>9 DEF vars, pool, NotedSound
<1> QED BY <1>1, <1>2, <1>3, <1>4, <1>5, <1>6, <1>7, <1>8, <1>9 DEF Next
----------------------------------------------------------------------------
(***************************************************************************)
(* Each operation leaves every header, pointer and free list explained.    *)
(***************************************************************************)
LEMMA UseFacts ==
  /\ Direct \in Uses /\ Big \in Uses /\ Buckets \subseteq Uses
  /\ Big # Direct /\ Big \notin Buckets /\ Direct \notin Buckets
BY MemBackendAssumption DEF Direct, Uses, Big, Buckets

(* The headers of a block of its own and of a free block are raw. *)
LEMMA RawHeaders ==
  ASSUME NEW use, HeadersSound(use), NEW c \in Chunks, use[c[1]] = Direct \/ c[1] \notin os
  PROVE  header[c].kind = "raw"
BY UseFacts DEF HeadersSound

LEMMA SameSound ==
  ASSUME NEW use, Sound(use), UNCHANGED <<os, size, pool, ptrs>>
  PROVE  Sound(use)'
<1>1. os' = os /\ size' = size /\ apPool' = apPool /\ header' = header /\ ptrs' = ptrs
  BY DEF pool
<1>2. HeadersSound(use)'
  BY <1>1 DEF Sound, HeadersSound
<1>3. PtrsSound(use)'
  BY <1>1 DEF Sound, PtrsSound, PtrSound
<1>4. ListsSound(use)'
  <2>1. \A k \in Buckets : FreeIn(use, k)' = FreeIn(use, k)
    BY <1>1 DEF FreeIn
  <2> QED BY <1>1, <2>1 DEF Sound, ListsSound
<1> QED BY <1>2, <1>3, <1>4 DEF Sound

(* A chunk of a free list goes to a user. *)
LEMMA TakeSound ==
  ASSUME TypeOK, NEW use \in [Blocks -> Uses], Sound(use), NEW k \in Buckets,
         NEW c \in Chunks, c = apPool[k], NEW n \in Sizes, n + HDR <= BucketSize(k),
         TakeChunk(c, header, k, n), os' = os, size' = size
  PROVE  Sound(use)'
<1> DEFINE fresh == [block |-> c[1], off |-> c[2], n |-> n, pooled |-> TRUE]
<1>1. /\ apPool' = [apPool EXCEPT ![k] = header[c].next]
      /\ header' = [header EXCEPT ![c] = Used(k)]
      /\ ptrs' = ptrs \cup {fresh}
  BY DEF TakeChunk
<1>2. HeadersSound(use) /\ PtrsSound(use) /\ ListsSound(use)
  BY DEF Sound
<1>3. FreeList(FreeIn(use, k), c, header) /\ FreeIn(use, k) \in SUBSET Chunks
  BY <1>2 DEF ListsSound, FreeIn
<1>4. c \in FreeIn(use, k)
  BY <1>3, TakeList
<1>5. header[c].kind = "free" /\ use[c[1]] = k /\ c[1] \in os /\ size[c[1]] = MAXALLOC /\ c[2] \in Starts(k)
  BY <1>2, <1>4, UseFacts DEF FreeIn, HeadersSound
<1>6. /\ header' \in [Chunks -> Headers] /\ header'[c].kind = "used" /\ header'[c].bucket = k
      /\ \A d \in Chunks : d # c => header'[d] = header[d]
  <2>1. header \in [Chunks -> Headers] /\ Used(k) \in Headers
    BY HeaderTypes DEF TypeOK, Headers
  <2> QED BY <1>1, <2>1 DEF Used
<1>7. HeadersSound(use)'
  BY <1>2, <1>5, <1>6 DEF HeadersSound
<1>8. PtrsSound(use)'
  <2>0. c = <<c[1], c[2]>> /\ fresh.block = c[1] /\ fresh.off = c[2] /\ fresh.pooled /\ fresh.n = n
    BY DEF Chunks
  <2>1. PtrSound(fresh, use)'
    BY <1>5, <1>6, <2>0 DEF PtrSound
  <2>2. ASSUME NEW p \in ptrs PROVE PtrSound(p, use)'
    <3>1. PtrSound(p, use)
      BY <1>2 DEF PtrsSound
    <3> QED BY <1>6, <3>1 DEF PtrSound
  <2>3. ASSUME NEW p \in ptrs, p.block = c[1], p.off = c[2] PROVE FALSE
    <3>1. PtrSound(p, use)
      BY <1>2 DEF PtrsSound
    <3> QED BY <1>5, <2>0, <2>3, <3>1, UseFacts DEF PtrSound
  <2> HIDE DEF fresh
  <2> QED BY <1>1, <1>2, <2>0, <2>1, <2>2, <2>3 DEF PtrsSound
<1>9. ListsSound(use)'
  <2> SUFFICES ASSUME NEW j \in Buckets PROVE FreeList(FreeIn(use, j)', apPool'[j], header')
    BY DEF ListsSound
  <2>1. CASE j = k
    <3>1. FreeIn(use, k)' = FreeIn(use, k) \ {c}
      BY <1>6 DEF FreeIn
    <3>2. apPool'[k] = header[c].next
      BY <1>1 DEF TypeOK
    <3>3. \A d \in FreeIn(use, k) \ {c} : header'[d].next = header[d].next
      BY <1>6 DEF FreeIn
    <3> DEFINE F == FreeIn(use, k)
    <3>4. FreeList(F \ {c}, header[c].next, header')
      <4> HIDE DEF F
      <4> QED BY <1>3, <3>3, TakeList DEF F
    <3> QED BY <2>1, <3>1, <3>2, <3>4
  <2>2. CASE j # k
    <3>1. FreeIn(use, j)' = FreeIn(use, j)
      BY <1>5, <1>6, <2>2 DEF FreeIn
    <3>2. apPool'[j] = apPool[j]
      BY <1>1, <2>2 DEF TypeOK
    <3>3. FreeIn(use, j) \in SUBSET Chunks /\ \A d \in FreeIn(use, j) : header'[d].next = header[d].next
      BY <1>5, <1>6, <2>2 DEF FreeIn
    <3>4. FreeList(FreeIn(use, j), apPool[j], header)
      BY <1>2 DEF ListsSound
    <3> QED BY <3>1, <3>2, <3>3, <3>4, SameList
  <2> QED BY <2>1, <2>2
<1> QED BY <1>7, <1>8, <1>9 DEF Sound

(* One pointer more. *)
LEMMA OneMorePtr ==
  ASSUME NEW use, NEW u, PtrsSound(use), NEW fresh, ptrs' = ptrs \cup {fresh},
         PtrSound(fresh, u)', \A p \in ptrs : PtrSound(p, u)',
         \A p \in ptrs : ~ (p.block = fresh.block /\ p.off = fresh.off)
  PROVE  PtrsSound(u)'
BY DEF PtrsSound

(* A block that was free gets a use: what the others are used for stays. *)
LEMMA OthersSound ==
  ASSUME TypeOK, NEW use \in [Blocks -> Uses], Sound(use), NEW b \in Blocks \ os,
         NEW u \in [Blocks -> Uses], \A d \in Blocks : d # b => u[d] = use[d],
         NEW bytes, Track(b, bytes), \A c \in Chunks : c[1] # b => header'[c] = header[c]
  PROVE  /\ b \in os' /\ size'[b] = bytes
         /\ \A c \in Chunks : (header[c].kind # "raw") =>
               c[1] # b /\ c[1] \in os' /\ size'[c[1]] = size[c[1]] /\ u[c[1]] = use[c[1]]
         /\ \A p \in ptrs : PtrSound(p, u)'
         /\ \A p \in ptrs : p.block # b
<1>2. /\ os' = os \cup {b} /\ \A d \in Blocks : d # b => size'[d] = size[d]
      /\ size'[b] = bytes
  BY DEF Track, TypeOK
<1>3. \A c \in Chunks : c[1] \in Blocks
  BY DEF Chunks
<1>4. \A c \in Chunks : (header[c].kind # "raw") => c[1] \in os
  BY DEF Sound, HeadersSound
<1>5. \A c \in Chunks : (header[c].kind # "raw") =>
        c[1] # b /\ c[1] \in os' /\ size'[c[1]] = size[c[1]] /\ u[c[1]] = use[c[1]]
  BY <1>2, <1>3, <1>4
<1>6. ASSUME NEW p \in ptrs PROVE PtrSound(p, u)' /\ p.block # b
  <2>1. PtrSound(p, use) /\ p.block \in Blocks
    BY DEF Sound, PtrsSound, TypeOK, Pointers
  <2>2. p.block \in os /\ p.block # b /\ p.block \in os' /\ u[p.block] = use[p.block]
    BY <1>2, <2>1 DEF PtrSound
  <2>3. CASE p.pooled
    <3>1. header'[<<p.block, p.off>>] = header[<<p.block, p.off>>]
      BY <2>1, <2>2, <2>3 DEF PtrSound
    <3> QED BY <2>1, <2>2, <2>3, <3>1 DEF PtrSound
  <2>4. CASE ~p.pooled
    BY <2>1, <2>2, <2>4 DEF PtrSound
  <2> QED BY <2>2, <2>3, <2>4
<1> QED BY <1>2, <1>5, <1>6

(* The free lists are not touched. *)
LEMMA SameLists ==
  ASSUME NEW use, NEW u, ListsSound(use), apPool' = apPool,
         \A c \in Chunks : header'[c].kind = "free" => header'[c] = header[c],
         \A c \in Chunks : header[c].kind = "free" => header'[c] = header[c] /\ u[c[1]] = use[c[1]]
  PROVE  ListsSound(u)'
<1> SUFFICES ASSUME NEW k \in Buckets PROVE FreeList(FreeIn(u, k)', apPool'[k], header')
  BY DEF ListsSound
<1> DEFINE F == FreeIn(use, k)
<1>1. FreeIn(u, k)' = F /\ F \in SUBSET Chunks
  BY DEF FreeIn
<1>2. FreeList(F, apPool[k], header)
  BY DEF ListsSound
<1>3. \A c \in F : header'[c].next = header[c].next
  BY DEF FreeIn
<1> HIDE DEF F
<1> QED BY <1>1, <1>2, <1>3, SameList

LEMMA GotBlockSound ==
  ASSUME TypeOK, CallNoted, NotedSound, NEW use \in [Blocks -> Uses], Sound(use),
         NEW b \in Blocks, GotBlock(b)
  PROVE  \E u \in [Blocks -> Uses] : Sound(u)'
<1>0. b \in Blocks \ os /\ HeadersSound(use) /\ PtrsSound(use) /\ ListsSound(use)
      /\ header \in [Chunks -> Headers] /\ <<b, 0>> \in Chunks
  BY SizesPositive DEF GotBlock, Sound, TypeOK, Headers, Chunks
<1>a. ASSUME NEW x \in Uses
      PROVE  \E u \in [Blocks -> Uses] : u[b] = x /\ \A d \in Blocks : d # b => u[d] = use[d]
  <2> DEFINE u == [use EXCEPT ![b] = x]
  <2>1. u \in [Blocks -> Uses] /\ u[b] = x /\ \A d \in Blocks : d # b => u[d] = use[d]
    OBVIOUS
  <2> HIDE DEF u
  <2> QED BY <2>1
<1>1. CASE call.op = "alloc"
  <2>p. PICK fresh : fresh = [block |-> b, off |-> 0, n |-> call.n, pooled |-> FALSE]
    OBVIOUS
  <2>1. Track(b, call.n) /\ ptrs' = ptrs \cup {fresh} /\ header' = header /\ apPool' = apPool
    BY <1>1, <2>p DEF GotBlock, pool
  <2>u. PICK u \in [Blocks -> Uses] : u[b] = Direct /\ \A d \in Blocks : d # b => u[d] = use[d]
    BY <1>a, UseFacts
  <2>2. /\ b \in os'
        /\ \A c \in Chunks : (header[c].kind # "raw") =>
               c[1] # b /\ c[1] \in os' /\ size'[c[1]] = size[c[1]] /\ u[c[1]] = use[c[1]]
        /\ \A p \in ptrs : PtrSound(p, u)'
        /\ \A p \in ptrs : p.block # b
    BY <1>0, <2>1, <2>u, OthersSound
  <2>3. HeadersSound(u)'
    BY <1>0, <2>1, <2>2 DEF HeadersSound
  <2>4. PtrsSound(u)'
    <3>1. fresh.block = b /\ fresh.off = 0 /\ ~fresh.pooled
      BY <2>p
    <3>2. PtrSound(fresh, u)'
      BY <2>u, <2>2, <3>1 DEF PtrSound
    <3> QED BY <1>0, <2>1, <2>2, <3>1, <3>2, OneMorePtr
  <2>5. ListsSound(u)'
    BY <1>0, <2>1, <2>2, SameLists
  <2> QED BY <2>3, <2>4, <2>5 DEF Sound
<1>2. CASE call.op = "big"
  <2>p. PICK fresh : fresh = [block |-> b, off |-> 0, n |-> call.n, pooled |-> TRUE]
    OBVIOUS
  <2>1. /\ Track(b, call.n + HDR) /\ ptrs' = ptrs \cup {fresh}
        /\ header' = [header EXCEPT ![<<b, 0>>] = Used(Big)] /\ apPool' = apPool
    BY <1>2, <2>p DEF GotBlock
  <2>2. /\ \A c \in Chunks : c # <<b, 0>> => header'[c] = header[c]
        /\ header'[<<b, 0>>].kind = "used" /\ header'[<<b, 0>>].bucket = Big
    BY <1>0, <2>1 DEF Used
  <2>3. \A c \in Chunks : c[1] # b => header'[c] = header[c]
    BY <2>2
  <2>u. PICK u \in [Blocks -> Uses] : u[b] = Big /\ \A d \in Blocks : d # b => u[d] = use[d]
    BY <1>a, UseFacts
  <2>4. /\ b \in os'
        /\ \A c \in Chunks : (header[c].kind # "raw") =>
               c[1] # b /\ c[1] \in os' /\ size'[c[1]] = size[c[1]] /\ u[c[1]] = use[c[1]]
        /\ \A p \in ptrs : PtrSound(p, u)'
        /\ \A p \in ptrs : p.block # b
    BY <1>0, <2>1, <2>3, <2>u, OthersSound
  <2>6. HeadersSound(u)'
    <3>1. ASSUME NEW c \in Chunks, header'[c].kind # "raw", c = <<b, 0>>
          PROVE  c[1] \in os' /\ u[c[1]] = Big /\ c[2] = 0 /\ header'[c].kind = "used" /\ header'[c].bucket = Big
      BY <2>2, <2>4, <2>u, <3>1
    <3>2. ASSUME NEW c \in Chunks, header'[c].kind # "raw", c # <<b, 0>>
          PROVE  header'[c] = header[c] /\ c[1] \in os' /\ size'[c[1]] = size[c[1]] /\ u[c[1]] = use[c[1]]
      BY <2>2, <2>4, <3>2
    <3> QED BY <1>0, <3>1, <3>2 DEF HeadersSound
  <2>7. PtrsSound(u)'
    <3>1. fresh.block = b /\ fresh.off = 0 /\ fresh.pooled
      BY <2>p
    <3>2. PtrSound(fresh, u)'
      BY <1>0, <2>2, <2>4, <2>u, <3>1, UseFacts DEF PtrSound
    <3> QED BY <1>0, <2>1, <2>4, <3>1, <3>2, OneMorePtr
  <2>8. ListsSound(u)'
    <3>1. \A c \in Chunks : header'[c].kind = "free" => header'[c] = header[c]
      BY <2>2
    <3>2. \A c \in Chunks : header[c].kind = "free" => header'[c] = header[c] /\ u[c[1]] = use[c[1]]
      BY <2>2, <2>4
    <3> QED BY <1>0, <2>1, <3>1, <3>2, SameLists
  <2> QED BY <2>6, <2>7, <2>8 DEF Sound
<1>3. CASE call.op = "slab"
  <2> DEFINE k == call.k
             cut == CutSlab(b, k)
             slab == {<<b, o>> : o \in Starts(k)}
  <2>p. PICK fresh : fresh = [block |-> b, off |-> 0, n |-> call.n, pooled |-> TRUE]
    OBVIOUS
  <2>0. k \in Buckets /\ k \in Uses /\ call.n + HDR <= BucketSize(k) /\ apPool[k] = NULL
    BY <1>3, UseFacts DEF TypeOK, NotedSound
  <2>1. /\ Track(b, MAXALLOC) /\ ptrs' = ptrs \cup {fresh}
        /\ header' = [cut EXCEPT ![<<b, 0>>] = Used(k)]
        /\ apPool' = [apPool EXCEPT ![k] = cut[<<b, 0>>].next]
    BY <1>3, <2>p DEF GotBlock, TakeChunk
  <2>2. /\ cut \in [Chunks -> Headers]
        /\ \A c \in Chunks : c \in slab => cut[c].kind = "free"
        /\ \A c \in Chunks : c \notin slab => cut[c] = header[c]
        /\ slab \subseteq Chunks /\ <<b, 0>> \in slab /\ 0 \in Starts(k)
        /\ \A c \in slab : c[1] = b /\ c[2] \in Starts(k)
    <3>1. cut \in [Chunks -> Headers]
      BY <2>0, CutTyped
    <3>2. Starts(k) \subseteq 0 .. (MAXALLOC - 1) /\ 0 \in Starts(k)
      BY <2>0, SizesPositive DEF Starts
    <3>3. slab \subseteq Chunks /\ <<b, 0>> \in slab
      BY <3>2 DEF Chunks
    <3>4. \A c \in Chunks : c \in slab <=> (c[1] = b /\ c[2] \in Starts(k))
      BY DEF Chunks
    <3>5. \A c \in Chunks : c \notin slab => cut[c] = header[c]
      BY <3>4 DEF CutSlab
    <3>6. ASSUME NEW c \in Chunks, c \in slab PROVE cut[c].kind = "free"
      <4>1. cut[c] = FreeHeader(IF c[2] + BucketSize(k) >= MAXALLOC THEN NULL
                                ELSE <<b, c[2] + BucketSize(k)>>)
        BY <3>4, <3>6 DEF CutSlab
      <4> QED BY <4>1 DEF FreeHeader
    <3> HIDE DEF cut, slab
    <3> QED BY <3>1, <3>2, <3>3, <3>4, <3>5, <3>6
  <2>3. FreeList(slab, <<b, 0>>, cut)
    BY <2>0, CutList
  <2> HIDE DEF cut, slab
  <2>4. /\ \A c \in Chunks : c # <<b, 0>> => header'[c] = cut[c]
        /\ header'[<<b, 0>>].kind = "used" /\ header'[<<b, 0>>].bucket = k
    BY <1>0, <2>1, <2>2 DEF Used
  <2>5. \A c \in Chunks : c[1] # b => header'[c] = header[c]
    BY <2>2, <2>4
  <2>u. PICK u \in [Blocks -> Uses] : u[b] = k /\ \A d \in Blocks : d # b => u[d] = use[d]
    BY <1>a, <2>0
  <2>6. /\ b \in os' /\ size'[b] = MAXALLOC
        /\ \A c \in Chunks : (header[c].kind # "raw") =>
               c[1] # b /\ c[1] \in os' /\ size'[c[1]] = size[c[1]] /\ u[c[1]] = use[c[1]]
        /\ \A p \in ptrs : PtrSound(p, u)'
        /\ \A p \in ptrs : p.block # b
    BY <1>0, <2>1, <2>5, <2>u, OthersSound
  <2> HIDE DEF k
  <2>8. HeadersSound(u)'
    <3>1. ASSUME NEW c \in Chunks, c \in slab
          PROVE  /\ c[1] \in os' /\ u[c[1]] \in Buckets /\ size'[c[1]] = MAXALLOC /\ c[2] \in Starts(u[c[1]])
                 /\ header'[c].kind = "used" => header'[c].bucket = u[c[1]]
      <4>1. c[1] = b /\ c[2] \in Starts(k)
        BY <2>2, <3>1
      <4>2. header'[c].kind = "used" => header'[c].bucket = k
        BY <2>2, <2>4, <3>1
      <4> QED BY <2>0, <2>6, <2>u, <4>1, <4>2
    <3>2. ASSUME NEW c \in Chunks, header'[c].kind # "raw", c \notin slab
          PROVE  header'[c] = header[c] /\ c[1] \in os' /\ size'[c[1]] = size[c[1]] /\ u[c[1]] = use[c[1]]
      <4>1. header'[c] = header[c]
        BY <2>2, <2>4, <3>2
      <4> QED BY <2>6, <3>2, <4>1
    <3> QED BY <1>0, <3>1, <3>2 DEF HeadersSound
  <2>9. PtrsSound(u)'
    <3>1. fresh.block = b /\ fresh.off = 0 /\ fresh.pooled /\ fresh.n = call.n
      BY <2>p
    <3>2. PtrSound(fresh, u)'
      BY <1>0, <2>0, <2>4, <2>6, <2>u, <3>1 DEF PtrSound
    <3> QED BY <1>0, <2>1, <2>6, <3>1, <3>2, OneMorePtr
  <2>10. ListsSound(u)'
    <3> SUFFICES ASSUME NEW j \in Buckets PROVE FreeList(FreeIn(u, j)', apPool'[j], header')
      BY DEF ListsSound
    <3> DEFINE F == FreeIn(use, j)
    <3>0. F \in SUBSET Chunks /\ FreeList(F, apPool[j], header)
      BY <1>0 DEF ListsSound, FreeIn
    <3>1. CASE j = k
      <4>1. F = {}
        <5>1. NULL \notin F
          BY <3>0, NullNoChunk
        <5> HIDE DEF F
        <5>2. F \in SUBSET F
          OBVIOUS
        <5> QED BY <2>0, <3>0, <3>1, <5>1, <5>2 DEF FreeList
      <4>2. FreeIn(u, j)' = slab \ {<<b, 0>>}
        <5>1. ASSUME NEW c \in Chunks
              PROVE  (header'[c].kind = "free" /\ u[c[1]] = j) <=> c \in slab \ {<<b, 0>>}
          <6>1. CASE c = <<b, 0>>
            BY <2>4, <6>1
          <6>2. CASE c # <<b, 0>> /\ c \in slab
            BY <2>2, <2>4, <2>u, <3>1, <6>2
          <6>3. CASE c \notin slab
            <7>1. header'[c] = header[c]
              BY <2>2, <2>4, <6>3
            <7>2. ~ (header[c].kind = "free" /\ use[c[1]] = j)
              BY <4>1 DEF FreeIn
            <7> QED BY <2>6, <6>3, <7>1, <7>2
          <6> QED BY <6>1, <6>2, <6>3
        <5>2. slab \ {<<b, 0>>} \subseteq Chunks
          BY <2>2
        <5>3. FreeIn(u, j)' = {c \in Chunks : header'[c].kind = "free" /\ u[c[1]] = j}
          BY DEF FreeIn
        <5> QED BY <5>1, <5>2, <5>3
      <4>3. \A c \in slab \ {<<b, 0>>} : header'[c].next = cut[c].next
        BY <2>2, <2>4
      <4>4. FreeList(slab \ {<<b, 0>>}, cut[<<b, 0>>].next, header')
        BY <1>0, <2>2, <2>3, <4>3, TakeList
      <4>5. apPool'[j] = cut[<<b, 0>>].next
        BY <2>1, <3>1 DEF TypeOK
      <4> QED BY <4>2, <4>4, <4>5
    <3>2. CASE j # k
      <4>1. apPool'[j] = apPool[j]
        BY <2>1, <3>2 DEF TypeOK
      <4>2. FreeIn(u, j)' = F
        <5>1. ASSUME NEW c \in Chunks
              PROVE  (header'[c].kind = "free" /\ u[c[1]] = j) <=> (header[c].kind = "free" /\ use[c[1]] = j)
          <6>1. CASE c[1] = b
            <7>1. header[c].kind = "raw"
              BY <2>6, <6>1
            <7> QED BY <2>u, <3>2, <6>1, <7>1
          <6>2. CASE c[1] # b
            <7>1. header'[c] = header[c]
              BY <2>5, <6>2
            <7>2. u[c[1]] = use[c[1]]
              BY <2>u, <6>2 DEF Chunks
            <7> QED BY <7>1, <7>2
          <6> QED BY <6>1, <6>2
        <5>2. FreeIn(u, j)' = {c \in Chunks : header'[c].kind = "free" /\ u[c[1]] = j}
          BY DEF FreeIn
        <5>3. F = {c \in Chunks : header[c].kind = "free" /\ use[c[1]] = j}
          BY DEF FreeIn
        <5> HIDE DEF F
        <5> QED BY <5>1, <5>2, <5>3
      <4>3. \A c \in F : header'[c].next = header[c].next
        BY <2>5, <2>6 DEF FreeIn
      <4> HIDE DEF F
      <4> QED BY <3>0, <4>1, <4>2, <4>3, SameList
    <3> QED BY <3>1, <3>2
  <2> QED BY <2>8, <2>9, <2>10 DEF Sound
<1> QED BY <1>1, <1>2, <1>3 DEF GotBlock

(* A block of its own has one pointer. *)
LEMMA OnlyPtr ==
  ASSUME NEW use, HeadersSound(use), PtrsSound(use), NEW p \in ptrs, ~p.pooled,
         NEW q \in ptrs, q.block = p.block
  PROVE  q = p
<1>1. PtrSound(p, use) /\ PtrSound(q, use)
  BY DEF PtrsSound
<1>2. CASE q.pooled
  <2>1. <<q.block, q.off>> \in Chunks /\ header[<<q.block, q.off>>].kind = "used"
    BY <1>1, <1>2 DEF PtrSound
  <2>2. use[q.block] = Direct
    BY <1>1 DEF PtrSound
  <2>3. header[<<q.block, q.off>>].kind = "raw"
    BY <2>1, <2>2, RawHeaders
  <2> QED BY <2>1, <2>3
<1>3. CASE ~q.pooled
  BY <1>1, <1>3 DEF PtrSound, PtrsSound
<1> QED BY <1>2, <1>3

LEMMA GotReallocSound ==
  ASSUME TypeOK, NotedSound, NEW use \in [Blocks -> Uses], Sound(use),
         NEW b \in Blocks, GotRealloc(b)
  PROVE  \E u \in [Blocks -> Uses] : Sound(u)'
<1>0. HeadersSound(use) /\ PtrsSound(use) /\ ListsSound(use)
  BY DEF Sound
<1>p. PICK p \in ptrs : p = call.p /\ ~p.pooled
  BY DEF GotRealloc, NotedSound
<1>n. PICK fresh : fresh = [p EXCEPT !.block = b, !.n = call.n]
  OBVIOUS
<1>1. /\ b \notin os \/ b = p.block
      /\ os' = (os \ {p.block}) \cup {b}
      /\ size' = [size EXCEPT ![p.block] = 0, ![b] = call.n]
      /\ ptrs' = (ptrs \ {p}) \cup {fresh}
      /\ header' = header /\ apPool' = apPool
  BY <1>p, <1>n DEF GotRealloc, pool
<1>2. PtrSound(p, use) /\ p \in Pointers /\ p.block \in os /\ p.off = 0 /\ use[p.block] = Direct /\ p.block \in Blocks
  BY <1>0, <1>p DEF PtrsSound, PtrSound, TypeOK, Pointers
<1>3. fresh.block = b /\ fresh.off = 0 /\ ~fresh.pooled
  BY <1>n, <1>p, <1>2 DEF Pointers
<1>u. PICK u \in [Blocks -> Uses] : u[b] = Direct /\ \A d \in Blocks : d # b => u[d] = use[d]
  <2> DEFINE w == [use EXCEPT ![b] = Direct]
  <2>1. w \in [Blocks -> Uses] /\ w[b] = Direct /\ \A d \in Blocks : d # b => w[d] = use[d]
    BY UseFacts
  <2> HIDE DEF w
  <2> QED BY <2>1
<1>4. \A c \in Chunks : header[c].kind # "raw" =>
        /\ c[1] # b /\ c[1] # p.block /\ c[1] \in os' /\ size'[c[1]] = size[c[1]] /\ u[c[1]] = use[c[1]]
  <2> SUFFICES ASSUME NEW c \in Chunks, header[c].kind # "raw"
               PROVE  /\ c[1] # b /\ c[1] # p.block /\ c[1] \in os' /\ size'[c[1]] = size[c[1]]
                      /\ u[c[1]] = use[c[1]]
    OBVIOUS
  <2>1. c[1] \in os /\ c[1] \in Blocks /\ use[c[1]] # Direct
    BY <1>0, RawHeaders DEF Chunks
  <2> QED BY <1>1, <1>2, <1>u, <2>1 DEF TypeOK
<1>5. HeadersSound(u)'
  BY <1>0, <1>1, <1>4 DEF HeadersSound
<1>6. PtrsSound(u)'
  <2>1. ASSUME NEW q \in ptrs \ {p} PROVE PtrSound(q, u)' /\ q.block # b
    <3>1. PtrSound(q, use) /\ q.block # p.block /\ q.block \in Blocks
      BY <1>0, <1>p, <2>1, OnlyPtr DEF PtrsSound, TypeOK, Pointers
    <3>2. q.block # b /\ q.block \in os' /\ u[q.block] = use[q.block]
      BY <1>1, <1>2, <1>u, <3>1 DEF PtrSound
    <3> QED BY <1>1, <3>1, <3>2 DEF PtrSound
  <2>2. PtrSound(fresh, u)'
    BY <1>1, <1>3, <1>u DEF PtrSound
  <2>3. ASSUME NEW q \in ptrs' PROVE PtrSound(q, u)'
    BY <1>1, <2>1, <2>2
  <2>4. ASSUME NEW q \in ptrs', NEW r \in ptrs', q.block = r.block, q.off = r.off PROVE q = r
    BY <1>0, <1>1, <1>3, <2>1, <2>4 DEF PtrsSound
  <2> QED BY <2>3, <2>4 DEF PtrsSound
<1>7. ListsSound(u)'
  BY <1>0, <1>1, <1>4, SameLists
<1> QED BY <1>5, <1>6, <1>7 DEF Sound

(* A block leaves, with every header and pointer that was in it. *)
LEMMA BlockLeaves ==
  ASSUME TypeOK, NEW use \in [Blocks -> Uses], Sound(use), NEW b \in Blocks, use[b] \notin Buckets,
         Untrack(b), apPool' = apPool,
         \A c \in Chunks : IF c[1] = b THEN header'[c].kind = "raw" ELSE header'[c] = header[c],
         ptrs' \subseteq ptrs, \A p \in ptrs' : p.block # b
  PROVE  Sound(use)'
<1>0. HeadersSound(use) /\ PtrsSound(use) /\ ListsSound(use)
  BY DEF Sound
<1>1. os' = os \ {b} /\ \A d \in Blocks : d # b => size'[d] = size[d]
  BY DEF Untrack, TypeOK
<1>2. \A c \in Chunks : c[1] \in Blocks /\ (header'[c].kind # "raw" => c[1] # b /\ header'[c] = header[c])
  BY DEF Chunks
<1>3. HeadersSound(use)'
  BY <1>0, <1>1, <1>2 DEF HeadersSound
<1>4. PtrsSound(use)'
  <2>1. ASSUME NEW p \in ptrs' PROVE PtrSound(p, use)'
    <3>1. PtrSound(p, use) /\ p.block # b
      BY <1>0 DEF PtrsSound
    <3>2. p.pooled => header'[<<p.block, p.off>>] = header[<<p.block, p.off>>]
      BY <3>1 DEF PtrSound
    <3> QED BY <1>1, <3>1, <3>2 DEF PtrSound
  <2> QED BY <1>0, <2>1 DEF PtrsSound
<1>5. ListsSound(use)'
  <2>1. \A c \in Chunks : header'[c].kind = "free" => header'[c] = header[c]
    BY <1>2
  <2>2. ASSUME NEW c \in Chunks, header[c].kind = "free" PROVE header'[c] = header[c]
    <3>1. c[1] # b
      BY <1>0, <2>2, UseFacts DEF HeadersSound
    <3> QED BY <3>1
  <2> QED BY <1>0, <2>1, <2>2, SameLists
<1> QED BY <1>3, <1>4, <1>5 DEF Sound

LEMMA FreeSound ==
  ASSUME TypeOK, NEW use \in [Blocks -> Uses], Sound(use), NEW p \in ptrs, Free(p)
  PROVE  Sound(use)'
<1>0. HeadersSound(use) /\ PtrsSound(use) /\ ListsSound(use)
  BY DEF Sound
<1>1. ~p.pooled /\ ptrs' = ptrs \ {p} /\ header' = header /\ apPool' = apPool
  BY DEF Free, pool
<1>2. p.block \in Blocks /\ use[p.block] = Direct
  BY <1>0, <1>1 DEF PtrsSound, PtrSound, TypeOK, Pointers
<1>3. CASE nBlock > 0
  <2>1. Untrack(p.block)
    BY <1>3 DEF Free
  <2>2. \A c \in Chunks : c[1] = p.block => header'[c].kind = "raw"
    BY <1>0, <1>1, <1>2, RawHeaders
  <2>3. \A q \in ptrs' : q.block # p.block
    BY <1>0, <1>1, OnlyPtr
  <2> QED BY <1>1, <1>2, <2>1, <2>2, <2>3, BlockLeaves, UseFacts
<1>4. CASE ~ (nBlock > 0)
  <2>1. UNCHANGED <<os, size>>
    BY <1>4 DEF Free
  <2>2. HeadersSound(use)' /\ PtrsSound(use)'
    BY <1>0, <1>1, <2>1 DEF HeadersSound, PtrsSound, PtrSound
  <2>3. ListsSound(use)'
    BY <1>0, <1>1, SameLists
  <2> QED BY <2>2, <2>3 DEF Sound
<1> QED BY <1>3, <1>4

LEMMA PoolFreeSound ==
  ASSUME TypeOK, NEW use \in [Blocks -> Uses], Sound(use), NEW c \in Chunks, PoolFree(c)
  PROVE  Sound(use)'
<1> DEFINE at == {q \in ptrs : q.pooled /\ <<q.block, q.off>> = c}
<1>0. /\ HeadersSound(use) /\ PtrsSound(use) /\ ListsSound(use)
      /\ header \in [Chunks -> Headers]
      /\ c[1] \in Blocks /\ c = <<c[1], c[2]>>
  BY DEF Sound, TypeOK, Headers, Chunks
<1>1. CASE header[c].kind = "used" /\ header[c].bucket = Big
  <2>1. /\ Untrack(c[1]) /\ header' = [header EXCEPT ![c] = Raw]
        /\ ptrs' = ptrs \ at /\ apPool' = apPool
    BY <1>1 DEF PoolFree
  <2>2. use[c[1]] = Big /\ c[2] = 0
    BY <1>0, <1>1, UseFacts DEF HeadersSound
  <2>3. ASSUME NEW d \in Chunks
        PROVE  IF d[1] = c[1] THEN header'[d].kind = "raw" ELSE header'[d] = header[d]
    <3>1. CASE d = c
      BY <1>0, <2>1, <3>1 DEF Raw
    <3>2. CASE d # c /\ d[1] = c[1]
      <4>1. d[2] # 0
        BY <2>2, <3>2 DEF Chunks
      <4>2. header[d].kind = "raw"
        BY <1>0, <2>2, <3>2, <4>1, UseFacts DEF HeadersSound
      <4> QED BY <1>0, <2>1, <3>2, <4>2
    <3>3. CASE d[1] # c[1]
      BY <1>0, <2>1, <3>3
    <3> QED BY <3>1, <3>2, <3>3
  <2>4. ASSUME NEW p \in ptrs' PROVE p.block # c[1]
    <3> SUFFICES ASSUME p.block = c[1] PROVE FALSE
      OBVIOUS
    <3>1. PtrSound(p, use) /\ p \in ptrs /\ ~ (p.pooled /\ <<p.block, p.off>> = c)
      BY <1>0, <2>1 DEF PtrsSound
    <3>2. p.pooled /\ <<p.block, p.off>> \in Chunks /\ header[<<p.block, p.off>>].kind = "used"
      BY <2>2, <3>1, UseFacts DEF PtrSound
    <3>3. p.off = 0
      BY <1>0, <2>2, <3>2, UseFacts DEF HeadersSound
    <3> QED BY <1>0, <2>2, <3>1, <3>2, <3>3
  <2>5. use[c[1]] \notin Buckets /\ ptrs' \subseteq ptrs
    BY <2>1, <2>2, UseFacts
  <2> QED BY <1>0, <2>1, <2>3, <2>4, <2>5, BlockLeaves
<1>2. CASE header[c].kind = "used" /\ header[c].bucket # Big
  <2> DEFINE k == use[c[1]]
  <2>1. /\ k \in Buckets /\ header[c].bucket = k /\ c[1] \in os /\ size[c[1]] = MAXALLOC
        /\ c[2] \in Starts(k)
    BY <1>0, <1>2 DEF HeadersSound
  <2>2. /\ header' = [header EXCEPT ![c] = FreeHeader(apPool[k])]
        /\ apPool' = [apPool EXCEPT ![k] = c]
        /\ ptrs' = ptrs \ at /\ UNCHANGED <<os, size>>
    BY <1>2, <2>1 DEF PoolFree
  <2>3. /\ header'[c].kind = "free" /\ header'[c].next = apPool[k]
        /\ \A d \in Chunks : d # c => header'[d] = header[d]
    BY <1>0, <2>2 DEF FreeHeader
  <2>4. HeadersSound(use)'
    BY <1>0, <2>1, <2>2, <2>3 DEF HeadersSound
  <2>5. PtrsSound(use)'
    <3>1. ASSUME NEW p \in ptrs' PROVE PtrSound(p, use)'
      <4>1. PtrSound(p, use) /\ ~ (p.pooled /\ <<p.block, p.off>> = c)
        BY <1>0, <2>2 DEF PtrsSound
      <4>2. p.pooled => header'[<<p.block, p.off>>] = header[<<p.block, p.off>>]
        BY <2>3, <4>1 DEF PtrSound
      <4> QED BY <2>2, <4>1, <4>2 DEF PtrSound
    <3>2. ptrs' \subseteq ptrs
      BY <2>2
    <3> QED BY <1>0, <3>1, <3>2 DEF PtrsSound
  <2>6. ListsSound(use)'
    <3> SUFFICES ASSUME NEW j \in Buckets PROVE FreeList(FreeIn(use, j)', apPool'[j], header')
      BY DEF ListsSound
    <3> DEFINE F == FreeIn(use, j)
    <3>0. /\ F \in SUBSET Chunks /\ FreeList(F, apPool[j], header)
          /\ F = {d \in Chunks : header[d].kind = "free" /\ use[d[1]] = j}
          /\ FreeIn(use, j)' = {d \in Chunks : header'[d].kind = "free" /\ use[d[1]] = j}
      BY <1>0 DEF ListsSound, FreeIn
    <3> HIDE DEF F, k
    <3>1. \A d \in F : d # c /\ header'[d].next = header[d].next
      BY <1>2, <2>3, <3>0
    <3>2. CASE j = k
      <4>1. FreeIn(use, j)' = F \cup {c}
        BY <2>3, <3>0, <3>2 DEF k
      <4>2. apPool'[j] = c /\ header'[c].next = apPool[j]
        BY <2>2, <2>3, <3>2 DEF TypeOK
      <4>3. FreeList(F \cup {c}, c, header')
        BY <3>0, <3>1, <4>2, GiveList
      <4> QED BY <4>1, <4>2, <4>3
    <3>3. CASE j # k
      <4>1. FreeIn(use, j)' = F
        BY <2>3, <3>0, <3>1, <3>3 DEF k
      <4>2. apPool'[j] = apPool[j]
        BY <2>2, <3>3 DEF TypeOK
      <4> QED BY <3>0, <3>1, <4>1, <4>2, SameList
    <3> QED BY <3>2, <3>3
  <2> QED BY <2>4, <2>5, <2>6 DEF Sound
<1>3. CASE header[c].kind = "free"
  BY <1>3, SameSound DEF PoolFree
<1> QED BY <1>1, <1>2, <1>3 DEF PoolFree

LEMMA ReleaseSound ==
  ASSUME NEW use, ReleaseBackend
  PROVE  Sound(use)'
<1>1. /\ apPool' = [k \in Buckets |-> NULL] /\ ptrs' = {}
      /\ \A c \in Chunks : header'[c].kind = "raw"
  BY DEF ReleaseBackend, Raw
<1>2. HeadersSound(use)' /\ PtrsSound(use)'
  BY <1>1 DEF HeadersSound, PtrsSound
<1>3. ASSUME NEW k \in Buckets PROVE FreeList(FreeIn(use, k)', apPool'[k], header')
  <2>1. FreeIn(use, k)' = {} /\ apPool'[k] = NULL
    BY <1>1 DEF FreeIn
  <2> QED BY <2>1, NoList
<1> QED BY <1>2, <1>3 DEF Sound, ListsSound

LEMMA InitInvariant == Init => IInv
<1> SUFFICES ASSUME Init PROVE IInv
  OBVIOUS
<1>1. Typed
  BY InitTyped
<1>2. Tracked
  <2>1. os = {} /\ list = EmptyList(Blocks) /\ nBlock = 0
    BY DEF Init
  <2>2. Linked(EmptyList(Blocks), {})
    BY DEF Linked, LinkedTo, Consistent, Acyclic, EmptyList
  <2> QED BY <2>1, <2>2, FS_EmptySet DEF Tracked, BlocksTracked
<1>3. NotedSound
  BY IdleTyped DEF Init, NotedSound
<1>4. PICK use \in [Blocks -> Uses] : use = [b \in Blocks |-> Direct]
  BY UseFacts
<1>5. Sound(use)
  <2>1. /\ apPool = [k \in Buckets |-> NULL] /\ ptrs = {}
        /\ \A c \in Chunks : header[c].kind = "raw"
    BY DEF Init, Raw
  <2>2. HeadersSound(use) /\ PtrsSound(use)
    BY <2>1 DEF HeadersSound, PtrsSound
  <2>3. ASSUME NEW k \in Buckets PROVE FreeList(FreeIn(use, k), apPool[k], header)
    <3>1. FreeIn(use, k) = {} /\ apPool[k] = NULL
      BY <2>1 DEF FreeIn
    <3> QED BY <3>1, NoList
  <2> QED BY <2>2, <2>3 DEF Sound, ListsSound
<1> QED BY <1>1, <1>2, <1>3, <1>5 DEF IInv

LEMMA SoundStep ==
  ASSUME IInv, ~CallbackFrees, [Next]_vars
  PROVE  \E u \in [Blocks -> Uses] : Sound(u)'
<1>0. TypeOK /\ CallNoted /\ NotedSound
  BY DEF IInv, Typed
<1>u. PICK use \in [Blocks -> Uses] : Sound(use)
  BY DEF IInv
<1> SUFFICES ASSUME ~ Sound(use)'
             PROVE  \E u \in [Blocks -> Uses] : Sound(u)'
  OBVIOUS
<1>1. ASSUME NEW n \in Sizes, Alloc(n) PROVE Sound(use)'
  BY <1>1, <1>u, SameSound DEF Alloc
<1>2. ASSUME NEW n \in Sizes, PoolAlloc(n) PROVE Sound(use)'
  <2>1. CASE UNCHANGED <<pool, ptrs>>
    BY <1>2, <1>u, <2>1, SameSound DEF PoolAlloc
  <2>2. CASE /\ ~IsBig(n) /\ apPool[BucketOf(n)] # NULL
             /\ TakeChunk(apPool[BucketOf(n)], header, BucketOf(n), n)
    <3>1. BucketOf(n) \in Buckets /\ BucketSize(BucketOf(n)) >= n + HDR
      BY <2>2, BucketFits
    <3>2. n \in Nat /\ HDR \in Nat /\ BucketSize(BucketOf(n)) \in Nat
      BY <3>1, MemBackendAssumption, SizesPositive
    <3>3. n + HDR <= BucketSize(BucketOf(n))
      BY <3>1, <3>2
    <3>4. apPool[BucketOf(n)] \in Chunks
      BY <1>0, <2>2, <3>1 DEF TypeOK
    <3>5. os' = os /\ size' = size
      BY <1>2 DEF PoolAlloc
    <3> QED BY <1>0, <1>u, <2>2, <3>1, <3>3, <3>4, <3>5, TakeSound
  <2> QED BY <1>2, <2>1, <2>2 DEF PoolAlloc
<1>3. ASSUME NEW p \in ptrs, NEW n \in Sizes, Realloc(p, n) PROVE Sound(use)'
  BY <1>3, <1>u, SameSound DEF Realloc
<1>4. ASSUME NEW b \in Blocks, GotBlock(b) PROVE \E u \in [Blocks -> Uses] : Sound(u)'
  BY <1>0, <1>4, <1>u, GotBlockSound
<1>5. ASSUME NEW b \in Blocks, GotRealloc(b) PROVE \E u \in [Blocks -> Uses] : Sound(u)'
  BY <1>0, <1>5, <1>u, GotReallocSound
<1>6. CASE NoMemory \/ Answer
  BY <1>6, <1>u, SameSound DEF NoMemory, Answer
<1>7. ASSUME NEW p \in ptrs, Free(p) PROVE Sound(use)'
  BY <1>0, <1>7, <1>u, FreeSound
<1>8. ASSUME NEW c \in Chunks, PoolFree(c) PROVE Sound(use)'
  BY <1>0, <1>8, <1>u, PoolFreeSound
<1>9. CASE ReleaseBackend
  BY <1>9, ReleaseSound
<1>10. CASE UNCHANGED vars
  BY <1>10, <1>u, SameSound DEF vars, pool
<1> QED BY <1>1, <1>2, <1>3, <1>4, <1>5, <1>6, <1>7, <1>8, <1>9, <1>10 DEF Next

LEMMA InvariantStep == IInv /\ ~CallbackFrees /\ [Next]_vars => IInv'
<1> SUFFICES ASSUME IInv, ~CallbackFrees, [Next]_vars PROVE IInv'
  OBVIOUS
<1>1. Typed'
  BY TypedStep DEF IInv
<1>2. Tracked' /\ NotedSound'
  BY TrackedStep, NotedStep
<1>3. PICK u \in [Blocks -> Uses] : Sound(u)'
  BY SoundStep
<1> QED BY <1>1, <1>2, <1>3 DEF IInv

LEMMA Invariance == ~CallbackFrees /\ Spec => []IInv
<1>1. ~CallbackFrees /\ IInv /\ [Next]_vars => IInv'
  BY InvariantStep
<1>2. ASSUME ~CallbackFrees PROVE Spec => []IInv
  BY <1>1, <1>2, InitInvariant, PTL DEF Spec
<1> QED BY <1>2

(***************************************************************************)
(* The list holds exactly the blocks the backend owns and nBlock counts    *)
(* them, through moves by xRealloc whose neighbours were read before and   *)
(* through frees in between: SyMemBackendRelease frees each block once.    *)
(***************************************************************************)
THEOREM BlocksExact == ~CallbackFrees /\ Spec => []BlocksTracked
<1>1. IInv => BlocksTracked
  BY DEF IInv, Tracked
<1> QED BY <1>1, Invariance, PTL
----------------------------------------------------------------------------
(***************************************************************************)
(* The refinement of Heap.                                                 *)
(***************************************************************************)
Regions == {Region(p) : p \in ptrs}
Apart == \A p, q \in ptrs : p # q => Region(p) \cap Region(q) = {}

LEMMA PointerTypes ==
  ASSUME NEW p \in Pointers
  PROVE  p.block \in Blocks /\ p.off \in Nat /\ p.n \in Nat /\ HDR \in Nat
<1>1. Sizes \subseteq Nat /\ MAXALLOC \in Nat /\ HDR \in Nat
  BY MemBackendAssumption, SizesPositive
<1>2. p.block \in Blocks /\ p.off \in 0 .. MAXALLOC /\ p.n \in Sizes
  BY DEF Pointers
<1>3. ASSUME NEW x \in 0 .. MAXALLOC PROVE x \in Nat
  BY <1>1
<1> QED BY <1>1, <1>2, <1>3

LEMMA RegionBounds ==
  ASSUME NEW p \in Pointers
  PROVE  /\ Region(p) \subseteq Cell
         /\ \A x \in Region(p) :
              /\ x[1] = p.block /\ x[2] \in Nat /\ p.off <= x[2]
              /\ x[2] < p.off + (p.n + HDR)
<1>1. p.block \in Blocks /\ p.off \in Nat /\ p.n \in Nat /\ HDR \in Nat
  BY PointerTypes
<1> DEFINE from == p.off + (IF p.pooled THEN HDR ELSE 0)
<1>2. from \in Nat /\ p.off <= from /\ from <= p.off + HDR
  BY <1>1
<1>3. Region(p) = {<<p.block, x>> : x \in from .. (from + p.n - 1)}
  BY DEF Region
<1> HIDE DEF from
<1>4. \A x \in from .. (from + p.n - 1) : x \in Nat /\ p.off <= x /\ x < p.off + (p.n + HDR)
  BY <1>1, <1>2
<1> QED BY <1>1, <1>3, <1>4 DEF Cell

(* Chunks of a bucket that start apart end apart: the header and the bytes *)
(* of a pointer fit its bucket.                                            *)
LEMMA ChunksApart ==
  ASSUME TypeOK, NEW use \in [Blocks -> Uses], HeadersSound(use),
         NEW p \in ptrs, NEW q \in ptrs, PtrSound(p, use), PtrSound(q, use),
         p.block = q.block, p.pooled, q.pooled, p.off < q.off
  PROVE  p.off + (p.n + HDR) <= q.off
<1> DEFINE c == <<p.block, p.off>>
           d == <<q.block, q.off>>
           k == use[p.block]
<1>1. /\ c \in Chunks /\ d \in Chunks /\ header[c].kind = "used" /\ header[d].kind = "used"
      /\ c[1] = p.block /\ c[2] = p.off /\ d[1] = p.block /\ d[2] = q.off
      /\ p.off \in Nat /\ q.off \in Nat /\ p.n \in Nat /\ HDR \in Nat
  <2>1. p \in Pointers /\ q \in Pointers
    BY DEF TypeOK
  <2>2. p.off \in Nat /\ q.off \in Nat /\ p.n \in Nat /\ HDR \in Nat
    BY <2>1, PointerTypes
  <2> QED BY <2>2 DEF PtrSound
<1>2. k \in Buckets /\ p.off \in Starts(k) /\ q.off \in Starts(k)
  <2> HIDE DEF c, d
  <2>2. (k \in Buckets /\ d[2] \in Starts(k)) \/ d[2] = 0
    BY <1>1 DEF HeadersSound
  <2>3. 0 < q.off
    BY <1>1
  <2>4. k \in Buckets /\ d[2] \in Starts(k)
    BY <1>1, <2>2, <2>3
  <2>5. c[2] \in Starts(k)
    BY <1>1, <2>4, UseFacts DEF HeadersSound
  <2> QED BY <1>1, <2>4, <2>5
<1> HIDE DEF k
<1>3. BucketSize(k) \in Nat \ {0} /\ p.off % BucketSize(k) = 0 /\ q.off % BucketSize(k) = 0
  BY <1>2, SizesPositive DEF Starts
<1>4. p.off + BucketSize(k) <= q.off
  BY <1>1, <1>3, MultiplesApart
<1>5. p.n + HDR <= BucketSize(k)
  BY <1>2 DEF PtrSound, k
<1> QED BY <1>1, <1>3, <1>4, <1>5

LEMMA RegionsApart == IInv => Apart
<1> SUFFICES ASSUME IInv PROVE Apart
  OBVIOUS
<1>u. PICK use \in [Blocks -> Uses] : HeadersSound(use) /\ PtrsSound(use)
  BY DEF IInv, Sound
<1>0. TypeOK /\ \A p \in ptrs : p \in Pointers /\ PtrSound(p, use)
  BY <1>u DEF IInv, Typed, TypeOK, PtrsSound
<1>1. ASSUME NEW p \in ptrs, NEW q \in ptrs, p # q, p.off < q.off PROVE Region(p) \cap Region(q) = {}
  <2> SUFFICES ASSUME NEW x \in Region(p), x \in Region(q) PROVE FALSE
    OBVIOUS
  <2>1. /\ x[1] = p.block /\ x[2] \in Nat /\ x[2] < p.off + (p.n + HDR)
        /\ x[1] = q.block /\ q.off <= x[2]
    BY <1>0, RegionBounds
  <2>2. p.block = q.block /\ p.off \in Nat /\ q.off \in Nat /\ p.n \in Nat /\ HDR \in Nat
    BY <1>0, <2>1, PointerTypes
  <2>3. p.pooled /\ q.pooled
    BY <1>1, <1>u, <2>2, OnlyPtr
  <2>4. p.off + (p.n + HDR) <= q.off
    BY <1>0, <1>1, <1>u, <2>2, <2>3, ChunksApart
  <2> QED BY <2>1, <2>2, <2>4
<1>2. ASSUME NEW p \in ptrs, NEW q \in ptrs, p # q, p.off = q.off PROVE Region(p) \cap Region(q) = {}
  <2>1. p.block # q.block
    BY <1>2, <1>u DEF PtrsSound
  <2>2. \A x \in Region(p) : x[1] = p.block
    BY <1>0, RegionBounds
  <2>3. \A x \in Region(q) : x[1] = q.block
    BY <1>0, RegionBounds
  <2> QED BY <2>1, <2>2, <2>3
<1>3. \A p \in ptrs : p.off \in Nat
  BY <1>0 DEF Pointers
<1>4. ASSUME NEW p \in ptrs, NEW q \in ptrs, p # q PROVE Region(p) \cap Region(q) = {}
  <2>1. CASE p.off < q.off
    BY <1>1, <1>4, <2>1
  <2>2. CASE p.off = q.off
    BY <1>2, <1>4, <2>2
  <2>3. CASE q.off < p.off
    BY <1>1, <1>4, <2>3
  <2> QED BY <1>3, <2>1, <2>2, <2>3
<1> QED BY <1>4 DEF Apart

(***************************************************************************)
(* What becomes of the regions when a pointer comes, goes or is replaced.  *)
(* Pointers to no bytes share the empty region: their coming and going may *)
(* not show.                                                               *)
(***************************************************************************)
LEMMA PtrComes ==
  ASSUME Apart', NEW fresh, ptrs' = ptrs \cup {fresh}, Region(fresh) \subseteq Cell
  PROVE  TheHeap!Allocate \/ Regions' = Regions
<1>1. CASE fresh \in ptrs
  BY <1>1 DEF Regions, Region
<1>2. CASE fresh \notin ptrs
  <2>1. Regions' = Regions \cup {Region(fresh)}
    BY DEF Regions, Region
  <2>2. \A s \in Regions : Region(fresh) \cap s = {}
    BY <1>2 DEF Apart, Regions, Region
  <2>3. Region(fresh) \in Regions'
    BY <2>1
  <2>4. TheHeap!Allocate
    BY <2>1, <2>2, <2>3 DEF TheHeap!Allocate, TheHeap!Disjoint, Regions
  <2> QED BY <2>4
<1> QED BY <1>1, <1>2

LEMMA PtrGoes ==
  ASSUME NEW p \in ptrs, ptrs' = ptrs \ {p}
  PROVE  TheHeap!Free \/ Regions' = Regions
<1>1. Region(p) \in Regions
  BY DEF Regions
<1>2. CASE \E q \in ptrs \ {p} : Region(q) = Region(p)
  <2>1. Regions' = Regions
    BY <1>2 DEF Regions, Region
  <2> QED BY <2>1
<1>3. CASE ~ \E q \in ptrs \ {p} : Region(q) = Region(p)
  <2>1. Regions' = Regions \ {Region(p)}
    BY <1>3 DEF Regions, Region
  <2>2. TheHeap!Free
    BY <1>1, <2>1 DEF TheHeap!Free, Regions
  <2> QED BY <2>2
<1> QED BY <1>2, <1>3

LEMMA PtrMoves ==
  ASSUME Apart', NEW p \in ptrs, NEW fresh, fresh \notin ptrs \ {p},
         ptrs' = (ptrs \ {p}) \cup {fresh}, Region(fresh) \subseteq Cell
  PROVE  TheHeap!Resize \/ TheHeap!Allocate \/ Regions' = Regions
<1> DEFINE r == Region(p)
           s == Region(fresh)
           Others == {Region(q) : q \in ptrs \ {p}}
<1>1. Regions' = Others \cup {s} /\ Regions = Others \cup {r} /\ r \in Regions /\ s \in Regions'
  BY DEF Regions, Region
<1>2. \A t \in Others : s \cap t = {}
  BY DEF Apart, Region
<1> HIDE DEF Others, r, s
<1>3. CASE r \in Others
  <2>1. Regions' = Regions \cup {s} /\ \A t \in Regions : s \cap t = {}
    BY <1>1, <1>2, <1>3
  <2>2. TheHeap!Allocate
    BY <1>1, <2>1 DEF TheHeap!Allocate, TheHeap!Disjoint, Regions, s
  <2> QED BY <2>2
<1>4. CASE r \notin Others
  <2>1. Regions' = (Regions \ {r}) \cup {s} /\ \A t \in Regions \ {r} : s \cap t = {}
    BY <1>1, <1>2, <1>4
  <2>2. TheHeap!Resize
    BY <1>1, <2>1 DEF TheHeap!Resize, TheHeap!Disjoint, Regions, s
  <2> QED BY <2>2
<1> QED BY <1>3, <1>4

LEMMA RefinementStep == IInv /\ Apart' /\ [Next]_vars => TheHeap!Next \/ Regions' = Regions
<1> SUFFICES ASSUME IInv, Apart', [Next]_vars PROVE TheHeap!Next \/ Regions' = Regions
  OBVIOUS
<1> USE DEF TheHeap!Next
<1>u. PICK use \in [Blocks -> Uses] : HeadersSound(use) /\ PtrsSound(use)
  BY DEF IInv, Sound
<1>0. TypeOK /\ CallNoted /\ NotedSound
  BY DEF IInv, Typed
<1>a. UNCHANGED ptrs => Regions' = Regions
  BY DEF Regions, Region
<1>1. ASSUME NEW n \in Sizes, Alloc(n) PROVE UNCHANGED ptrs
  BY <1>1 DEF Alloc
<1>2. ASSUME NEW n \in Sizes, PoolAlloc(n) PROVE TheHeap!Allocate \/ Regions' = Regions
  <2>1. CASE UNCHANGED ptrs
    BY <1>a, <2>1
  <2>2. CASE /\ ~IsBig(n) /\ apPool[BucketOf(n)] # NULL
             /\ TakeChunk(apPool[BucketOf(n)], header, BucketOf(n), n)
    <3>1. apPool[BucketOf(n)] \in Chunks
      BY <1>0, <2>2, BucketFits DEF TypeOK
    <3>2. PICK fresh : /\ fresh = [block |-> apPool[BucketOf(n)][1], off |-> apPool[BucketOf(n)][2], n |-> n,
                              pooled |-> TRUE]
                     /\ ptrs' = ptrs \cup {fresh}
      BY <2>2 DEF TakeChunk
    <3>3. fresh \in Pointers
      BY <3>1, <3>2, SizesPositive DEF Chunks, Pointers
    <3> QED BY <3>2, <3>3, PtrComes, RegionBounds
  <2> QED BY <1>2, <2>1, <2>2 DEF PoolAlloc
<1>3. ASSUME NEW p \in ptrs, NEW n \in Sizes, Realloc(p, n) PROVE UNCHANGED ptrs
  BY <1>3 DEF Realloc
<1>4. ASSUME NEW b \in Blocks, GotBlock(b) PROVE TheHeap!Allocate \/ Regions' = Regions
  <2>1. \E pooled \in BOOLEAN :
           ptrs' = ptrs \cup {[block |-> b, off |-> 0, n |-> call.n, pooled |-> pooled]}
    BY <1>4 DEF GotBlock, TakeChunk
  <2>p. PICK pooled \in BOOLEAN :
          ptrs' = ptrs \cup {[block |-> b, off |-> 0, n |-> call.n, pooled |-> pooled]}
    BY <2>1
  <2>2. PICK fresh :
          fresh = [block |-> b, off |-> 0, n |-> call.n, pooled |-> pooled] /\ ptrs' = ptrs \cup {fresh}
    BY <2>p
  <2>3. fresh \in Pointers
    <3>1. call.n \in Sizes /\ 0 \in 0..MAXALLOC
      BY <1>0, <1>4, SizesPositive DEF GotBlock, CallNoted
    <3> QED BY <2>2, <3>1 DEF Pointers
  <2> QED BY <2>2, <2>3, PtrComes, RegionBounds
<1>5. ASSUME NEW b \in Blocks, GotRealloc(b)
      PROVE  TheHeap!Resize \/ TheHeap!Allocate \/ Regions' = Regions
  <2>1. PICK p \in ptrs : p = call.p /\ ~p.pooled
    BY <1>0, <1>5 DEF GotRealloc, NotedSound
  <2>2. PICK fresh : fresh = [p EXCEPT !.block = b, !.n = call.n]
    OBVIOUS
  <2>3. ptrs' = (ptrs \ {p}) \cup {fresh} /\ (b \notin os \/ b = p.block) /\ call.n \in Sizes
    BY <1>0, <1>5, <2>1, <2>2 DEF GotRealloc, CallNoted
  <2>4. fresh \in Pointers /\ fresh.block = b
    BY <1>0, <2>2, <2>3 DEF TypeOK, Pointers
  <2>5. fresh \notin ptrs \ {p}
    BY <1>u, <2>1, <2>3, <2>4, OnlyPtr DEF PtrsSound, PtrSound
  <2>6. Region(fresh) \subseteq Cell
    BY <2>4, RegionBounds
  <2> QED BY <2>1, <2>3, <2>5, <2>6, PtrMoves
<1>6. CASE NoMemory \/ Answer
  BY <1>a, <1>6 DEF NoMemory, Answer
<1>7. ASSUME NEW p \in ptrs, Free(p) PROVE TheHeap!Free \/ Regions' = Regions
  BY <1>7, PtrGoes DEF Free
<1>8. ASSUME NEW c \in Chunks, PoolFree(c) PROVE TheHeap!Free \/ Regions' = Regions
  <2> DEFINE at == {q \in ptrs : q.pooled /\ <<q.block, q.off>> = c}
  <2>1. UNCHANGED ptrs \/ ptrs' = ptrs \ at
    BY <1>8 DEF PoolFree
  <2>2. at = {} \/ \E p \in ptrs : at = {p}
    <3>1. \A p, q \in at : p.block = q.block /\ p.off = q.off
      OBVIOUS
    <3>2. \A p, q \in at : p = q
      BY <1>u, <3>1 DEF PtrsSound
    <3>3. at \subseteq ptrs
      OBVIOUS
    <3> HIDE DEF at
    <3> QED BY <3>2, <3>3
  <2> HIDE DEF at
  <2>3. CASE UNCHANGED ptrs \/ at = {}
    BY <1>a, <2>1, <2>3
  <2>4. ASSUME NEW p \in ptrs, at = {p}, ptrs' = ptrs \ at PROVE TheHeap!Free \/ Regions' = Regions
    BY <2>4, PtrGoes
  <2> QED BY <2>1, <2>2, <2>3, <2>4
<1>9. ASSUME ReleaseBackend PROVE TheHeap!ReleaseAll
  BY <1>9 DEF ReleaseBackend, TheHeap!ReleaseAll, Region
<1>10. CASE UNCHANGED vars
  BY <1>a, <1>10 DEF vars
<1> QED BY <1>a, <1>1, <1>2, <1>3, <1>4, <1>5, <1>6, <1>7, <1>8, <1>9, <1>10 DEF Next

(***************************************************************************)
(* The backend implements Heap: whatever is allocated, moved, cut out of a *)
(* slab and given back, the bytes of every pointer are its own.            *)
(***************************************************************************)
THEOREM ImplementsHeap == ~CallbackFrees /\ Spec => HeapSpec
<1>1. Init => TheHeap!Init
  BY DEF Init, TheHeap!Init
<1>2. IInv /\ Apart' /\ [Next]_vars => [TheHeap!Next]_Regions
  BY RefinementStep
<1>3. ASSUME ~CallbackFrees PROVE Spec => TheHeap!Init /\ [][TheHeap!Next]_Regions
  <2>1. Spec => []IInv
    BY <1>3, Invariance
  <2> QED BY <1>1, <1>2, <2>1, RegionsApart, PTL DEF Spec
<1>4. TheHeap!Spec <=> TheHeap!Init /\ [][TheHeap!Next]_Regions
  BY DEF TheHeap!Spec, Regions
<1> QED BY <1>3, <1>4 DEF HeapSpec
----------------------------------------------------------------------------
(***************************************************************************)
(* The free lists as the pools walk them.                                  *)
(***************************************************************************)
LEMMA ChunksFinite == IsFiniteSet(Chunks)
<1>1. MAXALLOC - 1 \in Int
  BY SizesPositive
<1>2. IsFiniteSet(0 .. (MAXALLOC - 1))
  BY <1>1, FS_Interval
<1> QED BY <1>2, FS_Product, MemBackendAssumption DEF Chunks

(* Each step from the head reaches one chunk more, until all are reached. *)
LEMMA ListReached ==
  ASSUME TypeOK, NEW k \in Buckets, NEW F \in SUBSET Chunks, FreeList(F, apPool[k], header)
  PROVE  FreeOf(k) = F
<1> DEFINE N == Cardinality(Chunks)
           head == {apPool[k]} \ {NULL}
           On(S) == S \cup ({header[c].next : c \in S} \ {NULL})
           Solves(f) == f = [i \in 0..N |-> IF i = 0 THEN head ELSE On(f[i-1])]
           reach == CHOOSE f : Solves(f)
           on == [S \in SUBSET Chunks |-> On(S)]
<1>1. N \in Nat
  BY ChunksFinite, FS_CardinalityType
<1>2. /\ header \in [Chunks -> Headers] /\ apPool[k] \in Chunks \cup {NULL}
      /\ \A c \in Chunks : header[c].next \in Chunks \cup {NULL}
  BY DEF TypeOK, Headers
<1>3. on \in [SUBSET Chunks -> SUBSET Chunks] /\ head \in SUBSET Chunks
  BY <1>2
<1>4. PICK f \in [0..N -> SUBSET Chunks] : Iterated(f, on, head, N)
  <2> HIDE DEF on, head, N
  <2> QED BY <1>1, <1>3, Iterates
<1>5. Solves(f)
  <2>1. ASSUME NEW i \in 0..N PROVE f[i] = IF i = 0 THEN head ELSE On(f[i-1])
    <3>1. i # 0 => i \in 1..N /\ i - 1 \in 0..N
      BY <1>1
    <3> HIDE DEF On
    <3>2. CASE i = 0
      BY <1>4, <3>2 DEF Iterated
    <3>3. CASE i # 0
      BY <1>4, <3>1, <3>3 DEF Iterated
    <3> QED BY <3>2, <3>3
  <2> HIDE DEF On, head, N
  <2> QED BY <2>1
<1>6. Solves(reach)
  <2> HIDE DEF Solves
  <2> QED BY <1>5
<1>7. FreeOf(k) = reach[N]
  BY DEF FreeOf
<1> HIDE DEF reach
<1>8. /\ reach[0] = head
      /\ \A i \in 0..N : i < N => reach[i+1] = On(reach[i])
  <2>1. \A i \in 0..N : i < N => i + 1 \in 0..N /\ i + 1 # 0 /\ (i + 1) - 1 = i
    BY <1>1
  <2>2. 0 \in 0..N
    BY <1>1
  <2> HIDE DEF N, head, On
  <2> QED BY <1>6, <2>1, <2>2
<1> DEFINE G == {i \in 0..N : /\ head \subseteq reach[i] /\ reach[i] \subseteq F
                              /\ (reach[i] = F \/ i <= Cardinality(reach[i]))}
<1>9. 0 \in G
  <2>1. head \subseteq F
    BY DEF FreeList
  <2>2. IsFiniteSet(head)
    BY <1>3, ChunksFinite, FS_Subset
  <2>3. Cardinality(head) \in Nat
    BY <2>2, FS_CardinalityType
  <2> HIDE DEF head
  <2> QED BY <1>1, <1>8, <2>1, <2>3
<1>10. ASSUME NEW i \in 0..N, i < N, i \in G PROVE i + 1 \in G
  <2> DEFINE S == reach[i]
  <2>1. reach[i+1] = On(S) /\ i + 1 \in 0..N
    BY <1>1, <1>8, <1>10
  <2>2. S \subseteq F /\ head \subseteq S /\ (S = F \/ i <= Cardinality(S))
    <3> HIDE DEF head, On, N
    <3> QED BY <1>10
  <2> HIDE DEF S
  <2>3. On(S) \subseteq F /\ S \subseteq On(S)
    BY <2>2 DEF FreeList
  <2>4. CASE S = F
    <3>1. On(S) = F
      BY <2>3, <2>4
    <3> HIDE DEF On, head
    <3> QED BY <2>1, <2>2, <2>3, <3>1
  <2>5. CASE S # F
    <3>1. PICK x \in F \ S : x = apPool[k] \/ \E d \in F \ (F \ S) : header[d].next = x
      <4>1. F \ S \in SUBSET F /\ F \ S # {}
        BY <2>2, <2>5
      <4> QED BY <4>1 DEF FreeList
    <3>2. x # NULL
      BY NullNoChunk
    <3>3. x # apPool[k]
      BY <2>2, <3>2
    <3>4. x \in On(S)
      BY <3>1, <3>2, <3>3
    <3>5. IsFiniteSet(On(S)) /\ IsFiniteSet(S)
      BY <2>2, <2>3, ChunksFinite, FS_Subset
    <3> HIDE DEF On, head
    <3>6. Cardinality(S \cup {x}) = Cardinality(S) + 1 /\ S \cup {x} \in SUBSET On(S)
      BY <2>3, <3>4, <3>5, FS_AddElement
    <3>7. Cardinality(S \cup {x}) <= Cardinality(On(S))
      BY <3>5, <3>6, FS_Subset
    <3>8. Cardinality(S) \in Nat /\ Cardinality(On(S)) \in Nat
      BY <3>5, FS_CardinalityType
    <3>9. i + 1 <= Cardinality(On(S))
      BY <2>2, <2>5, <3>6, <3>7, <3>8, <1>1
    <3> QED BY <2>1, <2>2, <2>3, <3>9
  <2> QED BY <2>4, <2>5
<1>11. N \in G
  <2> HIDE DEF G, N
  <2>1. 0..N \subseteq G
    BY <1>1, <1>9, <1>10, UpTo
  <2> QED BY <1>1, <2>1
<1>12. reach[N] = F
  <2>1. IsFiniteSet(F) /\ Cardinality(F) <= N /\ reach[N] \in SUBSET F
    <3>1. reach[N] \in SUBSET F
      <4> HIDE DEF head, N
      <4> QED BY <1>11
    <3>2. IsFiniteSet(F) /\ Cardinality(F) <= Cardinality(Chunks)
      BY ChunksFinite, FS_Subset
    <3> QED BY <3>1, <3>2
  <2>2. Cardinality(F) \in Nat /\ Cardinality(reach[N]) \in Nat /\ Cardinality(reach[N]) <= Cardinality(F)
    <3>1. IsFiniteSet(reach[N]) /\ Cardinality(reach[N]) <= Cardinality(F)
      BY <2>1, FS_Subset
    <3> QED BY <2>1, <3>1, FS_CardinalityType
  <2>3. reach[N] = F \/ N <= Cardinality(reach[N])
    BY <1>11
  <2>4. CASE N <= Cardinality(reach[N])
    <3>1. Cardinality(reach[N]) = Cardinality(F)
      BY <1>1, <2>1, <2>2, <2>4
    <3> QED BY <2>1, <3>1, FS_Subset
  <2> QED BY <2>3, <2>4
<1> QED BY <1>7, <1>12

LEMMA PoolsFromInvariant == IInv => PoolsSound
<1> SUFFICES ASSUME IInv PROVE PoolsSound
  OBVIOUS
<1>u. PICK use \in [Blocks -> Uses] : HeadersSound(use) /\ PtrsSound(use) /\ ListsSound(use)
  BY DEF IInv, Sound
<1>0. TypeOK
  BY DEF IInv, Typed
<1>1. ASSUME NEW k \in Buckets
      PROVE  FreeOf(k) = FreeIn(use, k) /\ FreeList(FreeIn(use, k), apPool[k], header)
  BY <1>0, <1>u, ListReached DEF ListsSound, FreeIn
<1>2. ASSUME NEW k \in Buckets, NEW c \in FreeOf(k)
      PROVE  /\ c[1] \in os /\ c[2] + BucketSize(k) <= size[c[1]]
             /\ header[c].kind = "free" /\ c \notin InUse
             /\ Cardinality({d \in FreeOf(k) : header[d].next = c} ) = (IF c = apPool[k] THEN 0 ELSE 1)
             /\ \A j \in Buckets \ {k} : c \notin FreeOf(j)
  <2> DEFINE F == FreeIn(use, k)
             Before == {d \in FreeOf(k) : header[d].next = c}
  <2>1. c \in Chunks /\ header[c].kind = "free" /\ use[c[1]] = k
    BY <1>1, <1>2 DEF FreeIn
  <2>2. c[1] \in os /\ size[c[1]] = MAXALLOC /\ c[2] \in Starts(k)
    BY <1>u, <2>1, UseFacts DEF HeadersSound
  <2>3. c[2] + BucketSize(k) <= size[c[1]]
    <3>1. /\ BucketSize(k) \in Nat \ {0} /\ MAXALLOC \in Nat /\ MAXALLOC % BucketSize(k) = 0
      BY SizesPositive, SlabMultiple
    <3>2. c[2] \in Nat /\ c[2] < MAXALLOC /\ c[2] % BucketSize(k) = 0
      BY <2>2, <3>1 DEF Starts
    <3> QED BY <2>2, <3>1, <3>2, MultiplesApart
  <2>4. c \notin InUse
    <3> SUFFICES ASSUME NEW p \in ptrs, p.pooled, c = <<p.block, p.off>> PROVE FALSE
      BY DEF InUse
    <3>1. PtrSound(p, use)
      BY <1>u DEF PtrsSound
    <3> QED BY <2>1, <3>1 DEF PtrSound
  <2>5. Cardinality(Before) = (IF c = apPool[k] THEN 0 ELSE 1)
    <3>0. c \in F /\ c # NULL /\ Before = {d \in F : header[d].next = c} /\ FreeList(F, apPool[k], header)
      BY <1>1, <1>2, <2>1, NullNoChunk
    <3> HIDE DEF F, Before
    <3>1. CASE c = apPool[k]
      <4>1. Before = {}
        BY <3>0, <3>1 DEF FreeList
      <4> QED BY <3>1, <4>1, FS_EmptySet
    <3>2. CASE c # apPool[k]
      <4>1. PICK d \in F : header[d].next = c
        <5>1. {c} \in SUBSET F /\ {c} # {}
          BY <3>0
        <5>2. \E x \in {c} : x = apPool[k] \/ \E d \in F \ {c} : header[d].next = x
          BY <3>0, <5>1 DEF FreeList
        <5> QED BY <3>2, <5>2
      <4>2. \A e \in F : header[e].next = c => e = d
        BY <3>0, <4>1 DEF FreeList
      <4>3. Before = {d}
        BY <3>0, <4>1, <4>2
      <4> QED BY <3>2, <4>3, FS_Singleton
    <3> QED BY <3>1, <3>2
  <2>6. \A j \in Buckets \ {k} : c \notin FreeOf(j)
    BY <1>1, <2>1 DEF FreeIn
  <2> QED BY <2>1, <2>2, <2>3, <2>4, <2>5, <2>6
<1>3. ASSUME NEW c \in Chunks, c[1] \in os, header[c].kind = "free"
      PROVE  \E k \in Buckets : c \in FreeOf(k)
  <2>1. use[c[1]] \in Buckets
    BY <1>3, <1>u DEF HeadersSound
  <2> QED BY <1>1, <1>3, <2>1 DEF FreeIn
<1> QED BY <1>2, <1>3 DEF PoolsSound

(***************************************************************************)
(* A free list leads without a cycle through the free chunks of its own    *)
(* bucket, all of them: no chunk of a slab is lost, and none is twice on a *)
(* list or on a list and with a user.                                      *)
(***************************************************************************)
THEOREM PoolsExact == ~CallbackFrees /\ Spec => []PoolsSound
<1> QED BY PoolsFromInvariant, Invariance, PTL
=============================================================================
