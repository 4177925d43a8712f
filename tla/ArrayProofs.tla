---------------------------- MODULE ArrayProofs ----------------------------
(***************************************************************************)
(* Theorems about arrays: ArrayScripts, whatever the keys, the values, the *)
(* literals, the number of buckets and the bounds.  In order: folds; what  *)
(* each operation of Hashmap and built-in of ArrayFuncs gives; the merge   *)
(* sort; the steps of a script (IInv); sorts, loops, cuts and parts.       *)
(***************************************************************************)
EXTENDS ArrayScripts, FiniteSetTheorems, SequenceTheorems, WellFoundedInduction, TLAPS

(* Every non-empty set of natural numbers has a least one. *)
LEMMA LeastNatural ==
  ASSUME NEW T \in SUBSET Nat, T # {}
  PROVE  \E n \in T : \A m \in T : n <= m
<1>1. PICK n \in T : \A m \in T : <<m, n>> \notin OpToRel(<, Nat)
  BY WFMin, NatLessThanWellFounded, Zenon
<1>2. \A m \in T : ~ (m < n)
  BY <1>1, Zenon DEF OpToRel
<1> QED BY <1>2

(* What holds of 0 and passes from i to i+1 holds of all numbers up to n. *)
LEMMA UpTo ==
  ASSUME NEW n \in Nat, NEW G,
         0 \in G, \A i \in 0..n : (i < n /\ i \in G) => (i + 1 \in G)
  PROVE  0..n \subseteq G
<1> DEFINE Bad == (0..n) \ G
<1>1. SUFFICES ASSUME Bad # {} PROVE FALSE
  OBVIOUS
<1>2. PICK i \in Bad : \A j \in Bad : i <= j
  <2>1. Bad \in SUBSET Nat
    OBVIOUS
  <2> QED BY <1>1, <2>1, LeastNatural
<1>3. i # 0 /\ i - 1 \in 0..n /\ i - 1 < n
  OBVIOUS
<1>4. i - 1 \in G
  BY <1>2, <1>3
<1> QED BY <1>3, <1>4

(* A non-empty set of the positions of a sequence has a greatest one. *)
LEMMA MaxIs ==
  ASSUME NEW n \in Nat, NEW s \in SUBSET (1..n), s # {}
  PROVE  Max(s) \in s /\ \A i \in s : i <= Max(s)
<1> DEFINE T == {n - i : i \in s}
<1>1. T \in SUBSET Nat /\ T # {}
  OBVIOUS
<1>2. PICK d \in T : \A e \in T : d <= e
  BY <1>1, LeastNatural
<1>3. PICK x \in s : d = n - x
  OBVIOUS
<1>4. \A y \in s : x >= y
  <2>1. ASSUME NEW y \in s PROVE x >= y
    <3>1. n - y \in T /\ x \in 1..n /\ y \in 1..n
      OBVIOUS
    <3>2. n - x <= n - y
      BY <3>1, <1>2, <1>3
    <3> QED BY <3>1, <3>2
  <2> QED BY <2>1
<1>5. \A y \in s : Max(s) >= y
  BY <1>3, <1>4 DEF Max
<1>6. Max(s) \in s
  BY <1>3, <1>4 DEF Max
<1> QED BY <1>5, <1>6

(* And a least one. *)
LEMMA MinIs ==
  ASSUME NEW n \in Nat, NEW s \in SUBSET (1..n), s # {}
  PROVE  Min(s) \in s /\ \A i \in s : Min(s) <= i
<1>1. PICK x \in s : \A y \in s : x <= y
  BY LeastNatural, s \in SUBSET Nat
<1> QED BY <1>1 DEF Min
----------------------------------------------------------------------------
(***************************************************************************)
(* Folds.  No theorem about an operator parameter can be cited, so that    *)
(* the steps of all folds of the model are one operator, told apart by     *)
(* what they are; p is what else they are given.                           *)
(***************************************************************************)
Step(how, p, m, x) ==
  CASE how = "auto" -> InsertAuto(m, x)
    [] how = "merge" -> IF x.key \in Int THEN InsertAuto(m, x.val) ELSE Insert(m, x.key, x.val)
    [] how = "insert" -> Insert(m, x.key, x.val)
    [] how = "dup" -> IF x.key \in Int THEN InsertKey(m, x.key, x.val) ELSE Insert(m, x.key, x.val)
    [] how = "union" -> IF Has(m, x.key) THEN m ELSE InsertKey(m, x.key, x.val)
    [] how = "node" -> InsertNode(m, x, p)
    [] how = "literal" -> Insert(m, x[1], x[2])
    [] how = "fill" -> Insert(m, AsKey(x.val), p)
    [] how = "combine" -> Insert(m, AsKey(p[1].node[x].val), p[2].node[x].val)
    [] how = "unique" -> IF FindValue(m, x.val, p) = 0 THEN InsertNode(m, x, TRUE) ELSE m
    [] how = "flip" -> IF x.val = NULL THEN m ELSE Insert(m, x.val, x.key)
    [] how = "map" -> Insert(m, x.key, p[x.val])
    [] how = "merges" -> Merge(x, m)
    [] how = "replaces" -> Overwrite(x, m)
    [] how = "cut" -> UnlinkNode(m, p)
    [] how = "at" -> IF x \in p[2] THEN Append(m, p[1].node[x]) ELSE m
    [] how = "take" -> NodeTaken(p[1], p[2], p[3], m, x)
    [] how = "run" -> NodeMerge(p[1][x - 1], m, p[2])
    [] how = "put" -> BucketPut(m, x, p)
    [] how = "runs" -> NodeMerge(m, p[1][x], p[2])
    [] how = "loop" -> Visited(m)
    [] OTHER -> m \o x

Folded(how, p, base, seq) == FoldLeft(LAMBDA m, x : Step(how, p, m, x), base, seq)

(* The values of a fold of the elements of seq that are in s, up to k *)
Chain(r, how, p, base, seq, s, k) ==
  /\ r[0] = base
  /\ \A i \in 1..k : r[i] = IF i \in s THEN Step(how, p, r[i - 1], seq[i]) ELSE r[i - 1]

LEMMA ChainExists ==
  ASSUME NEW how, NEW p, NEW base, NEW seq, NEW s, NEW n \in Nat
  PROVE  \E r : Chain(r, how, p, base, seq, s, n)
<1> DEFINE G == {k \in 0..n : \E r : Chain(r, how, p, base, seq, s, k)}
<1>1. 0 \in G
  <2> DEFINE r == [i \in 0..0 |-> base]
  <2>1. Chain(r, how, p, base, seq, s, 0)
    BY DEF Chain
  <2> HIDE DEF r
  <2> QED BY <2>1
<1>2. ASSUME NEW k \in 0..n, k < n, k \in G PROVE k + 1 \in G
  <2>1. PICK r : Chain(r, how, p, base, seq, s, k)
    BY <1>2
  <2> DEFINE new == IF k + 1 \in s THEN Step(how, p, r[k], seq[k + 1]) ELSE r[k]
             q == [i \in 0..(k + 1) |-> IF i \in 0..k THEN r[i] ELSE new]
  <2>2. q[0] = base
    BY <2>1 DEF Chain
  <2>3. ASSUME NEW i \in 1..(k + 1)
        PROVE  q[i] = IF i \in s THEN Step(how, p, q[i - 1], seq[i]) ELSE q[i - 1]
    <3>1. i - 1 \in 0..k /\ q[i - 1] = r[i - 1]
      OBVIOUS
    <3>2. CASE i = k + 1
      <4>1. q[i] = new
        BY <3>2
      <4> QED BY <4>1, <3>1, <3>2
    <3>3. CASE i # k + 1
      <4>1. i \in 1..k /\ q[i] = r[i]
        BY <3>3
      <4> QED BY <4>1, <3>1, <2>1 DEF Chain
    <3> QED BY <3>2, <3>3
  <2>4. Chain(q, how, p, base, seq, s, k + 1)
    <3> HIDE DEF q
    <3> QED BY <2>2, <2>3 DEF Chain
  <2>5. k + 1 \in 0..n
    BY <1>2
  <2>6. \E z : Chain(z, how, p, base, seq, s, k + 1)
    BY <2>4, Zenon
  <2> QED BY <2>5, <2>6
<1>3. 0..n \subseteq G
  <2> HIDE DEF G
  <2> QED BY <1>1, <1>2, UpTo
<1> QED BY <1>3

(* Where a chain ends, and that there is one *)
ChainEnd(how, p, base, seq, s, n) == (CHOOSE r : Chain(r, how, p, base, seq, s, n))[n]

LEMMA ChainEndEmpty ==
  ASSUME NEW how, NEW p, NEW base, NEW seq, NEW n \in Nat
  PROVE  ChainEnd(how, p, base, seq, {}, n) = base
<1> DEFINE r == CHOOSE r : Chain(r, how, p, base, seq, {}, n)
<1>1. Chain(r, how, p, base, seq, {}, n)
  BY ChainExists
<1> HIDE DEF r
<1> DEFINE G == {k \in 0..n : r[k] = base}
<1>2. 0 \in G
  BY <1>1 DEF Chain
<1>3. ASSUME NEW k \in 0..n, k < n, k \in G PROVE k + 1 \in G
  <2>1. k + 1 \in 1..n /\ (k + 1) - 1 = k
    BY <1>3
  <2>2. r[k + 1] = r[k]
    BY <2>1, <1>1 DEF Chain
  <2> QED BY <2>1, <2>2, <1>3
<1>4. 0..n \subseteq G
  <2> HIDE DEF G
  <2> QED BY <1>2, <1>3, UpTo
<1>5. r[n] = base
  BY <1>4
<1> QED BY <1>5 DEF ChainEnd, r

LEMMA ChainEndStep ==
  ASSUME NEW how, NEW p, NEW base, NEW seq, NEW n \in Nat,
         NEW s \in SUBSET (1..n), NEW M \in s, \A i \in s : i <= M
  PROVE  ChainEnd(how, p, base, seq, s, n)
           = Step(how, p, ChainEnd(how, p, base, seq, s \ {M}, n), seq[M])
<1> DEFINE t == s \ {M}
           r == CHOOSE r : Chain(r, how, p, base, seq, s, n)
           q == CHOOSE q : Chain(q, how, p, base, seq, t, n)
<1>1. Chain(r, how, p, base, seq, s, n) /\ Chain(q, how, p, base, seq, t, n)
  <2> HIDE DEF t
  <2> QED BY ChainExists
<1>2. ChainEnd(how, p, base, seq, s, n) = r[n] /\ ChainEnd(how, p, base, seq, t, n) = q[n]
  BY DEF ChainEnd
<1> HIDE DEF r, q
<1>3. M \in 1..n
  OBVIOUS
<1> DEFINE G == {k \in 0..n : k < M => r[k] = q[k]}
           H == {k \in 0..n : k >= M => r[k] = r[M] /\ q[k] = q[M - 1]}
<1>4. 0 \in G /\ 0 \in H
  BY <1>1, <1>3 DEF Chain
<1>5. ASSUME NEW k \in 0..n, k < n, k \in G PROVE k + 1 \in G
  <2>1. k + 1 \in 1..n /\ (k + 1) - 1 = k
    BY <1>5
  <2>2. CASE k + 1 < M
    <3>1. k + 1 \in s <=> k + 1 \in t
      BY <2>2
    <3> QED BY <3>1, <2>1, <2>2, <1>1, <1>3, <1>5 DEF Chain
  <2> QED BY <2>1, <2>2
<1>6. ASSUME NEW k \in 0..n, k < n, k \in H PROVE k + 1 \in H
  <2>1. k + 1 \in 1..n /\ (k + 1) - 1 = k
    BY <1>6
  <2>2. CASE k + 1 > M
    <3>1. k + 1 \notin s /\ k + 1 \notin t
      BY <2>2, <2>1, <1>3
    <3>2. r[k + 1] = r[k] /\ q[k + 1] = q[k]
      BY <3>1, <2>1, <1>1 DEF Chain
    <3> QED BY <3>2, <2>1, <2>2, <1>3, <1>6
  <2>3. CASE k + 1 = M
    <3>1. k + 1 \notin t
      BY <2>3
    <3>2. q[k + 1] = q[k]
      BY <3>1, <2>1, <1>1 DEF Chain
    <3> QED BY <3>2, <2>1, <2>3
  <2> QED BY <2>1, <2>2, <2>3, <1>3
<1>7. 0..n \subseteq G /\ 0..n \subseteq H
  <2> HIDE DEF G, H
  <2> QED BY <1>4, <1>5, <1>6, UpTo
<1>8. r[n] = r[M] /\ q[n] = q[M - 1] /\ r[M - 1] = q[M - 1]
  BY <1>3, <1>7
<1>9. r[M] = Step(how, p, r[M - 1], seq[M])
  BY <1>1, <1>3 DEF Chain
<1> QED BY <1>2, <1>8, <1>9

(* G, a set of pairs of a number and a value, holds along the fold of seq.  *)
Advances(G, how, p, seq, n) ==
  \A i \in 1..n : \A m : <<i - 1, m>> \in G => <<i, Step(how, p, m, seq[i])>> \in G

(***************************************************************************)
(* What holds of the base and is kept by each step holds of the fold: the  *)
(* induction all facts about folds come from.                              *)
(***************************************************************************)
LEMMA FoldInduct ==
  ASSUME NEW how, NEW p, NEW base, NEW n \in Nat, NEW seq, DOMAIN seq = 1..n,
         NEW G, <<0, base>> \in G, Advances(G, how, p, seq, n)
  PROVE  <<n, Folded(how, p, base, seq)>> \in G
<1> DEFINE D == 1..n
           Eq(it) == it = [s \in SUBSET D |->
                             IF s = {} THEN base
                             ELSE Step(how, p, it[s \ {Max(s)}], seq[Max(s)])]
           it == CHOOSE it : Eq(it)
<1>1. Folded(how, p, base, seq) = it[D]
  BY DEF Folded, FoldLeft, MapThenFoldSet
<1>2. \E f : Eq(f)
  <2> DEFINE f == [s \in SUBSET D |-> ChainEnd(how, p, base, seq, s, n)]
  <2>1. ASSUME NEW s \in SUBSET D
        PROVE  f[s] = IF s = {} THEN base ELSE Step(how, p, f[s \ {Max(s)}], seq[Max(s)])
    <3>1. CASE s = {}
      BY <3>1, ChainEndEmpty
    <3>2. CASE s # {}
      <4>1. Max(s) \in s /\ \A i \in s : i <= Max(s)
        BY <3>2, MaxIs
      <4> DEFINE M == Max(s)
      <4>a. M \in s /\ \A i \in s : i <= M
        BY <4>1
      <4> HIDE DEF M
      <4>b. ChainEnd(how, p, base, seq, s, n)
             = Step(how, p, ChainEnd(how, p, base, seq, s \ {M}, n), seq[M])
        BY <4>a, ChainEndStep
      <4> USE DEF M
      <4>2. f[s] = Step(how, p, ChainEnd(how, p, base, seq, s \ {Max(s)}, n), seq[Max(s)])
        BY <4>b
      <4> QED BY <4>2, <3>2
    <3> QED BY <3>1, <3>2
  <2>2. Eq(f)
    BY <2>1
  <2> QED BY <2>2
<1>3. Eq(it)
  <2> HIDE DEF Eq
  <2> QED BY <1>2
<1>4. it[{}] = base
  BY <1>3
<1>5. ASSUME NEW k \in 1..n
      PROVE  it[1..k] = Step(how, p, it[1..(k - 1)], seq[k])
  <2> HIDE DEF it
  <2>1. 1..k \in SUBSET D /\ 1..k # {}
    BY k \in 1..k, \A i \in 1..k : i \in 1..n
  <2>2. Max(1..k) \in 1..k /\ \A i \in 1..k : i <= Max(1..k)
    BY <2>1, MaxIs
  <2>3. Max(1..k) = k
    BY <2>2
  <2>4. (1..k) \ {k} = 1..(k - 1)
    OBVIOUS
  <2> QED BY <2>1, <2>3, <2>4, <1>3
<1> HIDE DEF it, Eq
<1> DEFINE H == {k \in 0..n : <<k, it[1..k]>> \in G}
<1>6. 0 \in H
  <2>1. 1..0 = {}
    OBVIOUS
  <2> QED BY <2>1, <1>4
<1>7. ASSUME NEW k \in 0..n, k < n, k \in H PROVE k + 1 \in H
  <2>1. k + 1 \in 1..n /\ (k + 1) - 1 = k
    BY <1>7
  <2>2. <<k, it[1..k]>> \in G
    BY <1>7
  <2>3. <<k + 1, Step(how, p, it[1..k], seq[k + 1])>> \in G
    BY <2>1, <2>2 DEF Advances
  <2> QED BY <2>1, <2>3, <1>5
<1>8. 0..n \subseteq H
  <2> HIDE DEF H
  <2> QED BY <1>6, <1>7, UpTo
<1> QED BY <1>1, <1>8

(* As a special case, a set that every step stays in *)
LEMMA FoldIn ==
  ASSUME NEW how, NEW p, NEW n \in Nat, NEW seq, DOMAIN seq = 1..n,
         NEW S, NEW base \in S, \A i \in 1..n : \A m \in S : Step(how, p, m, seq[i]) \in S
  PROVE  Folded(how, p, base, seq) \in S
<1> DEFINE G == (0..n) \X S
<1>1. <<0, base>> \in G
  OBVIOUS
<1>2. Advances(G, how, p, seq, n)
  BY DEF Advances
<1>3. <<n, Folded(how, p, base, seq)>> \in G
  <2> HIDE DEF G
  <2> QED BY <1>1, <1>2, FoldInduct
<1> QED BY <1>3
----------------------------------------------------------------------------
(* The parts of an array *)
LEMMA Parts ==
  ASSUME NEW m \in Hashmap
  PROVE  /\ m = [node |-> m.node, next |-> m.next, cur |-> m.cur]
         /\ m.node \in Seq(Node) /\ m.next \in Int /\ m.cur \in Nat /\ m.cur <= Len(m.node)
         /\ Len(m.node) \in Nat /\ DOMAIN m.node = 1..Len(m.node)
         /\ \A i \in 1..Len(m.node) : /\ m.node[i] \in Node
                                      /\ m.node[i] = [key |-> m.node[i].key, val |-> m.node[i].val]
                                      /\ m.node[i].key \in Key /\ m.node[i].val \in Value
<1>1. m \in [node : Seq(Node), next : Int, cur : Nat] /\ m.cur <= Len(m.node)
  BY DEF Hashmap
<1>2. m.node \in Seq(Node) /\ m.next \in Int /\ m.cur \in Nat
  BY <1>1
<1>3. m = [node |-> m.node, next |-> m.next, cur |-> m.cur]
  BY <1>1
<1>4. Len(m.node) \in Nat /\ DOMAIN m.node = 1..Len(m.node)
  BY <1>2
<1>5. ASSUME NEW i \in 1..Len(m.node)
      PROVE  /\ m.node[i] \in Node
             /\ m.node[i] = [key |-> m.node[i].key, val |-> m.node[i].val]
             /\ m.node[i].key \in Key /\ m.node[i].val \in Value
  <2>1. m.node[i] \in Node
    BY <1>2, <1>4, ElementOfSeq
  <2> QED BY <2>1 DEF Node
<1> QED BY <1>1, <1>2, <1>3, <1>4, <1>5

LEMMA Made ==
  ASSUME NEW n \in Seq(Node), NEW x \in Int, NEW c \in Nat, c <= Len(n)
  PROVE  [node |-> n, next |-> x, cur |-> c] \in Hashmap
BY DEF Hashmap

(* Two parts of an array set *)
LEMMA NodeCurSet ==
  ASSUME NEW m, m = [node |-> m.node, next |-> m.next, cur |-> m.cur], NEW n, NEW c
  PROVE  [m EXCEPT !.node = n, !.cur = c] = [node |-> n, next |-> m.next, cur |-> c]
<1>1. [m EXCEPT !.node = n] = [node |-> n, next |-> m.next, cur |-> m.cur]
  OBVIOUS
<1>2. [m EXCEPT !.node = n, !.cur = c] = [[m EXCEPT !.node = n] EXCEPT !.cur = c]
  OBVIOUS
<1>3. [[node |-> n, next |-> m.next, cur |-> m.cur] EXCEPT !.cur = c] = [node |-> n, next |-> m.next, cur |-> c]
  OBVIOUS
<1> QED BY <1>1, <1>2, <1>3, Zenon

LEMMA NodeNextSet ==
  ASSUME NEW m, m = [node |-> m.node, next |-> m.next, cur |-> m.cur], NEW n, NEW x
  PROVE  [m EXCEPT !.node = n, !.next = x] = [node |-> n, next |-> x, cur |-> m.cur]
<1>1. [m EXCEPT !.node = n] = [node |-> n, next |-> m.next, cur |-> m.cur]
  OBVIOUS
<1>2. [m EXCEPT !.node = n, !.next = x] = [[m EXCEPT !.node = n] EXCEPT !.next = x]
  OBVIOUS
<1>3. [[node |-> n, next |-> m.next, cur |-> m.cur] EXCEPT !.next = x] = [node |-> n, next |-> x, cur |-> m.cur]
  OBVIOUS
<1> QED BY <1>1, <1>2, <1>3, Zenon

LEMMA NewIs == NewHashmap \in Hashmap /\ NewHashmap.node = <<>> /\ NewHashmap.next = 0 /\ NewHashmap.cur = 0
<1>1. <<>> \in Seq(Node) /\ Len(<<>>) = 0
  OBVIOUS
<1> QED BY <1>1 DEF NewHashmap, Hashmap

LEMMA NodeIs == ASSUME NEW k \in Key, NEW v \in Value PROVE [key |-> k, val |-> v] \in Node
BY DEF Node

(* An element appended under the key k, the index left *)
LEMMA InsertKeyIs ==
  ASSUME NEW m \in Hashmap, NEW k \in Key, NEW v \in Value
  PROVE  LET r == InsertKey(m, k, v)  n == Len(m.node)
         IN /\ r \in Hashmap
            /\ r.node = Append(m.node, [key |-> k, val |-> v])
            /\ r.next = m.next /\ r.cur = IF n = 0 THEN 1 ELSE m.cur
            /\ Len(r.node) = n + 1
            /\ \A i \in 1..n : r.node[i] = m.node[i]
            /\ r.node[n + 1] = [key |-> k, val |-> v]
<1> DEFINE n == Len(m.node)  x == [key |-> k, val |-> v]  c == IF n = 0 THEN 1 ELSE m.cur
<1>1. x \in Node
  BY NodeIs
<1>2. m.node \in Seq(Node) /\ m.next \in Int /\ m.cur \in Nat /\ m.cur <= n /\ n \in Nat
      /\ m = [node |-> m.node, next |-> m.next, cur |-> m.cur]
  BY Parts
<1>3. m.node = <<>> <=> n = 0
  BY <1>2, EmptySeq
<1>4. InsertKey(m, k, v) = [node |-> Append(m.node, x), next |-> m.next, cur |-> c]
  <2>1. InsertKey(m, k, v) = [m EXCEPT !.node = Append(m.node, x), !.cur = c]
    BY <1>3 DEF InsertKey
  <2> HIDE DEF c, x
  <2> QED BY <2>1, <1>2, NodeCurSet
<1>5. /\ Append(m.node, x) \in Seq(Node) /\ Len(Append(m.node, x)) = n + 1
      /\ \A i \in 1..n : Append(m.node, x)[i] = m.node[i]
      /\ Append(m.node, x)[n + 1] = x
  <2> HIDE DEF x
  <2> QED BY <1>1, <1>2, AppendProperties
<1>6. c \in Nat /\ c <= n + 1
  BY <1>2
<1>7. [node |-> Append(m.node, x), next |-> m.next, cur |-> c] \in Hashmap
  <2> HIDE DEF x, c
  <2> QED BY <1>2, <1>5, <1>6, Made
<1> QED BY <1>4, <1>5, <1>7

LEMMA KeysOfIs ==
  ASSUME NEW m \in Hashmap
  PROVE  /\ \A k : k \in KeysOf(m) <=> \E i \in 1..Len(m.node) : m.node[i].key = k
         /\ \A k : Has(m, k) <=> k \in KeysOf(m)
         /\ KeysOf(m) \subseteq Key
<1>1. DOMAIN m.node = 1..Len(m.node) /\ \A i \in 1..Len(m.node) : m.node[i].key \in Key
  BY Parts
<1> QED BY <1>1 DEF KeysOf, Has

LEMMA InsertKeyKeys ==
  ASSUME NEW m \in Hashmap, NEW k \in Key, NEW v \in Value
  PROVE  /\ KeysOf(InsertKey(m, k, v)) = KeysOf(m) \cup {k}
         /\ Distinct(m) /\ k \notin KeysOf(m) => Distinct(InsertKey(m, k, v))
<1> DEFINE r == InsertKey(m, k, v)  n == Len(m.node)
<1>1. /\ r \in Hashmap /\ Len(r.node) = n + 1
      /\ \A i \in 1..n : r.node[i] = m.node[i]
      /\ r.node[n + 1] = [key |-> k, val |-> v]
  BY InsertKeyIs
<1> HIDE DEF r
<1>2. n \in Nat /\ DOMAIN m.node = 1..n /\ DOMAIN r.node = 1..(n + 1)
  BY <1>1, Parts
<1>3. r.node[n + 1].key = k
  BY <1>1
<1>4. \A q : q \in KeysOf(r) <=> q \in KeysOf(m) \cup {k}
  <2>1. ASSUME NEW q, q \in KeysOf(r) PROVE q \in KeysOf(m) \cup {k}
    <3>1. PICK i \in 1..(n + 1) : r.node[i].key = q
      BY <2>1, <1>2 DEF KeysOf
    <3>2. CASE i = n + 1
      BY <3>1, <3>2, <1>3
    <3>3. CASE i \in 1..n
      BY <3>1, <3>3, <1>1, <1>2 DEF KeysOf
    <3> QED BY <3>2, <3>3, <1>2
  <2>2. ASSUME NEW q, q \in KeysOf(m) PROVE q \in KeysOf(r)
    <3>1. PICK i \in 1..n : m.node[i].key = q
      BY <2>2, <1>2 DEF KeysOf
    <3>2. i \in 1..(n + 1) /\ r.node[i].key = q
      BY <3>1, <1>1, <1>2
    <3> QED BY <3>2, <1>2 DEF KeysOf
  <2>3. k \in KeysOf(r)
    <3>1. n + 1 \in 1..(n + 1)
      BY <1>2
    <3> QED BY <3>1, <1>2, <1>3 DEF KeysOf
  <2> QED BY <2>1, <2>2, <2>3
<1>5. ASSUME Distinct(m), k \notin KeysOf(m) PROVE Distinct(r)
  <2>1. \A i \in 1..n : r.node[i].key # k
    BY <1>5, <1>1, <1>2 DEF KeysOf
  <2>2. ASSUME NEW i \in 1..(n + 1), NEW j \in 1..(n + 1), r.node[i].key = r.node[j].key PROVE i = j
    <3>1. CASE i = n + 1 \/ j = n + 1
      BY <3>1, <2>1, <2>2, <1>2, <1>3
    <3>2. CASE i \in 1..n /\ j \in 1..n
      BY <3>2, <2>2, <1>1, <1>2, <1>5 DEF Distinct
    <3> QED BY <3>1, <3>2, <1>2
  <2> QED BY <2>2, <1>2 DEF Distinct
<1> QED BY <1>4, <1>5 DEF r

LEMMA PositionIs ==
  ASSUME NEW m \in Hashmap, NEW k, k \in KeysOf(m)
  PROVE  /\ Position(m, k) \in 1..Len(m.node) /\ m.node[Position(m, k)].key = k
         /\ \A j \in 1..Len(m.node) : m.node[j].key = k => j <= Position(m, k)
<1> DEFINE n == Len(m.node)  T == {i \in 1..n : m.node[i].key = k}
<1>1. n \in Nat /\ DOMAIN m.node = 1..n
  BY Parts
<1>2. T # {} /\ T \in SUBSET (1..n)
  BY <1>1, KeysOfIs
<1>3. Max(T) \in T /\ \A j \in T : j <= Max(T)
  <2> HIDE DEF T, n
  <2> QED BY <1>1, <1>2, MaxIs
<1>4. \E i \in DOMAIN m.node : m.node[i].key = k /\ \A j \in DOMAIN m.node : m.node[j].key = k => j <= i
  BY <1>1, <1>3
<1>5. Position(m, k) \in DOMAIN m.node /\ m.node[Position(m, k)].key = k
      /\ \A j \in DOMAIN m.node : m.node[j].key = k => j <= Position(m, k)
  BY <1>4, Zenon DEF Position
<1> QED BY <1>1, <1>5

(* A value put in the place of another *)
LEMMA OverwrittenIs ==
  ASSUME NEW m \in Hashmap, NEW k, k \in KeysOf(m), NEW v \in Value
  PROVE  LET r == Overwritten(m, k, v)
         IN /\ r \in Hashmap /\ r.next = m.next /\ r.cur = m.cur
            /\ Len(r.node) = Len(m.node)
            /\ \A i \in 1..Len(m.node) :
                 r.node[i] = IF i = Position(m, k) THEN [key |-> k, val |-> v] ELSE m.node[i]
<1> DEFINE n == Len(m.node)  p == Position(m, k)  x == [key |-> k, val |-> v]
           q == [m.node EXCEPT ![p].val = v]
<1>1. p \in 1..n /\ m.node[p].key = k
  BY PositionIs
<1>2. /\ m = [node |-> m.node, next |-> m.next, cur |-> m.cur]
      /\ m.node \in Seq(Node) /\ m.next \in Int /\ m.cur \in Nat /\ m.cur <= n
      /\ n \in Nat /\ DOMAIN m.node = 1..n
      /\ \A i \in 1..n : m.node[i] = [key |-> m.node[i].key, val |-> m.node[i].val] /\ m.node[i] \in Node
  BY Parts
<1> HIDE DEF p, n
<1>3. [m.node[p] EXCEPT !.val = v] = x
  <2>1. m.node[p] = [key |-> k, val |-> m.node[p].val]
    BY <1>1, <1>2
  <2>2. [[key |-> k, val |-> m.node[p].val] EXCEPT !.val = v] = x
    OBVIOUS
  <2> HIDE DEF x
  <2> QED BY <2>1, <2>2, Zenon
<1>4. x \in Node
  BY <1>1, <1>2, NodeIs, KeysOfIs
<1>5. q = [m.node EXCEPT ![p] = x]
  BY <1>3, Zenon
<1> HIDE DEF q, x
<1>6. q \in Seq(Node) /\ Len(q) = n /\ \A i \in 1..n : q[i] = IF i = p THEN x ELSE m.node[i]
  BY <1>1, <1>2, <1>4, <1>5, ExceptSeq DEF n
<1>7. Overwritten(m, k, v) = [node |-> q, next |-> m.next, cur |-> m.cur]
  <2>1. Overwritten(m, k, v) = [m EXCEPT !.node = q]
    BY DEF Overwritten, q, p
  <2> QED BY <2>1, <1>2
<1>8. [node |-> q, next |-> m.next, cur |-> m.cur] \in Hashmap
  BY <1>2, <1>6, Made
<1> QED BY <1>6, <1>7, <1>8 DEF p, n, x

LEMMA OverwrittenKeys ==
  ASSUME NEW m \in Hashmap, NEW k, k \in KeysOf(m), NEW v \in Value
  PROVE  /\ KeysOf(Overwritten(m, k, v)) = KeysOf(m)
         /\ Distinct(m) => Distinct(Overwritten(m, k, v))
<1> DEFINE r == Overwritten(m, k, v)
<1>1. /\ r \in Hashmap /\ Len(r.node) = Len(m.node)
      /\ \A i \in 1..Len(m.node) :
           r.node[i] = IF i = Position(m, k) THEN [key |-> k, val |-> v] ELSE m.node[i]
  BY OverwrittenIs
<1>2. m.node[Position(m, k)].key = k
  BY PositionIs
<1> HIDE DEF r
<1>3. DOMAIN r.node = 1..Len(m.node) /\ DOMAIN m.node = 1..Len(m.node)
  BY <1>1, Parts
<1>4. \A i \in 1..Len(m.node) : r.node[i].key = m.node[i].key
  BY <1>1, <1>2
<1> QED BY <1>3, <1>4 DEF KeysOf, Distinct, r
----------------------------------------------------------------------------
(***************************************************************************)
(* There is an index that no element has among the first ones from any on, *)
(* as there are more of them than elements.                                *)
(***************************************************************************)
LEMMA UnreservedIs ==
  ASSUME NEW m \in Hashmap, NEW n \in Int
  PROVE  /\ Unreserved(m, n) \in n .. (n + Len(m.node))
         /\ Unreserved(m, n) \notin KeysOf(m)
<1> DEFINE L == Len(m.node)  T == {d \in 0..L : ~Has(m, n + d)}
<1>1. L \in Nat /\ DOMAIN m.node = 1..L
  BY Parts
<1>2. T # {}
  <2>1. SUFFICES ASSUME \A d \in 0..L : Has(m, n + d) PROVE FALSE
    OBVIOUS
  <2> DEFINE f == [d \in 0..L |-> CHOOSE i \in 1..L : m.node[i].key = n + d]
  <2>2. \A d \in 0..L : f[d] \in 1..L /\ m.node[f[d]].key = n + d
    BY <2>1, <1>1 DEF Has
  <2>3. f \in [0..L -> 1..L]
    BY <2>2
  <2> HIDE DEF f
  <2>4. IsFiniteSet(0..L) /\ Cardinality(0..L) = L + 1 /\ IsFiniteSet(1..L) /\ Cardinality(1..L) = L
    BY <1>1, FS_Interval
  <2>5. PICK c \in 0..L, d \in 0..L : c # d /\ f[c] = f[d]
    <3>1. Cardinality(1..L) < Cardinality(0..L)
      BY <2>4, <1>1
    <3> QED BY <2>3, <2>4, <3>1, FS_PigeonHole, Zenon
  <2>6. m.node[f[c]].key = n + c /\ m.node[f[d]].key = n + d
    BY <2>2
  <2>7. n + c = n + d
    BY <2>5, <2>6
  <2>8. c \in Int /\ d \in Int
    OBVIOUS
  <2> QED BY <2>5, <2>7, <2>8
<1>3. PICK d \in T : \A e \in T : d <= e
  BY <1>1, <1>2, LeastNatural, T \in SUBSET Nat
<1>4. \E j \in n .. (n + L) : ~Has(m, j) /\ \A i \in n .. (j - 1) : Has(m, i)
  <2>1. n + d \in n .. (n + L) /\ ~Has(m, n + d)
    BY <1>1
  <2>2. ASSUME NEW i \in n .. (n + d - 1) PROVE Has(m, i)
    <3>1. i - n \in 0..L /\ ~(d <= i - n) /\ n + (i - n) = i
      BY <1>1
    <3> QED BY <3>1, <1>3
  <2> QED BY <2>1, <2>2
<1>5. Unreserved(m, n) \in n .. (n + L) /\ ~Has(m, Unreserved(m, n))
  <2> HIDE DEF L
  <2> QED BY <1>4, Zenon DEF Unreserved, L
<1> QED BY <1>5, KeysOfIs

(* $a[] = v takes the next index: the keys stay distinct if none reached it. *)
LEMMA InsertAutoIs ==
  ASSUME NEW m \in Hashmap, NEW v \in Value
  PROVE  LET r == InsertAuto(m, v)  n == Len(m.node)
         IN /\ r \in Hashmap
            /\ r.node = Append(m.node, [key |-> m.next, val |-> v])
            /\ r.next = m.next + 1
            /\ Len(r.node) = n + 1
            /\ \A i \in 1..n : r.node[i] = m.node[i]
            /\ r.node[n + 1] = [key |-> m.next, val |-> v]
            /\ KeysOf(r) = KeysOf(m) \cup {m.next}
            /\ r.cur = IF n = 0 THEN 1 ELSE m.cur
            /\ Above(m) => Above(r)
            /\ Above(m) /\ Distinct(m) => Distinct(r)
<1> DEFINE b == InsertKey(m, m.next, v)  r == InsertAuto(m, v)  n == Len(m.node)
<1>1. m.next \in Int /\ m.next \in Key /\ n \in Nat
  BY Parts DEF Key
<1>2. /\ b \in Hashmap
      /\ b.node = Append(m.node, [key |-> m.next, val |-> v])
      /\ b.next = m.next /\ b.cur = IF n = 0 THEN 1 ELSE m.cur
      /\ Len(b.node) = n + 1
      /\ \A i \in 1..n : b.node[i] = m.node[i]
      /\ b.node[n + 1] = [key |-> m.next, val |-> v]
  BY <1>1, InsertKeyIs
<1>3. KeysOf(b) = KeysOf(m) \cup {m.next} /\ (Distinct(m) /\ m.next \notin KeysOf(m) => Distinct(b))
  BY <1>1, InsertKeyKeys
<1>4. r = [b EXCEPT !.next = b.next + 1]
  BY DEF InsertAuto
<1> HIDE DEF b, r
<1>5. r = [node |-> b.node, next |-> m.next + 1, cur |-> b.cur]
  <2>1. b = [node |-> b.node, next |-> b.next, cur |-> b.cur]
    BY <1>2, Parts
  <2> QED BY <2>1, <1>2, <1>4
<1>6. r \in Hashmap
  <2>1. b.node \in Seq(Node) /\ b.cur \in Nat /\ b.cur <= Len(b.node) /\ m.next + 1 \in Int
    BY <1>1, <1>2, Parts
  <2> QED BY <2>1, <1>5, Made
<1>7. KeysOf(r) = KeysOf(b) /\ (Distinct(b) => Distinct(r))
  BY <1>5 DEF KeysOf, Distinct
<1>8. ASSUME Above(m) PROVE Above(r) /\ m.next \notin KeysOf(m)
  <2>1. r.next = m.next + 1
    BY <1>5
  <2>2. \A k \in KeysOf(r) : k \in Int => k < r.next
    BY <2>1, <1>1, <1>3, <1>7, <1>8 DEF Above
  <2>3. m.next \notin KeysOf(m)
    BY <1>1, <1>8 DEF Above
  <2> QED BY <2>2, <2>3 DEF Above
<1>9. r.node = b.node /\ r.next = m.next + 1 /\ r.cur = b.cur
  BY <1>5
<1>10. Above(m) /\ Distinct(m) => Distinct(r)
  BY <1>3, <1>7, <1>8
<1>11. KeysOf(r) = KeysOf(m) \cup {m.next}
  BY <1>3, <1>7
<1> HIDE DEF n
<1> QED BY <1>2, <1>6, <1>8, <1>9, <1>10, <1>11 DEF r, n

LEMMA KeyOrValue ==
  /\ Key \subseteq Value /\ NULL \in Value
  /\ \A v \in Value : v # NULL => v \in Key
  /\ \A v \in Value : AsKey(v) \in Key /\ AsKey(v) \in Value
  /\ 0 \in Int /\ 0 \in Value
BY DEF Key, Value, AsKey

(***************************************************************************)
(* $a[k] = v: k has the value v, and the other elements are as they were;  *)
(* the next index stays above all keys.                                    *)
(***************************************************************************)
LEMMA InsertIs ==
  ASSUME NEW m \in Hashmap, NEW k \in Key, NEW v \in Value
  PROVE  LET r == Insert(m, k, v)  n == Len(m.node)
         IN /\ r \in Hashmap
            /\ KeysOf(r) = KeysOf(m) \cup {k}
            /\ k \in KeysOf(m) => r = Overwritten(m, k, v)
            /\ k \notin KeysOf(m) => /\ r.node = Append(m.node, [key |-> k, val |-> v])
                                     /\ Len(r.node) = n + 1
                                     /\ \A i \in 1..n : r.node[i] = m.node[i]
                                     /\ r.node[n + 1] = [key |-> k, val |-> v]
                                     /\ r.cur = IF n = 0 THEN 1 ELSE m.cur
            /\ Above(m) => Above(r)
            /\ Distinct(m) => Distinct(r)
<1> DEFINE b == InsertKey(m, k, v)  r == Insert(m, k, v)  n == Len(m.node)
<1>1. CASE k \in KeysOf(m)
  <2>1. r = Overwritten(m, k, v)
    BY <1>1, KeysOfIs DEF Insert
  <2> DEFINE o == Overwritten(m, k, v)
  <2>2. o \in Hashmap /\ o.next = m.next /\ KeysOf(o) = KeysOf(m) /\ (Distinct(m) => Distinct(o))
    BY <1>1, OverwrittenIs, OverwrittenKeys
  <2> HIDE DEF o, r
  <2>3. r = o
    BY <2>1 DEF o
  <2>4. Above(m) => Above(o)
    BY <2>2 DEF Above
  <2> QED BY <1>1, <2>1, <2>2, <2>3, <2>4 DEF r
<1>2. CASE k \notin KeysOf(m)
  <2>1. /\ b \in Hashmap
        /\ b.node = Append(m.node, [key |-> k, val |-> v])
        /\ b.next = m.next /\ b.cur = IF n = 0 THEN 1 ELSE m.cur
        /\ Len(b.node) = n + 1
        /\ \A i \in 1..n : b.node[i] = m.node[i]
        /\ b.node[n + 1] = [key |-> k, val |-> v]
    BY InsertKeyIs
  <2>2. KeysOf(b) = KeysOf(m) \cup {k} /\ (Distinct(m) => Distinct(b))
    BY <1>2, InsertKeyKeys
  <2>3. m.next \in Int
    BY Parts
  <2>4. CASE k \in Int /\ k >= m.next
    <3> DEFINE u == Unreserved(b, k + 1)
    <3>1. u \in Int /\ u > k
      <4>1. u \in (k + 1) .. (k + 1 + Len(b.node))
        <5>1. k + 1 \in Int /\ b \in Hashmap
          BY <2>1, <2>4
        <5> HIDE DEF b
        <5> QED BY <5>1, UnreservedIs
      <4> QED BY <4>1, <2>4
    <3>2. r = [b EXCEPT !.next = u]
      BY <1>2, <2>4, KeysOfIs DEF Insert
    <3> HIDE DEF b, r, u
    <3>3. r = [node |-> b.node, next |-> u, cur |-> b.cur]
      <4>1. b = [node |-> b.node, next |-> b.next, cur |-> b.cur]
        BY <2>1, Parts
      <4> QED BY <4>1, <3>2
    <3>4. r \in Hashmap
      <4>1. b.node \in Seq(Node) /\ b.cur \in Nat /\ b.cur <= Len(b.node)
        BY <2>1, Parts
      <4> QED BY <4>1, <3>1, <3>3, Made
    <3>5. KeysOf(r) = KeysOf(b) /\ (Distinct(b) => Distinct(r))
      BY <3>3 DEF KeysOf, Distinct
    <3>6. ASSUME Above(m) PROVE Above(r)
      <4>1. r.next = u
        BY <3>3
      <4>2. \A q \in KeysOf(r) : q \in Int => q < u
        BY <2>2, <2>3, <2>4, <3>1, <3>5, <3>6 DEF Above
      <4> QED BY <4>1, <4>2 DEF Above
    <3>7. r.node = b.node /\ r.cur = b.cur
      BY <3>3
    <3> QED BY <1>2, <2>1, <2>2, <3>4, <3>5, <3>6, <3>7 DEF r
  <2>5. CASE ~(k \in Int /\ k >= m.next)
    <3>1. r = b
      BY <1>2, <2>5, KeysOfIs DEF Insert
    <3> HIDE DEF b, r
    <3>2. ASSUME Above(m) PROVE Above(r)
      BY <2>1, <2>2, <2>3, <2>5, <3>1, <3>2 DEF Above
    <3> QED BY <1>2, <2>1, <2>2, <3>1, <3>2 DEF r
  <2> QED BY <2>4, <2>5
<1> QED BY <1>1, <1>2
----------------------------------------------------------------------------
(* The positions left when that of i goes *)
LEMMA RemoveIs ==
  ASSUME NEW S, NEW s \in Seq(S), NEW i \in 1..Len(s)
  PROVE  /\ RemoveAt(s, i) \in Seq(S) /\ Len(RemoveAt(s, i)) = Len(s) - 1
         /\ \A j \in 1..(Len(s) - 1) : RemoveAt(s, i)[j] = s[IF j < i THEN j ELSE j + 1]
<1> DEFINE u == SubSeq(s, 1, i - 1)  w == SubSeq(s, i + 1, Len(s))
<1>1. Len(s) \in Nat /\ i \in Int
  OBVIOUS
<1>2. /\ u \in Seq(S) /\ Len(u) = i - 1 /\ \A j \in 1..(i - 1) : u[j] = s[j]
      /\ w \in Seq(S) /\ Len(w) = Len(s) - i /\ \A j \in 1..(Len(s) - i) : w[j] = s[i + j]
  <2>1. /\ 1 \in 1..(Len(s) + 1) /\ i - 1 \in (1 - 1)..Len(s)
        /\ i + 1 \in 1..(Len(s) + 1) /\ Len(s) \in ((i + 1) - 1)..Len(s)
    BY <1>1
  <2>2. /\ u \in Seq(S) /\ Len(u) = (i - 1) - 1 + 1
        /\ \A j \in 1..((i - 1) - 1 + 1) : u[j] = s[1 + j - 1]
    BY <1>1, <2>1, SubSeqProperties
  <2>3. /\ w \in Seq(S) /\ Len(w) = Len(s) - (i + 1) + 1
        /\ \A j \in 1..(Len(s) - (i + 1) + 1) : w[j] = s[(i + 1) + j - 1]
    BY <1>1, <2>1, SubSeqProperties
  <2> HIDE DEF u, w
  <2>4. (i - 1) - 1 + 1 = i - 1 /\ Len(s) - (i + 1) + 1 = Len(s) - i
    BY <1>1
  <2>5. \A j \in 1..(i - 1) : u[j] = s[j]
    BY <1>1, <2>2, <2>4
  <2>6. \A j \in 1..(Len(s) - i) : w[j] = s[i + j]
    BY <1>1, <2>3, <2>4
  <2> QED BY <1>1, <2>2, <2>3, <2>4, <2>5, <2>6
<1> HIDE DEF u, w
<1>3. RemoveAt(s, i) = u \o w
  BY DEF RemoveAt, u, w
<1>4. /\ u \o w \in Seq(S) /\ Len(u \o w) = Len(u) + Len(w)
      /\ \A j \in 1..(Len(u) + Len(w)) : (u \o w)[j] = IF j <= Len(u) THEN u[j] ELSE w[j - Len(u)]
  BY <1>2, ConcatProperties
<1>5. ASSUME NEW j \in 1..(Len(s) - 1)
      PROVE  (u \o w)[j] = s[IF j < i THEN j ELSE j + 1]
  <2>1. j \in 1..(Len(u) + Len(w))
    BY <1>1, <1>2
  <2>2. CASE j < i
    BY <1>1, <1>2, <1>4, <2>1, <2>2
  <2>3. CASE ~(j < i)
    <3>1. (u \o w)[j] = w[j - (i - 1)] /\ j - (i - 1) \in 1..(Len(s) - i)
      BY <1>1, <1>2, <1>4, <2>1, <2>3
    <3>2. w[j - (i - 1)] = s[i + (j - (i - 1))] /\ i + (j - (i - 1)) = j + 1
      BY <1>1, <1>2, <3>1
    <3> QED BY <2>3, <3>1, <3>2
  <2> QED BY <2>2, <2>3
<1> QED BY <1>1, <1>2, <1>3, <1>4, <1>5

(* Where the cursor is after the element at i went: on the same element, or *)
(* on the one after the one it was on                                       *)
CursorAfter(m, i) ==
  IF i < m.cur THEN m.cur - 1 ELSE IF m.cur <= Len(m.node) - 1 THEN m.cur ELSE 0

LEMMA UnlinkIs ==
  ASSUME NEW m \in Hashmap, NEW i \in 1..Len(m.node)
  PROVE  LET r == UnlinkNode(m, i)  n == Len(m.node)
         IN /\ r \in Hashmap /\ r.node = RemoveAt(m.node, i) /\ r.next = m.next
            /\ r.cur = CursorAfter(m, i)
            /\ Len(r.node) = n - 1
            /\ \A j \in 1..(n - 1) : r.node[j] = m.node[IF j < i THEN j ELSE j + 1]
<1> DEFINE q == RemoveAt(m.node, i)  n == Len(m.node)  c == CursorAfter(m, i)
<1>1. /\ m = [node |-> m.node, next |-> m.next, cur |-> m.cur]
      /\ m.node \in Seq(Node) /\ m.next \in Int /\ m.cur \in Nat /\ m.cur <= n /\ n \in Nat
  BY Parts
<1>2. q \in Seq(Node) /\ Len(q) = n - 1
      /\ \A j \in 1..(n - 1) : q[j] = m.node[IF j < i THEN j ELSE j + 1]
  BY <1>1, RemoveIs
<1>3. UnlinkNode(m, i) = [m EXCEPT !.node = q, !.cur = c]
  BY <1>2 DEF UnlinkNode, CursorAfter
<1>4. c \in Nat /\ c <= Len(q)
  <2> HIDE DEF q
  <2> QED BY <1>1, <1>2 DEF CursorAfter
<1> HIDE DEF c, q, n
<1>5. UnlinkNode(m, i) = [node |-> q, next |-> m.next, cur |-> c]
  BY <1>1, <1>3, NodeCurSet
<1>6. [node |-> q, next |-> m.next, cur |-> c] \in Hashmap
  BY <1>1, <1>2, <1>4, Made
<1> QED BY <1>2, <1>5, <1>6 DEF c, q, n

(* The elements of r are some of those of m, with their keys. *)
Among(r, m) ==
  \E f : /\ \A i \in 1..Len(r.node) : f[i] \in 1..Len(m.node) /\ r.node[i].key = m.node[f[i]].key
         /\ \A i, j \in 1..Len(r.node) : f[i] = f[j] => i = j

LEMMA AmongKeys ==
  ASSUME NEW m \in Hashmap, NEW r \in Hashmap, Among(r, m)
  PROVE  KeysOf(r) \subseteq KeysOf(m) /\ (Distinct(m) => Distinct(r))
<1>1. PICK f : /\ \A i \in 1..Len(r.node) : f[i] \in 1..Len(m.node) /\ r.node[i].key = m.node[f[i]].key
               /\ \A i, j \in 1..Len(r.node) : f[i] = f[j] => i = j
  BY DEF Among
<1>2. DOMAIN r.node = 1..Len(r.node) /\ DOMAIN m.node = 1..Len(m.node)
  BY Parts
<1>3. ASSUME NEW k \in KeysOf(r) PROVE k \in KeysOf(m)
  <2>1. PICK i \in 1..Len(r.node) : r.node[i].key = k
    BY <1>2 DEF KeysOf
  <2>2. f[i] \in DOMAIN m.node /\ m.node[f[i]].key = k
    BY <1>1, <1>2, <2>1
  <2> QED BY <2>2 DEF KeysOf
<1>4. ASSUME Distinct(m), NEW i \in 1..Len(r.node), NEW j \in 1..Len(r.node),
             r.node[i].key = r.node[j].key
      PROVE  i = j
  <2>1. f[i] \in DOMAIN m.node /\ f[j] \in DOMAIN m.node /\ m.node[f[i]].key = m.node[f[j]].key
    BY <1>1, <1>2, <1>4
  <2>2. f[i] = f[j]
    BY <2>1, <1>4 DEF Distinct
  <2> QED BY <2>2, <1>1
<1> QED BY <1>2, <1>3, <1>4 DEF Distinct

LEMMA UnlinkKeys ==
  ASSUME NEW m \in Hashmap, NEW i \in 1..Len(m.node)
  PROVE  LET r == UnlinkNode(m, i)
         IN /\ KeysOf(r) \subseteq KeysOf(m) /\ (Distinct(m) => Distinct(r))
            /\ Above(m) => Above(r)
<1> DEFINE r == UnlinkNode(m, i)  n == Len(m.node)
           f == [j \in 1..(n - 1) |-> IF j < i THEN j ELSE j + 1]
<1>1. /\ r \in Hashmap /\ r.next = m.next /\ Len(r.node) = n - 1
      /\ \A j \in 1..(n - 1) : r.node[j] = m.node[IF j < i THEN j ELSE j + 1]
  BY UnlinkIs
<1>2. n \in Nat
  BY Parts
<1> HIDE DEF r
<1>3. Among(r, m)
  <2>1. \A j \in 1..Len(r.node) : f[j] \in 1..Len(m.node) /\ r.node[j].key = m.node[f[j]].key
    BY <1>1, <1>2
  <2>2. \A j, k \in 1..Len(r.node) : f[j] = f[k] => j = k
    BY <1>1, <1>2
  <2> HIDE DEF f
  <2> QED BY <2>1, <2>2 DEF Among
<1>4. KeysOf(r) \subseteq KeysOf(m) /\ (Distinct(m) => Distinct(r))
  BY <1>1, <1>3, AmongKeys
<1> QED BY <1>1, <1>4 DEF Above, r
----------------------------------------------------------------------------
(* The elements and the next index of r are those of m. *)
SameBut(r, m) == r \in Hashmap /\ r.node = m.node /\ r.next = m.next

(* The cursor moves within the array. *)
LEMMA CursorMoves ==
  ASSUME NEW m \in Hashmap, NEW c \in Nat, c <= Len(m.node), NEW r, r = [m EXCEPT !.cur = c]
  PROVE  SameBut(r, m) /\ r.cur = c
<1>1. m = [node |-> m.node, next |-> m.next, cur |-> m.cur] /\ m.node \in Seq(Node) /\ m.next \in Int
  BY Parts
<1>2. r = [node |-> m.node, next |-> m.next, cur |-> c]
  BY <1>1
<1>3. [node |-> m.node, next |-> m.next, cur |-> c] \in Hashmap
  BY <1>1, Made
<1> QED BY <1>2, <1>3 DEF SameBut

LEMMA CursorIs ==
  ASSUME NEW m \in Hashmap
  PROVE  /\ SameBut(Reset(m), m) /\ Reset(m).cur = IF Len(m.node) = 0 THEN 0 ELSE 1
         /\ SameBut(End(m), m)
         /\ SameBut(NextEntry(m), m)
         /\ NextEntry(m).cur = IF m.cur = 0 \/ m.cur = Len(m.node) THEN 0 ELSE m.cur + 1
         /\ SameBut(PrevEntry(m), m)
<1> DEFINE n == Len(m.node)
           a == IF n = 0 THEN 0 ELSE 1
           b == IF m.cur = 0 \/ m.cur = n THEN 0 ELSE m.cur + 1
           d == IF m.cur = 0 THEN 0 ELSE m.cur - 1
<1>1. m.cur \in Nat /\ m.cur <= n /\ n \in Nat /\ m.node \in Seq(Node)
  BY Parts
<1>2. m.node = <<>> <=> n = 0
  BY <1>1, EmptySeq
<1>3. Reset(m) = [m EXCEPT !.cur = a] /\ a \in Nat /\ a <= n
  BY <1>1, <1>2 DEF Reset
<1>4. End(m) = [m EXCEPT !.cur = n]
  BY DEF End
<1>5. NextEntry(m) = [m EXCEPT !.cur = b] /\ b \in Nat /\ b <= n
  BY <1>1 DEF NextEntry
<1>6. PrevEntry(m) = [m EXCEPT !.cur = d] /\ d \in Nat /\ d <= n
  BY <1>1 DEF PrevEntry
<1>7. SameBut(Reset(m), m) /\ Reset(m).cur = a
  <2> HIDE DEF a, n
  <2> QED BY <1>3, CursorMoves DEF n
<1>8. SameBut(End(m), m)
  BY <1>1, <1>4, CursorMoves
<1>9. SameBut(NextEntry(m), m) /\ NextEntry(m).cur = b
  <2> HIDE DEF b, n
  <2> QED BY <1>5, CursorMoves DEF n
<1>10. SameBut(PrevEntry(m), m)
  <2> HIDE DEF d, n
  <2> QED BY <1>6, CursorMoves DEF n
<1> QED BY <1>7, <1>8, <1>9, <1>10

LEMMA SameButKeys ==
  ASSUME NEW m, NEW r, SameBut(r, m)
  PROVE  KeysOf(r) = KeysOf(m) /\ (Distinct(m) => Distinct(r)) /\ (Above(m) => Above(r))
         /\ Values(r) = Values(m)
BY DEF SameBut, KeysOf, Distinct, Above, Values
----------------------------------------------------------------------------
LEMMA NodeSet ==
  ASSUME NEW x \in Node, NEW z
  PROVE  [x EXCEPT !.key = z] = [key |-> z, val |-> x.val] /\ [x EXCEPT !.val = z] = [key |-> x.key, val |-> z]
<1>1. x = [key |-> x.key, val |-> x.val]
  BY DEF Node
<1>2. [[key |-> x.key, val |-> x.val] EXCEPT !.key = z] = [key |-> z, val |-> x.val]
  OBVIOUS
<1>3. [[key |-> x.key, val |-> x.val] EXCEPT !.val = z] = [key |-> x.key, val |-> z]
  OBVIOUS
<1> QED BY <1>1, <1>2, <1>3, Zenon

(* Other elements in the place of those of an array *)
Renoded(r, m, q, x) ==
  /\ q = [i \in 1..Len(m.node) |-> q[i]] /\ \A i \in 1..Len(m.node) : q[i] \in Node
  /\ x \in Int /\ r = [node |-> q, next |-> x, cur |-> m.cur]

LEMMA NodesSet ==
  ASSUME NEW m \in Hashmap, NEW q, NEW x, NEW r, Renoded(r, m, q, x)
  PROVE  /\ r \in Hashmap /\ r.node = q /\ r.next = x /\ r.cur = m.cur
         /\ Len(q) = Len(m.node) /\ q \in Seq(Node)
<1>1. m.cur \in Nat /\ m.cur <= Len(m.node) /\ Len(m.node) \in Nat
  BY Parts
<1>2. q \in Seq(Node) /\ Len(q) = Len(m.node)
  BY <1>1, IsASeq DEF Renoded
<1> QED BY <1>1, <1>2, Made DEF Renoded

(* The values change, not the keys: w gives the new ones. *)
Revalued(r, m, w) ==
  /\ \A i \in 1..Len(m.node) : w[i] \in Value
  /\ r = [m EXCEPT !.node = [i \in DOMAIN m.node |-> [m.node[i] EXCEPT !.val = w[i]]]]

LEMMA ValuesSet ==
  ASSUME NEW m \in Hashmap, NEW w, NEW r, Revalued(r, m, w)
  PROVE  /\ r \in Hashmap /\ r.next = m.next /\ r.cur = m.cur /\ Len(r.node) = Len(m.node)
         /\ \A i \in 1..Len(m.node) : r.node[i] = [key |-> m.node[i].key, val |-> w[i]]
         /\ KeysOf(r) = KeysOf(m) /\ (Distinct(m) => Distinct(r))
<1> DEFINE n == Len(m.node)  q == [i \in 1..n |-> [key |-> m.node[i].key, val |-> w[i]]]
<1>1. /\ m = [node |-> m.node, next |-> m.next, cur |-> m.cur]
      /\ n \in Nat /\ DOMAIN m.node = 1..n /\ m.next \in Int
      /\ \A i \in 1..n : m.node[i] \in Node /\ m.node[i].key \in Key
  BY Parts
<1>2. [i \in DOMAIN m.node |-> [m.node[i] EXCEPT !.val = w[i]]] = q
  BY <1>1, NodeSet
<1>3. r = [node |-> q, next |-> m.next, cur |-> m.cur]
  <2>1. r = [m EXCEPT !.node = q]
    BY <1>2 DEF Revalued
  <2> HIDE DEF q
  <2> QED BY <2>1, <1>1
<1>4. \A i \in 1..n : q[i] \in Node
  BY <1>1, NodeIs DEF Revalued
<1>5. r \in Hashmap /\ r.node = q /\ r.next = m.next /\ r.cur = m.cur /\ Len(q) = n
  <2>1. q = [i \in 1..n |-> q[i]]
    OBVIOUS
  <2> HIDE DEF q
  <2>2. Renoded(r, m, q, m.next)
    BY <2>1, <1>1, <1>3, <1>4 DEF Renoded
  <2> QED BY <2>2, NodesSet
<1>6. \A i \in 1..n : q[i] = [key |-> m.node[i].key, val |-> w[i]] /\ q[i].key = m.node[i].key
  OBVIOUS
<1> HIDE DEF q
<1>7. DOMAIN r.node = 1..n
  BY <1>5, Parts
<1>8. DOMAIN m.node = 1..n /\ \A i \in 1..n : r.node[i].key = m.node[i].key
  BY <1>1, <1>5, <1>6
<1>9. KeysOf(r) = KeysOf(m) /\ (Distinct(m) => Distinct(r))
  BY <1>7, <1>8 DEF KeysOf, Distinct
<1> QED BY <1>5, <1>6, <1>9
----------------------------------------------------------------------------
(* How many of the first i elements have an integer key *)
Ints(m, i) == Cardinality({j \in 1..i : m.node[j].key \in Int})

LEMMA IntsIs ==
  ASSUME NEW m, NEW i \in Nat, NEW j \in Nat, i <= j
  PROVE  /\ Ints(m, i) \in Nat /\ Ints(m, i) <= Ints(m, j)
         /\ i < j /\ m.node[j].key \in Int => Ints(m, i) < Ints(m, j)
         /\ (\A k \in 1..i : m.node[k].key \in Int) => Ints(m, i) = i
<1> DEFINE A == {k \in 1..i : m.node[k].key \in Int}
           B == {k \in 1..j : m.node[k].key \in Int}
<1>1. IsFiniteSet(1..j) /\ Cardinality(1..i) = i
  BY FS_Interval
<1>2. B \subseteq 1..j /\ A \subseteq B
  OBVIOUS
<1>3. i < j /\ m.node[j].key \in Int => j \in B /\ j \notin A
  OBVIOUS
<1>4. (\A k \in 1..i : m.node[k].key \in Int) => A = 1..i
  OBVIOUS
<1>5. Ints(m, i) = Cardinality(A) /\ Ints(m, j) = Cardinality(B)
  BY DEF Ints
<1> HIDE DEF A, B
<1>6. IsFiniteSet(B)
  BY <1>1, <1>2, FS_Subset
<1>7. Cardinality(A) <= Cardinality(B) /\ (Cardinality(B) = Cardinality(A) => B = A) /\ IsFiniteSet(A)
  BY <1>2, <1>6, FS_Subset
<1>8. Cardinality(A) \in Nat /\ Cardinality(B) \in Nat
  BY <1>6, <1>7, FS_CardinalityType
<1>9. i < j /\ m.node[j].key \in Int => Cardinality(A) < Cardinality(B)
  BY <1>3, <1>7, <1>8
<1> QED BY <1>1, <1>4, <1>5, <1>7, <1>8, <1>9

(* The integer keys renumbered in order: the next one is above them all. *)
LEMMA ReindexedIs ==
  ASSUME NEW m \in Hashmap
  PROVE  LET r == Reindexed(m)  n == Len(m.node)
         IN /\ r \in Hashmap /\ Len(r.node) = n /\ r.next = Ints(m, n) /\ r.cur = m.cur
            /\ \A i \in 1..n : /\ r.node[i].val = m.node[i].val
                               /\ r.node[i].key = IF m.node[i].key \in Int THEN Ints(m, i) - 1 ELSE m.node[i].key
            /\ Above(r) /\ (Distinct(m) => Distinct(r))
<1> DEFINE n == Len(m.node)  r == Reindexed(m)
           k(i) == IF m.node[i].key \in Int THEN Ints(m, i) - 1 ELSE m.node[i].key
           q == [i \in 1..n |-> [key |-> k(i), val |-> m.node[i].val]]
<1>1. /\ m = [node |-> m.node, next |-> m.next, cur |-> m.cur]
      /\ n \in Nat /\ DOMAIN m.node = 1..n
      /\ \A i \in 1..n : /\ m.node[i] \in Node /\ m.node[i].key \in Key /\ m.node[i].val \in Value
                         /\ m.node[i] = [key |-> m.node[i].key, val |-> m.node[i].val]
  BY Parts
<1>2. \A i \in 0..n : Ints(m, i) \in Nat
  BY <1>1, IntsIs
<1>3. ASSUME NEW i \in 1..n
      PROVE  (IF m.node[i].key \in Int THEN [m.node[i] EXCEPT !.key = Ints(m, i) - 1] ELSE m.node[i]) = q[i]
  <2>1. q[i] = [key |-> k(i), val |-> m.node[i].val]
    OBVIOUS
  <2>2. m.node[i] \in Node
    BY <1>1
  <2>3. [m.node[i] EXCEPT !.key = Ints(m, i) - 1] = [key |-> Ints(m, i) - 1, val |-> m.node[i].val]
    BY <2>2, NodeSet
  <2> HIDE DEF q
  <2>4. CASE m.node[i].key \in Int
    BY <2>1, <2>3, <2>4
  <2>5. CASE m.node[i].key \notin Int
    BY <2>1, <2>5, <1>1
  <2> QED BY <2>4, <2>5
<1>4. r = [m EXCEPT !.node = q, !.next = Ints(m, n)]
  <2>1. [i \in DOMAIN m.node |-> IF m.node[i].key \in Int
                                 THEN [m.node[i] EXCEPT !.key = Ints(m, i) - 1] ELSE m.node[i]] = q
    BY <1>1, <1>3
  <2> HIDE DEF q
  <2> QED BY <2>1 DEF Reindexed, Ints
<1>5. r = [node |-> q, next |-> Ints(m, n), cur |-> m.cur]
  <2> HIDE DEF q, r
  <2> QED BY <1>1, <1>4, NodeNextSet
<1>6. \A i \in 1..n : k(i) \in Key /\ q[i] \in Node
  <2>1. ASSUME NEW i \in 1..n PROVE k(i) \in Key
    <3>1. CASE m.node[i].key \in Int
      <4>1. Ints(m, i) - 1 \in Int
        BY <1>2
      <4> QED BY <4>1, <3>1 DEF Key
    <3>2. CASE m.node[i].key \notin Int
      BY <3>2, <1>1
    <3> QED BY <3>1, <3>2
  <2> HIDE DEF k
  <2> QED BY <1>1, <2>1, NodeIs
<1>7. r \in Hashmap /\ r.node = q /\ r.next = Ints(m, n) /\ r.cur = m.cur /\ Len(q) = n
  <2>1. q = [i \in 1..n |-> q[i]]
    OBVIOUS
  <2>2. Ints(m, n) \in Int
    BY <1>1, <1>2
  <2> HIDE DEF q
  <2>3. Renoded(r, m, q, Ints(m, n))
    BY <2>1, <2>2, <1>5, <1>6 DEF Renoded
  <2> QED BY <2>3, NodesSet
<1>8. \A i \in 1..n : q[i].key = k(i) /\ q[i].val = m.node[i].val
  OBVIOUS
<1> HIDE DEF q, r
<1>9. DOMAIN r.node = 1..n
  BY <1>7, Parts
<1>10. \A i \in 1..n : k(i) \in Int <=> m.node[i].key \in Int
  BY <1>1, <1>2, HashmapAssumption DEF Key
<1>11. Above(r)
  <2>1. ASSUME NEW i \in 1..n, k(i) \in Int PROVE k(i) < Ints(m, n)
    <3>1. k(i) = Ints(m, i) - 1 /\ i \in Nat /\ i <= n
      BY <2>1, <1>10
    <3>2. Ints(m, i) \in Nat /\ Ints(m, n) \in Nat /\ Ints(m, i) <= Ints(m, n)
      BY <3>1, <1>1, <1>2, IntsIs
    <3> QED BY <3>1, <3>2
  <2> HIDE DEF k
  <2> QED BY <2>1, <1>7, <1>8, <1>9 DEF Above, KeysOf
<1>12. ASSUME Distinct(m) PROVE Distinct(r)
  <2>1. ASSUME NEW i \in 1..n, NEW j \in 1..n, i < j PROVE k(i) # k(j)
    <3>1. CASE m.node[i].key \in Int /\ m.node[j].key \in Int
      <4>1. Ints(m, i) < Ints(m, j) /\ Ints(m, i) \in Nat /\ Ints(m, j) \in Nat
        BY <2>1, <3>1, <1>2, IntsIs
      <4> QED BY <4>1, <3>1
    <3>2. CASE m.node[i].key \notin Int /\ m.node[j].key \notin Int
      BY <2>1, <3>2, <1>1, <1>12 DEF Distinct
    <3>3. CASE ~(m.node[i].key \in Int <=> m.node[j].key \in Int)
      BY <3>3, <1>10
    <3> QED BY <3>1, <3>2, <3>3
  <2> HIDE DEF k
  <2>2. ASSUME NEW i \in 1..n, NEW j \in 1..n, r.node[i].key = r.node[j].key PROVE i = j
    BY <2>1, <2>2, <1>1, <1>7, <1>8
  <2> QED BY <2>2, <1>9 DEF Distinct
<1> QED BY <1>7, <1>8, <1>11, <1>12 DEF r

(* Keys and next index of a list *)
LEMMA SortRehashIs ==
  ASSUME NEW m \in Hashmap
  PROVE  LET r == SortRehash(m)  n == Len(m.node)
         IN /\ r \in Hashmap /\ Len(r.node) = n /\ r.next = n /\ r.cur = m.cur
            /\ \A i \in 1..n : r.node[i] = [key |-> i - 1, val |-> m.node[i].val]
            /\ Numbered(r) /\ Above(r) /\ Distinct(r)
<1> DEFINE n == Len(m.node)  r == SortRehash(m)
           q == [i \in 1..n |-> [key |-> i - 1, val |-> m.node[i].val]]
<1>1. /\ m = [node |-> m.node, next |-> m.next, cur |-> m.cur]
      /\ n \in Nat /\ DOMAIN m.node = 1..n /\ \A i \in 1..n : m.node[i].val \in Value
  BY Parts
<1>2. r = [m EXCEPT !.node = q, !.next = n]
  BY <1>1 DEF SortRehash
<1>3. \A i \in 1..n : q[i] = [key |-> i - 1, val |-> m.node[i].val] /\ q[i].key = i - 1
  OBVIOUS
<1>4. \A i \in 1..n : q[i] \in Node
  <2>1. \A i \in 1..n : i - 1 \in Key
    BY <1>1 DEF Key
  <2> QED BY <1>1, <1>3, <2>1, NodeIs
<1>5. q = [i \in 1..n |-> q[i]]
  OBVIOUS
<1> HIDE DEF q, r
<1>6. r = [node |-> q, next |-> n, cur |-> m.cur]
  BY <1>1, <1>2, NodeNextSet
<1>7. r \in Hashmap /\ r.node = q /\ r.next = n /\ r.cur = m.cur /\ Len(q) = n
  <2>1. Renoded(r, m, q, n)
    BY <1>1, <1>4, <1>5, <1>6 DEF Renoded
  <2> QED BY <2>1, NodesSet
<1>8. DOMAIN r.node = 1..n
  BY <1>7, Parts
<1>9. Numbered(r)
  BY <1>3, <1>7, <1>8 DEF Numbered
<1>10. Above(r) /\ Distinct(r)
  BY <1>1, <1>3, <1>7, <1>8 DEF Above, Distinct, KeysOf
<1> QED BY <1>3, <1>7, <1>9, <1>10 DEF r

(* An element into an array, its index kept or a new one given *)
LEMMA InsertNodeIs ==
  ASSUME NEW m \in Hashmap, NEW x \in Node, NEW preserve \in BOOLEAN
  PROVE  LET r == InsertNode(m, x, preserve)  n == Len(m.node)
         IN /\ r \in Hashmap /\ Len(r.node) = n + 1
            /\ \A i \in 1..n : r.node[i] = m.node[i]
            /\ r.node[n + 1].val = x.val
            /\ x.key \notin Int \/ preserve => r.node = Append(m.node, x) /\ r.node[n + 1] = x
                                               /\ KeysOf(r) = KeysOf(m) \cup {x.key}
                                               /\ (Distinct(m) /\ x.key \notin KeysOf(m) => Distinct(r))
                                               /\ r.next = m.next
            /\ x.key \in Int /\ ~preserve => r = InsertAuto(m, x.val)
<1>1. x.key \in Key /\ x.val \in Value /\ x = [key |-> x.key, val |-> x.val]
  BY DEF Node
<1>2. CASE x.key \in Int /\ ~preserve
  <2>1. InsertNode(m, x, preserve) = InsertAuto(m, x.val)
    BY <1>2 DEF InsertNode
  <2> DEFINE r == InsertAuto(m, x.val)
  <2>2. /\ r \in Hashmap /\ Len(r.node) = Len(m.node) + 1
        /\ \A i \in 1..Len(m.node) : r.node[i] = m.node[i]
        /\ r.node[Len(m.node) + 1] = [key |-> m.next, val |-> x.val]
    BY <1>1, InsertAutoIs
  <2> HIDE DEF r
  <2>3. r.node[Len(m.node) + 1].val = x.val
    BY <2>2
  <2> QED BY <2>1, <2>2, <2>3, <1>2 DEF r
<1>3. CASE ~(x.key \in Int /\ ~preserve)
  <2>1. InsertNode(m, x, preserve) = InsertKey(m, x.key, x.val)
    BY <1>3 DEF InsertNode
  <2> DEFINE r == InsertKey(m, x.key, x.val)
  <2>2. /\ r \in Hashmap /\ Len(r.node) = Len(m.node) + 1
        /\ \A i \in 1..Len(m.node) : r.node[i] = m.node[i]
        /\ r.node[Len(m.node) + 1] = x /\ r.node = Append(m.node, x) /\ r.next = m.next
    BY <1>1, InsertKeyIs
  <2>3. KeysOf(r) = KeysOf(m) \cup {x.key} /\ (Distinct(m) /\ x.key \notin KeysOf(m) => Distinct(r))
    BY <1>1, InsertKeyKeys
  <2> HIDE DEF r
  <2> QED BY <2>1, <2>2, <2>3, <1>3 DEF r
<1> QED BY <1>2, <1>3
----------------------------------------------------------------------------
(* The folds of the model *)
LEMMA FoldsAre ==
  ASSUME NEW a, NEW b, NEW p
  PROVE  /\ Added(a, b) = Folded("auto", 0, a, b)
         /\ Merge(a, b) = Folded("merge", 0, b, a.node)
         /\ Overwrite(a, b) = Folded("insert", 0, b, a.node)
         /\ Dup(a, b) = Folded("dup", 0, b, a.node)
         /\ Union(a, b) = Folded("union", 0, a, b.node)
         /\ Gathered(a, p) = Folded("node", p, NewHashmap, a)
         /\ Literal(a) = Folded("literal", 0, NewHashmap, a)
         /\ FillKeys(a, p) = Folded("fill", p, NewHashmap, a.node)
         /\ Unique(a, p) = Folded("unique", p, NewHashmap, a.node)
         /\ Flip(a) = Folded("flip", 0, NewHashmap, a.node)
         /\ ArrayMap(a, p) = Folded("map", p, NewHashmap, a.node)
         /\ ArrayMerge(a) = Folded("merges", 0, NewHashmap, a)
         /\ Replace(a) = Folded("replaces", 0, NewHashmap, a)
<1>1. Added(a, b) = Folded("auto", 0, a, b)
  BY DEF Added, Folded, Step, FoldLeft, MapThenFoldSet
<1>2. Merge(a, b) = Folded("merge", 0, b, a.node)
  BY DEF Merge, Folded, Step, FoldLeft, MapThenFoldSet
<1>3. Overwrite(a, b) = Folded("insert", 0, b, a.node)
  BY DEF Overwrite, Folded, Step, FoldLeft, MapThenFoldSet
<1>4. Dup(a, b) = Folded("dup", 0, b, a.node)
  BY DEF Dup, Folded, Step, FoldLeft, MapThenFoldSet
<1>5. Union(a, b) = Folded("union", 0, a, b.node)
  BY DEF Union, Folded, Step, FoldLeft, MapThenFoldSet
<1>6. Gathered(a, p) = Folded("node", p, NewHashmap, a)
  BY DEF Gathered, InsertNodes, Folded, Step, FoldLeft, MapThenFoldSet
<1>7. Literal(a) = Folded("literal", 0, NewHashmap, a)
  BY DEF Literal, Folded, Step, FoldLeft, MapThenFoldSet
<1>8. FillKeys(a, p) = Folded("fill", p, NewHashmap, a.node)
  BY DEF FillKeys, Folded, Step, FoldLeft, MapThenFoldSet
<1>9. Unique(a, p) = Folded("unique", p, NewHashmap, a.node)
  BY DEF Unique, Folded, Step, FoldLeft, MapThenFoldSet
<1>10. Flip(a) = Folded("flip", 0, NewHashmap, a.node)
  BY DEF Flip, Folded, Step, FoldLeft, MapThenFoldSet
<1>11. ArrayMap(a, p) = Folded("map", p, NewHashmap, a.node)
  BY DEF ArrayMap, Folded, Step, FoldLeft, MapThenFoldSet
<1>12. ArrayMerge(a) = Folded("merges", 0, NewHashmap, a)
  BY DEF ArrayMerge, Folded, Step, FoldLeft, MapThenFoldSet
<1>13. Replace(a) = Folded("replaces", 0, NewHashmap, a)
  BY DEF Replace, Folded, Step, FoldLeft, MapThenFoldSet
<1> QED BY <1>1, <1>2, <1>3, <1>4, <1>5, <1>6, <1>7, <1>8, <1>9, <1>10, <1>11, <1>12, <1>13

(* The folds over the positions of an array *)
Positions(a) == [i \in DOMAIN a.node |-> i]

LEMMA PositionFoldsAre ==
  ASSUME NEW a, NEW b, NEW I
  PROVE  /\ At(a, I) = Folded("at", <<a, I>>, <<>>, Positions(a))
         /\ Combine(a, b) = Folded("combine", <<a, b>>, NewHashmap, Positions(a))
<1>1. At(a, I) = Folded("at", <<a, I>>, <<>>, Positions(a))
  BY DEF At, Folded, Step, FoldLeft, MapThenFoldSet, Positions
<1>2. Combine(a, b) = Folded("combine", <<a, b>>, NewHashmap, Positions(a))
  BY DEF Combine, Folded, Step, FoldLeft, MapThenFoldSet, Positions
<1> QED BY <1>1, <1>2

LEMMA UnlinkedFold ==
  ASSUME NEW a, NEW p, NEW k
  PROVE  Unlinked(a, p, k) = Folded("cut", p, a, [i \in 1..k |-> i])
  BY DEF Unlinked, Folded, Step, FoldLeft, MapThenFoldSet

LEMMA InsertNodesFold ==
  ASSUME NEW a, NEW xs, NEW preserve
  PROVE  InsertNodes(a, xs, preserve) = Folded("node", preserve, a, xs)
  BY DEF InsertNodes, Folded, Step, FoldLeft, MapThenFoldSet

(* The arrays, those with distinct keys, and those whose next index is free too *)
Uniq == {m \in Hashmap : Distinct(m)}
Top == {m \in Hashmap : Distinct(m) /\ Above(m)}

(* A fold of insertions stays within these sets. *)
Closed(how, p, n, seq) ==
  /\ \A i \in 1..n : \A m \in Hashmap : Step(how, p, m, seq[i]) \in Hashmap
  /\ \A i \in 1..n : \A m \in Uniq : Step(how, p, m, seq[i]) \in Uniq
  /\ \A i \in 1..n : \A m \in Top : Step(how, p, m, seq[i]) \in Top

ClosedFold(how, p, base, seq) ==
  LET r == Folded(how, p, base, seq)
  IN r \in Hashmap /\ (base \in Uniq => r \in Uniq) /\ (base \in Top => r \in Top)

LEMMA ClosedFolds ==
  ASSUME NEW how, NEW p, NEW n \in Nat, NEW seq, DOMAIN seq = 1..n, Closed(how, p, n, seq),
         NEW base \in Hashmap
  PROVE  ClosedFold(how, p, base, seq)
<1>1. Folded(how, p, base, seq) \in Hashmap
  BY FoldIn DEF Closed
<1>2. ASSUME base \in Uniq PROVE Folded(how, p, base, seq) \in Uniq
  BY <1>2, FoldIn DEF Closed
<1>3. ASSUME base \in Top PROVE Folded(how, p, base, seq) \in Top
  BY <1>3, FoldIn DEF Closed
<1> QED BY <1>1, <1>2, <1>3 DEF ClosedFold

LEMMA InsertsClosed ==
  ASSUME NEW k \in Key, NEW v \in Value
  PROVE  /\ \A m \in Hashmap : Insert(m, k, v) \in Hashmap
         /\ \A m \in Uniq : Insert(m, k, v) \in Uniq
         /\ \A m \in Top : Insert(m, k, v) \in Top
BY InsertIs DEF Uniq, Top

LEMMA SeqParts ==
  ASSUME NEW S, NEW s \in Seq(S)
  PROVE  Len(s) \in Nat /\ DOMAIN s = 1..Len(s) /\ \A i \in 1..Len(s) : s[i] \in S
BY ElementOfSeq

LEMMA NewTop == NewHashmap \in Hashmap /\ NewHashmap \in Uniq /\ NewHashmap \in Top
<1>1. DOMAIN NewHashmap.node = {}
  BY NewIs
<1> QED BY <1>1, NewIs DEF Uniq, Top, Distinct, Above, KeysOf

(* Each step inserts something, or does nothing. *)
Inserts(how, p, n, seq) ==
  \A i \in 1..n : \A m : \/ Step(how, p, m, seq[i]) = m
                     \/ \E k \in Key, v \in Value : Step(how, p, m, seq[i]) = Insert(m, k, v)

LEMMA InsertFold ==
  ASSUME NEW how, NEW p, NEW n \in Nat, NEW seq, DOMAIN seq = 1..n, Inserts(how, p, n, seq),
         NEW base \in Hashmap
  PROVE  ClosedFold(how, p, base, seq)
<1>1. ASSUME NEW i \in 1..n, NEW S, NEW m \in S,
             \A k \in Key, v \in Value : \A q \in S : Insert(q, k, v) \in S
      PROVE  Step(how, p, m, seq[i]) \in S
  BY <1>1 DEF Inserts
<1>2. Closed(how, p, n, seq)
  <2>1. \A k \in Key, v \in Value : \A q \in Hashmap : Insert(q, k, v) \in Hashmap
    BY InsertsClosed
  <2>2. \A k \in Key, v \in Value : \A q \in Uniq : Insert(q, k, v) \in Uniq
    BY InsertsClosed
  <2>3. \A k \in Key, v \in Value : \A q \in Top : Insert(q, k, v) \in Top
    BY InsertsClosed
  <2>4. \A i \in 1..n : \A m \in Hashmap : Step(how, p, m, seq[i]) \in Hashmap
    BY <1>1, <2>1
  <2>5. \A i \in 1..n : \A m \in Uniq : Step(how, p, m, seq[i]) \in Uniq
    BY <1>1, <2>2
  <2>6. \A i \in 1..n : \A m \in Top : Step(how, p, m, seq[i]) \in Top
    BY <1>1, <2>3
  <2> QED BY <2>4, <2>5, <2>6 DEF Closed
<1> QED BY <1>2, ClosedFolds

(* The folds of insertions under given keys *)
LEMMA InsertFolds ==
  ASSUME NEW s \in Hashmap, NEW d \in Hashmap, NEW v \in Value
  PROVE  /\ ClosedFold("insert", 0, d, s.node)
         /\ ClosedFold("fill", v, d, s.node)
         /\ ClosedFold("flip", 0, d, s.node)
<1> DEFINE n == Len(s.node)
<1>1. n \in Nat /\ DOMAIN s.node = 1..n
      /\ \A i \in 1..n : s.node[i].key \in Key /\ s.node[i].val \in Value
  BY Parts
<1>2. Inserts("insert", 0, n, s.node)
  <2>1. \A i \in 1..n : \A m : Step("insert", 0, m, s.node[i]) = Insert(m, s.node[i].key, s.node[i].val)
    BY DEF Step
  <2> QED BY <1>1, <2>1 DEF Inserts
<1>3. Inserts("fill", v, n, s.node)
  <2>1. \A i \in 1..n : \A m : Step("fill", v, m, s.node[i]) = Insert(m, AsKey(s.node[i].val), v)
    BY DEF Step
  <2> QED BY <1>1, <2>1, KeyOrValue DEF Inserts
<1>4. Inserts("flip", 0, n, s.node)
  <2>1. \A i \in 1..n : \A m : Step("flip", 0, m, s.node[i])
                               = IF s.node[i].val = NULL THEN m ELSE Insert(m, s.node[i].val, s.node[i].key)
    BY DEF Step
  <2> QED BY <1>1, <2>1, KeyOrValue DEF Inserts
<1> QED BY <1>1, <1>2, <1>3, <1>4, InsertFold

LEMMA LiteralFold ==
  ASSUME NEW s \in Seq(Key \X Value)
  PROVE  ClosedFold("literal", 0, NewHashmap, s)
<1>1. Len(s) \in Nat /\ DOMAIN s = 1..Len(s) /\ \A i \in 1..Len(s) : s[i] \in Key \X Value
  BY SeqParts
<1>2. Inserts("literal", 0, Len(s), s)
  <2>1. \A i \in 1..Len(s) : s[i][1] \in Key /\ s[i][2] \in Value
    BY <1>1
  <2>2. \A i \in 1..Len(s) : \A m : Step("literal", 0, m, s[i]) = Insert(m, s[i][1], s[i][2])
    BY DEF Step
  <2> QED BY <2>1, <2>2 DEF Inserts
<1> QED BY <1>1, <1>2, NewTop, InsertFold

LEMMA PositionsAre ==
  ASSUME NEW a \in Hashmap
  PROVE  Len(a.node) \in Nat /\ DOMAIN Positions(a) = 1..Len(a.node)
         /\ \A i \in 1..Len(a.node) : Positions(a)[i] = i
BY Parts DEF Positions

LEMMA CombineFold ==
  ASSUME NEW a \in Hashmap, NEW b \in Hashmap, Len(b.node) = Len(a.node)
  PROVE  ClosedFold("combine", <<a, b>>, NewHashmap, Positions(a))
<1> DEFINE n == Len(a.node)
<1>1. \A i \in 1..n : a.node[i].val \in Value /\ b.node[i].val \in Value
  BY Parts
<1>2. \A i \in 1..n : Positions(a)[i] = i
  BY PositionsAre
<1>3. Inserts("combine", <<a, b>>, n, Positions(a))
  <2>1. \A i \in 1..n : \A m : Step("combine", <<a, b>>, m, i) = Insert(m, AsKey(a.node[i].val), b.node[i].val)
    BY DEF Step
  <2> QED BY <1>1, <1>2, <2>1, KeyOrValue DEF Inserts
<1> QED BY <1>3, PositionsAre, NewTop, InsertFold

LEMMA MapFold ==
  ASSUME NEW a \in Hashmap, NEW f, \A i \in 1..Len(a.node) : f[a.node[i].val] \in Value
  PROVE  ClosedFold("map", f, NewHashmap, a.node)
<1> DEFINE n == Len(a.node)
<1>1. n \in Nat /\ DOMAIN a.node = 1..n /\ \A i \in 1..n : a.node[i].key \in Key
  BY Parts
<1>2. Inserts("map", f, n, a.node)
  <2>1. \A i \in 1..n : \A m : Step("map", f, m, a.node[i]) = Insert(m, a.node[i].key, f[a.node[i].val])
    BY DEF Step
  <2> QED BY <1>1, <2>1 DEF Inserts
<1> QED BY <1>1, <1>2, NewTop, InsertFold

(* Several values appended: they get the next indexes in order. *)
LEMMA AddedIs ==
  ASSUME NEW m \in Hashmap, NEW vs \in Seq(Value)
  PROVE  LET r == Added(m, vs)  l == Len(m.node)  n == Len(vs)
         IN /\ r \in Hashmap /\ Len(r.node) = l + n /\ r.next = m.next + n
            /\ \A i \in 1..l : r.node[i] = m.node[i]
            /\ \A i \in 1..n : r.node[l + i] = [key |-> m.next + (i - 1), val |-> vs[i]]
            /\ Above(m) => Above(r)
            /\ Above(m) /\ Distinct(m) => Distinct(r)
<1> DEFINE l == Len(m.node)  n == Len(vs)
           Q(i, r) == /\ r \in Hashmap /\ Len(r.node) = l + i /\ r.next = m.next + i
                      /\ \A j \in 1..l : r.node[j] = m.node[j]
                      /\ \A j \in 1..i : r.node[l + j] = [key |-> m.next + (j - 1), val |-> vs[j]]
                      /\ Above(m) => Above(r)
                      /\ Above(m) /\ Distinct(m) => Distinct(r)
           G == {g \in (0..n) \X Hashmap : Q(g[1], g[2])}
<1>1. l \in Nat /\ m.next \in Int /\ n \in Nat /\ DOMAIN vs = 1..n /\ \A i \in 1..n : vs[i] \in Value
  BY Parts, SeqParts
<1>2. <<0, m>> \in G
  <2>1. Q(0, m)
    BY <1>1
  <2> QED BY <2>1, <1>1
<1>3. ASSUME NEW i \in 1..n, NEW r, <<i - 1, r>> \in G
      PROVE  <<i, Step("auto", 0, r, vs[i])>> \in G
  <2> DEFINE q == InsertAuto(r, vs[i])
  <2>1. Q(i - 1, r) /\ r \in Hashmap
    BY <1>3
  <2>2. /\ q \in Hashmap /\ q.next = r.next + 1
        /\ Len(q.node) = Len(r.node) + 1
        /\ \A j \in 1..Len(r.node) : q.node[j] = r.node[j]
        /\ q.node[Len(r.node) + 1] = [key |-> r.next, val |-> vs[i]]
        /\ Above(r) => Above(q)
        /\ Above(r) /\ Distinct(r) => Distinct(q)
    BY <1>1, <2>1, InsertAutoIs
  <2>3. Step("auto", 0, r, vs[i]) = q
    BY DEF Step
  <2> HIDE DEF q
  <2>4. i - 1 \in Nat /\ l + (i - 1) + 1 = l + i /\ m.next + (i - 1) + 1 = m.next + i
    BY <1>1
  <2>5. Len(q.node) = l + i /\ q.next = m.next + i
    BY <1>1, <2>1, <2>2, <2>4
  <2>6. \A j \in 1..l : q.node[j] = m.node[j]
    BY <1>1, <2>1, <2>2, <2>4
  <2>7. ASSUME NEW j \in 1..i PROVE q.node[l + j] = [key |-> m.next + (j - 1), val |-> vs[j]]
    <3>1. CASE j = i
      BY <3>1, <1>1, <2>1, <2>2, <2>4
    <3>2. CASE j \in 1..(i - 1)
      <4>1. l + j \in 1..Len(r.node)
        BY <3>2, <1>1, <2>1
      <4> QED BY <3>2, <4>1, <2>1, <2>2
    <3> QED BY <3>1, <3>2
  <2>8. Q(i, q)
    BY <2>1, <2>2, <2>5, <2>6, <2>7
  <2> QED BY <2>2, <2>3, <2>8
<1>4. Advances(G, "auto", 0, vs, n)
  <2> HIDE DEF G
  <2> QED BY <1>3 DEF Advances
<1>5. <<n, Folded("auto", 0, m, vs)>> \in G
  <2> HIDE DEF G
  <2> QED BY <1>1, <1>2, <1>4, FoldInduct
<1>6. Folded("auto", 0, m, vs) = Added(m, vs)
  BY FoldsAre
<1>7. Q(n, Folded("auto", 0, m, vs))
  BY <1>5
<1> HIDE DEF Q
<1>8. Q(n, Added(m, vs))
  BY <1>6, <1>7
<1> QED BY <1>8 DEF Q

(* array_merge() of one more array *)
LEMMA MergeIs ==
  ASSUME NEW s \in Hashmap, NEW d \in Hashmap
  PROVE  Merge(s, d) \in Hashmap /\ (d \in Top => Merge(s, d) \in Top)
<1> DEFINE n == Len(s.node)
<1>1. n \in Nat /\ DOMAIN s.node = 1..n
      /\ \A i \in 1..n : s.node[i].key \in Key /\ s.node[i].val \in Value
  BY Parts
<1>2. \A i \in 1..n : \A m : \/ Step("merge", 0, m, s.node[i]) = InsertAuto(m, s.node[i].val)
                         \/ Step("merge", 0, m, s.node[i]) = Insert(m, s.node[i].key, s.node[i].val)
  BY DEF Step
<1>3. \A i \in 1..n : \A m \in Hashmap : Step("merge", 0, m, s.node[i]) \in Hashmap
  <2>1. \A v \in Value : \A m \in Hashmap : InsertAuto(m, v) \in Hashmap
    BY InsertAutoIs
  <2> QED BY <1>1, <1>2, <2>1, InsertsClosed
<1>4. \A i \in 1..n : \A m \in Top : Step("merge", 0, m, s.node[i]) \in Top
  <2>1. \A v \in Value : \A m \in Top : InsertAuto(m, v) \in Top
    BY InsertAutoIs DEF Top
  <2> QED BY <1>1, <1>2, <2>1, InsertsClosed
<1>5. Folded("merge", 0, d, s.node) \in Hashmap
  BY <1>1, <1>3, FoldIn
<1>6. ASSUME d \in Top PROVE Folded("merge", 0, d, s.node) \in Top
  BY <1>1, <1>4, <1>6, FoldIn
<1>7. Merge(s, d) = Folded("merge", 0, d, s.node)
  BY FoldsAre
<1> QED BY <1>5, <1>6, <1>7

(* $a + $b *)
LEMMA UnionIs ==
  ASSUME NEW l \in Hashmap, NEW r \in Hashmap
  PROVE  Union(l, r) \in Hashmap /\ (l \in Uniq => Union(l, r) \in Uniq)
<1> DEFINE n == Len(r.node)
<1>1. n \in Nat /\ DOMAIN r.node = 1..n
      /\ \A i \in 1..n : r.node[i].key \in Key /\ r.node[i].val \in Value
  BY Parts
<1>2. \A i \in 1..n : \A m : Step("union", 0, m, r.node[i]) =
                           IF Has(m, r.node[i].key) THEN m ELSE InsertKey(m, r.node[i].key, r.node[i].val)
  BY DEF Step
<1>3. \A i \in 1..n : \A m \in Hashmap : Step("union", 0, m, r.node[i]) \in Hashmap
  <2>1. \A k \in Key, v \in Value : \A m \in Hashmap : InsertKey(m, k, v) \in Hashmap
    BY InsertKeyIs
  <2> QED BY <1>1, <1>2, <2>1
<1>4. ASSUME NEW i \in 1..n, NEW m \in Uniq PROVE Step("union", 0, m, r.node[i]) \in Uniq
  <2>1. m \in Hashmap /\ Distinct(m)
    BY DEF Uniq
  <2>2. CASE Has(m, r.node[i].key)
    BY <1>2, <2>2
  <2>3. CASE ~Has(m, r.node[i].key)
    <3>1. r.node[i].key \notin KeysOf(m)
      BY <2>1, <2>3, KeysOfIs
    <3>2. InsertKey(m, r.node[i].key, r.node[i].val) \in Hashmap
          /\ Distinct(InsertKey(m, r.node[i].key, r.node[i].val))
      BY <1>1, <2>1, <3>1, InsertKeyIs, InsertKeyKeys
    <3> QED BY <1>2, <2>3, <3>2 DEF Uniq
  <2> QED BY <2>2, <2>3
<1>5. Folded("union", 0, l, r.node) \in Hashmap
  BY <1>1, <1>3, FoldIn
<1>6. ASSUME l \in Uniq PROVE Folded("union", 0, l, r.node) \in Uniq
  BY <1>1, <1>4, <1>6, FoldIn
<1>7. Union(l, r) = Folded("union", 0, l, r.node)
  BY FoldsAre
<1> QED BY <1>5, <1>6, <1>7
----------------------------------------------------------------------------
(* The first i elements of a sequence *)
LEMMA PrefixIs ==
  ASSUME NEW S, NEW s \in Seq(S), NEW i \in 1..Len(s)
  PROVE  /\ SubSeq(s, 1, i) = Append(SubSeq(s, 1, i - 1), s[i])
         /\ SubSeq(s, 1, i - 1) \in Seq(S) /\ Len(SubSeq(s, 1, i - 1)) = i - 1
         /\ \A j \in 1..(i - 1) : SubSeq(s, 1, i - 1)[j] = s[j]
<1> DEFINE u == SubSeq(s, 1, i)  w == SubSeq(s, 1, i - 1)
<1>1. Len(s) \in Nat /\ 1 \in 1..(Len(s) + 1) /\ i \in (1 - 1)..Len(s) /\ i - 1 \in (1 - 1)..Len(s)
  OBVIOUS
<1>2. /\ u \in Seq(S) /\ Len(u) = i - 1 + 1 /\ \A j \in 1..(i - 1 + 1) : u[j] = s[1 + j - 1]
  BY <1>1, SubSeqProperties
<1>3. /\ w \in Seq(S) /\ Len(w) = (i - 1) - 1 + 1 /\ \A j \in 1..((i - 1) - 1 + 1) : w[j] = s[1 + j - 1]
  BY <1>1, SubSeqProperties
<1>4. s[i] \in S
  BY ElementOfSeq
<1> HIDE DEF u, w
<1>5. Len(w) = i - 1 /\ \A j \in 1..(i - 1) : w[j] = s[j]
  BY <1>1, <1>3
<1>6. Len(u) = i /\ \A j \in 1..i : u[j] = s[j]
  BY <1>1, <1>2
<1>7. /\ Append(w, s[i]) \in Seq(S) /\ Len(Append(w, s[i])) = Len(w) + 1
      /\ \A j \in 1..Len(w) : Append(w, s[i])[j] = w[j]
      /\ Append(w, s[i])[Len(w) + 1] = s[i]
  BY <1>3, <1>4, AppendProperties
<1>8. u = Append(w, s[i])
  <2> DEFINE z == Append(w, s[i])
  <2>1. z \in Seq(S) /\ Len(z) = i /\ \A j \in 1..(i - 1) : z[j] = s[j]
    BY <1>1, <1>5, <1>7
  <2>2. z[i] = s[i]
    BY <1>1, <1>5, <1>7
  <2> HIDE DEF z
  <2>3. \A j \in 1..i : z[j] = u[j]
    BY <1>1, <1>6, <2>1, <2>2
  <2>4. u = z
    BY <1>2, <1>6, <2>1, <2>3, SeqEqual
  <2> QED BY <2>4 DEF z
<1>9. u = Append(w, s[i]) /\ w \in Seq(S) /\ Len(w) = i - 1 /\ \A j \in 1..(i - 1) : w[j] = s[j]
  BY <1>3, <1>5, <1>8
<1> QED BY <1>9 DEF u, w

(* All elements of a sequence, appended to an empty array with their keys *)
LEMMA WholePrefix ==
  ASSUME NEW S, NEW s \in Seq(S)
  PROVE  SubSeq(s, 1, 0) = <<>> /\ SubSeq(s, 1, Len(s)) = s
BY SubSeqFull, SubSeqEmpty

LEMMA GatheredKept ==
  ASSUME NEW xs \in Seq(Node)
  PROVE  Gathered(xs, TRUE) \in Hashmap /\ Gathered(xs, TRUE).node = xs
<1> DEFINE n == Len(xs)
           Q(i, r) == r.node = SubSeq(xs, 1, i)
           G == {g \in (0..n) \X Hashmap : Q(g[1], g[2])}
<1>1. n \in Nat /\ DOMAIN xs = 1..n /\ \A i \in 1..n : xs[i] \in Node
  BY SeqParts
<1>2. <<0, NewHashmap>> \in G
  <2>1. NewHashmap \in Hashmap /\ Q(0, NewHashmap)
    BY NewIs, WholePrefix
  <2> HIDE DEF Q
  <2> QED BY <1>1, <2>1
<1>3. ASSUME NEW i \in 1..n, NEW r, <<i - 1, r>> \in G
      PROVE  <<i, Step("node", TRUE, r, xs[i])>> \in G
  <2> DEFINE q == InsertNode(r, xs[i], TRUE)
  <2>1. r \in Hashmap /\ r.node = SubSeq(xs, 1, i - 1)
    BY <1>3
  <2>2. q \in Hashmap /\ q.node = Append(r.node, xs[i])
    <3>1. xs[i] \in Node
      BY <1>1
    <3> DEFINE x == xs[i]
    <3> HIDE DEF x
    <3>2. x \in Node => /\ InsertNode(r, x, TRUE) \in Hashmap
                        /\ InsertNode(r, x, TRUE).node = Append(r.node, x)
      BY <2>1, InsertNodeIs
    <3> QED BY <3>1, <3>2 DEF x
  <2>3. Step("node", TRUE, r, xs[i]) = q
    BY DEF Step
  <2> HIDE DEF q
  <2>4. q.node = SubSeq(xs, 1, i)
    <3>1. SubSeq(xs, 1, i) = Append(SubSeq(xs, 1, i - 1), xs[i])
      BY PrefixIs
    <3> QED BY <2>1, <2>2, <3>1, Zenon
  <2>5. <<i, q>> \in G
    BY <2>2, <2>4
  <2> HIDE DEF G
  <2> QED BY <2>3, <2>5
<1>4. Advances(G, "node", TRUE, xs, n)
  <2> HIDE DEF G
  <2> QED BY <1>3 DEF Advances
<1>5. <<n, Folded("node", TRUE, NewHashmap, xs)>> \in G
  <2> HIDE DEF G
  <2> QED BY <1>1, <1>2, <1>4, FoldInduct
<1>6. Folded("node", TRUE, NewHashmap, xs) = Gathered(xs, TRUE)
  BY FoldsAre
<1> QED BY <1>5, <1>6, WholePrefix

KeysApart(xs) == \A i, j \in DOMAIN xs : xs[i].key = xs[j].key => i = j

(* The string keys of xs are none of m's. *)
NewStrs(m, xs) == \A i \in DOMAIN xs : xs[i].key \notin Int => xs[i].key \notin KeysOf(m)

(* Elements appended to an array, their integer keys numbered anew *)
LEMMA GatheredAnew ==
  ASSUME NEW m \in Hashmap, NEW xs \in Seq(Node)
  PROVE  LET r == Folded("node", FALSE, m, xs)  l == Len(m.node)  n == Len(xs)
         IN /\ r \in Hashmap /\ Len(r.node) = l + n
            /\ \A i \in 1..l : r.node[i] = m.node[i]
            /\ \A i \in 1..n : r.node[l + i].val = xs[i].val
            /\ Above(m) => Above(r)
            /\ Above(m) /\ Distinct(m) /\ KeysApart(xs) /\ NewStrs(m, xs) => Distinct(r)
<1> DEFINE l == Len(m.node)  n == Len(xs)
           Ok == Above(m) /\ Distinct(m) /\ KeysApart(xs) /\ NewStrs(m, xs)
           Q(i, r) == /\ r \in Hashmap /\ Len(r.node) = l + i
                      /\ \A j \in 1..l : r.node[j] = m.node[j]
                      /\ \A j \in 1..i : r.node[l + j].val = xs[j].val
                      /\ Above(m) => Above(r)
                      /\ Ok => Distinct(r)
                      /\ \A k \in KeysOf(r) : k \in Int \/ k \in KeysOf(m) \/ \E j \in 1..i : k = xs[j].key
           G == {g \in (0..n) \X Hashmap : Q(g[1], g[2])}
<1>1. l \in Nat /\ n \in Nat /\ DOMAIN xs = 1..n /\ \A i \in 1..n : xs[i] \in Node
  BY Parts, SeqParts
<1>2. <<0, m>> \in G
  <2>1. Q(0, m)
    BY <1>1
  <2> HIDE DEF Q
  <2> QED BY <2>1, <1>1
<1>3. ASSUME NEW i \in 1..n, NEW r, <<i - 1, r>> \in G
      PROVE  <<i, Step("node", FALSE, r, xs[i])>> \in G
  <2> DEFINE x == xs[i]  q == InsertNode(r, x, FALSE)  h == Len(r.node)
  <2>1. Q(i - 1, r) /\ r \in Hashmap
    BY <1>3
  <2>2. x \in Node
    BY <1>1
  <2> HIDE DEF x
  <2>3. /\ q \in Hashmap /\ Len(q.node) = h + 1
        /\ \A j \in 1..h : q.node[j] = r.node[j]
        /\ q.node[h + 1].val = x.val
    BY <2>1, <2>2, InsertNodeIs
  <2>4. x.key \in Int => q = InsertAuto(r, x.val)
    BY <2>1, <2>2, InsertNodeIs
  <2>5. x.key \notin Int => /\ KeysOf(q) = KeysOf(r) \cup {x.key}
                            /\ (Distinct(r) /\ x.key \notin KeysOf(r) => Distinct(q))
                            /\ q.next = r.next
    BY <2>1, <2>2, InsertNodeIs
  <2>6. x.val \in Value /\ r.next \in Int
    BY <2>1, <2>2, Parts DEF Node
  <2>7. LET a == InsertAuto(r, x.val)
        IN /\ Above(r) => Above(a)
           /\ Above(r) /\ Distinct(r) => Distinct(a)
           /\ KeysOf(a) = KeysOf(r) \cup {r.next}
    BY <2>1, <2>6, InsertAutoIs
  <2>8. Step("node", FALSE, r, xs[i]) = q
    BY DEF Step, x
  <2> HIDE DEF q
  <2>9. i - 1 \in Nat /\ l + (i - 1) + 1 = l + i /\ h = l + (i - 1) /\ Len(q.node) = l + i
    BY <1>1, <2>1, <2>3
  <2>10. \A j \in 1..l : q.node[j] = m.node[j]
    BY <1>1, <2>1, <2>3, <2>9
  <2>11. ASSUME NEW j \in 1..i PROVE q.node[l + j].val = xs[j].val
    <3>1. CASE j = i
      BY <3>1, <1>1, <2>3, <2>9 DEF x
    <3>2. CASE j \in 1..(i - 1)
      <4>1. l + j \in 1..h
        BY <3>2, <1>1, <2>9
      <4> QED BY <3>2, <4>1, <2>1, <2>3
    <3> QED BY <3>1, <3>2
  <2>12. ASSUME Above(m) PROVE Above(q)
    <3>1. CASE x.key \in Int
      BY <3>1, <2>1, <2>4, <2>7, <2>12
    <3>2. CASE x.key \notin Int
      BY <3>2, <2>1, <2>5, <2>12 DEF Above
    <3> QED BY <3>1, <3>2
  <2>13. ASSUME Ok PROVE Distinct(q)
    <3>1. CASE x.key \in Int
      BY <3>1, <2>1, <2>4, <2>7, <2>13
    <3>2. CASE x.key \notin Int
      <4>1. x.key \notin KeysOf(m)
        BY <3>2, <2>13, <1>1 DEF NewStrs, x
      <4>2. \A j \in 1..(i - 1) : x.key # xs[j].key
        BY <2>13, <1>1 DEF KeysApart, x
      <4>3. x.key \notin KeysOf(r)
        BY <3>2, <4>1, <4>2, <2>1
      <4> QED BY <3>2, <4>3, <2>1, <2>5, <2>13
    <3> QED BY <3>1, <3>2
  <2>14. ASSUME NEW k \in KeysOf(q) PROVE k \in Int \/ k \in KeysOf(m) \/ \E j \in 1..i : k = xs[j].key
    <3>1. k \in KeysOf(r) \/ k \in Int \/ k = xs[i].key
      BY <2>14, <2>4, <2>5, <2>6, <2>7 DEF x
    <3> QED BY <3>1, <2>1
  <2>15. Q(i, q)
    BY <2>3, <2>9, <2>10, <2>11, <2>12, <2>13, <2>14
  <2>16. i \in 0..n
    OBVIOUS
  <2> HIDE DEF Q
  <2> QED BY <2>3, <2>8, <2>15, <2>16
<1>4. Advances(G, "node", FALSE, xs, n)
  <2> HIDE DEF G
  <2> QED BY <1>3 DEF Advances
<1>5. <<n, Folded("node", FALSE, m, xs)>> \in G
  <2> HIDE DEF G
  <2> QED BY <1>1, <1>2, <1>4, FoldInduct
<1>6. Q(n, Folded("node", FALSE, m, xs))
  BY <1>5
<1> QED BY <1>6

(* The elements of xs in a new array *)
LEMMA GatheredIs ==
  ASSUME NEW xs \in Seq(Node), NEW preserve \in BOOLEAN
  PROVE  LET r == Gathered(xs, preserve)
         IN /\ r \in Hashmap /\ Len(r.node) = Len(xs)
            /\ \A i \in 1..Len(xs) : r.node[i].val = xs[i].val
            /\ KeysApart(xs) => Distinct(r)
<1>1. CASE preserve = TRUE
  BY <1>1, GatheredKept DEF Distinct, KeysApart
<1>2. CASE preserve = FALSE
  <2> DEFINE r == Folded("node", FALSE, NewHashmap, xs)
  <2>1. Gathered(xs, preserve) = r
    BY <1>2, FoldsAre
  <2>2. NewHashmap \in Hashmap /\ Len(NewHashmap.node) = 0 /\ KeysOf(NewHashmap) = {}
        /\ Above(NewHashmap) /\ Distinct(NewHashmap)
    BY NewIs, NewTop DEF Top, KeysOf
  <2>3. /\ r \in Hashmap /\ Len(r.node) = Len(NewHashmap.node) + Len(xs)
        /\ \A i \in 1..Len(xs) : r.node[Len(NewHashmap.node) + i].val = xs[i].val
        /\ KeysApart(xs) /\ NewStrs(NewHashmap, xs) => Distinct(r)
    BY <2>2, GatheredAnew
  <2>4. NewStrs(NewHashmap, xs)
    BY <2>2 DEF NewStrs
  <2>5. Len(xs) \in Nat
    OBVIOUS
  <2> HIDE DEF r
  <2> QED BY <2>1, <2>2, <2>3, <2>4, <2>5
<1> QED BY <1>1, <1>2

(* A copy has the elements of the array, if their keys are distinct. *)
LEMMA CopyIs ==
  ASSUME NEW a \in Hashmap
  PROVE  Copy(a) \in Hashmap /\ (Distinct(a) => Copy(a).node = a.node)
<1> DEFINE n == Len(a.node)  xs == a.node
           Q(i, r) == Distinct(a) => r.node = SubSeq(xs, 1, i)
           G == {g \in (0..n) \X Hashmap : Q(g[1], g[2])}
<1>1. /\ xs \in Seq(Node) /\ n \in Nat /\ DOMAIN xs = 1..n
      /\ \A i \in 1..n : xs[i].key \in Key /\ xs[i].val \in Value
                         /\ xs[i] = [key |-> xs[i].key, val |-> xs[i].val]
  BY Parts
<1>2. <<0, NewHashmap>> \in G
  <2>1. NewHashmap \in Hashmap /\ Q(0, NewHashmap)
    BY <1>1, NewIs, WholePrefix
  <2> HIDE DEF Q
  <2> QED BY <1>1, <2>1
<1>3. ASSUME NEW i \in 1..n, NEW r, <<i - 1, r>> \in G
      PROVE  <<i, Step("dup", 0, r, xs[i])>> \in G
  <2> DEFINE k == xs[i].key  v == xs[i].val  q == Step("dup", 0, r, xs[i])
  <2>1. r \in Hashmap /\ Q(i - 1, r)
    BY <1>3
  <2>2. q = InsertKey(r, k, v) \/ (q = Insert(r, k, v) /\ k \notin Int)
    BY DEF Step
  <2>3. k \in Key /\ v \in Value /\ xs[i] = [key |-> k, val |-> v]
    BY <1>1
  <2>4. InsertKey(r, k, v) \in Hashmap /\ InsertKey(r, k, v).node = Append(r.node, [key |-> k, val |-> v])
    <3> HIDE DEF k, v
    <3> QED BY <2>1, <2>3, InsertKeyIs
  <2>5. /\ Insert(r, k, v) \in Hashmap
        /\ k \notin KeysOf(r) => Insert(r, k, v).node = Append(r.node, [key |-> k, val |-> v])
    <3> HIDE DEF k, v
    <3> QED BY <2>1, <2>3, InsertIs
  <2>6. q \in Hashmap
    BY <2>2, <2>4, <2>5
  <2>7. ASSUME Distinct(a) PROVE q.node = SubSeq(xs, 1, i)
    <3>1. r.node = SubSeq(xs, 1, i - 1)
      BY <2>1, <2>7
    <3>2. /\ SubSeq(xs, 1, i) = Append(r.node, xs[i])
          /\ Len(r.node) = i - 1 /\ \A j \in 1..(i - 1) : r.node[j] = xs[j]
      BY <1>1, <3>1, PrefixIs
    <3>3. k \notin KeysOf(r)
      <4>1. ASSUME NEW j \in 1..(i - 1) PROVE xs[j].key # xs[i].key
        <5>1. j \in DOMAIN a.node /\ i \in DOMAIN a.node /\ j # i
          BY <1>1
        <5> QED BY <5>1, <2>7 DEF Distinct
      <4>2. SUFFICES ASSUME k \in KeysOf(r) PROVE FALSE
        OBVIOUS
      <4>3. PICK j \in 1..(i - 1) : r.node[j].key = k
        <5> HIDE DEF k, v, q, xs, Q
        <5>1. r \in Hashmap
          BY <2>1
        <5>2. \E j \in 1..Len(r.node) : r.node[j].key = k
          BY <5>1, <4>2, KeysOfIs
        <5> QED BY <5>2, <3>2
      <4> QED BY <3>2, <4>1, <4>3
    <3> HIDE DEF k, v, q
    <3> QED BY <2>2, <2>3, <2>4, <2>5, <3>2, <3>3
  <2> HIDE DEF q
  <2>8. Q(i, q)
    BY <2>7
  <2> HIDE DEF Q
  <2> QED BY <2>6, <2>8 DEF q
<1>4. Advances(G, "dup", 0, xs, n)
  <2> HIDE DEF G
  <2> QED BY <1>3 DEF Advances
<1>5. <<n, Folded("dup", 0, NewHashmap, xs)>> \in G
  <2> HIDE DEF G, xs
  <2> QED BY <1>1, <1>2, <1>4, FoldInduct DEF xs
<1>6. Folded("dup", 0, NewHashmap, xs) = Copy(a)
  BY FoldsAre DEF Copy
<1>7. Copy(a) \in Hashmap /\ Q(n, Copy(a))
  BY <1>5, <1>6
<1> QED BY <1>1, <1>7, WholePrefix
----------------------------------------------------------------------------
(* The elements of xs are those of a at the positions J, in order. *)
PickedBy(f, xs, a, J) ==
  /\ f \in [1..Len(xs) -> J]
  /\ \A j \in 1..Len(xs) : xs[j] = a.node[f[j]]
  /\ \A j, k \in 1..Len(xs) : j < k => f[j] < f[k]
  /\ \A p \in J : \E j \in 1..Len(xs) : f[j] = p
Picked(xs, a, J) == Len(xs) = Cardinality(J) /\ \E f : PickedBy(f, xs, a, J)

LEMMA PickOne ==
  ASSUME NEW a \in Hashmap, NEW i \in 1..Len(a.node), NEW J \in SUBSET (1..(i - 1)),
         NEW xs \in Seq(Node), Picked(xs, a, J)
  PROVE  Picked(Append(xs, a.node[i]), a, J \cup {i})
<1> DEFINE ys == Append(xs, a.node[i])  n == Len(xs)  K == J \cup {i}
<1>1. PICK f : PickedBy(f, xs, a, J)
  BY DEF Picked
<1> DEFINE g == [j \in 1..(n + 1) |-> IF j = n + 1 THEN i ELSE f[j]]
<1>2. n \in Nat /\ i \in Nat /\ a.node[i] \in Node
  BY Parts
<1>3. /\ ys \in Seq(Node) /\ Len(ys) = n + 1 /\ (\A j \in 1..n : ys[j] = xs[j]) /\ ys[n + 1] = a.node[i]
  BY <1>2, AppendProperties
<1>4. f \in [1..n -> J] /\ (\A j \in 1..n : xs[j] = a.node[f[j]])
      /\ (\A j, k \in 1..n : j < k => f[j] < f[k]) /\ (\A p \in J : \E j \in 1..n : f[j] = p)
  BY <1>1 DEF PickedBy
<1>5. ASSUME NEW j \in 1..n PROVE f[j] \in J /\ f[j] \in 1..(i - 1) /\ g[j] = f[j]
  <2>1. f[j] \in J
    BY <1>4
  <2>2. f[j] \in 1..(i - 1)
    BY <2>1
  <2>3. g[j] = f[j]
    BY <1>2
  <2> QED BY <2>1, <2>2, <2>3
<1>6. g[n + 1] = i
  BY <1>2
<1>7. g \in [1..(n + 1) -> K]
  <2>1. ASSUME NEW j \in 1..(n + 1) PROVE (IF j = n + 1 THEN i ELSE f[j]) \in K
    <3>1. CASE j = n + 1
      BY <3>1
    <3>2. CASE j # n + 1
      <4>1. j \in 1..n
        BY <3>2, <1>2
      <4> QED BY <3>2, <4>1, <1>5
    <3> QED BY <3>1, <3>2
  <2> HIDE DEF K
  <2> QED BY <2>1
<1> HIDE DEF g, ys
<1>8. \A j \in 1..(n + 1) : ys[j] = a.node[g[j]]
  <2>1. \A j \in 1..(n + 1) : j = n + 1 \/ j \in 1..n
    BY <1>2
  <2> QED BY <2>1, <1>3, <1>4, <1>5, <1>6
<1>9. ASSUME NEW j \in 1..(n + 1), NEW k \in 1..(n + 1), j < k PROVE g[j] < g[k]
  <2>1. j \in 1..n
    BY <1>2, <1>9
  <2>2. CASE k = n + 1
    BY <2>1, <2>2, <1>2, <1>5, <1>6
  <2>3. CASE k \in 1..n
    BY <2>1, <2>3, <1>4, <1>5, <1>9
  <2> QED BY <2>2, <2>3, <1>2
<1>10. ASSUME NEW p \in K PROVE \E j \in 1..(n + 1) : g[j] = p
  <2>1. CASE p = i
    BY <2>1, <1>2, <1>6
  <2>2. CASE p \in J
    <3>1. PICK j \in 1..n : f[j] = p
      BY <2>2, <1>4
    <3> QED BY <3>1, <1>2, <1>5
  <2> QED BY <2>1, <2>2
<1>11. Cardinality(K) = n + 1
  <2>1. IsFiniteSet(J) /\ i \notin J
    <3>1. IsFiniteSet(1..(i - 1))
      BY <1>2, FS_Interval
    <3>2. i \notin J
      BY <1>2
    <3> QED BY <3>1, <3>2, FS_Subset
  <2>2. Cardinality(J) = n
    BY DEF Picked
  <2>3. Cardinality(J \cup {i}) = Cardinality(J) + 1
    BY <2>1, FS_AddElement
  <2> QED BY <2>2, <2>3
<1>12. PickedBy(g, ys, a, K)
  BY <1>3, <1>7, <1>8, <1>9, <1>10 DEF PickedBy
<1> QED BY <1>3, <1>11, <1>12 DEF Picked, ys

(* The elements at the positions I *)
LEMMA AtIs ==
  ASSUME NEW a \in Hashmap, NEW I
  PROVE  At(a, I) \in Seq(Node) /\ Picked(At(a, I), a, I \cap 1..Len(a.node))
<1> DEFINE n == Len(a.node)
           Q(i, xs) == Picked(xs, a, I \cap 1..i)
           G == {g \in (0..n) \X Seq(Node) : Q(g[1], g[2])}
<1>1. n \in Nat /\ DOMAIN Positions(a) = 1..n /\ \A i \in 1..n : Positions(a)[i] = i /\ a.node[i] \in Node
  BY Parts, PositionsAre
<1> DEFINE empty == <<>>
<1>2. <<0, empty>> \in G
  <2>1. I \cap 1..0 = {} /\ Len(<<>>) = 0 /\ <<>> \in Seq(Node) /\ Cardinality({}) = 0
    BY FS_EmptySet
  <2>2. PickedBy([j \in 1..0 |-> 0], <<>>, a, {})
    BY <2>1 DEF PickedBy
  <2>3. Picked(<<>>, a, {})
    BY <2>1, <2>2 DEF Picked
  <2>4. Q(0, empty) /\ empty \in Seq(Node)
    BY <2>1, <2>3
  <2> HIDE DEF Q, empty
  <2> QED BY <2>4, <1>1
<1>3. ASSUME NEW i \in 1..n, NEW xs, <<i - 1, xs>> \in G
      PROVE  <<i, Step("at", <<a, I>>, xs, Positions(a)[i])>> \in G
  <2>1. xs \in Seq(Node) /\ Picked(xs, a, I \cap 1..(i - 1))
    BY <1>3
  <2>2. Step("at", <<a, I>>, xs, Positions(a)[i]) = IF i \in I THEN Append(xs, a.node[i]) ELSE xs
    BY <1>1 DEF Step
  <2>3. i \in 0..n
    OBVIOUS
  <2>4. CASE i \in I
    <3>1. (I \cap 1..(i - 1)) \cup {i} = I \cap 1..i
      BY <2>4
    <3>2. I \cap 1..(i - 1) \in SUBSET (1..(i - 1))
      OBVIOUS
    <3>3. Picked(Append(xs, a.node[i]), a, (I \cap 1..(i - 1)) \cup {i})
      BY <2>1, <3>2, PickOne
    <3>4. Append(xs, a.node[i]) \in Seq(Node)
      BY <1>1, <2>1
    <3>5. Q(i, Append(xs, a.node[i]))
      BY <3>1, <3>3
    <3> HIDE DEF Q
    <3> QED BY <2>2, <2>3, <2>4, <3>4, <3>5
  <2>5. CASE i \notin I
    <3>1. I \cap 1..(i - 1) = I \cap 1..i
      BY <2>5
    <3>2. Q(i, xs)
      BY <2>1, <3>1
    <3> HIDE DEF Q
    <3> QED BY <2>1, <2>2, <2>3, <2>5, <3>2
  <2> QED BY <2>4, <2>5
<1>4. Advances(G, "at", <<a, I>>, Positions(a), n)
  <2> HIDE DEF G
  <2> QED BY <1>3 DEF Advances
<1>5. <<n, Folded("at", <<a, I>>, <<>>, Positions(a))>> \in G
  <2> HIDE DEF G
  <2> QED BY <1>1, <1>2, <1>4, FoldInduct
<1>6. Folded("at", <<a, I>>, <<>>, Positions(a)) = At(a, I)
  BY PositionFoldsAre
<1> HIDE DEF Q
<1>7. At(a, I) \in Seq(Node) /\ Q(n, At(a, I))
  BY <1>5, <1>6
<1> QED BY <1>7 DEF Q

LEMMA PickedApart ==
  ASSUME NEW a \in Hashmap, NEW J \in SUBSET (1..Len(a.node)), NEW xs \in Seq(Node), Picked(xs, a, J)
  PROVE  /\ Distinct(a) => KeysApart(xs)
         /\ {xs[j] : j \in DOMAIN xs} = {a.node[i] : i \in J}
         /\ \A k : (\E j \in DOMAIN xs : xs[j].key = k) <=> (\E i \in J : a.node[i].key = k)
<1>1. PICK f : PickedBy(f, xs, a, J)
  BY DEF Picked
<1>2. DOMAIN xs = 1..Len(xs) /\ Len(xs) \in Nat /\ DOMAIN a.node = 1..Len(a.node) /\ Len(a.node) \in Nat
  BY Parts
<1>3. \A j \in 1..Len(xs) : f[j] \in J /\ xs[j] = a.node[f[j]]
  BY <1>1 DEF PickedBy
<1>4. \A p \in J : \E j \in 1..Len(xs) : f[j] = p
  BY <1>1 DEF PickedBy
<1>5. ASSUME Distinct(a), NEW j \in 1..Len(xs), NEW k \in 1..Len(xs), xs[j].key = xs[k].key PROVE j = k
  <2>0. f[j] \in 1..Len(a.node) /\ f[k] \in 1..Len(a.node)
    BY <1>3
  <2>1. f[j] = f[k]
    BY <2>0, <1>2, <1>3, <1>5 DEF Distinct
  <2>2. f[j] \in Int /\ f[k] \in Int
    BY <2>0
  <2>3. ~(j < k) /\ ~(k < j)
    BY <2>1, <2>2, <1>1 DEF PickedBy
  <2> QED BY <2>3
<1>6. Distinct(a) => KeysApart(xs)
  BY <1>2, <1>5 DEF KeysApart
<1>7. \A i \in J : \E j \in DOMAIN xs : xs[j] = a.node[i]
  <2>1. ASSUME NEW i \in J PROVE \E j \in DOMAIN xs : xs[j] = a.node[i]
    <3>1. PICK j \in 1..Len(xs) : f[j] = i
      BY <1>4
    <3> QED BY <3>1, <1>2, <1>3
  <2> QED BY <2>1
<1>8. \A j \in DOMAIN xs : \E i \in J : xs[j] = a.node[i]
  BY <1>2, <1>3
<1>9. {xs[j] : j \in DOMAIN xs} = {a.node[i] : i \in J}
  <2>1. ASSUME NEW x \in {xs[j] : j \in DOMAIN xs} PROVE x \in {a.node[i] : i \in J}
    <3>1. PICK j \in DOMAIN xs : x = xs[j]
      OBVIOUS
    <3>2. PICK i \in J : xs[j] = a.node[i]
      BY <1>8
    <3> QED BY <3>1, <3>2
  <2>2. ASSUME NEW x \in {a.node[i] : i \in J} PROVE x \in {xs[j] : j \in DOMAIN xs}
    <3>1. PICK i \in J : x = a.node[i]
      OBVIOUS
    <3>2. PICK j \in DOMAIN xs : xs[j] = a.node[i]
      BY <1>7
    <3> QED BY <3>1, <3>2
  <2> QED BY <2>1, <2>2
<1>10. \A k : (\E j \in DOMAIN xs : xs[j].key = k) <=> (\E i \in J : a.node[i].key = k)
  BY <1>7, <1>8
<1> QED BY <1>6, <1>9, <1>10

(* What array_diff(), array_intersect() and array_filter() keep *)
LEMMA KeptIs ==
  ASSUME NEW a \in Hashmap, NEW I
  PROVE  /\ Kept(a, I) \in Hashmap /\ Kept(a, I).node = At(a, I)
         /\ Distinct(a) => Distinct(Kept(a, I))
<1>1. At(a, I) \in Seq(Node) /\ Picked(At(a, I), a, I \cap 1..Len(a.node))
  BY AtIs
<1>2. Kept(a, I) \in Hashmap /\ Kept(a, I).node = At(a, I)
  BY <1>1, GatheredKept DEF Kept
<1>3. Distinct(a) => KeysApart(At(a, I))
  BY <1>1, PickedApart
<1> QED BY <1>2, <1>3 DEF Distinct, KeysApart

(* array_unique() *)
LEMMA UniqueIs ==
  ASSUME NEW a \in Hashmap, NEW strict
  PROVE  Unique(a, strict) \in Hashmap /\ (Distinct(a) => Distinct(Unique(a, strict)))
<1> DEFINE n == Len(a.node)  xs == a.node
           Q(i, r) == Distinct(a) => /\ Distinct(r)
                                     /\ \A k \in KeysOf(r) : \E j \in 1..i : xs[j].key = k
           G == {g \in (0..n) \X Hashmap : Q(g[1], g[2])}
<1>1. n \in Nat /\ DOMAIN xs = 1..n /\ \A i \in 1..n : xs[i] \in Node
  BY Parts
<1>2. <<0, NewHashmap>> \in G
  <2>1. NewHashmap \in Hashmap /\ Distinct(NewHashmap) /\ KeysOf(NewHashmap) = {}
    BY NewTop, NewIs DEF Uniq, KeysOf
  <2>2. Q(0, NewHashmap)
    BY <2>1
  <2> HIDE DEF Q
  <2> QED BY <1>1, <2>1, <2>2
<1>3. ASSUME NEW i \in 1..n, NEW r, <<i - 1, r>> \in G
      PROVE  <<i, Step("unique", strict, r, xs[i])>> \in G
  <2> DEFINE x == xs[i]  q == InsertNode(r, x, TRUE)
  <2>1. r \in Hashmap /\ Q(i - 1, r) /\ i \in 0..n
    BY <1>3
  <2>2. Step("unique", strict, r, xs[i]) = q \/ Step("unique", strict, r, xs[i]) = r
    BY DEF Step
  <2>3. x \in Node
    BY <1>1
  <2>4. /\ q \in Hashmap /\ KeysOf(q) = KeysOf(r) \cup {x.key}
        /\ Distinct(r) /\ x.key \notin KeysOf(r) => Distinct(q)
    <3> HIDE DEF x
    <3> QED BY <2>1, <2>3, InsertNodeIs
  <2> HIDE DEF q
  <2>5. Q(i, r)
    BY <2>1
  <2>6. Q(i, q)
    <3>1. ASSUME Distinct(a)
          PROVE  Distinct(q) /\ \A k \in KeysOf(q) : \E j \in 1..i : xs[j].key = k
      <4>1. Distinct(r) /\ \A k \in KeysOf(r) : \E j \in 1..(i - 1) : xs[j].key = k
        BY <2>1, <3>1
      <4>2. x.key \notin KeysOf(r)
        <5>1. \A j \in 1..(i - 1) : xs[j].key # xs[i].key
          BY <3>1, <1>1 DEF Distinct
        <5> QED BY <4>1, <5>1
      <4>3. \A k \in KeysOf(q) : \E j \in 1..i : xs[j].key = k
        BY <4>1, <2>4
      <4> QED BY <4>1, <4>2, <4>3, <2>4
    <3> QED BY <3>1
  <2> HIDE DEF Q
  <2> QED BY <2>1, <2>2, <2>4, <2>5, <2>6
<1>4. Advances(G, "unique", strict, xs, n)
  <2> HIDE DEF G
  <2> QED BY <1>3 DEF Advances
<1>5. <<n, Folded("unique", strict, NewHashmap, xs)>> \in G
  <2> HIDE DEF G, xs
  <2> QED BY <1>1, <1>2, <1>4, FoldInduct DEF xs
<1>6. Folded("unique", strict, NewHashmap, xs) = Unique(a, strict)
  BY FoldsAre
<1>7. Unique(a, strict) \in Hashmap /\ Q(n, Unique(a, strict))
  BY <1>5, <1>6
<1> QED BY <1>7

(* A fold of nothing, and of two *)
LEMMA FoldNone ==
  ASSUME NEW how, NEW p, NEW base
  PROVE  Folded(how, p, base, <<>>) = base
<1> DEFINE G == {<<0, base>>}
<1>1. DOMAIN <<>> = 1..0
  OBVIOUS
<1>2. Advances(G, how, p, <<>>, 0)
  BY DEF Advances
<1>3. <<0, Folded(how, p, base, <<>>)>> \in G
  <2> HIDE DEF G
  <2> QED BY <1>1, <1>2, FoldInduct DEF G
<1> QED BY <1>3

LEMMA FoldTwo ==
  ASSUME NEW how, NEW p, NEW base, NEW x, NEW y
  PROVE  Folded(how, p, base, <<x, y>>) = Step(how, p, Step(how, p, base, x), y)
<1> DEFINE s == <<x, y>>  u == Step(how, p, base, x)  w == Step(how, p, u, y)
           G == {<<0, base>>, <<1, u>>, <<2, w>>}
<1>1. DOMAIN s = 1..2 /\ s[1] = x /\ s[2] = y
  OBVIOUS
<1> HIDE DEF s
<1>2. Advances(G, how, p, s, 2)
  <2>1. ASSUME NEW i \in 1..2, NEW m, <<i - 1, m>> \in G
        PROVE  <<i, Step(how, p, m, s[i])>> \in G
    <3>1. CASE i = 1
      <4>1. m = base
        BY <2>1, <3>1
      <4> QED BY <3>1, <4>1, <1>1
    <3>2. CASE i = 2
      <4>1. m = u
        BY <2>1, <3>2
      <4> QED BY <3>2, <4>1, <1>1
    <3> QED BY <3>1, <3>2
  <2> HIDE DEF G
  <2> QED BY <2>1 DEF Advances
<1>3. <<0, base>> \in G
  OBVIOUS
<1>4. <<2, Folded(how, p, base, s)>> \in G
  <2> HIDE DEF G
  <2> QED BY <1>1, <1>2, <1>3, FoldInduct
<1>5. Folded(how, p, base, s) = w
  <2> HIDE DEF w, u
  <2> QED BY <1>4
<1> QED BY <1>5 DEF s

(* array_merge() and array_replace() of two arrays *)
LEMMA PairsAre ==
  ASSUME NEW a \in Hashmap, NEW b \in Hashmap
  PROVE  /\ ArrayMerge(<<a, b>>) = Merge(b, Merge(a, NewHashmap))
         /\ Replace(<<a, b>>) = Overwrite(b, Overwrite(a, NewHashmap))
         /\ ArrayMerge(<<a, b>>) \in Top /\ Replace(<<a, b>>) \in Top
<1>1. ArrayMerge(<<a, b>>) = Merge(b, Merge(a, NewHashmap))
  <2>1. ArrayMerge(<<a, b>>) = Folded("merges", 0, NewHashmap, <<a, b>>)
    BY FoldsAre
  <2>2. Folded("merges", 0, NewHashmap, <<a, b>>)
          = Step("merges", 0, Step("merges", 0, NewHashmap, a), b)
    BY FoldTwo
  <2>3. \A x, m : Step("merges", 0, m, x) = Merge(x, m)
    BY DEF Step
  <2> QED BY <2>1, <2>2, <2>3
<1>2. Replace(<<a, b>>) = Overwrite(b, Overwrite(a, NewHashmap))
  <2>1. Replace(<<a, b>>) = Folded("replaces", 0, NewHashmap, <<a, b>>)
    BY FoldsAre
  <2>2. Folded("replaces", 0, NewHashmap, <<a, b>>)
          = Step("replaces", 0, Step("replaces", 0, NewHashmap, a), b)
    BY FoldTwo
  <2>3. \A x, m : Step("replaces", 0, m, x) = Overwrite(x, m)
    BY DEF Step
  <2> QED BY <2>1, <2>2, <2>3
<1>3. \A s \in Hashmap : \A d \in Top : Merge(s, d) \in Top /\ Overwrite(s, d) \in Top
  <2>1. ASSUME NEW s \in Hashmap, NEW d \in Top PROVE Merge(s, d) \in Top /\ Overwrite(s, d) \in Top
    <3>1. d \in Hashmap /\ NULL \in Value
      BY KeyOrValue DEF Top
    <3>2. ClosedFold("insert", 0, d, s.node)
      BY <3>1, InsertFolds
    <3>3. Overwrite(s, d) = Folded("insert", 0, d, s.node)
      BY FoldsAre
    <3> QED BY <3>1, <3>2, <3>3, MergeIs DEF ClosedFold
  <2> QED BY <2>1
<1> QED BY <1>1, <1>2, <1>3, NewTop
----------------------------------------------------------------------------
(* A part of a sequence *)
LEMMA PartIs ==
  ASSUME NEW S, NEW s \in Seq(S), NEW o \in Nat, NEW l \in Nat, o + l <= Len(s)
  PROVE  LET r == SubSeq(s, o + 1, o + l)
         IN r \in Seq(S) /\ Len(r) = l /\ DOMAIN r = 1..l /\ \A j \in 1..l : r[j] = s[o + j]
<1> DEFINE r == SubSeq(s, o + 1, o + l)
<1>1. Len(s) \in Nat /\ \A i \in 1..Len(s) : s[i] \in S
  OBVIOUS
<1>2. \A i \in (o + 1)..(o + l) : s[i] \in S
  BY <1>1
<1>3. /\ r \in Seq(S) /\ Len(r) = IF o + 1 <= o + l THEN o + l - (o + 1) + 1 ELSE 0
      /\ \A i \in 1..(o + l - (o + 1) + 1) : r[i] = s[o + 1 + i - 1]
  <2>1. o + 1 \in Int /\ o + l \in Int
    OBVIOUS
  <2> QED BY <2>1, <1>2, SubSeqProperties
<1> HIDE DEF r
<1>4. Len(r) = l
  BY <1>3
<1>5. \A j \in 1..l : r[j] = s[o + j]
  <2>1. ASSUME NEW j \in 1..l PROVE r[j] = s[o + j]
    <3>1. j \in 1..(o + l - (o + 1) + 1) /\ o + 1 + j - 1 = o + j
      OBVIOUS
    <3> QED BY <3>1, <1>3
  <2> QED BY <2>1
<1>6. r \in Seq(S) /\ DOMAIN r = 1..l
  BY <1>3, <1>4
<1> QED BY <1>4, <1>5, <1>6 DEF r

LEMMA PartApart ==
  ASSUME NEW s \in Seq(Node), NEW o \in Nat, NEW l \in Nat, o + l <= Len(s), KeysApart(s)
  PROVE  KeysApart(SubSeq(s, o + 1, o + l))
<1> DEFINE r == SubSeq(s, o + 1, o + l)
<1>1. DOMAIN r = 1..l /\ \A j \in 1..l : r[j] = s[o + j]
  <2>1. LET q == SubSeq(s, o + 1, o + l)
        IN q \in Seq(Node) /\ Len(q) = l /\ DOMAIN q = 1..l /\ \A j \in 1..l : q[j] = s[o + j]
    BY PartIs
  <2> QED BY <2>1
<1> HIDE DEF r
<1>2. \A j \in 1..l : o + j \in DOMAIN s
  OBVIOUS
<1>3. ASSUME NEW i \in 1..l, NEW j \in 1..l, r[i].key = r[j].key PROVE i = j
  <2>1. o + i \in DOMAIN s /\ o + j \in DOMAIN s /\ s[o + i].key = s[o + j].key
    BY <1>1, <1>2, <1>3
  <2>2. o + i = o + j
    BY <2>1 DEF KeysApart
  <2> QED BY <2>2
<1>4. KeysApart(r)
  BY <1>1, <1>3 DEF KeysApart
<1> QED BY <1>4 DEF r

(* Whatever the offset and the length, the part is within the array. *)
LEMMA OffsetsAre ==
  ASSUME NEW n \in Nat \ {0}, NEW off \in Int, NEW len \in Int
  PROVE  LET o == SliceOffset(n, off)  l == SliceLength(n, o, len)
         IN /\ o \in Nat /\ l \in Nat /\ o + l <= n
            /\ off \in 0..n => o = off
            /\ off < 0 /\ n + off \in 0..n => o = n + off
            /\ len >= 0 /\ o + len <= n => l = len
            /\ len < 0 /\ n + len - o >= 0 => l = n + len - o
  BY DEF SliceOffset, SliceLength

(* array_slice() *)
LEMMA SliceIs ==
  ASSUME NEW a \in Hashmap, a.node # <<>>, NEW off \in Int, NEW len \in Int, NEW preserve \in BOOLEAN
  PROVE  LET o == SliceOffset(Len(a.node), off)  l == SliceLength(Len(a.node), o, len)
             r == Slice(a, off, len, preserve)
         IN /\ r = Gathered(SubSeq(a.node, o + 1, o + l), preserve)
            /\ r \in Hashmap /\ (Distinct(a) => Distinct(r))
            /\ Len(r.node) = l /\ \A j \in 1..l : r.node[j].val = a.node[o + j].val
            /\ preserve => r.node = SubSeq(a.node, o + 1, o + l)
<1> DEFINE n == Len(a.node)  o == SliceOffset(n, off)  l == SliceLength(n, o, len)
           xs == SubSeq(a.node, o + 1, o + l)
<1>1. n \in Nat \ {0} /\ a.node \in Seq(Node)
  BY Parts
<1>2. o \in Nat /\ l \in Nat /\ o + l <= n
  <2> HIDE DEF n
  <2> QED BY <1>1, OffsetsAre
<1>3. Slice(a, off, len, preserve) = Gathered(xs, preserve)
  BY DEF Slice
<1> HIDE DEF o, l
<1>4. xs \in Seq(Node) /\ Len(xs) = l /\ \A j \in 1..l : xs[j] = a.node[o + j]
  BY <1>1, <1>2, PartIs
<1>5. Distinct(a) => KeysApart(xs)
  <2>1. Distinct(a) => KeysApart(a.node)
    BY DEF Distinct, KeysApart
  <2> QED BY <1>1, <1>2, <2>1, PartApart
<1> HIDE DEF xs
<1>6. LET r == Gathered(xs, preserve)
      IN /\ r \in Hashmap /\ Len(r.node) = Len(xs)
         /\ \A i \in 1..Len(xs) : r.node[i].val = xs[i].val
         /\ KeysApart(xs) => Distinct(r)
  BY <1>4, GatheredIs
<1>7. preserve => Gathered(xs, preserve).node = xs
  BY <1>4, GatheredKept
<1> QED BY <1>3, <1>4, <1>5, <1>6, <1>7 DEF xs, o, l

(* Nothing is cut from an empty array. *)
LEMMA SliceEmpty ==
  ASSUME NEW a \in Hashmap, a.node = <<>>, NEW off \in Int, NEW len \in Int, ~Crashes(a, off, len),
         NEW preserve \in BOOLEAN
  PROVE  Slice(a, off, len, preserve) \in Hashmap /\ Distinct(Slice(a, off, len, preserve))
<1> DEFINE o == SliceOffset(0, off)  l == SliceLength(0, o, len)  xs == SubSeq(a.node, o + 1, o + l)
<1>1. o \in Int /\ l \in Int /\ l <= 0
  BY DEF Crashes, SliceOffset, SliceLength
<1>2. Len(a.node) = 0
  OBVIOUS
<1>3. Slice(a, off, len, preserve) = Gathered(xs, preserve)
  BY <1>2 DEF Slice
<1> HIDE DEF o, l
<1>4. xs = <<>>
  <2>1. o + 1 \in Int /\ o + l \in Int /\ o + 1 > o + l
    BY <1>1
  <2> QED BY <2>1, SubSeqEmpty
<1> HIDE DEF xs
<1>5. xs \in Seq(Node) /\ KeysApart(xs)
  BY <1>4 DEF KeysApart
<1> QED BY <1>3, <1>5, GatheredIs

(* array_splice() unlinks k elements from the position p on. *)
LEMMA CutIs ==
  ASSUME NEW a \in Hashmap, NEW p \in Nat \ {0}, NEW k \in Nat, p + k <= Len(a.node) + 1
  PROVE  LET r == Folded("cut", p, a, [i \in 1..k |-> i])
         IN /\ r \in Hashmap /\ Len(r.node) = Len(a.node) - k
            /\ \A j \in 1..(Len(a.node) - k) : r.node[j] = a.node[IF j < p THEN j ELSE j + k]
            /\ KeysOf(r) \subseteq KeysOf(a)
            /\ (Distinct(a) => Distinct(r)) /\ (Above(a) => Above(r))
<1> DEFINE n == Len(a.node)  s == [i \in 1..k |-> i]
           Q(i, r) == /\ Len(r.node) = n - i
                      /\ \A j \in 1..(n - i) : r.node[j] = a.node[IF j < p THEN j ELSE j + i]
                      /\ KeysOf(r) \subseteq KeysOf(a)
                      /\ (Distinct(a) => Distinct(r)) /\ (Above(a) => Above(r))
           G == {g \in (0..k) \X Hashmap : Q(g[1], g[2])}
<1>1. n \in Nat /\ DOMAIN s = 1..k
  BY Parts
<1>2. <<0, a>> \in G
  <2>1. Q(0, a)
    BY <1>1
  <2> HIDE DEF Q
  <2> QED BY <2>1
<1>3. ASSUME NEW i \in 1..k, NEW r, <<i - 1, r>> \in G
      PROVE  <<i, Step("cut", p, r, s[i])>> \in G
  <2> DEFINE q == UnlinkNode(r, p)  h == Len(r.node)
  <2>1. Q(i - 1, r) /\ r \in Hashmap /\ i \in 0..k
    <3> HIDE DEF Q
    <3> QED BY <1>3
  <2>2. h = n - (i - 1) /\ p \in 1..h
    BY <1>1, <2>1
  <2>3. /\ q \in Hashmap /\ Len(q.node) = h - 1
        /\ \A j \in 1..(h - 1) : q.node[j] = r.node[IF j < p THEN j ELSE j + 1]
    BY <2>1, <2>2, UnlinkIs
  <2>4. KeysOf(q) \subseteq KeysOf(r) /\ (Distinct(r) => Distinct(q)) /\ (Above(r) => Above(q))
    BY <2>1, <2>2, UnlinkKeys
  <2>5. Step("cut", p, r, s[i]) = q
    BY DEF Step
  <2> HIDE DEF q
  <2>6. ASSUME NEW j \in 1..(n - i) PROVE q.node[j] = a.node[IF j < p THEN j ELSE j + i]
    <3>1. j \in 1..(h - 1) /\ j \in 1..(n - (i - 1)) /\ j + 1 \in 1..(n - (i - 1))
      BY <1>1, <2>2
    <3>2. CASE j < p
      BY <3>1, <3>2, <2>1, <2>3
    <3>3. CASE ~(j < p)
      <4>1. q.node[j] = r.node[j + 1] /\ ~(j + 1 < p) /\ j + 1 + (i - 1) = j + i
        BY <3>1, <3>3, <2>3
      <4>2. r.node[j + 1] = a.node[j + 1 + (i - 1)]
        BY <3>1, <4>1, <2>1
      <4> QED BY <3>3, <4>1, <4>2
    <3> QED BY <3>2, <3>3
  <2>7. Q(i, q)
    <3>1. Len(q.node) = n - i
      BY <1>1, <2>2, <2>3
    <3> QED BY <2>1, <2>4, <2>6, <3>1
  <2> HIDE DEF Q
  <2> QED BY <2>1, <2>3, <2>5, <2>7
<1>4. Advances(G, "cut", p, s, k)
  <2> HIDE DEF G
  <2> QED BY <1>3 DEF Advances
<1>5. <<k, Folded("cut", p, a, s)>> \in G
  <2> HIDE DEF G, s
  <2> QED BY <1>1, <1>2, <1>4, FoldInduct
<1> QED BY <1>5
----------------------------------------------------------------------------
(* The values of an array from the position o + 1 on replaced *)
LEMMA PutIs ==
  ASSUME NEW a \in Hashmap, NEW o \in Nat, NEW k \in Nat, o + k <= Len(a.node),
         NEW rep \in Seq(Node), k <= Len(rep)
  PROVE  LET r == Put(a, o, k, rep)
         IN /\ r \in Hashmap /\ r.next = a.next /\ Len(r.node) = Len(a.node) /\ KeysOf(r) = KeysOf(a)
            /\ (Distinct(a) => Distinct(r)) /\ (Above(a) => Above(r))
            /\ k = 0 => \A i \in 1..Len(a.node) : r.node[i] = a.node[i]
<1> DEFINE n == Len(a.node)
           w == [i \in 1..n |-> IF i \in (o + 1)..(o + k) THEN rep[i - o].val ELSE a.node[i].val]
           r == Put(a, o, k, rep)
<1>1. /\ n \in Nat /\ DOMAIN a.node = 1..n
      /\ \A i \in 1..n : /\ a.node[i] \in Node /\ a.node[i].val \in Value
                         /\ a.node[i] = [key |-> a.node[i].key, val |-> a.node[i].val]
  BY Parts
<1>2. \A i \in 1..k : rep[i] \in Node /\ rep[i].val \in Value
  <2>1. Len(rep) \in Nat /\ \A i \in 1..Len(rep) : rep[i] \in Node
    BY SeqParts
  <2> QED BY <2>1 DEF Node
<1>3. \A i \in 1..n : w[i] = IF i \in (o + 1)..(o + k) THEN rep[i - o].val ELSE a.node[i].val
  OBVIOUS
<1> HIDE DEF w
<1>4. ASSUME NEW i \in 1..n PROVE w[i] \in Value
  <2>1. CASE i \in (o + 1)..(o + k)
    <3>1. i - o \in 1..k
      BY <2>1
    <3> QED BY <3>1, <2>1, <1>2, <1>3
  <2>2. CASE i \notin (o + 1)..(o + k)
    BY <2>2, <1>1, <1>3
  <2> QED BY <2>1, <2>2
<1>5. ASSUME NEW i \in 1..n
      PROVE  (IF i \in (o + 1)..(o + k) THEN [a.node[i] EXCEPT !.val = rep[i - o].val] ELSE a.node[i])
               = [a.node[i] EXCEPT !.val = w[i]]
  <2>1. \A z : [a.node[i] EXCEPT !.val = z] = [key |-> a.node[i].key, val |-> z]
    BY <1>1, NodeSet
  <2>2. CASE i \in (o + 1)..(o + k)
    BY <2>2, <1>3
  <2>3. CASE i \notin (o + 1)..(o + k)
    BY <2>1, <2>3, <1>1, <1>3
  <2> QED BY <2>2, <2>3
<1>6. [i \in DOMAIN a.node |-> IF i \in (o + 1)..(o + k) THEN [a.node[i] EXCEPT !.val = rep[i - o].val]
                                                        ELSE a.node[i]]
        = [i \in DOMAIN a.node |-> [a.node[i] EXCEPT !.val = w[i]]]
  BY <1>1, <1>5
<1>7. r = [a EXCEPT !.node = [i \in DOMAIN a.node |-> [a.node[i] EXCEPT !.val = w[i]]]]
  BY <1>6 DEF Put
<1>8. Revalued(r, a, w)
  BY <1>4, <1>7 DEF Revalued
<1>9. /\ r \in Hashmap /\ r.next = a.next /\ r.cur = a.cur /\ Len(r.node) = n
      /\ \A i \in 1..n : r.node[i] = [key |-> a.node[i].key, val |-> w[i]]
      /\ KeysOf(r) = KeysOf(a) /\ (Distinct(a) => Distinct(r))
  <2> HIDE DEF r
  <2> QED BY <1>8, ValuesSet
<1>10. Above(a) => Above(r)
  BY <1>9 DEF Above
<1>11. k = 0 => \A i \in 1..n : r.node[i] = a.node[i]
  <2>1. k = 0 => \A i \in 1..n : w[i] = a.node[i].val
    BY <1>3
  <2> QED BY <2>1, <1>1, <1>9
<1> QED BY <1>9, <1>10, <1>11

LEMMA SplicedEmpty ==
  ASSUME NEW a \in Hashmap, a.node = <<>>, NEW off \in Int, NEW len \in Int, ~Crashes(a, off, len), NEW rep
  PROVE  Spliced(a, off, len, rep) = a
<1> DEFINE o == SliceOffset(0, off)  l == SliceLength(0, o, len)
<1>1. l \in Int /\ l < 1
  BY DEF Crashes, SliceOffset, SliceLength
<1>2. Len(a.node) = 0
  OBVIOUS
<1> HIDE DEF l
<1>3. l < 1 => Spliced(a, off, len, rep) = a
  BY <1>2 DEF Spliced, l, o
<1> QED BY <1>1, <1>3

(* array_splice(): without a replacement the elements go, and the others keep their keys *)
LEMMA SplicedIs ==
  ASSUME NEW a \in Hashmap, a.node # <<>>, NEW off \in Int, NEW len \in Int, NEW rep \in Seq(Node)
  PROVE  LET n == Len(a.node)  o == SliceOffset(n, off)  l == SliceLength(n, o, len)
             r == Spliced(a, off, len, rep)
         IN /\ r \in Hashmap
            /\ rep = <<>> => /\ Len(r.node) = n - l
                             /\ \A j \in 1..(n - l) : r.node[j] = a.node[IF j <= o THEN j ELSE j + l]
                             /\ (Distinct(a) => Distinct(r))
            /\ Above(a) /\ Distinct(a) /\ KeysApart(rep) /\ NewStrs(a, rep) => Distinct(r)
<1> DEFINE n == Len(a.node)  o == SliceOffset(n, off)  l == SliceLength(n, o, len)
           both == IF l < Len(rep) THEN l ELSE Len(rep)
           put == Put(a, o, both, rep)
           cut == Unlinked(put, o + both + 1, l - both)
           xs == SubSeq(rep, both + 1, Len(rep))
           r == Spliced(a, off, len, rep)
<1>1. n \in Nat \ {0} /\ Len(rep) \in Nat
  BY Parts
<1>2. o \in Nat /\ l \in Nat /\ o + l <= n
  <2> HIDE DEF n
  <2> QED BY <1>1, OffsetsAre
<1>3. r = IF l < 1 THEN a ELSE InsertNodes(cut, xs, FALSE)
  BY DEF Spliced
<1> HIDE DEF o, l, r
<1>4. both \in Nat /\ both <= l /\ both <= Len(rep) /\ (rep = <<>> => both = 0)
  BY <1>1, <1>2
<1> HIDE DEF both
<1>5. /\ put \in Hashmap /\ put.next = a.next /\ Len(put.node) = n /\ KeysOf(put) = KeysOf(a)
      /\ (Distinct(a) => Distinct(put)) /\ (Above(a) => Above(put))
      /\ both = 0 => \A i \in 1..n : put.node[i] = a.node[i]
  <2>1. o + both <= n
    BY <1>1, <1>2, <1>4
  <2> QED BY <2>1, <1>2, <1>4, PutIs
<1> HIDE DEF put
<1> DEFINE p == o + both + 1  k == l - both
<1>6. p \in Nat \ {0} /\ k \in Nat /\ p + k <= Len(put.node) + 1
  <2>1. Len(put.node) = n
    BY <1>5
  <2> HIDE DEF n
  <2> QED BY <1>1, <1>2, <1>4, <2>1
<1> HIDE DEF p, k
<1>7. /\ cut \in Hashmap /\ Len(cut.node) = n - k
      /\ \A j \in 1..(n - k) : cut.node[j] = put.node[IF j < p THEN j ELSE j + k]
      /\ KeysOf(cut) \subseteq KeysOf(put)
      /\ (Distinct(put) => Distinct(cut)) /\ (Above(put) => Above(cut))
  <2>1. cut = Folded("cut", p, put, [i \in 1..k |-> i])
    BY UnlinkedFold DEF p, k
  <2> DEFINE c == Folded("cut", p, put, [i \in 1..k |-> i])
  <2>2. /\ c \in Hashmap /\ Len(c.node) = Len(put.node) - k
        /\ \A j \in 1..(Len(put.node) - k) : c.node[j] = put.node[IF j < p THEN j ELSE j + k]
        /\ KeysOf(c) \subseteq KeysOf(put)
        /\ (Distinct(put) => Distinct(c)) /\ (Above(put) => Above(c))
    BY <1>5, <1>6, CutIs
  <2> HIDE DEF c
  <2>3. cut = c
    BY <2>1 DEF c
  <2> HIDE DEF cut
  <2> QED BY <2>2, <2>3, <1>5
<1> HIDE DEF cut
<1>8. xs \in Seq(Node) /\ (KeysApart(rep) => KeysApart(xs)) /\ (rep = <<>> => xs = <<>>)
      /\ (NewStrs(a, rep) => NewStrs(cut, xs))
  <2> DEFINE d == Len(rep) - both
  <2>1. d \in Nat /\ both + d <= Len(rep) /\ xs = SubSeq(rep, both + 1, both + d)
    BY <1>1, <1>4
  <2> HIDE DEF d, xs
  <2>2. xs \in Seq(Node) /\ Len(xs) = d /\ DOMAIN xs = 1..d /\ \A j \in 1..d : xs[j] = rep[both + j]
    BY <2>1, <1>4, PartIs
  <2>3. KeysApart(rep) => KeysApart(xs)
    BY <2>1, <1>4, PartApart
  <2>4. rep = <<>> => xs = <<>>
    <3>1. rep = <<>> => d = 0
      BY <1>4, <1>1, <2>1
    <3> QED BY <3>1, <2>2
  <2>5. ASSUME NewStrs(a, rep) PROVE NewStrs(cut, xs)
    <3>1. \A j \in 1..d : both + j \in DOMAIN rep
      BY <1>1, <1>4, <2>1
    <3>2. KeysOf(cut) \subseteq KeysOf(a)
      BY <1>5, <1>7
    <3> QED BY <2>2, <2>5, <3>1, <3>2 DEF NewStrs
  <2> QED BY <2>2, <2>3, <2>4, <2>5
<1> HIDE DEF xs
<1> DEFINE q == InsertNodes(cut, xs, FALSE)
<1>9. q = Folded("node", FALSE, cut, xs)
  BY InsertNodesFold
<1>10. /\ q \in Hashmap
       /\ Above(cut) /\ Distinct(cut) /\ KeysApart(xs) /\ NewStrs(cut, xs) => Distinct(q)
  BY <1>7, <1>8, <1>9, GatheredAnew
<1>11. xs = <<>> => q = cut
  BY <1>9, FoldNone
<1> HIDE DEF q
<1>12. r \in Hashmap
  BY <1>3, <1>10 DEF q
<1>13. ASSUME Above(a) /\ Distinct(a) /\ KeysApart(rep) /\ NewStrs(a, rep) PROVE Distinct(r)
  BY <1>3, <1>5, <1>7, <1>8, <1>10, <1>13 DEF q
<1>14. ASSUME rep = <<>>
       PROVE  /\ Len(r.node) = n - l
              /\ \A j \in 1..(n - l) : r.node[j] = a.node[IF j <= o THEN j ELSE j + l]
              /\ (Distinct(a) => Distinct(r))
  <2>1. both = 0 /\ k = l /\ p = o + 1
    BY <1>4, <1>14, <1>2 DEF k, p
  <2>2. CASE l < 1
    BY <2>2, <1>1, <1>2, <1>3
  <2>3. CASE ~(l < 1)
    <3>1. r = cut
      BY <2>3, <1>3, <1>8, <1>11, <1>14 DEF q
    <3>2. ASSUME NEW j \in 1..(n - l) PROVE r.node[j] = a.node[IF j <= o THEN j ELSE j + l]
      <4>1. CASE j <= o
        <5>1. j < p /\ j \in 1..n
          BY <4>1, <2>1, <1>1, <1>2
        <5> QED BY <5>1, <4>1, <2>1, <3>1, <1>5, <1>7
      <4>2. CASE ~(j <= o)
        <5>1. ~(j < p) /\ j + l \in 1..n
          BY <4>2, <2>1, <1>1, <1>2
        <5> QED BY <5>1, <4>2, <2>1, <3>1, <1>5, <1>7
      <4> QED BY <4>1, <4>2
    <3> QED BY <2>1, <3>1, <3>2, <1>5, <1>7
  <2> QED BY <2>2, <2>3
<1> QED BY <1>12, <1>13, <1>14 DEF o, l, r
----------------------------------------------------------------------------
(* The chunks of array_chunk() are arrays, and their keys are apart if those of *)
(* the array are.                                                               *)
LEMMA ChunkIs ==
  ASSUME NEW a \in Hashmap, NEW size \in Nat \ {0}, NEW preserve \in BOOLEAN,
         NEW i \in DOMAIN Chunk(a, size, preserve)
  PROVE  LET r == Chunk(a, size, preserve)[i]
         IN r \in Hashmap /\ (Distinct(a) => Distinct(r))
<1> DEFINE n == Len(a.node)
           count == IF n % size = 0 THEN n \div size - 1 ELSE n \div size + 1
           end == IF i * size < n THEN i * size ELSE n
           o == (i - 1) * size
           xs == SubSeq(a.node, o + 1, end)
<1>1. n \in Nat /\ a.node \in Seq(Node) /\ DOMAIN a.node = 1..n
  BY Parts
<1>2. CASE size >= n
  <2>1. Chunk(a, size, preserve) = <<a>>
    BY <1>2 DEF Chunk
  <2>2. Chunk(a, size, preserve)[i] = a
    BY <2>1
  <2> QED BY <2>2
<1>3. CASE ~(size >= n)
  <2>1. Chunk(a, size, preserve)
          = [c \in 1..count |-> Gathered(SubSeq(a.node, (c - 1) * size + 1,
                                                IF c * size < n THEN c * size ELSE n), preserve)]
    BY <1>3 DEF Chunk
  <2>2. i \in 1..count /\ Chunk(a, size, preserve)[i] = Gathered(xs, preserve)
    BY <2>1
  <2>3. o \in Nat /\ end \in Nat /\ end <= n
    <3>1. i \in Nat /\ i - 1 \in Nat /\ size \in Nat
      BY <2>2
    <3>2. i * size \in Nat /\ (i - 1) * size \in Nat
      BY <3>1
    <3> QED BY <3>2, <1>1
  <2> HIDE DEF o, end, count
  <2>4. xs \in Seq(Node) /\ (Distinct(a) => KeysApart(xs))
    <3>1. CASE o < end
      <4> DEFINE l == end - o
      <4>1. l \in Nat /\ o + l = end /\ o + l <= Len(a.node)
        BY <3>1, <2>3
      <4>2. Distinct(a) => KeysApart(a.node)
        BY DEF Distinct, KeysApart
      <4> HIDE DEF l
      <4>3. SubSeq(a.node, o + 1, o + l) \in Seq(Node)
        BY <4>1, <2>3, <1>1, PartIs
      <4>4. Distinct(a) => KeysApart(SubSeq(a.node, o + 1, o + l))
        BY <4>1, <4>2, <2>3, <1>1, PartApart
      <4> QED BY <4>1, <4>3, <4>4
    <3>2. CASE ~(o < end)
      <4>1. xs = <<>>
        <5>1. o + 1 \in Int /\ end \in Int /\ end < o + 1
          BY <3>2, <2>3
        <5> QED BY <5>1, SubSeqEmpty
      <4>2. xs \in Seq(Node) /\ DOMAIN xs = {}
        <5>1. <<>> \in Seq(Node) /\ DOMAIN <<>> = {}
          OBVIOUS
        <5> HIDE DEF xs
        <5> QED BY <4>1, <5>1
      <4> HIDE DEF xs
      <4> QED BY <4>2 DEF KeysApart
    <3> QED BY <3>1, <3>2
  <2> HIDE DEF xs
  <2>5. Gathered(xs, preserve) \in Hashmap /\ (KeysApart(xs) => Distinct(Gathered(xs, preserve)))
    BY <2>4, GatheredIs
  <2> QED BY <2>2, <2>4, <2>5
<1> QED BY <1>2, <1>3

(* array_reverse() *)
LEMMA ReversedSeq ==
  ASSUME NEW S, NEW s \in Seq(S)
  PROVE  /\ Reverse(s) \in Seq(S) /\ Len(Reverse(s)) = Len(s) /\ DOMAIN Reverse(s) = 1..Len(s)
         /\ \A i \in 1..Len(s) : Reverse(s)[i] = s[Len(s) - i + 1]
<1>1. Len(s) \in Nat /\ Reverse(s) = [i \in 1..Len(s) |-> s[(Len(s) - i) + 1]]
  BY DEF Reverse
<1>2. \A i \in 1..Len(s) : (Len(s) - i) + 1 \in 1..Len(s)
  BY <1>1
<1>3. \A i \in 1..Len(s) : s[(Len(s) - i) + 1] \in S
  BY <1>2
<1> DEFINE r == [i \in 1..Len(s) |-> s[(Len(s) - i) + 1]]
<1>4. r \in Seq(S) /\ Len(r) = Len(s) /\ DOMAIN r = 1..Len(s)
  BY <1>1, <1>3, IsASeq
<1> QED BY <1>1, <1>4

LEMMA ArrayReverseIs ==
  ASSUME NEW a \in Hashmap, NEW preserve \in BOOLEAN
  PROVE  LET r == ArrayReverse(a, preserve)
         IN /\ r \in Hashmap /\ (Distinct(a) => Distinct(r))
            /\ preserve => r.node = Reverse(a.node)
<1> DEFINE xs == Reverse(a.node)  n == Len(a.node)
<1>1. a.node \in Seq(Node) /\ n \in Nat /\ DOMAIN a.node = 1..n
  BY Parts
<1>2. xs \in Seq(Node) /\ DOMAIN xs = 1..n /\ \A i \in 1..n : xs[i] = a.node[n - i + 1]
  BY <1>1, ReversedSeq
<1> HIDE DEF xs
<1>3. ASSUME Distinct(a) PROVE KeysApart(xs)
  <2>1. ASSUME NEW i \in 1..n, NEW j \in 1..n, xs[i].key = xs[j].key PROVE i = j
    <3>1. n - i + 1 \in 1..n /\ n - j + 1 \in 1..n
      BY <1>1
    <3>2. n - i + 1 = n - j + 1
      <4> DEFINE x == n - i + 1  y == n - j + 1
      <4>1. a.node[x].key = a.node[y].key
        BY <2>1, <1>2
      <4> HIDE DEF n, x, y
      <4>2. x \in DOMAIN a.node /\ y \in DOMAIN a.node
        BY <3>1, <1>1 DEF x, y
      <4>3. x = y
        BY <4>1, <4>2, <1>3 DEF Distinct
      <4> QED BY <4>3 DEF x, y
    <3> QED BY <3>2, <1>1
  <2> QED BY <2>1, <1>2 DEF KeysApart
<1>4. LET r == Gathered(xs, preserve) IN r \in Hashmap /\ (KeysApart(xs) => Distinct(r))
  BY <1>2, GatheredIs
<1>5. preserve => Gathered(xs, preserve).node = xs
  BY <1>2, GatheredKept
<1> QED BY <1>3, <1>4, <1>5 DEF ArrayReverse, xs

(* array_pop(), array_shift(), array_push() *)
LEMMA EndsAre ==
  ASSUME NEW a \in Hashmap
  PROVE  /\ Pop(a) \in Hashmap /\ (Distinct(a) => Distinct(Pop(a)))
         /\ Shift(a) \in Hashmap /\ (Distinct(a) => Distinct(Shift(a)))
         /\ \A v \in Value : Push(a, <<v, v>>) \in Hashmap
                             /\ (Above(a) /\ Distinct(a) => Distinct(Push(a, <<v, v>>)))
<1>1. Len(a.node) \in Nat /\ (a.node # <<>> => 1 \in 1..Len(a.node) /\ Len(a.node) \in 1..Len(a.node))
  BY Parts
<1>2. a.node = <<>> => Pop(a) = a /\ Shift(a) = a
  BY DEF Pop, Shift
<1>3. ASSUME a.node # <<>>, NEW i \in 1..Len(a.node)
      PROVE  LET r == UnlinkNode(a, i)
             IN /\ Reset(r) \in Hashmap /\ (Distinct(a) => Distinct(Reset(r)))
                /\ Reset(Reindexed(r)) \in Hashmap /\ (Distinct(a) => Distinct(Reset(Reindexed(r))))
  <2> DEFINE r == UnlinkNode(a, i)  q == Reindexed(r)
  <2>1. r \in Hashmap /\ (Distinct(a) => Distinct(r))
    BY UnlinkIs, UnlinkKeys
  <2> HIDE DEF r
  <2>2. q \in Hashmap /\ (Distinct(r) => Distinct(q))
    BY <2>1, ReindexedIs
  <2> HIDE DEF q
  <2>3. SameBut(Reset(r), r) /\ SameBut(Reset(q), q)
    BY <2>1, <2>2, CursorIs
  <2>4. Reset(r) \in Hashmap /\ Reset(q) \in Hashmap
    BY <2>3 DEF SameBut
  <2>5. (Distinct(r) => Distinct(Reset(r))) /\ (Distinct(q) => Distinct(Reset(q)))
    BY <2>3, SameButKeys
  <2> QED BY <2>1, <2>2, <2>4, <2>5 DEF r, q
<1>4. a.node # <<>> => /\ Pop(a) \in Hashmap /\ (Distinct(a) => Distinct(Pop(a)))
                       /\ Shift(a) \in Hashmap /\ (Distinct(a) => Distinct(Shift(a)))
  BY <1>1, <1>3 DEF Pop, Shift
<1>5. ASSUME NEW v \in Value
      PROVE  Push(a, <<v, v>>) \in Hashmap
             /\ (Above(a) /\ Distinct(a) => Distinct(Push(a, <<v, v>>)))
  <2>1. <<v, v>> \in Seq(Value)
    OBVIOUS
  <2> DEFINE vs == <<v, v>>
  <2> HIDE DEF vs
  <2>2. Added(a, vs) \in Hashmap /\ (Above(a) /\ Distinct(a) => Distinct(Added(a, vs)))
    BY <2>1, AddedIs DEF vs
  <2> QED BY <2>2 DEF Push, vs
<1> QED BY <1>2, <1>4, <1>5
----------------------------------------------------------------------------
(* Arrays of values, numbered from 0 *)
LEMMA AddedAnew ==
  ASSUME NEW vs \in Seq(Value)
  PROVE  LET r == Added(NewHashmap, vs)
         IN /\ r \in Top /\ Len(r.node) = Len(vs) /\ r.next = Len(vs)
            /\ \A i \in 1..Len(vs) : r.node[i] = [key |-> i - 1, val |-> vs[i]]
<1> DEFINE r == Added(NewHashmap, vs)
<1>1. NewHashmap \in Hashmap /\ Len(NewHashmap.node) = 0 /\ NewHashmap.next = 0
      /\ Above(NewHashmap) /\ Distinct(NewHashmap) /\ Len(vs) \in Nat
  BY NewIs, NewTop DEF Top
<1>2. /\ r \in Hashmap /\ Len(r.node) = Len(NewHashmap.node) + Len(vs)
      /\ r.next = NewHashmap.next + Len(vs)
      /\ \A i \in 1..Len(vs) : r.node[Len(NewHashmap.node) + i] = [key |-> NewHashmap.next + (i - 1), val |-> vs[i]]
      /\ Above(r) /\ Distinct(r)
  BY <1>1, AddedIs
<1> HIDE DEF r
<1>3. \A i \in 1..Len(vs) : r.node[i] = [key |-> i - 1, val |-> vs[i]]
  BY <1>1, <1>2
<1> QED BY <1>1, <1>2, <1>3 DEF Top, r

LEMMA ValuesAre ==
  ASSUME NEW a \in Hashmap
  PROVE  /\ Values(a) \in Seq(Value) /\ Len(Values(a)) = Len(a.node) /\ DOMAIN Values(a) = 1..Len(a.node)
         /\ \A i \in 1..Len(a.node) : Values(a)[i] = a.node[i].val
<1>1. Len(a.node) \in Nat /\ DOMAIN a.node = 1..Len(a.node) /\ \A i \in 1..Len(a.node) : a.node[i].val \in Value
  BY Parts
<1>2. Values(a) = [i \in 1..Len(a.node) |-> a.node[i].val]
  BY <1>1 DEF Values
<1> DEFINE r == [i \in 1..Len(a.node) |-> a.node[i].val]
<1>3. r \in Seq(Value) /\ Len(r) = Len(a.node) /\ DOMAIN r = 1..Len(a.node)
  BY <1>1, IsASeq
<1> QED BY <1>2, <1>3

(* The keys of nodes, as values *)
LEMMA KeysOfNodes ==
  ASSUME NEW xs \in Seq(Node)
  PROVE  LET r == [i \in DOMAIN xs |-> xs[i].key]
         IN r \in Seq(Value) /\ Len(r) = Len(xs) /\ \A i \in 1..Len(xs) : r[i] = xs[i].key
<1> DEFINE n == Len(xs)  r == [i \in 1..n |-> xs[i].key]
<1>1. n \in Nat /\ DOMAIN xs = 1..n /\ \A i \in 1..n : xs[i].key \in Value
  <2>1. n \in Nat /\ DOMAIN xs = 1..n /\ \A i \in 1..n : xs[i] \in Node
    BY SeqParts
  <2>2. \A x \in Node : x.key \in Value
    BY KeyOrValue DEF Node
  <2> QED BY <2>1, <2>2
<1>2. r \in Seq(Value) /\ Len(r) = n
  BY <1>1, IsASeq
<1> QED BY <1>1, <1>2

LEMMA NumberedAnew ==
  ASSUME NEW a \in Hashmap
  PROVE  /\ ArrayValues(a) \in Top /\ Numbered(ArrayValues(a))
         /\ Len(ArrayValues(a).node) = Len(a.node)
         /\ \A i \in 1..Len(a.node) : ArrayValues(a).node[i].val = a.node[i].val
         /\ ArrayKeys(a) \in Top /\ Len(ArrayKeys(a).node) = Len(a.node)
         /\ \A i \in 1..Len(a.node) : ArrayKeys(a).node[i].val = a.node[i].key
         /\ \A v, strict : KeysFound(a, v, strict) \in Top
<1>0. Len(a.node) \in Nat /\ DOMAIN a.node = 1..Len(a.node) /\ a.node \in Seq(Node)
  BY Parts
<1>1. /\ ArrayValues(a) \in Top /\ Numbered(ArrayValues(a)) /\ Len(ArrayValues(a).node) = Len(a.node)
      /\ \A i \in 1..Len(a.node) : ArrayValues(a).node[i].val = a.node[i].val
  <2> DEFINE vs == Values(a)  r == Added(NewHashmap, vs)
  <2>1. vs \in Seq(Value) /\ Len(vs) = Len(a.node) /\ \A i \in 1..Len(a.node) : vs[i] = a.node[i].val
    BY ValuesAre
  <2> HIDE DEF vs
  <2>2. /\ r \in Top /\ Len(r.node) = Len(vs) /\ r.next = Len(vs)
        /\ \A i \in 1..Len(vs) : r.node[i] = [key |-> i - 1, val |-> vs[i]]
    BY <2>1, AddedAnew
  <2>3. r = ArrayValues(a)
    BY DEF ArrayValues, vs
  <2> HIDE DEF r
  <2>6. \A i \in 1..Len(a.node) : r.node[i].key = i - 1 /\ r.node[i].val = a.node[i].val
    <3>1. ASSUME NEW i \in 1..Len(a.node) PROVE r.node[i].key = i - 1 /\ r.node[i].val = a.node[i].val
      <4>1. r.node[i] = [key |-> i - 1, val |-> vs[i]] /\ vs[i] = a.node[i].val
        BY <2>1, <2>2
      <4> QED BY <4>1
    <3> QED BY <3>1
  <2>4. DOMAIN r.node = 1..Len(r.node)
    BY <2>2, Parts DEF Top
  <2>5. Numbered(r)
    BY <2>1, <2>2, <2>4, <2>6 DEF Numbered
  <2> QED BY <2>1, <2>2, <2>3, <2>5, <2>6
<1>2. ASSUME NEW xs \in Seq(Node)
      PROVE  LET r == Added(NewHashmap, [i \in DOMAIN xs |-> xs[i].key])
             IN r \in Top /\ Len(r.node) = Len(xs) /\ \A i \in 1..Len(xs) : r.node[i].val = xs[i].key
  <2> DEFINE vs == [i \in DOMAIN xs |-> xs[i].key]  r == Added(NewHashmap, vs)
  <2>1. vs \in Seq(Value) /\ Len(vs) = Len(xs) /\ \A i \in 1..Len(xs) : vs[i] = xs[i].key
    BY KeysOfNodes
  <2> HIDE DEF vs
  <2>2. /\ r \in Top /\ Len(r.node) = Len(vs)
        /\ \A i \in 1..Len(vs) : r.node[i] = [key |-> i - 1, val |-> vs[i]]
    BY <2>1, AddedAnew
  <2> HIDE DEF r
  <2>4. ASSUME NEW i \in 1..Len(xs) PROVE r.node[i].val = xs[i].key
    <3>1. r.node[i] = [key |-> i - 1, val |-> vs[i]] /\ vs[i] = xs[i].key
      BY <2>1, <2>2
    <3> QED BY <3>1
  <2>3. r \in Top /\ Len(r.node) = Len(xs) /\ \A i \in 1..Len(xs) : r.node[i].val = xs[i].key
    BY <2>1, <2>2, <2>4
  <2> QED BY <2>3 DEF r, vs
<1>3. /\ ArrayKeys(a) \in Top /\ Len(ArrayKeys(a).node) = Len(a.node)
      /\ \A i \in 1..Len(a.node) : ArrayKeys(a).node[i].val = a.node[i].key
  BY <1>0, <1>2 DEF ArrayKeys
<1>4. ASSUME NEW v, NEW strict PROVE KeysFound(a, v, strict) \in Top
  <2> DEFINE xs == At(a, {i \in DOMAIN a.node : MemObjCmp(a.node[i].val, v, strict) = 0})
  <2>1. xs \in Seq(Node)
    BY AtIs
  <2>2. KeysFound(a, v, strict) = Added(NewHashmap, [i \in DOMAIN xs |-> xs[i].key])
    BY DEF KeysFound
  <2> HIDE DEF xs
  <2> QED BY <2>1, <2>2, <1>2
<1> QED BY <1>1, <1>3, <1>4

LEMMA ArrayRangeIs ==
  ASSUME NEW n \in Nat
  PROVE  ArrayRange(0, n, 1) \in Top
<1> DEFINE vs == [i \in 1..((n - 0) \div 1 + 1) |-> 0 + (i - 1) * 1]
<1>1. ArrayRange(0, n, 1) = Added(NewHashmap, vs)
  BY DEF ArrayRange
<1>2. (n - 0) \div 1 + 1 \in Nat
  OBVIOUS
<1>3. \A i \in 1..((n - 0) \div 1 + 1) : 0 + (i - 1) * 1 \in Value
  BY DEF Value
<1>4. vs \in Seq(Value)
  BY <1>2, <1>3, IsASeq
<1> HIDE DEF vs
<1> QED BY <1>1, <1>4, AddedAnew

(* The values converted in place *)
LEMMA ConvertedIs ==
  ASSUME NEW a \in Hashmap, NEW f, \A i \in 1..Len(a.node) : f[a.node[i].val] \in Value
  PROVE  /\ KeysSearched(a) \in Hashmap /\ (Distinct(a) => Distinct(KeysSearched(a)))
         /\ KeysForced(a) \in Hashmap /\ (Distinct(a) => Distinct(KeysForced(a)))
         /\ Walk(a, f) \in Hashmap /\ (Distinct(a) => Distinct(Walk(a, f)))
<1> DEFINE n == Len(a.node)
<1>1. n \in Nat /\ DOMAIN a.node = 1..n /\ \A i \in 1..n : a.node[i].val \in Value /\ a.node[i] \in Node
  BY Parts
<1>2. ASSUME NEW r, NEW w, Revalued(r, a, w) PROVE r \in Hashmap /\ (Distinct(a) => Distinct(r))
  BY <1>2, ValuesSet
<1>3. Revalued(KeysSearched(a), a, [i \in 1..n |-> NULL])
  <2>1. \A i \in 1..n : [i_1 \in 1..n |-> NULL][i] = NULL /\ NULL \in Value
    BY KeyOrValue
  <2>2. [i \in DOMAIN a.node |-> [a.node[i] EXCEPT !.val = NULL]]
          = [i \in DOMAIN a.node |-> [a.node[i] EXCEPT !.val = [i_1 \in 1..n |-> NULL][i]]]
    BY <1>1
  <2> DEFINE w == [i \in 1..n |-> NULL]
  <2> HIDE DEF w
  <2> QED BY <2>1, <2>2 DEF Revalued, KeysSearched, w
<1>4. Revalued(KeysForced(a), a, [i \in 1..n |-> AsKey(a.node[i].val)])
  <2> DEFINE w == [i \in 1..n |-> AsKey(a.node[i].val)]
  <2>1. \A i \in 1..n : w[i] = AsKey(a.node[i].val)
    OBVIOUS
  <2> HIDE DEF w
  <2>2. \A i \in 1..n : w[i] \in Value
    BY <1>1, <2>1, KeyOrValue
  <2>3. [i \in DOMAIN a.node |-> [a.node[i] EXCEPT !.val = AsKey(a.node[i].val)]]
          = [i \in DOMAIN a.node |-> [a.node[i] EXCEPT !.val = w[i]]]
    BY <1>1, <2>1
  <2>4. KeysForced(a) = [a EXCEPT !.node = [i \in DOMAIN a.node |-> [a.node[i] EXCEPT !.val = AsKey(a.node[i].val)]]]
    BY DEF KeysForced
  <2>5. KeysForced(a) = [a EXCEPT !.node = [i \in DOMAIN a.node |-> [a.node[i] EXCEPT !.val = w[i]]]]
    BY <2>3, <2>4
  <2> QED BY <2>2, <2>5 DEF Revalued, w
<1>5. Revalued(Walk(a, f), a, [i \in 1..n |-> f[a.node[i].val]])
  <2> DEFINE w == [i \in 1..n |-> f[a.node[i].val]]
  <2>1. \A i \in 1..n : w[i] = f[a.node[i].val]
    OBVIOUS
  <2> HIDE DEF w
  <2>2. \A i \in 1..n : w[i] \in Value
    BY <2>1
  <2>3. [i \in DOMAIN a.node |-> [a.node[i] EXCEPT !.val = f[a.node[i].val]]]
          = [i \in DOMAIN a.node |-> [a.node[i] EXCEPT !.val = w[i]]]
    BY <1>1, <2>1
  <2>4. Walk(a, f) = [a EXCEPT !.node = [i \in DOMAIN a.node |-> [a.node[i] EXCEPT !.val = f[a.node[i].val]]]]
    BY DEF Walk
  <2>5. Walk(a, f) = [a EXCEPT !.node = [i \in DOMAIN a.node |-> [a.node[i] EXCEPT !.val = w[i]]]]
    BY <2>3, <2>4
  <2> QED BY <2>2, <2>5 DEF Revalued, w
<1> QED BY <1>2, <1>3, <1>4, <1>5

LEMMA TimesIs ==
  ASSUME NEW n \in Nat, NEW v \in Value
  PROVE  Times(n, v) \in Seq(Value)
  BY IsASeq DEF Times

(* array_fill(), array_fill_keys(), array_combine(), array_flip(), array_map() *)
LEMMA MadeAnew ==
  ASSUME NEW a \in Hashmap, NEW v \in Value, NEW n \in Int
  PROVE  /\ Fill(n, n, v) \in Top /\ FillKeys(a, v) \in Top /\ Flip(a) \in Top
         /\ \A b \in Hashmap : Len(b.node) = Len(a.node) => Combine(a, b) \in Top
         /\ \A f : (\A i \in 1..Len(a.node) : f[a.node[i].val] \in Value) => ArrayMap(a, f) \in Top
<1>1. Fill(n, n, v) \in Top
  <2> DEFINE r == Insert(NewHashmap, n, v)  vs == Times(IF n > 1 THEN n - 1 ELSE 0, v)
  <2>1. r \in Top
    BY NewTop, InsertsClosed DEF Key
  <2>2. vs \in Seq(Value)
    BY TimesIs
  <2> HIDE DEF r, vs
  <2>3. Added(r, vs) \in Top
    BY <2>1, <2>2, AddedIs DEF Top
  <2> QED BY <2>3 DEF Fill, r, vs
<1>2. FillKeys(a, v) \in Top /\ Flip(a) \in Top
  <2>1. ClosedFold("fill", v, NewHashmap, a.node) /\ ClosedFold("flip", 0, NewHashmap, a.node)
    BY NewTop, InsertFolds
  <2>2. FillKeys(a, v) = Folded("fill", v, NewHashmap, a.node) /\ Flip(a) = Folded("flip", 0, NewHashmap, a.node)
    BY FoldsAre
  <2> QED BY <2>1, <2>2, NewTop DEF ClosedFold
<1>3. ASSUME NEW b \in Hashmap, Len(b.node) = Len(a.node) PROVE Combine(a, b) \in Top
  <2>1. ClosedFold("combine", <<a, b>>, NewHashmap, Positions(a))
    BY <1>3, CombineFold
  <2>2. Combine(a, b) = Folded("combine", <<a, b>>, NewHashmap, Positions(a))
    BY PositionFoldsAre
  <2> QED BY <2>1, <2>2, NewTop DEF ClosedFold
<1>4. ASSUME NEW f, \A i \in 1..Len(a.node) : f[a.node[i].val] \in Value PROVE ArrayMap(a, f) \in Top
  <2>1. ClosedFold("map", f, NewHashmap, a.node)
    BY <1>4, MapFold
  <2>2. ArrayMap(a, f) = Folded("map", f, NewHashmap, a.node)
    BY FoldsAre
  <2> QED BY <2>1, <2>2, NewTop DEF ClosedFold
<1> QED BY <1>1, <1>2, <1>3, <1>4

(* array_pad() *)
LEMMA PadIs ==
  ASSUME NEW a \in Hashmap, NEW v \in Value, NEW size \in Int, PadMax \in Nat
  PROVE  Pad(a, size, v) \in Hashmap /\ (Distinct(a) => Distinct(Pad(a, size, v)))
<1> DEFINE want == IF size < 0 THEN -size ELSE size
           n == (IF want > PadMax THEN PadMax ELSE want) - Len(a.node)
           left == Added(NewHashmap, Times(n, v))
<1>1. n \in Int
  BY Parts
<1>2. Pad(a, size, v) = IF size = 0 THEN NewHashmap ELSE IF n <= 0 THEN Copy(a)
                        ELSE IF size < 0 THEN Merge(a, left) ELSE Added(Merge(a, NewHashmap), Times(n, v))
  BY <1>1 DEF Pad
<1> HIDE DEF n
<1>3. NewHashmap \in Top /\ NewHashmap \in Hashmap
  BY NewTop
<1>4. Copy(a) \in Hashmap /\ (Distinct(a) => Distinct(Copy(a)))
  BY CopyIs DEF Distinct
<1>5. n > 0 => left \in Top /\ Added(Merge(a, NewHashmap), Times(n, v)) \in Top
  <2>1. SUFFICES ASSUME n > 0 PROVE left \in Top /\ Added(Merge(a, NewHashmap), Times(n, v)) \in Top
    OBVIOUS
  <2>2. Times(n, v) \in Seq(Value)
    BY <1>1, <2>1, TimesIs
  <2>3. Merge(a, NewHashmap) \in Top
    BY <1>3, MergeIs
  <2>4. \A m \in Top : Added(m, Times(n, v)) \in Top
    BY <2>2, AddedIs DEF Top
  <2> QED BY <1>3, <2>3, <2>4
<1>6. n > 0 => Merge(a, left) \in Top
  BY <1>5, MergeIs DEF Top
<1> QED BY <1>1, <1>2, <1>3, <1>4, <1>5, <1>6 DEF Top
----------------------------------------------------------------------------
(***************************************************************************)
(* The merge sort.  How often an element is in a sequence, and when a      *)
(* sequence is in order: no element is greater than the next.              *)
(***************************************************************************)
Count(s, x) == Cardinality({i \in DOMAIN s : s[i] = x})
InOrder(s, greater) == \A i \in 1..(Len(s) - 1) : <<s[i], s[i + 1]>> \notin greater

(* less and greater are the two sides of one order of the elements of E. *)
Coherent(less, greater, E) ==
  \A x, y \in E : /\ <<x, y>> \in less => <<x, y>> \notin greater
                  /\ <<x, y>> \notin less => <<y, x>> \notin greater

LEMMA CountIs ==
  ASSUME NEW E, NEW s \in Seq(E), NEW y \in E, NEW x
  PROVE  /\ Count(s, x) \in Nat /\ Count(<<>>, x) = 0
         /\ Count(Append(s, y), x) = Count(s, x) + IF y = x THEN 1 ELSE 0
         /\ Count(s, x) > 0 <=> \E i \in DOMAIN s : s[i] = x
<1> DEFINE n == Len(s)  t == Append(s, y)  A == {i \in 1..n : s[i] = x}  B == {i \in 1..(n + 1) : t[i] = x}
<1>1. n \in Nat /\ DOMAIN s = 1..n /\ t \in Seq(E) /\ Len(t) = n + 1 /\ DOMAIN t = 1..(n + 1)
      /\ (\A i \in 1..n : t[i] = s[i]) /\ t[n + 1] = y
  BY AppendProperties
<1> HIDE DEF t
<1>2. Count(s, x) = Cardinality(A) /\ Count(t, x) = Cardinality(B)
  BY <1>1 DEF Count
<1>3. IsFiniteSet(A)
  <2>1. IsFiniteSet(1..n)
    BY <1>1, FS_Interval
  <2> QED BY <2>1, FS_Subset
<1>4. Cardinality(A) \in Nat
  BY <1>3, FS_CardinalityType
<1>5. B = IF y = x THEN A \cup {n + 1} ELSE A
  <2>1. \A i \in 1..(n + 1) : i \in 1..n \/ i = n + 1
    BY <1>1
  <2>2. n + 1 \in 1..(n + 1) /\ 1..n \subseteq 1..(n + 1)
    BY <1>1
  <2> QED BY <2>1, <2>2, <1>1
<1>6. n + 1 \notin A
  BY <1>1
<1>7. Cardinality(A \cup {n + 1}) = Cardinality(A) + 1
  <2> HIDE DEF A
  <2> QED BY <1>3, <1>6, FS_AddElement
<1>8. Count(t, x) = Count(s, x) + IF y = x THEN 1 ELSE 0
  <2> HIDE DEF A, B
  <2> QED BY <1>2, <1>4, <1>5, <1>7
<1>9. Count(<<>>, x) = 0
  <2>1. {i \in DOMAIN <<>> : <<>>[i] = x} = {}
    OBVIOUS
  <2> QED BY <2>1, FS_EmptySet DEF Count
<1>10. Cardinality(A) = 0 <=> A = {}
  <2> HIDE DEF A
  <2> QED BY <1>3, FS_EmptySet
<1>11. A # {} <=> \E i \in DOMAIN s : s[i] = x
  BY <1>1
<1>12. Count(s, x) > 0 <=> \E i \in DOMAIN s : s[i] = x
  <2> HIDE DEF A
  <2> QED BY <1>2, <1>4, <1>10, <1>11
<1> QED BY <1>2, <1>4, <1>8, <1>9, <1>12 DEF t

LEMMA CountNone ==
  ASSUME NEW x
  PROVE  Count(<<>>, x) = 0
<1>1. {i \in DOMAIN <<>> : <<>>[i] = x} = {}
  OBVIOUS
<1> QED BY <1>1, FS_EmptySet DEF Count

LEMMA CountNat ==
  ASSUME NEW E, NEW s \in Seq(E), NEW x
  PROVE  Count(s, x) \in Nat
<1>1. IsFiniteSet(1..Len(s))
  BY FS_Interval
<1>2. IsFiniteSet({i \in DOMAIN s : s[i] = x})
  BY <1>1, FS_Subset
<1> QED BY <1>2, FS_CardinalityType DEF Count

(* One more of a prefix *)
LEMMA CountPrefix ==
  ASSUME NEW E, NEW s \in Seq(E), NEW i \in 1..Len(s), NEW x
  PROVE  /\ Count(SubSeq(s, 1, i), x) = Count(SubSeq(s, 1, i - 1), x) + IF s[i] = x THEN 1 ELSE 0
         /\ Count(SubSeq(s, 1, i - 1), x) \in Nat
<1>1. /\ SubSeq(s, 1, i) = Append(SubSeq(s, 1, i - 1), s[i])
      /\ SubSeq(s, 1, i - 1) \in Seq(E) /\ s[i] \in E
  BY PrefixIs
<1> DEFINE t == SubSeq(s, 1, i - 1)  y == s[i]
<1> HIDE DEF t, y
<1>2. Count(t, x) \in Nat /\ Count(Append(t, y), x) = Count(t, x) + IF y = x THEN 1 ELSE 0
  <2>1. t \in Seq(E) /\ y \in E
    BY <1>1 DEF t, y
  <2> QED BY <2>1, CountIs
<1> QED BY <1>1, <1>2 DEF t, y

LEMMA OrderGrows ==
  ASSUME NEW E, NEW s \in Seq(E), NEW y \in E, NEW greater, InOrder(s, greater),
         Len(s) > 0 => <<s[Len(s)], y>> \notin greater
  PROVE  InOrder(Append(s, y), greater)
<1> DEFINE n == Len(s)  t == Append(s, y)
<1>1. n \in Nat /\ Len(t) = n + 1 /\ (\A i \in 1..n : t[i] = s[i]) /\ t[n + 1] = y
  BY AppendProperties
<1> HIDE DEF t
<1>2. ASSUME NEW i \in 1..n PROVE <<t[i], t[i + 1]>> \notin greater
  <2>1. CASE i = n
    BY <2>1, <1>1
  <2>2. CASE i # n
    <3>1. i \in 1..(n - 1) /\ i + 1 \in 1..n
      BY <2>2, <1>1
    <3>2. <<s[i], s[i + 1]>> \notin greater
      BY <3>1 DEF InOrder
    <3> QED BY <3>1, <3>2, <1>1
  <2> QED BY <2>1, <2>2
<1>3. InOrder(t, greater)
  BY <1>1, <1>2 DEF InOrder
<1> QED BY <1>3 DEF t
----------------------------------------------------------------------------
(* What has been merged when k elements have gone to the end, r.i of them of p *)
Merging(p, q, E, r, k) ==
  /\ r \in [i : Nat, out : Seq(E)] /\ Len(r.out) = k
  /\ r.i <= k /\ r.i <= Len(p) /\ k - r.i <= Len(q)
Accounted(p, q, r, k, x) ==
  Count(r.out, x) = Count(SubSeq(p, 1, r.i), x) + Count(SubSeq(q, 1, k - r.i), x)
Ordering(p, q, greater, r, k) ==
  /\ InOrder(r.out, greater)
  /\ k > 0 /\ r.i < Len(p) => <<r.out[k], p[r.i + 1]>> \notin greater
  /\ k > 0 /\ k - r.i < Len(q) => <<r.out[k], q[k - r.i + 1]>> \notin greater

(* The element that goes is of p or of q. *)
LEMMA TakenIs ==
  ASSUME NEW E, NEW p \in Seq(E), NEW q \in Seq(E), NEW less,
         NEW k \in 1..(Len(p) + Len(q)), NEW r, Merging(p, q, E, r, k - 1)
  PROVE  LET t == NodeTaken(p, q, less, r, k)
         IN \/ /\ r.i < Len(p) /\ t = [i |-> r.i + 1, out |-> Append(r.out, p[r.i + 1])]
               /\ k - r.i > Len(q) \/ <<p[r.i + 1], q[k - r.i]>> \in less
            \/ /\ k - r.i <= Len(q) /\ t = [i |-> r.i, out |-> Append(r.out, q[k - r.i])]
               /\ r.i < Len(p) => <<p[r.i + 1], q[k - r.i]>> \notin less
<1>1. Len(p) \in Nat /\ Len(q) \in Nat /\ r.i \in Nat /\ r.i <= Len(p)
  BY DEF Merging
<1>2. CASE r.i < Len(p) /\ (k - r.i > Len(q) \/ <<p[r.i + 1], q[k - r.i]>> \in less)
  BY <1>2 DEF NodeTaken
<1>3. CASE ~(r.i < Len(p) /\ (k - r.i > Len(q) \/ <<p[r.i + 1], q[k - r.i]>> \in less))
  <2>1. k - r.i <= Len(q)
    BY <1>1, <1>3
  <2> QED BY <2>1, <1>3 DEF NodeTaken
<1> QED BY <1>2, <1>3

LEMMA TakenMerges ==
  ASSUME NEW E, NEW p \in Seq(E), NEW q \in Seq(E), NEW less, NEW greater, NEW x,
         NEW k \in 1..(Len(p) + Len(q)), NEW r, Merging(p, q, E, r, k - 1)
  PROVE  LET t == NodeTaken(p, q, less, r, k)
         IN /\ Merging(p, q, E, t, k)
            /\ Accounted(p, q, r, k - 1, x) => Accounted(p, q, t, k, x)
            /\ Coherent(less, greater, E) /\ InOrder(p, greater) /\ InOrder(q, greater)
                 /\ Ordering(p, q, greater, r, k - 1) => Ordering(p, q, greater, t, k)
<1> DEFINE t == NodeTaken(p, q, less, r, k)  i == r.i  j == k - r.i  out == r.out
           Ok == Coherent(less, greater, E) /\ InOrder(p, greater) /\ InOrder(q, greater)
                 /\ Ordering(p, q, greater, r, k - 1)
<1>1. /\ Len(p) \in Nat /\ Len(q) \in Nat /\ i \in Nat /\ i <= k - 1 /\ i <= Len(p)
      /\ k - 1 - i <= Len(q) /\ out \in Seq(E) /\ Len(out) = k - 1 /\ k \in Nat
  BY DEF Merging
<1>2. j \in Nat /\ j >= 1 /\ k - 1 - i = j - 1
  BY <1>1
<1>3. ASSUME Ok
      PROVE  /\ InOrder(out, greater)
             /\ Len(out) > 0 /\ i < Len(p) => <<out[Len(out)], p[i + 1]>> \notin greater
             /\ Len(out) > 0 /\ j <= Len(q) => <<out[Len(out)], q[j]>> \notin greater
  <2>1. k - 1 - i + 1 = j /\ (k - 1 - i < Len(q) <=> j <= Len(q))
    BY <1>1
  <2> QED BY <1>1, <1>3, <2>1 DEF Ordering
<1>4. \/ /\ i < Len(p) /\ t = [i |-> i + 1, out |-> Append(out, p[i + 1])]
         /\ j > Len(q) \/ <<p[i + 1], q[j]>> \in less
      \/ /\ j <= Len(q) /\ t = [i |-> i, out |-> Append(out, q[j])]
         /\ i < Len(p) => <<p[i + 1], q[j]>> \notin less
  BY TakenIs
<1> HIDE DEF t, i, j, out
<1>5. CASE /\ i < Len(p) /\ t = [i |-> i + 1, out |-> Append(out, p[i + 1])]
           /\ j > Len(q) \/ <<p[i + 1], q[j]>> \in less
  <2> DEFINE y == p[i + 1]  app == Append(out, y)
  <2>1. i + 1 \in 1..Len(p) /\ y \in E
    BY <1>1, <1>5
  <2>2. /\ t.i = i + 1 /\ t.out = app /\ app \in Seq(E) /\ Len(app) = k /\ app[k] = y
        /\ \A l \in 1..(k - 1) : app[l] = out[l]
    BY <1>1, <1>5, <2>1, AppendProperties
  <2>3. k - t.i = j - 1
    BY <1>1, <1>2, <2>2
  <2> HIDE DEF app
  <2>7. t \in [i : Nat, out : Seq(E)]
    <3>1. i + 1 \in Nat /\ app \in Seq(E) /\ t = [i |-> i + 1, out |-> app]
      BY <1>1, <1>5, <2>2 DEF app
    <3> QED BY <3>1
  <2>4. Merging(p, q, E, t, k)
    <3>1. t.i <= k /\ t.i <= Len(p) /\ k - t.i <= Len(q) /\ Len(t.out) = k
      BY <1>1, <1>2, <2>1, <2>2, <2>3
    <3> QED BY <2>7, <3>1 DEF Merging
  <2>5. ASSUME Accounted(p, q, r, k - 1, x) PROVE Accounted(p, q, t, k, x)
    <3>1. Count(app, x) = Count(out, x) + IF y = x THEN 1 ELSE 0
      BY <1>1, <2>1, CountIs DEF app
    <3>2. /\ Count(SubSeq(p, 1, i + 1), x) = Count(SubSeq(p, 1, i), x) + IF y = x THEN 1 ELSE 0
          /\ Count(SubSeq(p, 1, i), x) \in Nat
      <4> DEFINE h == i + 1
      <4>1. h \in 1..Len(p) /\ h - 1 = i /\ y = p[h]
        BY <1>1, <2>1
      <4> HIDE DEF h, y
      <4>2. /\ Count(SubSeq(p, 1, h), x) = Count(SubSeq(p, 1, h - 1), x) + IF p[h] = x THEN 1 ELSE 0
            /\ Count(SubSeq(p, 1, h - 1), x) \in Nat
        BY <4>1, CountPrefix
      <4> QED BY <4>1, <4>2 DEF h
    <3>3. Count(out, x) = Count(SubSeq(p, 1, i), x) + Count(SubSeq(q, 1, j - 1), x)
      BY <2>5, <1>2 DEF Accounted, out, i
    <3>5. Count(SubSeq(q, 1, j - 1), x) \in Nat
      <4>1. SubSeq(q, 1, j - 1) \in Seq(E)
        <5>1. j - 1 \in Nat /\ 0 + (j - 1) <= Len(q) /\ 0 + 1 = 1 /\ 0 + (j - 1) = j - 1
          BY <1>1, <1>2
        <5> QED BY <5>1, PartIs
      <4> DEFINE z == SubSeq(q, 1, j - 1)
      <4> HIDE DEF y, z
      <4>2. z \in Seq(E) /\ y \in E
        BY <4>1, <2>1 DEF z
      <4>3. Count(z, x) \in Nat
        BY <4>2, CountIs
      <4> QED BY <4>3 DEF z
    <3> HIDE DEF y
    <3> QED BY <2>2, <2>3, <3>1, <3>2, <3>3, <3>5 DEF Accounted
  <2>6. ASSUME Ok PROVE Ordering(p, q, greater, t, k)
    <3>1. InOrder(app, greater)
      BY <1>1, <1>3, <1>5, <2>1, <2>6, OrderGrows DEF app
    <3>2. t.i < Len(p) => <<app[k], p[t.i + 1]>> \notin greater
      <4>1. SUFFICES ASSUME i + 1 < Len(p) PROVE <<p[i + 1], p[i + 1 + 1]>> \notin greater
        BY <2>2
      <4>2. i + 1 \in 1..(Len(p) - 1)
        BY <4>1, <1>1
      <4> QED BY <4>2, <2>6 DEF InOrder
    <3>3. k - t.i < Len(q) => <<app[k], q[k - t.i + 1]>> \notin greater
      <4>1. SUFFICES ASSUME j - 1 < Len(q) PROVE <<y, q[j]>> \notin greater
        <5>1. k - t.i + 1 = j
          BY <1>2, <2>3
        <5> QED BY <5>1, <2>2, <2>3
      <4>2. j \in 1..Len(q) /\ <<y, q[j]>> \in less
        BY <4>1, <1>1, <1>2, <1>5
      <4>3. q[j] \in E
        BY <4>2
      <4> QED BY <4>2, <4>3, <2>1, <2>6 DEF Coherent
    <3> QED BY <2>2, <3>1, <3>2, <3>3 DEF Ordering
  <2> QED BY <2>4, <2>5, <2>6 DEF t, i, out
<1>6. CASE /\ j <= Len(q) /\ t = [i |-> i, out |-> Append(out, q[j])]
           /\ i < Len(p) => <<p[i + 1], q[j]>> \notin less
  <2> DEFINE y == q[j]  app == Append(out, y)
  <2>1. j \in 1..Len(q) /\ y \in E
    BY <1>1, <1>2, <1>6
  <2>2. /\ t.i = i /\ t.out = app /\ app \in Seq(E) /\ Len(app) = k /\ app[k] = y
        /\ \A l \in 1..(k - 1) : app[l] = out[l]
    BY <1>1, <1>6, <2>1, AppendProperties
  <2>3. k - t.i = j
    BY <1>1, <2>2 DEF j, i
  <2> HIDE DEF app
  <2>7. t \in [i : Nat, out : Seq(E)]
    <3>1. i \in Nat /\ app \in Seq(E) /\ t = [i |-> i, out |-> app]
      BY <1>1, <1>6, <2>2 DEF app
    <3> QED BY <3>1
  <2>4. Merging(p, q, E, t, k)
    <3>1. t.i <= k /\ t.i <= Len(p) /\ k - t.i <= Len(q) /\ Len(t.out) = k
      BY <1>1, <1>2, <2>1, <2>2, <2>3
    <3> QED BY <2>7, <3>1 DEF Merging
  <2>5. ASSUME Accounted(p, q, r, k - 1, x) PROVE Accounted(p, q, t, k, x)
    <3>1. Count(app, x) = Count(out, x) + IF y = x THEN 1 ELSE 0
      BY <1>1, <2>1, CountIs DEF app
    <3>2. /\ Count(SubSeq(q, 1, j), x) = Count(SubSeq(q, 1, j - 1), x) + IF y = x THEN 1 ELSE 0
          /\ Count(SubSeq(q, 1, j - 1), x) \in Nat
      BY <2>1, CountPrefix
    <3>3. Count(out, x) = Count(SubSeq(p, 1, i), x) + Count(SubSeq(q, 1, j - 1), x)
      BY <2>5, <1>2 DEF Accounted, out, i
    <3>4. Count(SubSeq(p, 1, i), x) \in Nat
      <4>1. SubSeq(p, 1, i) \in Seq(E)
        <5>1. 0 + i <= Len(p) /\ 0 + 1 = 1 /\ 0 + i = i
          BY <1>1
        <5> QED BY <5>1, <1>1, PartIs
      <4> QED BY <4>1, <2>1, CountIs
    <3> HIDE DEF y
    <3> QED BY <2>2, <2>3, <3>1, <3>2, <3>3, <3>4 DEF Accounted
  <2>6. ASSUME Ok PROVE Ordering(p, q, greater, t, k)
    <3>1. InOrder(app, greater)
      BY <1>1, <1>3, <1>6, <2>1, <2>6, OrderGrows DEF app
    <3>2. t.i < Len(p) => <<app[k], p[t.i + 1]>> \notin greater
      <4>1. SUFFICES ASSUME i < Len(p) PROVE <<y, p[i + 1]>> \notin greater
        BY <2>2
      <4>2. <<p[i + 1], y>> \notin less /\ p[i + 1] \in E
        BY <4>1, <1>1, <1>6
      <4> QED BY <4>2, <2>1, <2>6 DEF Coherent
    <3>3. k - t.i < Len(q) => <<app[k], q[k - t.i + 1]>> \notin greater
      <4>1. SUFFICES ASSUME j < Len(q) PROVE <<q[j], q[j + 1]>> \notin greater
        BY <2>2, <2>3
      <4>2. j \in 1..(Len(q) - 1)
        BY <4>1, <1>1, <1>2
      <4> QED BY <4>2, <2>6 DEF InOrder
    <3> QED BY <2>2, <3>1, <3>2, <3>3 DEF Ordering
  <2> QED BY <2>4, <2>5, <2>6 DEF t, i, out
<1> QED BY <1>4, <1>5, <1>6

(* The merged list has the elements of both, in order if they were. *)
Merges(r, p, q, less, E) ==
  /\ r \in Seq(E) /\ \A x : Count(r, x) = Count(p, x) + Count(q, x)
  /\ \A greater : Coherent(less, greater, E) /\ InOrder(p, greater) /\ InOrder(q, greater)
                  => InOrder(r, greater)

LEMMA MergedIs ==
  ASSUME NEW E, NEW p \in Seq(E), NEW q \in Seq(E), NEW less
  PROVE  Merges(NodeMerge(p, q, less), p, q, less, E)
<1> SUFFICES ASSUME NEW x, NEW greater
             PROVE  LET r == NodeMerge(p, q, less)
                    IN /\ r \in Seq(E) /\ Count(r, x) = Count(p, x) + Count(q, x)
                       /\ Coherent(less, greater, E) /\ InOrder(p, greater) /\ InOrder(q, greater)
                            => InOrder(r, greater)
  BY DEF Merges
<1> DEFINE n == Len(p) + Len(q)  s == [k \in 1..n |-> k]  base == [i |-> 0, out |-> <<>>]
           c == <<p, q, less>>
           Ok == Coherent(less, greater, E) /\ InOrder(p, greater) /\ InOrder(q, greater)
           Q(k, r) == /\ Merging(p, q, E, r, k) /\ Accounted(p, q, r, k, x)
                      /\ Ok => Ordering(p, q, greater, r, k)
           G == {g \in (0..n) \X [i : Nat, out : Seq(E)] : Q(g[1], g[2])}
<1>1. Len(p) \in Nat /\ Len(q) \in Nat /\ n \in Nat /\ DOMAIN s = 1..n
  OBVIOUS
<1>2. <<0, base>> \in G
  <2>1. /\ base \in [i : Nat, out : Seq(E)] /\ base.i = 0 /\ base.out = <<>> /\ Len(<<>>) = 0
        /\ 0 - base.i = 0
    OBVIOUS
  <2> HIDE DEF base
  <2>2. Merging(p, q, E, base, 0)
    BY <1>1, <2>1 DEF Merging
  <2>3. Accounted(p, q, base, 0, x)
    <3>1. SubSeq(p, 1, 0) = <<>> /\ SubSeq(q, 1, 0) = <<>>
      BY WholePrefix
    <3>2. Count(<<>>, x) = 0
      BY FS_EmptySet DEF Count
    <3>3. Count(SubSeq(p, 1, base.i), x) = 0 /\ Count(SubSeq(q, 1, 0 - base.i), x) = 0
          /\ Count(base.out, x) = 0
      BY <2>1, <3>1, <3>2
    <3> QED BY <3>3 DEF Accounted
  <2>4. Ordering(p, q, greater, base, 0)
    BY <2>1 DEF Ordering, InOrder
  <2>5. Q(0, base)
    BY <2>2, <2>3, <2>4
  <2> HIDE DEF Q
  <2> QED BY <1>1, <2>1, <2>5
<1>3. ASSUME NEW k \in 1..n, NEW r, <<k - 1, r>> \in G
      PROVE  <<k, Step("take", c, r, s[k])>> \in G
  <2> DEFINE t == NodeTaken(p, q, less, r, k)
  <2>1. Q(k - 1, r) /\ k \in 0..n
    <3> HIDE DEF Q
    <3> QED BY <1>3
  <2>2. Step("take", c, r, s[k]) = t
    BY DEF Step
  <2>3. Merging(p, q, E, r, k - 1)
    BY <2>1
  <2>4. /\ Merging(p, q, E, t, k)
        /\ Accounted(p, q, r, k - 1, x) => Accounted(p, q, t, k, x)
        /\ Coherent(less, greater, E) /\ InOrder(p, greater) /\ InOrder(q, greater)
             /\ Ordering(p, q, greater, r, k - 1) => Ordering(p, q, greater, t, k)
    BY <2>3, TakenMerges
  <2> HIDE DEF t
  <2>5. Q(k, t)
    BY <2>1, <2>4
  <2>6. t \in [i : Nat, out : Seq(E)]
    BY <2>4 DEF Merging
  <2> HIDE DEF Q
  <2> QED BY <2>1, <2>2, <2>5, <2>6
<1>4. Advances(G, "take", c, s, n)
  <2> HIDE DEF G, c, s
  <2> QED BY <1>3 DEF Advances
<1> DEFINE f == Folded("take", c, base, s)
<1>5. <<n, f>> \in G
  <2> HIDE DEF G, s, c, base
  <2> QED BY <1>1, <1>2, <1>4, FoldInduct
<1>6. NodeMerge(p, q, less) = f.out
  BY DEF NodeMerge, Folded, Step, FoldLeft, MapThenFoldSet
<1> HIDE DEF f
<1>7. Q(n, f)
  <2> HIDE DEF Q
  <2> QED BY <1>5
<1>8. f.i = Len(p) /\ n - f.i = Len(q) /\ f.out \in Seq(E)
  BY <1>1, <1>7 DEF Merging
<1>9. SubSeq(p, 1, Len(p)) = p /\ SubSeq(q, 1, Len(q)) = q
  BY WholePrefix
<1>10. Count(f.out, x) = Count(p, x) + Count(q, x)
  BY <1>7, <1>8, <1>9 DEF Accounted
<1>11. Ok => InOrder(f.out, greater)
  BY <1>7 DEF Ordering
<1> QED BY <1>6, <1>8, <1>10, <1>11
----------------------------------------------------------------------------
(* The buckets: S gives how often x is in those before each, and all are in *)
(* order.                                                                   *)
LastBucket == NSortBucket - 1
Buckets(E) == [0..LastBucket -> Seq(E)]
Sums(S, a, x) ==
  S[0] = 0 /\ \A j \in 0..LastBucket : S[j] \in Nat /\ S[j + 1] = S[j] + Count(a[j], x)
AllInOrder(a, greater) == \A j \in 0..LastBucket : InOrder(a[j], greater)

LEMMA LastIs == LastBucket \in Nat
  BY HashmapAssumption DEF LastBucket

LEMMA FreeBucketIs ==
  ASSUME NEW a
  PROVE  FreeBucket(a) \in 0..LastBucket
<1> DEFINE T == {i \in 0..LastBucket : i = LastBucket \/ a[i] = <<>>}
<1>1. T \in SUBSET Nat /\ T # {}
  BY LastIs
<1> HIDE DEF T
<1>2. PICK i \in T : \A m \in T : i <= m
  BY <1>1, LeastNatural
<1>3. i \in 0..LastBucket /\ (i = LastBucket \/ a[i] = <<>>) /\ \A j \in 0..(i - 1) : a[j] # <<>>
  <2>1. \A j \in 0..(i - 1) : j \notin T
    BY <1>1, <1>2
  <2>2. i \in 0..LastBucket /\ (i = LastBucket \/ a[i] = <<>>)
    BY DEF T
  <2>3. \A j \in 0..(i - 1) : j \in 0..LastBucket
    BY <2>2, LastIs
  <2> QED BY <2>1, <2>2, <2>3 DEF T
<1> QED BY <1>3 DEF FreeBucket, LastBucket

(* An element merged with the runs of the first i buckets *)
LEMMA BucketRunIs ==
  ASSUME NEW E, NEW a \in Buckets(E), NEW y \in E, NEW i \in 0..LastBucket, NEW less, NEW greater, NEW x,
         NEW S, Sums(S, a, x)
  PROVE  LET r == BucketRun(a, y, i, less)
         IN /\ r \in Seq(E) /\ Count(r, x) = S[i] + IF y = x THEN 1 ELSE 0
            /\ Coherent(less, greater, E) /\ AllInOrder(a, greater) => InOrder(r, greater)
<1> DEFINE s == [j \in 1..i |-> j]  c == <<a, less>>  one == IF y = x THEN 1 ELSE 0
           Ok == Coherent(less, greater, E) /\ AllInOrder(a, greater)
           Q(j, r) == Count(r, x) = S[j] + one /\ (Ok => InOrder(r, greater))
           G == {g \in (0..i) \X Seq(E) : Q(g[1], g[2])}
           base == <<y>>
<1>1. i \in Nat /\ DOMAIN s = 1..i /\ one \in Nat /\ S[0] = 0
  BY DEF Sums
<1>2. <<0, base>> \in G
  <2>1. base \in Seq(E) /\ Len(base) = 1 /\ base = Append(<<>>, y) /\ <<>> \in Seq(E)
    OBVIOUS
  <2> HIDE DEF base, one
  <2>2. Count(base, x) = 0 + IF y = x THEN 1 ELSE 0
    <3> DEFINE none == <<>>
    <3> HIDE DEF none
    <3>1. none \in Seq(E)
      BY DEF none
    <3>2. Count(Append(none, y), x) = Count(none, x) + IF y = x THEN 1 ELSE 0
      BY <3>1, CountIs
    <3>3. Count(<<>>, x) = 0
      BY <3>1, CountIs
    <3> QED BY <2>1, <3>2, <3>3 DEF none
  <2>3. InOrder(base, greater)
    BY <2>1 DEF InOrder
  <2>4. Q(0, base)
    BY <1>1, <2>2, <2>3 DEF one
  <2>5. <<0, base>> \in (0..i) \X Seq(E)
    <3>1. 0 \in 0..i
      BY <1>1
    <3> HIDE DEF base
    <3> QED BY <2>1, <3>1, Zenon
  <2> HIDE DEF Q
  <2> QED BY <2>4, <2>5
<1>3. ASSUME NEW j \in 1..i, NEW r, <<j - 1, r>> \in G
      PROVE  <<j, Step("run", c, r, s[j])>> \in G
  <2> DEFINE t == NodeMerge(a[j - 1], r, less)
  <2>1. Q(j - 1, r) /\ j \in 0..i /\ r \in Seq(E)
    <3> HIDE DEF Q
    <3> QED BY <1>3
  <2>2. Step("run", c, r, s[j]) = t
    BY DEF Step
  <2>3. j - 1 \in 0..LastBucket /\ j - 1 + 1 = j
    BY LastIs
  <2>4. a[j - 1] \in Seq(E)
    BY <2>3 DEF Buckets
  <2>5. /\ t \in Seq(E) /\ Count(t, x) = Count(a[j - 1], x) + Count(r, x)
        /\ Coherent(less, greater, E) /\ InOrder(a[j - 1], greater) /\ InOrder(r, greater)
             => InOrder(t, greater)
    <3> DEFINE u == a[j - 1]
    <3>1. u \in Seq(E) /\ r \in Seq(E)
      BY <2>1, <2>4
    <3> HIDE DEF u
    <3>2. Merges(NodeMerge(u, r, less), u, r, less, E)
      BY <3>1, MergedIs
    <3> QED BY <3>2 DEF u, Merges
  <2> HIDE DEF t
  <2>6. S[j - 1] \in Nat /\ S[j] = S[j - 1] + Count(a[j - 1], x)
    BY <2>3 DEF Sums
  <2>7. Count(a[j - 1], x) \in Nat
    BY <2>4, CountNat
  <2>8. Count(t, x) = S[j] + one
    <3> HIDE DEF one
    <3> QED BY <1>1, <2>1, <2>5, <2>6, <2>7
  <2>9. Ok => InOrder(t, greater)
    BY <2>1, <2>3, <2>5 DEF AllInOrder
  <2>10. Q(j, t)
    BY <2>8, <2>9
  <2> HIDE DEF Q
  <2> QED BY <2>1, <2>2, <2>5, <2>10
<1>4. Advances(G, "run", c, s, i)
  <2> HIDE DEF G, c, s
  <2> QED BY <1>3 DEF Advances
<1>5. <<i, Folded("run", c, base, s)>> \in G
  <2> HIDE DEF G, s, c, base
  <2> QED BY <1>1, <1>2, <1>4, FoldInduct
<1>6. BucketRun(a, y, i, less) = Folded("run", c, base, s)
  BY DEF BucketRun, Folded, Step, FoldLeft, MapThenFoldSet
<1>7. BucketRun(a, y, i, less) \in Seq(E) /\ Q(i, BucketRun(a, y, i, less))
  <2> HIDE DEF Q
  <2> QED BY <1>5, <1>6
<1> QED BY <1>7

LEMMA BucketPutIs ==
  ASSUME NEW E, NEW a \in Buckets(E), NEW y \in E, NEW less, NEW greater, NEW x, NEW S, Sums(S, a, x)
  PROVE  LET b == BucketPut(a, y, less)
         IN /\ b \in Buckets(E)
            /\ Coherent(less, greater, E) /\ AllInOrder(a, greater) => AllInOrder(b, greater)
            /\ \E R : Sums(R, b, x) /\ R[LastBucket + 1] = S[LastBucket + 1] + IF y = x THEN 1 ELSE 0
<1> DEFINE i == FreeBucket(a)  b == BucketPut(a, y, less)  one == IF y = x THEN 1 ELSE 0
           run == BucketRun(a, y, i, less)  t == NodeMerge(a[i], run, less)
           R == [j \in 0..(LastBucket + 1) |-> IF j <= i THEN 0 ELSE S[j] + one]
<1>1. i \in 0..LastBucket /\ LastBucket \in Nat /\ one \in Nat
  BY FreeBucketIs, LastIs
<1> HIDE DEF i
<1>2. b = [j \in 0..LastBucket |-> IF j < i THEN <<>> ELSE IF j = i THEN t ELSE a[j]]
  BY DEF BucketPut, LastBucket, i
<1>3. /\ run \in Seq(E) /\ Count(run, x) = S[i] + one
      /\ Coherent(less, greater, E) /\ AllInOrder(a, greater) => InOrder(run, greater)
  BY <1>1, BucketRunIs
<1>4. \A j \in 0..LastBucket : a[j] \in Seq(E) /\ Count(a[j], x) \in Nat
  <2>1. \A j \in 0..LastBucket : a[j] \in Seq(E)
    BY DEF Buckets
  <2> QED BY <2>1, CountNat
<1> HIDE DEF run
<1>5. /\ t \in Seq(E) /\ Count(t, x) = Count(a[i], x) + Count(run, x)
      /\ Coherent(less, greater, E) /\ InOrder(a[i], greater) /\ InOrder(run, greater) => InOrder(t, greater)
  <2> DEFINE u == a[i]
  <2>1. u \in Seq(E) /\ run \in Seq(E)
    BY <1>1, <1>3, <1>4
  <2> HIDE DEF u
  <2>2. Merges(NodeMerge(u, run, less), u, run, less, E)
    BY <2>1, MergedIs
  <2> QED BY <2>2 DEF u, Merges
<1> HIDE DEF t, b, one
<1>6. b \in Buckets(E)
  <2>1. <<>> \in Seq(E)
    OBVIOUS
  <2> QED BY <2>1, <1>2, <1>4, <1>5 DEF Buckets
<1>7. \A j \in 0..LastBucket : b[j] = IF j < i THEN <<>> ELSE IF j = i THEN t ELSE a[j]
  BY <1>2
<1>8. ASSUME Coherent(less, greater, E) /\ AllInOrder(a, greater) PROVE AllInOrder(b, greater)
  <2>1. InOrder(<<>>, greater)
    BY DEF InOrder
  <2>2. InOrder(t, greater)
    BY <1>1, <1>3, <1>5, <1>8 DEF AllInOrder
  <2> QED BY <2>1, <2>2, <1>7, <1>8 DEF AllInOrder
<1>9. Sums(R, b, x)
  <2>1. R[0] = 0
    BY <1>1
  <2>2. ASSUME NEW j \in 0..LastBucket PROVE R[j] \in Nat /\ R[j + 1] = R[j] + Count(b[j], x)
    <3>1. j \in 0..(LastBucket + 1) /\ j + 1 \in 0..(LastBucket + 1)
      BY <1>1
    <3>2. R[j] = (IF j <= i THEN 0 ELSE S[j] + one) /\ R[j + 1] = IF j + 1 <= i THEN 0 ELSE S[j + 1] + one
      BY <3>1
    <3> HIDE DEF R
    <3>3. S[j] \in Nat /\ S[j + 1] = S[j] + Count(a[j], x) /\ Count(a[j], x) \in Nat
      BY <1>4 DEF Sums
    <3>4. CASE j < i
      <4>1. Count(<<>>, x) = 0
        BY CountNone
      <4>2. b[j] = <<>> /\ j <= i /\ j + 1 <= i
        BY <3>4, <1>1, <1>7
      <4> QED BY <3>2, <4>1, <4>2
    <3>5. CASE j = i
      <4>1. b[j] = t /\ Count(t, x) = Count(a[j], x) + (S[j] + one)
        BY <3>5, <1>1, <1>3, <1>5, <1>7
      <4>2. j <= i /\ ~(j + 1 <= i)
        BY <3>5, <1>1
      <4> QED BY <3>2, <3>3, <4>1, <4>2, <1>1
    <3>6. CASE j > i
      <4>1. b[j] = a[j] /\ ~(j <= i) /\ ~(j + 1 <= i)
        BY <3>6, <1>1, <1>7
      <4> QED BY <3>2, <3>3, <4>1, <1>1
    <3> QED BY <3>4, <3>5, <3>6, <1>1
  <2> HIDE DEF R
  <2> QED BY <2>1, <2>2 DEF Sums
<1>10. R[LastBucket + 1] = S[LastBucket + 1] + one
  BY <1>1
<1> HIDE DEF R
<1> QED BY <1>6, <1>8, <1>9, <1>10 DEF b, one

(* All the elements in the buckets, and the buckets in one list *)
LEMMA BucketedIs ==
  ASSUME NEW E, NEW s \in Seq(E), NEW less, NEW greater, NEW x
  PROVE  LET a == Bucketed(s, less)
         IN /\ a \in Buckets(E)
            /\ Coherent(less, greater, E) => AllInOrder(a, greater)
            /\ \E S : Sums(S, a, x) /\ S[LastBucket + 1] = Count(s, x)
<1> DEFINE n == Len(s)  base == [i \in 0..LastBucket |-> <<>>]
           Q(k, a) == /\ Coherent(less, greater, E) => AllInOrder(a, greater)
                      /\ \E S : Sums(S, a, x) /\ S[LastBucket + 1] = Count(SubSeq(s, 1, k), x)
           G == {g \in (0..n) \X Buckets(E) : Q(g[1], g[2])}
<1>1. n \in Nat /\ DOMAIN s = 1..n /\ (\A k \in 1..n : s[k] \in E) /\ LastBucket \in Nat
  BY LastIs
<1>2. <<0, base>> \in G
  <2>1. base \in Buckets(E) /\ \A j \in 0..LastBucket : base[j] = <<>>
    BY DEF Buckets
  <2> HIDE DEF base
  <2>2. AllInOrder(base, greater)
    BY <2>1 DEF AllInOrder, InOrder
  <2>3. Count(<<>>, x) = 0
    BY CountNone
  <2>4. SubSeq(s, 1, 0) = <<>>
    BY WholePrefix
  <2> DEFINE S == [j \in 0..(LastBucket + 1) |-> 0]
  <2>5. Sums(S, base, x) /\ S[LastBucket + 1] = 0
    <3>1. \A j \in 0..(LastBucket + 1) : S[j] = 0
      OBVIOUS
    <3>2. 0 \in 0..(LastBucket + 1) /\ LastBucket + 1 \in 0..(LastBucket + 1)
          /\ \A j \in 0..LastBucket : j \in 0..(LastBucket + 1) /\ j + 1 \in 0..(LastBucket + 1)
      BY <1>1
    <3> HIDE DEF S
    <3> QED BY <2>1, <2>3, <3>1, <3>2 DEF Sums
  <2> HIDE DEF S
  <2>6. Q(0, base)
    BY <2>2, <2>3, <2>4, <2>5
  <2> HIDE DEF Q
  <2> QED BY <1>1, <2>1, <2>6
<1>3. ASSUME NEW k \in 1..n, NEW a, <<k - 1, a>> \in G
      PROVE  <<k, Step("put", less, a, s[k])>> \in G
  <2> DEFINE y == s[k]  b == BucketPut(a, y, less)
  <2>1. Q(k - 1, a) /\ k \in 0..n /\ a \in Buckets(E)
    <3> HIDE DEF Q
    <3> QED BY <1>3
  <2>2. PICK S : Sums(S, a, x) /\ S[LastBucket + 1] = Count(SubSeq(s, 1, k - 1), x)
    BY <2>1
  <2>3. Step("put", less, a, s[k]) = b
    BY DEF Step
  <2>4. y \in E
    BY <1>1
  <2>5. Count(SubSeq(s, 1, k), x) = Count(SubSeq(s, 1, k - 1), x) + IF y = x THEN 1 ELSE 0
    BY CountPrefix
  <2> HIDE DEF y
  <2>6. /\ b \in Buckets(E)
        /\ Coherent(less, greater, E) /\ AllInOrder(a, greater) => AllInOrder(b, greater)
        /\ \E R : Sums(R, b, x) /\ R[LastBucket + 1] = S[LastBucket + 1] + IF y = x THEN 1 ELSE 0
    BY <2>1, <2>2, <2>4, BucketPutIs
  <2> HIDE DEF b
  <2>7. Q(k, b)
    <3>1. PICK R : Sums(R, b, x) /\ R[LastBucket + 1] = S[LastBucket + 1] + IF y = x THEN 1 ELSE 0
      BY <2>6
    <3>2. R[LastBucket + 1] = Count(SubSeq(s, 1, k), x)
      BY <2>2, <2>5, <3>1
    <3>3. Coherent(less, greater, E) => AllInOrder(b, greater)
      BY <2>1, <2>6
    <3> QED BY <3>1, <3>2, <3>3
  <2> HIDE DEF Q
  <2> QED BY <2>1, <2>3, <2>6, <2>7
<1>4. Advances(G, "put", less, s, n)
  <2> HIDE DEF G
  <2> QED BY <1>3 DEF Advances
<1>5. <<n, Folded("put", less, base, s)>> \in G
  <2> HIDE DEF G, base
  <2> QED BY <1>1, <1>2, <1>4, FoldInduct
<1>6. Bucketed(s, less) = Folded("put", less, base, s)
  BY DEF Bucketed, Folded, Step, FoldLeft, MapThenFoldSet, LastBucket
<1>7. Bucketed(s, less) \in Buckets(E) /\ Q(n, Bucketed(s, less))
  <2> HIDE DEF Q
  <2> QED BY <1>5, <1>6
<1>8. SubSeq(s, 1, n) = s
  BY WholePrefix
<1> QED BY <1>7, <1>8

LEMMA BucketsMergedIs ==
  ASSUME NEW E, NEW a \in Buckets(E), NEW less, NEW greater, NEW x, NEW S, Sums(S, a, x)
  PROVE  LET r == BucketsMerged(a, less)
         IN /\ r \in Seq(E) /\ Count(r, x) = S[LastBucket + 1]
            /\ Coherent(less, greater, E) /\ AllInOrder(a, greater) => InOrder(r, greater)
<1> DEFINE s == [i \in 1..LastBucket |-> i]  c == <<a, less>>
           Ok == Coherent(less, greater, E) /\ AllInOrder(a, greater)
           Q(k, r) == Count(r, x) = S[k + 1] /\ (Ok => InOrder(r, greater))
           G == {g \in (0..LastBucket) \X Seq(E) : Q(g[1], g[2])}
<1>1. LastBucket \in Nat /\ DOMAIN s = 1..LastBucket
  BY LastIs
<1>2. \A j \in 0..LastBucket : a[j] \in Seq(E)
  BY DEF Buckets
<1>3. <<0, a[0]>> \in G
  <2>1. a[0] \in Seq(E) /\ 0 \in 0..LastBucket
    BY <1>1, <1>2
  <2>2. S[0 + 1] = S[0] + Count(a[0], x) /\ S[0] = 0
    BY <2>1 DEF Sums
  <2>3. Count(a[0], x) \in Nat
    BY <2>1, CountNat
  <2>4. Ok => InOrder(a[0], greater)
    BY <2>1 DEF AllInOrder
  <2>5. Q(0, a[0])
    BY <2>2, <2>3, <2>4
  <2> HIDE DEF Q
  <2> QED BY <1>1, <2>1, <2>5
<1>4. ASSUME NEW k \in 1..LastBucket, NEW r, <<k - 1, r>> \in G
      PROVE  <<k, Step("runs", c, r, s[k])>> \in G
  <2> DEFINE u == a[k]  t == NodeMerge(r, u, less)
  <2>1. Q(k - 1, r) /\ k \in 0..LastBucket /\ r \in Seq(E)
    <3> HIDE DEF Q
    <3> QED BY <1>4
  <2>2. Step("runs", c, r, s[k]) = t
    BY DEF Step
  <2>3. u \in Seq(E) /\ S[k] \in Nat /\ S[k + 1] = S[k] + Count(u, x)
    BY <1>2, <2>1 DEF Sums
  <2>4. Ok => InOrder(u, greater)
    BY <2>1 DEF AllInOrder
  <2> HIDE DEF u
  <2>5. /\ t \in Seq(E) /\ Count(t, x) = Count(r, x) + Count(u, x)
        /\ Coherent(less, greater, E) /\ InOrder(r, greater) /\ InOrder(u, greater) => InOrder(t, greater)
    <3>1. Merges(NodeMerge(r, u, less), r, u, less, E)
      BY <2>1, <2>3, MergedIs
    <3> QED BY <3>1 DEF Merges
  <2> HIDE DEF t
  <2>6. Count(r, x) = S[k]
    <3>1. k - 1 + 1 = k
      OBVIOUS
    <3> QED BY <2>1, <3>1
  <2>7. Q(k, t)
    BY <2>1, <2>3, <2>4, <2>5, <2>6
  <2> HIDE DEF Q
  <2> QED BY <2>1, <2>2, <2>5, <2>7
<1>5. Advances(G, "runs", c, s, LastBucket)
  <2> HIDE DEF G, c, s
  <2> QED BY <1>4 DEF Advances
<1>6. <<LastBucket, Folded("runs", c, a[0], s)>> \in G
  <2> HIDE DEF G, s, c
  <2> QED BY <1>1, <1>3, <1>5, FoldInduct
<1>7. BucketsMerged(a, less) = Folded("runs", c, a[0], s)
  BY DEF BucketsMerged, Folded, Step, FoldLeft, MapThenFoldSet, LastBucket
<1>8. BucketsMerged(a, less) \in Seq(E) /\ Q(LastBucket, BucketsMerged(a, less))
  <2> HIDE DEF Q
  <2> QED BY <1>6, <1>7
<1> QED BY <1>8
----------------------------------------------------------------------------
(* An array with other elements in its list, the cursor on the first *)
LEMMA ResetNodes ==
  ASSUME NEW m \in Hashmap, NEW q \in Seq(Node)
  PROVE  LET r == Reset([m EXCEPT !.node = q])
         IN r \in Hashmap /\ r.node = q /\ r.next = m.next
<1>1. m = [node |-> m.node, next |-> m.next, cur |-> m.cur] /\ m.next \in Int
  BY Parts
<1> DEFINE d == [node |-> q, next |-> m.next, cur |-> m.cur]  c == IF q = <<>> THEN 0 ELSE 1
<1>2. [m EXCEPT !.node = q] = d
  BY <1>1
<1>3. Reset(d) = [node |-> q, next |-> m.next, cur |-> c]
  BY DEF Reset
<1>4. c \in Nat /\ c <= Len(q)
  OBVIOUS
<1>5. [node |-> q, next |-> m.next, cur |-> c] \in Hashmap
  <2> HIDE DEF c
  <2> QED BY <1>1, <1>4, Made
<1> HIDE DEF d
<1> QED BY <1>2, <1>3, <1>5

(* The same elements, each as often, in some order *)
Permuted(q, s) == \A x : Count(q, x) = Count(s, x)

LEMMA PermutedKeeps ==
  ASSUME NEW m \in Hashmap, NEW q \in Seq(Node), Permuted(q, m.node)
  PROVE  /\ {q[i] : i \in DOMAIN q} = {m.node[i] : i \in DOMAIN m.node}
         /\ Distinct(m) => KeysApart(q)
<1>1. m.node \in Seq(Node) /\ DOMAIN m.node = 1..Len(m.node) /\ Len(m.node) \in Nat
      /\ DOMAIN q = 1..Len(q) /\ Len(q) \in Nat
  BY Parts
<1>2. ASSUME NEW x \in Node PROVE (\E i \in DOMAIN q : q[i] = x) <=> \E i \in DOMAIN m.node : m.node[i] = x
  <2>1. Count(q, x) > 0 <=> \E i \in DOMAIN q : q[i] = x
    BY <1>2, CountIs
  <2>2. Count(m.node, x) > 0 <=> \E i \in DOMAIN m.node : m.node[i] = x
    <3> DEFINE s == m.node
    <3>1. s \in Seq(Node)
      BY <1>1
    <3> HIDE DEF s
    <3>2. Count(s, x) > 0 <=> \E i \in DOMAIN s : s[i] = x
      BY <3>1, <1>2, CountIs
    <3> QED BY <3>2 DEF s
  <2> QED BY <2>1, <2>2 DEF Permuted
<1>3. {q[i] : i \in DOMAIN q} = {m.node[i] : i \in DOMAIN m.node}
  <2>1. (\A i \in DOMAIN q : q[i] \in Node) /\ \A i \in DOMAIN m.node : m.node[i] \in Node
    BY <1>1
  <2>2. ASSUME NEW x \in {q[i] : i \in DOMAIN q} PROVE x \in {m.node[i] : i \in DOMAIN m.node}
    BY <1>2, <2>1
  <2>3. ASSUME NEW x \in {m.node[i] : i \in DOMAIN m.node} PROVE x \in {q[i] : i \in DOMAIN q}
    BY <1>2, <2>1
  <2> QED BY <2>2, <2>3
<1>4. ASSUME Distinct(m), NEW i \in DOMAIN q, NEW j \in DOMAIN q, q[i].key = q[j].key PROVE i = j
  <2>1. PICK k \in DOMAIN m.node : m.node[k] = q[i]
    BY <1>3
  <2>2. PICK l \in DOMAIN m.node : m.node[l] = q[j]
    BY <1>3
  <2>3. k = l
    BY <1>4, <2>1, <2>2 DEF Distinct
  <2> DEFINE x == q[i]  A == {h \in DOMAIN q : q[h] = x}
  <2>4. q[j] = x
    BY <2>1, <2>2, <2>3
  <2>5. {h \in DOMAIN m.node : m.node[h] = x} = {k}
    <3>1. ASSUME NEW h \in DOMAIN m.node, m.node[h] = x PROVE h = k
      BY <1>4, <2>1, <3>1 DEF Distinct
    <3> QED BY <2>1, <3>1
  <2>6. Cardinality(A) = 1
    <3>1. Cardinality({k}) = 1
      BY FS_Singleton
    <3>2. Count(q, x) = 1
      BY <2>5, <3>1 DEF Permuted, Count
    <3> QED BY <3>2 DEF Count
  <2>7. IsFiniteSet(A)
    <3>1. IsFiniteSet(DOMAIN q)
      BY <1>1, FS_Interval
    <3> QED BY <3>1, FS_Subset
  <2>8. i \in A /\ j \in A
    BY <2>4
  <2> HIDE DEF A, x
  <2>9. PICK z : A = {z}
    BY <2>6, <2>7, FS_Singleton
  <2> QED BY <2>8, <2>9
<1> QED BY <1>3, <1>4 DEF KeysApart

(* HashmapMergeSort *)
Elems(m) == {m.node[i] : i \in DOMAIN m.node}

LEMMA MergeSortIs ==
  ASSUME NEW m \in Hashmap, NEW less
  PROVE  LET r == MergeSort(m, less)
         IN /\ r \in Hashmap /\ r.next = m.next /\ Permuted(r.node, m.node)
            /\ \A greater : Coherent(less, greater, Elems(m)) => InOrder(r.node, greater)
            /\ KeysOf(r) = KeysOf(m) /\ (Distinct(m) => Distinct(r))
<1> DEFINE E == Elems(m)  s == m.node  q == BucketsMerged(Bucketed(s, less), less)  r == MergeSort(m, less)
<1>1. s \in Seq(Node) /\ DOMAIN s = 1..Len(s) /\ Len(s) \in Nat
  BY Parts
<1>2. E \subseteq Node
  BY <1>1 DEF Elems
<1>3. s \in Seq(E)
  <2>1. \A i \in 1..Len(s) : s[i] \in E
    BY <1>1 DEF Elems
  <2>2. s = [i \in 1..Len(s) |-> s[i]]
    BY <1>1
  <2> HIDE DEF E
  <2>3. [i \in 1..Len(s) |-> s[i]] \in Seq(E)
    BY <1>1, <2>1, IsASeq
  <2> QED BY <2>2, <2>3
<1> HIDE DEF E, s
<1>4. ASSUME NEW x, NEW greater
      PROVE  /\ q \in Seq(E) /\ Count(q, x) = Count(s, x)
             /\ Coherent(less, greater, E) => InOrder(q, greater)
  <2> DEFINE a == Bucketed(s, less)
  <2>1. /\ a \in Buckets(E)
        /\ Coherent(less, greater, E) => AllInOrder(a, greater)
        /\ \E S : Sums(S, a, x) /\ S[LastBucket + 1] = Count(s, x)
    BY <1>3, BucketedIs
  <2>2. PICK S : Sums(S, a, x) /\ S[LastBucket + 1] = Count(s, x)
    BY <2>1
  <2> HIDE DEF a
  <2>3. LET b == BucketsMerged(a, less)
        IN /\ b \in Seq(E) /\ Count(b, x) = S[LastBucket + 1]
           /\ Coherent(less, greater, E) /\ AllInOrder(a, greater) => InOrder(b, greater)
    BY <2>1, <2>2, BucketsMergedIs
  <2> QED BY <2>1, <2>2, <2>3 DEF a
<1>5. q \in Seq(E) /\ Permuted(q, s) /\ \A greater : Coherent(less, greater, E) => InOrder(q, greater)
  BY <1>4 DEF Permuted
<1>6. q \in Seq(Node)
  <2> HIDE DEF q
  <2>1. Len(q) \in Nat /\ q = [i \in 1..Len(q) |-> q[i]] /\ \A i \in 1..Len(q) : q[i] \in Node
    BY <1>2, <1>5
  <2>2. [i \in 1..Len(q) |-> q[i]] \in Seq(Node)
    BY <2>1, IsASeq
  <2> QED BY <2>1, <2>2
<1>7. r = Reset([m EXCEPT !.node = q])
  BY DEF MergeSort, s
<1> HIDE DEF q, r
<1>8. r \in Hashmap /\ r.node = q /\ r.next = m.next
  BY <1>6, <1>7, ResetNodes
<1>9. {q[i] : i \in DOMAIN q} = {m.node[i] : i \in DOMAIN m.node} /\ (Distinct(m) => KeysApart(q))
  BY <1>5, <1>6, PermutedKeeps DEF s
<1>10. KeysOf(r) = KeysOf(m)
  <2>1. ASSUME NEW k \in KeysOf(r) PROVE k \in KeysOf(m)
    <3>1. PICK i \in DOMAIN q : k = q[i].key
      BY <1>8 DEF KeysOf
    <3>2. PICK j \in DOMAIN m.node : q[i] = m.node[j]
      BY <1>9
    <3> QED BY <3>1, <3>2 DEF KeysOf
  <2>2. ASSUME NEW k \in KeysOf(m) PROVE k \in KeysOf(r)
    <3>1. PICK j \in DOMAIN m.node : k = m.node[j].key
      BY DEF KeysOf
    <3>2. PICK i \in DOMAIN q : q[i] = m.node[j]
      BY <1>9
    <3> QED BY <3>1, <3>2, <1>8 DEF KeysOf
  <2> QED BY <2>1, <2>2
<1>11. Distinct(m) => Distinct(r)
  BY <1>8, <1>9 DEF Distinct, KeysApart
<1> QED BY <1>5, <1>8, <1>10, <1>11 DEF E, s, r
----------------------------------------------------------------------------
(* An array a that a function leaves or gives, made of m: it is an array,   *)
(* and no two elements have one key unless two of m have.                   *)
Fine(a, m) == a \in Hashmap /\ (Distinct(m) => Distinct(a))

LEMMA SortsFine ==
  ASSUME NEW a \in Hashmap, NEW less
  PROVE  /\ Fine(Sorted(a, less), a) /\ Fine(SortedAnew(a, less), a)
         /\ Len(a.node) > 1 => Numbered(SortedAnew(a, less))
<1>1. MergeSort(a, less) \in Hashmap /\ (Distinct(a) => Distinct(MergeSort(a, less)))
  BY MergeSortIs
<1>2. LET r == SortRehash(MergeSort(a, less)) IN r \in Hashmap /\ Distinct(r) /\ Numbered(r)
  BY <1>1, SortRehashIs
<1>3. Fine(Sorted(a, less), a)
  BY <1>1 DEF Fine, Sorted
<1>4. Fine(SortedAnew(a, less), a)
  BY <1>2 DEF Fine, SortedAnew
<1>5. Len(a.node) > 1 => Numbered(SortedAnew(a, less))
  BY <1>2 DEF SortedAnew
<1> QED BY <1>3, <1>4, <1>5

LEMMA ShufflesFine ==
  ASSUME NEW a \in Hashmap, NEW m \in Shuffles(a)
  PROVE  Fine(m, a)
<1>1. CASE Len(a.node) > 1
  <2> DEFINE D == DOMAIN a.node  P == {p \in [D -> D] : \A i, j \in DOMAIN p : p[i] = p[j] => i = j}
  <2>1. PICK p \in P : m = Reset([a EXCEPT !.node = [i \in D |-> a.node[p[i]]]])
    BY <1>1 DEF Shuffles
  <2> DEFINE s == [i \in D |-> a.node[p[i]]]
  <2>2. /\ Len(a.node) \in Nat /\ D = 1..Len(a.node) /\ \A i \in D : p[i] \in D
        /\ \A i, j \in D : p[i] = p[j] => i = j
    BY Parts
  <2>3. s \in Seq(Node)
    <3>1. \A i \in 1..Len(a.node) : a.node[p[i]] \in Node
      BY <2>2, Parts
    <3> HIDE DEF D, P
    <3>2. s = [i \in 1..Len(a.node) |-> a.node[p[i]]]
      BY <2>2
    <3>3. [i \in 1..Len(a.node) |-> a.node[p[i]]] \in Seq(Node)
      BY <2>2, <3>1, IsASeq
    <3> QED BY <3>2, <3>3
  <2>4. \A i, j \in DOMAIN s : Distinct(a) /\ s[i].key = s[j].key => i = j
    <3> HIDE DEF P
    <3> QED BY <2>2 DEF Distinct
  <2> HIDE DEF s
  <2>5. m \in Hashmap /\ m.node = s
    BY <2>1, <2>3, ResetNodes DEF s
  <2> QED BY <2>4, <2>5 DEF Fine, Distinct
<1>2. CASE ~(Len(a.node) > 1)
  BY <1>2 DEF Shuffles, Fine
<1> QED BY <1>1, <1>2

(* All that the differences, the intersections and array_filter() keep *)
LEMMA KeptFine ==
  ASSUME NEW a \in Hashmap, NEW bs, NEW equal, NEW keep
  PROVE  /\ Fine(Diff(a, bs), a) /\ Fine(DiffAssoc(a, bs), a) /\ Fine(DiffKey(a, bs), a)
         /\ Fine(Intersect(a, bs), a) /\ Fine(IntersectAssoc(a, bs), a) /\ Fine(IntersectKey(a, bs), a)
         /\ Fine(Udiff(a, bs, equal), a) /\ Fine(Uintersect(a, bs, equal), a)
         /\ Fine(DiffUassoc(a, bs, equal), a) /\ Fine(Filter(a, keep), a)
<1>1. \A I : Fine(Kept(a, I), a)
  BY KeptIs DEF Fine
<1>2. Fine(Diff(a, bs), a) /\ Fine(DiffAssoc(a, bs), a) /\ Fine(DiffKey(a, bs), a)
  BY <1>1 DEF Diff, DiffAssoc, DiffKey
<1>3. Fine(Intersect(a, bs), a) /\ Fine(IntersectAssoc(a, bs), a) /\ Fine(IntersectKey(a, bs), a)
  BY <1>1 DEF Intersect, IntersectAssoc, IntersectKey
<1>4. Fine(Udiff(a, bs, equal), a) /\ Fine(Uintersect(a, bs, equal), a)
  BY <1>1 DEF Udiff, Uintersect
<1>5. Fine(DiffUassoc(a, bs, equal), a) /\ Fine(Filter(a, keep), a)
  BY <1>1 DEF DiffUassoc, Filter
<1> QED BY <1>2, <1>3, <1>4, <1>5
----------------------------------------------------------------------------
(* What a script can come to: an array within the bounds *)
IInv == /\ arr \in Hashmap
        /\ KeysOf(arr) \subseteq Keys /\ Range(Values(arr)) \subseteq Vals

LEMMA OthersAre ==
  ASSUME NEW b \in Others
  PROVE  b \in Hashmap /\ Distinct(b) /\ Above(b)
<1>1. PICK s \in Literals : b = Literal(s)
  BY DEF Others
<1>2. s \in Seq(Key \X Value)
  BY ScriptsAssumption
<1>3. Literal(s) = Folded("literal", 0, NewHashmap, s)
  BY FoldsAre
<1>4. ClosedFold("literal", 0, NewHashmap, s) /\ NewHashmap \in Top
  BY <1>2, LiteralFold, NewTop
<1>5. Literal(s) \in Top
  BY <1>3, <1>4 DEF ClosedFold
<1> QED BY <1>1, <1>5 DEF Top

(* The callback of array_walk() and array_map() takes the values there are. *)
LEMMA ToKeyIs ==
  ASSUME IInv
  PROVE  \A i \in 1..Len(arr.node) : ToKey[arr.node[i].val] \in Value
<1>1. ASSUME NEW i \in 1..Len(arr.node) PROVE arr.node[i].val \in Vals
  <2>1. arr \in Hashmap
    BY DEF IInv
  <2>2. DOMAIN Values(arr) = 1..Len(arr.node) /\ Values(arr)[i] = arr.node[i].val
    BY <2>1, ValuesAre
  <2> QED BY <2>2 DEF IInv, Range
<1>2. \A v \in Vals : AsKey(v) \in Value
  BY ScriptsAssumption, KeyOrValue
<1> QED BY <1>1, <1>2 DEF ToKey
----------------------------------------------------------------------------
(* What most functions leave is an array, and no two of its elements have   *)
(* one key if those before had not.                                         *)
Sound(m) == m \in Hashmap /\ (Distinct(arr) => Distinct(m))

(* What every step leaves: the same, unless a key was not looked up *)
Stepped == arr' \in Hashmap /\ (Distinct(arr) => Distinct(arr') \/ Unlooked)

LEMMA FineSound == ASSUME NEW m, Fine(m, arr) PROVE Sound(m)
BY DEF Fine, Sound

LEMMA TopSound == ASSUME NEW m, m \in Top PROVE Sound(m)
BY DEF Top, Sound

LEMMA SameSound == ASSUME NEW m, SameBut(m, arr) PROVE Sound(m)
BY SameButKeys DEF SameBut, Sound

(* Unfolds the guard that every action ends with. *)
LEMMA GoesSound == ASSUME NEW m, Goes(m), Sound(m) PROVE Sound(arr')
BY DEF Goes

LEMMA SoundSteps == ASSUME Sound(arr') PROVE Stepped
BY DEF Sound, Stepped

LEMMA EmptiedSound ==
  ASSUME Emptied
  PROVE  Sound(arr')
<1>1. Erase(arr) = NewHashmap
  BY DEF Erase
<1> QED BY <1>1, NewTop, TopSound, GoesSound DEF Emptied

LEMMA ElementsStepped ==
  ASSUME IInv, Elements
  PROVE  Stepped
<1>0. arr \in Hashmap
  BY DEF IInv
<1>1. ASSUME NEW k \in Keys, NEW v \in Vals, Goes(Insert(arr, k, v)) PROVE Sound(arr')
  <2>1. k \in Key /\ v \in Value
    BY ScriptsAssumption
  <2>2. Sound(Insert(arr, k, v))
    BY <1>0, <2>1, InsertIs DEF Sound
  <2> QED BY <1>1, <2>2, GoesSound
<1>2. ASSUME NEW v \in Vals, Goes(InsertAuto(arr, v)) PROVE Stepped
  <2>1. v \in Value
    BY ScriptsAssumption
  <2> DEFINE m == InsertAuto(arr, v)
  <2>2. arr' = m
    BY <1>2 DEF Goes
  <2>3. m \in Hashmap /\ (Above(arr) /\ Distinct(arr) => Distinct(m))
    BY <1>0, <2>1, InsertAutoIs
  <2>4. ~Above(arr) => Unlooked
    BY <2>2 DEF Unlooked
  <2> HIDE DEF m
  <2> QED BY <2>2, <2>3, <2>4 DEF Stepped
<1>3. ASSUME NEW i \in DOMAIN arr.node, Goes(UnlinkNode(arr, i)) PROVE Sound(arr')
  <2>1. i \in 1..Len(arr.node)
    BY <1>0, Parts
  <2>2. Sound(UnlinkNode(arr, i))
    BY <1>0, <2>1, UnlinkIs, UnlinkKeys DEF Sound
  <2> QED BY <1>3, <2>2, GoesSound
<1> QED BY <1>1, <1>2, <1>3, SoundSteps DEF Elements

LEMMA CursorSound ==
  ASSUME IInv, Cursor
  PROVE  Sound(arr')
<1>0. arr \in Hashmap
  BY DEF IInv
<1>1. Sound(Reset(arr)) /\ Sound(End(arr)) /\ Sound(NextEntry(arr)) /\ Sound(PrevEntry(arr))
  BY <1>0, CursorIs, SameSound
<1> QED BY <1>1, GoesSound DEF Cursor

LEMMA OffsetsInt == MaxLen \in Nat /\ Offsets \subseteq Int
BY ScriptsAssumption DEF Offsets

LEMMA CutsInt == ASSUME NEW c \in Cuts PROVE c[1] \in Int /\ c[2] \in Int /\ ~Crashes(arr, c[1], c[2])
BY OffsetsInt DEF Cuts

(* array_splice() that puts another array in: an empty array stays as it is. *)
LEMMA SplicedStepped ==
  ASSUME IInv, NEW c \in Cuts, NEW b \in Others, arr' = Spliced(arr, c[1], c[2], b.node)
  PROVE  Stepped
<1> DEFINE o == c[1]  l == c[2]  rep == b.node  r == Spliced(arr, o, l, rep)
<1>1. arr \in Hashmap /\ o \in Int /\ l \in Int /\ ~Crashes(arr, o, l) /\ b \in Hashmap /\ Distinct(b)
  BY CutsInt, OthersAre DEF IInv
<1>2. rep \in Seq(Node) /\ DOMAIN rep = 1..Len(rep)
  BY <1>1, Parts
<1>3. KeysApart(rep)
  BY <1>1 DEF KeysApart, Distinct
<1>4. KeysOf(b) \cap KeysOf(arr) \cap Strs = {} => NewStrs(arr, rep)
  <2>1. ASSUME KeysOf(b) \cap KeysOf(arr) \cap Strs = {}, NEW i \in DOMAIN rep, rep[i].key \notin Int
        PROVE  rep[i].key \notin KeysOf(arr)
    <3>1. rep[i].key \in KeysOf(b)
      BY DEF KeysOf
    <3>2. rep[i].key \in Key
      BY <1>1, Parts
    <3>3. rep[i].key \in Strs
      BY <2>1, <3>2 DEF Key
    <3> QED BY <2>1, <3>1, <3>3
  <2> QED BY <2>1 DEF NewStrs
<1>5. ~Above(arr) \/ KeysOf(b) \cap KeysOf(arr) \cap Strs # {} => Unlooked
  BY DEF Unlooked
<1> HIDE DEF o, l, rep
<1>6. CASE arr.node = <<>>
  <2>1. r = arr
    BY <1>1, <1>6, SplicedEmpty
  <2> QED BY <1>1, <2>1 DEF Stepped, o, l, rep
<1>7. CASE arr.node # <<>>
  <2>1. r \in Hashmap /\ (Above(arr) /\ Distinct(arr) /\ KeysApart(rep) /\ NewStrs(arr, rep) => Distinct(r))
    BY <1>1, <1>2, <1>7, SplicedIs
  <2>2. arr' = r
    BY DEF o, l, rep
  <2> HIDE DEF r
  <2> QED BY <1>3, <1>4, <1>5, <2>1, <2>2 DEF Stepped
<1> QED BY <1>6, <1>7

LEMMA InPlaceStepped ==
  ASSUME IInv, InPlace
  PROVE  Stepped
<1>0. arr \in Hashmap
  BY DEF IInv
<1>1. Sound(Pop(arr)) /\ Sound(Shift(arr))
  BY <1>0, EndsAre DEF Sound
<1>2. ASSUME NEW v \in Vals, Goes(Push(arr, <<v, v>>)) PROVE Stepped
  <2>1. v \in Value
    BY ScriptsAssumption
  <2> DEFINE m == Push(arr, <<v, v>>)
  <2>2. arr' = m
    BY <1>2 DEF Goes
  <2>3. m \in Hashmap /\ (Above(arr) /\ Distinct(arr) => Distinct(m))
    BY <1>0, <2>1, EndsAre
  <2>4. ~Above(arr) => Unlooked
    BY <2>2 DEF Unlooked
  <2> HIDE DEF m
  <2> QED BY <2>2, <2>3, <2>4 DEF Stepped
<1>3. ASSUME NEW b \in Others, NEW m \in {Spliced(arr, c[1], c[2], b.node) : c \in Cuts}, Goes(m)
      PROVE  Stepped
  <2>1. PICK c \in Cuts : m = Spliced(arr, c[1], c[2], b.node)
    OBVIOUS
  <2>2. arr' = Spliced(arr, c[1], c[2], b.node)
    BY <1>3, <2>1 DEF Goes
  <2> QED BY <2>2, SplicedStepped
<1>4. ASSUME NEW b \in Others PROVE Sound(Union(arr, b))
  BY <1>0, OthersAre, UnionIs DEF Sound, Uniq
<1>5. Sound(KeysSearched(arr)) /\ Sound(KeysForced(arr)) /\ Sound(Walk(arr, ToKey))
  BY <1>0, ToKeyIs, ConvertedIs DEF Sound
<1> QED BY <1>1, <1>2, <1>3, <1>4, <1>5, GoesSound, SoundSteps DEF InPlace

LEMMA SortsSound ==
  ASSUME IInv, Sorts
  PROVE  Sound(arr')
<1>0. arr \in Hashmap
  BY DEF IInv
<1>1. \A less : Sound(Sorted(arr, less)) /\ Sound(SortedAnew(arr, less))
  BY <1>0, SortsFine, FineSound
<1>2. \A numeric \in BOOLEAN : /\ Sound(Sort(arr, numeric)) /\ Sound(Rsort(arr, numeric))
                               /\ Sound(Asort(arr, numeric)) /\ Sound(Arsort(arr, numeric))
  BY <1>1 DEF Sort, Rsort, Asort, Arsort
<1>3. Sound(Ksort(arr)) /\ Sound(Krsort(arr))
  BY <1>1 DEF Ksort, Krsort
<1>4. \A less : Sound(Usort(arr, less)) /\ Sound(Uasort(arr, less)) /\ Sound(Uksort(arr, less))
  BY <1>1 DEF Usort, Uasort, Uksort
<1>5. \A m \in Shuffles(arr) : Sound(m)
  BY <1>0, ShufflesFine, FineSound
<1> QED BY <1>2, <1>3, <1>4, <1>5, GoesSound DEF Sorts

LEMMA DerivesSound ==
  ASSUME IInv, Derives
  PROVE  Sound(arr')
<1>0. arr \in Hashmap
  BY DEF IInv
<1>1. Sound(ArrayValues(arr)) /\ Sound(ArrayKeys(arr)) /\ \A v, strict : Sound(KeysFound(arr, v, strict))
  BY <1>0, NumberedAnew, TopSound
<1>2. \A b \in Others : /\ Sound(ArrayMerge(<<arr, b>>)) /\ Sound(Replace(<<arr, b>>))
                        /\ Len(b.node) = Len(arr.node) => Sound(Combine(arr, b))
  <2> SUFFICES ASSUME NEW b \in Others
               PROVE  /\ Sound(ArrayMerge(<<arr, b>>)) /\ Sound(Replace(<<arr, b>>))
                      /\ Len(b.node) = Len(arr.node) => Sound(Combine(arr, b))
    OBVIOUS
  <2>1. b \in Hashmap
    BY OthersAre
  <2>2. ArrayMerge(<<arr, b>>) \in Top /\ Replace(<<arr, b>>) \in Top
    BY <1>0, <2>1, PairsAre
  <2>3. Len(b.node) = Len(arr.node) => Combine(arr, b) \in Top
    <3>1. 0 \in Value /\ 0 \in Int
      BY KeyOrValue
    <3> QED BY <1>0, <2>1, <3>1, MadeAnew
  <2> QED BY <2>2, <2>3, TopSound
<1>3. \A bs, equal, keep :
        /\ Sound(Diff(arr, bs)) /\ Sound(DiffAssoc(arr, bs)) /\ Sound(DiffKey(arr, bs))
        /\ Sound(Intersect(arr, bs)) /\ Sound(IntersectAssoc(arr, bs)) /\ Sound(IntersectKey(arr, bs))
        /\ Sound(Udiff(arr, bs, equal)) /\ Sound(Uintersect(arr, bs, equal))
        /\ Sound(DiffUassoc(arr, bs, equal)) /\ Sound(Filter(arr, keep))
  BY <1>0, KeptFine, FineSound
<1>4. Sound(Copy(arr))
  <2>1. Copy(arr) \in Hashmap /\ (Distinct(arr) => Copy(arr).node = arr.node)
    BY <1>0, CopyIs
  <2> QED BY <2>1 DEF Sound, Distinct
<1>5. ASSUME NEW preserve \in BOOLEAN, NEW m \in {Slice(arr, c[1], c[2], preserve) : c \in Cuts}
      PROVE  Sound(m)
  <2>1. PICK c \in Cuts : m = Slice(arr, c[1], c[2], preserve)
    OBVIOUS
  <2> DEFINE o == c[1]  l == c[2]
  <2>2. o \in Int /\ l \in Int /\ ~Crashes(arr, o, l)
    BY CutsInt
  <2> HIDE DEF o, l
  <2>3. Slice(arr, o, l, preserve) \in Hashmap /\ (Distinct(arr) => Distinct(Slice(arr, o, l, preserve)))
    <3>1. CASE arr.node = <<>>
      BY <1>0, <2>2, <3>1, SliceEmpty
    <3>2. CASE arr.node # <<>>
      BY <1>0, <2>2, <3>2, SliceIs
    <3> QED BY <3>1, <3>2
  <2> QED BY <2>1, <2>3 DEF Sound, o, l
<1>6. \A v \in Vals, n \in Offsets : Sound(FillKeys(arr, v)) /\ Sound(Fill(n, n, v)) /\ Sound(Pad(arr, n, v))
  <2> SUFFICES ASSUME NEW v \in Vals, NEW n \in Offsets
               PROVE  Sound(FillKeys(arr, v)) /\ Sound(Fill(n, n, v)) /\ Sound(Pad(arr, n, v))
    OBVIOUS
  <2>1. v \in Value /\ n \in Int /\ PadMax \in Nat
    BY ScriptsAssumption, OffsetsInt
  <2>2. Fill(n, n, v) \in Top /\ FillKeys(arr, v) \in Top
    BY <1>0, <2>1, MadeAnew
  <2>3. Sound(Pad(arr, n, v))
    BY <1>0, <2>1, PadIs DEF Sound
  <2> QED BY <2>2, <2>3, TopSound
<1>7. \A v \in Vals : Sound(FillKeys(arr, v))
  <2>1. 0 \in Offsets
    BY OffsetsInt DEF Offsets
  <2> QED BY <1>6, <2>1
<1>8. \A preserve \in BOOLEAN : Sound(ArrayReverse(arr, preserve))
  BY <1>0, ArrayReverseIs DEF Sound
<1>9. \A strict : Sound(Unique(arr, strict))
  BY <1>0, UniqueIs DEF Sound
<1>10. Sound(Flip(arr)) /\ Sound(ArrayMap(arr, ToKey))
  <2>1. 0 \in Value /\ 0 \in Int
    BY KeyOrValue
  <2> QED BY <1>0, <2>1, ToKeyIs, MadeAnew, TopSound
<1>11. ASSUME NEW n \in 1..MaxLen, NEW m \in {Chunk(arr, n, TRUE)[i] : i \in DOMAIN Chunk(arr, n, TRUE)}
       PROVE  Sound(m)
  <2>1. PICK i \in DOMAIN Chunk(arr, n, TRUE) : m = Chunk(arr, n, TRUE)[i]
    OBVIOUS
  <2>2. n \in Nat \ {0}
    BY OffsetsInt
  <2> QED BY <1>0, <2>1, <2>2, ChunkIs DEF Sound
<1>12. \A n \in 0..2 : Sound(ArrayRange(0, n, 1))
  BY ArrayRangeIs, TopSound
<1> USE GoesSound
<1>13. CASE \/ Goes(ArrayValues(arr)) \/ Goes(ArrayKeys(arr))
            \/ \E v \in Vals, strict \in BOOLEAN : Goes(KeysFound(arr, v, strict))
  BY <1>1, <1>13
<1>14. CASE \E b \in Others : \/ Goes(ArrayMerge(<<arr, b>>)) \/ Goes(Replace(<<arr, b>>))
                              \/ Len(b.node) = Len(arr.node) /\ Goes(Combine(arr, b))
  BY <1>2, <1>14
<1>15. CASE \E b \in Others :
              \/ Goes(Diff(arr, {b})) \/ Goes(DiffAssoc(arr, {b})) \/ Goes(DiffKey(arr, {b}))
              \/ Goes(Intersect(arr, {b})) \/ Goes(IntersectAssoc(arr, {b})) \/ Goes(IntersectKey(arr, {b}))
              \/ Goes(Udiff(arr, {b}, Congruent)) \/ Goes(Uintersect(arr, {b}, Congruent))
              \/ Goes(DiffUassoc(arr, {b}, Congruent))
  BY <1>3, <1>15
<1>16. CASE \/ Goes(Copy(arr))
            \/ \E preserve \in BOOLEAN : \E m \in {Slice(arr, c[1], c[2], preserve) : c \in Cuts} : Goes(m)
  BY <1>4, <1>5, <1>16
<1>17. CASE \E v \in Vals : \/ Goes(FillKeys(arr, v))
                            \/ \E n \in Offsets : Goes(Fill(n, n, v)) \/ Goes(Pad(arr, n, v))
  BY <1>6, <1>7, <1>17
<1>18. CASE \/ \E preserve \in BOOLEAN : Goes(ArrayReverse(arr, preserve))
            \/ \E strict \in BOOLEAN : Goes(Unique(arr, strict))
            \/ Goes(Flip(arr))
            \/ Goes(Filter(arr, {v \in Vals : ~IsEmpty(v)})) \/ Goes(ArrayMap(arr, ToKey))
  BY <1>3, <1>8, <1>9, <1>10, <1>18
<1>19. CASE \/ \E n \in 1..MaxLen :
                 \E m \in {Chunk(arr, n, TRUE)[i] : i \in DOMAIN Chunk(arr, n, TRUE)} : Goes(m)
            \/ \E n \in 0..2 : Goes(ArrayRange(0, n, 1))
  BY <1>11, <1>12, <1>19
<1> QED BY <1>13, <1>14, <1>15, <1>16, <1>17, <1>18, <1>19, Zenon DEF Derives

(* A step leaves an array within the bounds. *)
LEMMA NextStepped ==
  ASSUME IInv, Next
  PROVE  IInv' /\ Stepped /\ (Distinct(arr) \/ Distinct(arr'))
<1>1. Stepped
  BY EmptiedSound, ElementsStepped, CursorSound, InPlaceStepped, SortsSound, DerivesSound, SoundSteps DEF Next
<1>2. ASSUME NEW m, Goes(m) PROVE KeysOf(arr') \subseteq Keys /\ Range(Values(arr')) \subseteq Vals
  BY <1>2 DEF Goes
<1>3. \E m : Goes(m)
  <2>1. Elements => \E m : Goes(m)
    BY DEF Elements
  <2>2. Cursor => \E m : Goes(m)
    BY DEF Cursor
  <2>3. InPlace => \E m : Goes(m)
    BY DEF InPlace
  <2>4. Sorts => \E m : Goes(m)
    BY DEF Sorts
  <2>5. Derives => \E m : Goes(m)
    BY DEF Derives
  <2>6. Emptied => \E m : Goes(m)
    BY DEF Emptied
  <2> QED BY <2>1, <2>2, <2>3, <2>4, <2>5, <2>6 DEF Next
<1>4. Distinct(arr) \/ Distinct(arr')
  <2>1. Emptied => Distinct(arr')
    <3>1. Erase(arr) = NewHashmap /\ Distinct(NewHashmap)
      BY NewTop DEF Erase, Top
    <3> QED BY <3>1 DEF Emptied, Goes
  <2> QED BY <2>1 DEF Next
<1> QED BY <1>1, <1>2, <1>3, <1>4 DEF IInv, Stepped
----------------------------------------------------------------------------
(* The sorts: the same elements, and none before one that it is greater than *)
BagOf(m) == [x \in {m.node[i] : i \in DOMAIN m.node} |-> Cardinality({i \in DOMAIN m.node : m.node[i] = x})]

LEMMA BagsAgree ==
  ASSUME NEW a \in Hashmap, NEW m \in Hashmap, Permuted(m.node, a.node)
  PROVE  BagOf(m) = BagOf(a)
<1>1. Elems(m) = Elems(a)
  <2>1. m.node \in Seq(Node)
    BY Parts
  <2> DEFINE q == m.node
  <2>2. q \in Seq(Node) /\ Permuted(q, a.node)
    BY <2>1
  <2> HIDE DEF q
  <2>3. {q[i] : i \in DOMAIN q} = {a.node[i] : i \in DOMAIN a.node}
    BY <2>2, PermutedKeeps
  <2> QED BY <2>3 DEF Elems, q
<1>2. \A x : Count(m.node, x) = Count(a.node, x)
  BY DEF Permuted
<1> QED BY <1>1, <1>2 DEF Count, BagOf, Elems

LEMMA SortedIs ==
  ASSUME NEW a \in Hashmap, NEW less
  PROVE  LET m == Sorted(a, less)
         IN /\ m \in Hashmap /\ Permuted(m.node, a.node)
            /\ \A greater : Coherent(less, greater, Elems(a)) => InOrder(m.node, greater)
<1>1. CASE Len(a.node) > 1
  BY <1>1, MergeSortIs DEF Sorted
<1>2. CASE ~(Len(a.node) > 1)
  <2>1. Sorted(a, less) = a
    BY <1>2 DEF Sorted
  <2>2. \A greater : InOrder(a.node, greater)
    <3>1. Len(a.node) \in Nat /\ 1..(Len(a.node) - 1) = {}
      BY <1>2, Parts
    <3> QED BY <3>1 DEF InOrder
  <2> QED BY <2>1, <2>2 DEF Permuted
<1> QED BY <1>1, <1>2

LEMMA OrdersCohere ==
  ASSUME NEW a \in Hashmap
  PROVE  /\ Coherent(NumberLess(a), NumberGreater(a), Elems(a))
         /\ Coherent(NumberGreater(a), NumberLess(a), Elems(a))
         /\ KeysOf(a) \subseteq Int => Coherent(KeyLess(a), KeyGreater(a), Elems(a))
<1>1. Pairs(a) = Elems(a) \X Elems(a) /\ \A x \in Elems(a) : x.key \in KeysOf(a)
  BY DEF Pairs, Elems, KeysOf
<1>2. ASSUME NEW x \in Elems(a) PROVE Num(x.val) \in Int
  BY DEF Num
<1> DEFINE E == Elems(a)
<1> HIDE DEF E
<1>3. /\ NumberLess(a) = {x \in E \X E : Num(x[1].val) < Num(x[2].val)}
      /\ NumberGreater(a) = {x \in E \X E : Num(x[1].val) > Num(x[2].val)}
      /\ KeyLess(a) = {x \in E \X E : KeyCmp(x[1].key, x[2].key) < 0}
      /\ KeyGreater(a) = {x \in E \X E : KeyCmp(x[1].key, x[2].key) > 0}
  BY <1>1 DEF NumberLess, NumberGreater, KeyLess, KeyGreater, E
<1>4. ASSUME NEW x \in E, NEW y \in E
      PROVE  /\ <<x, y>> \in NumberLess(a) <=> Num(x.val) < Num(y.val)
             /\ <<x, y>> \in NumberGreater(a) <=> Num(x.val) > Num(y.val)
             /\ <<x, y>> \in KeyLess(a) <=> KeyCmp(x.key, y.key) < 0
             /\ <<x, y>> \in KeyGreater(a) <=> KeyCmp(x.key, y.key) > 0
  BY <1>3
<1>5. Coherent(NumberLess(a), NumberGreater(a), E) /\ Coherent(NumberGreater(a), NumberLess(a), E)
  BY <1>2, <1>4 DEF Coherent, E
<1>6. ASSUME KeysOf(a) \subseteq Int PROVE Coherent(KeyLess(a), KeyGreater(a), E)
  <2>1. \A x, y \in E : KeyCmp(x.key, y.key) = x.key - y.key /\ x.key \in Int /\ y.key \in Int
    BY <1>1, <1>6, HashmapAssumption DEF KeyCmp, Num, E
  <2>2. ASSUME NEW x \in E, NEW y \in E
        PROVE  /\ <<x, y>> \in KeyLess(a) => <<x, y>> \notin KeyGreater(a)
               /\ <<x, y>> \notin KeyLess(a) => <<y, x>> \notin KeyGreater(a)
    <3> DEFINE j == x.key  k == y.key
    <3>1. j \in Int /\ k \in Int /\ KeyCmp(j, k) = j - k /\ KeyCmp(k, j) = k - j
      BY <2>1
    <3>2. /\ <<x, y>> \in KeyLess(a) <=> KeyCmp(j, k) < 0
          /\ <<x, y>> \in KeyGreater(a) <=> KeyCmp(j, k) > 0
          /\ <<y, x>> \in KeyGreater(a) <=> KeyCmp(k, j) > 0
      BY <1>4
    <3> HIDE DEF j, k
    <3> QED BY <3>1, <3>2
  <2> QED BY <2>2 DEF Coherent
<1> QED BY <1>5, <1>6 DEF E

LEMMA InvSorts == ASSUME IInv PROVE SortsRight
<1>0. arr \in Hashmap
  BY DEF IInv
<1>1. ASSUME NEW b \in Others
      PROVE  LET a == ArrayMerge(<<arr, b>>)
             IN a \in Hashmap
  BY <1>0, OthersAre, PairsAre DEF Top
<1>2. ASSUME NEW a \in Hashmap, NEW m, NEW less, m = Sorted(a, less) PROVE BagOf(m) = BagOf(a)
  BY <1>2, SortedIs, BagsAgree
<1>3. ASSUME NEW a \in Hashmap
      PROVE  /\ Asort(a, TRUE) = Sorted(a, NumberLess(a)) /\ Arsort(a, TRUE) = Sorted(a, NumberGreater(a))
             /\ Ksort(a) = Sorted(a, KeyLess(a))
             /\ Uasort(a, Failing) = Sorted(a, {x \in Pairs(a) : <<x[1].val, x[2].val>> \in Failing})
  BY DEF Asort, Arsort, Ksort, Uasort
<1>4. ASSUME NEW a \in Hashmap
      PROVE  /\ InOrder(Asort(a, TRUE).node, NumberGreater(a))
             /\ InOrder(Arsort(a, TRUE).node, NumberLess(a))
             /\ KeysOf(a) \subseteq Int => InOrder(Ksort(a).node, KeyGreater(a))
  BY <1>3, SortedIs, OrdersCohere
<1>5. Len(arr.node) > 1 => Numbered(Sort(arr, FALSE)) /\ Numbered(Usort(arr, Failing))
  BY <1>0, SortsFine DEF Sort, Usort
<1>6. ASSUME NEW b \in Others, NEW a, a = ArrayMerge(<<arr, b>>)
      PROVE  LET up == Asort(a, TRUE)  down == Arsort(a, TRUE)  keys == Ksort(a)
             IN /\ \A m \in {up, down, keys, Uasort(a, Failing)} : BagOf(m) = BagOf(a)
                /\ InOrder(up.node, NumberGreater(a)) /\ InOrder(down.node, NumberLess(a))
                /\ KeysOf(a) \subseteq Int => InOrder(keys.node, KeyGreater(a))
  <2>1. a \in Hashmap
    BY <1>1, <1>6
  <2>2. \A m \in {Asort(a, TRUE), Arsort(a, TRUE), Ksort(a), Uasort(a, Failing)} : BagOf(m) = BagOf(a)
    <3>1. \A less : BagOf(Sorted(a, less)) = BagOf(a)
      BY <2>1, <1>2
    <3>2. /\ BagOf(Asort(a, TRUE)) = BagOf(a) /\ BagOf(Arsort(a, TRUE)) = BagOf(a)
          /\ BagOf(Ksort(a)) = BagOf(a)
      BY <2>1, <3>1, <1>3
    <3>3. BagOf(Uasort(a, Failing)) = BagOf(a)
      BY <3>1 DEF Uasort
    <3> QED BY <3>2, <3>3
  <2>3. /\ InOrder(Asort(a, TRUE).node, NumberGreater(a)) /\ InOrder(Arsort(a, TRUE).node, NumberLess(a))
        /\ KeysOf(a) \subseteq Int => InOrder(Ksort(a).node, KeyGreater(a))
    BY <2>1, <1>4
  <2> QED BY <2>2, <2>3, Zenon
<1> QED BY <1>5, <1>6, Zenon DEF SortsRight, InOrder, BagOf
----------------------------------------------------------------------------
(* The loop of each() and unset() *)
LEMMA LoopedFold ==
  ASSUME NEW a
  PROVE  Looped(a) = Folded("loop", 0, [map |-> Reset(a), seen |-> <<>>], Positions(a))
  BY DEF Looped, Folded, Step, FoldLeft, MapThenFoldSet, Positions

LEMMA LoopedIs ==
  ASSUME NEW a \in Hashmap
  PROVE  Looped(a).map.node = <<>> /\ Looped(a).seen = a.node
<1> DEFINE n == Len(a.node)  s == Positions(a)  base == [map |-> Reset(a), seen |-> <<>>]
           Q(i, r) == /\ Len(r.map.node) = n - i
                      /\ \A j \in 1..(n - i) : r.map.node[j] = a.node[j + i]
                      /\ r.map.cur = IF i = n THEN 0 ELSE 1
                      /\ r.seen = SubSeq(a.node, 1, i)
           States == [map : Hashmap, seen : Seq(Node)]
           G == {g \in (0..n) \X States : Q(g[1], g[2])}
<1>1. n \in Nat /\ a.node \in Seq(Node) /\ DOMAIN s = 1..n /\ \A i \in 1..n : s[i] = i
  BY Parts, PositionsAre
<1>2. <<0, base>> \in G
  <2>1. Reset(a) \in Hashmap /\ Reset(a).node = a.node /\ Reset(a).cur = IF n = 0 THEN 0 ELSE 1
    BY CursorIs DEF SameBut
  <2>2. SubSeq(a.node, 1, 0) = <<>> /\ <<>> \in Seq(Node)
    BY <1>1, WholePrefix
  <2>3. base \in States /\ base.map = Reset(a) /\ base.seen = <<>>
    BY <2>1, <2>2
  <2> HIDE DEF base
  <2>4. Q(0, base)
    BY <1>1, <2>1, <2>2, <2>3
  <2> HIDE DEF Q, States
  <2> QED BY <1>1, <2>3, <2>4
<1>3. ASSUME NEW i \in 1..n, NEW r, <<i - 1, r>> \in G
      PROVE  <<i, Step("loop", 0, r, s[i])>> \in G
  <2>1. Q(i - 1, r) /\ r \in States /\ i \in 0..n
    <3> HIDE DEF Q, States
    <3> QED BY <1>3
  <2> DEFINE m == r.map  w == NextEntry(m)  q == UnlinkNode(w, 1)  e == Append(r.seen, m.node[1])
             t == [map |-> q, seen |-> e]
  <2>2. m \in Hashmap /\ r.seen \in Seq(Node)
    BY <2>1
  <2>3. Len(m.node) = n - (i - 1) /\ m.cur = 1 /\ 1 \in 1..Len(m.node)
    BY <1>1, <2>1
  <2>4. /\ w \in Hashmap /\ w.node = m.node
        /\ w.cur = IF i = n THEN 0 ELSE 2
    <3> HIDE DEF m, w
    <3>1. w \in Hashmap /\ w.node = m.node /\ w.cur = IF m.cur = 0 \/ m.cur = Len(m.node) THEN 0 ELSE m.cur + 1
      BY <2>2, CursorIs DEF SameBut, w
    <3> QED BY <3>1, <2>3, <1>1
  <2>5. Step("loop", 0, r, s[i]) = t
    BY <2>3 DEF Step, Visited
  <2>6. /\ q \in Hashmap /\ Len(q.node) = n - i /\ q.cur = CursorAfter(w, 1)
        /\ \A j \in 1..(n - i) : q.node[j] = m.node[j + 1]
    <3> HIDE DEF w, m
    <3>1. 1 \in 1..Len(w.node)
      BY <2>3, <2>4
    <3>2. LET u == UnlinkNode(w, 1)  h == Len(w.node)
          IN /\ u \in Hashmap /\ u.cur = CursorAfter(w, 1) /\ Len(u.node) = h - 1
             /\ \A j \in 1..(h - 1) : u.node[j] = w.node[IF j < 1 THEN j ELSE j + 1]
      BY <3>1, <2>4, UnlinkIs
    <3>3. Len(w.node) - 1 = n - i
      BY <1>1, <2>3, <2>4
    <3> HIDE DEF q
    <3>4. q \in Hashmap /\ q.cur = CursorAfter(w, 1) /\ Len(q.node) = n - i
      BY <3>2, <3>3 DEF q
    <3>5. ASSUME NEW j \in 1..(n - i) PROVE q.node[j] = m.node[j + 1]
      <4>1. ~(j < 1)
        BY <1>1
      <4>2. q.node[j] = w.node[IF j < 1 THEN j ELSE j + 1]
        BY <3>2, <3>3 DEF q
      <4> QED BY <4>1, <4>2, <2>4
    <3> QED BY <3>4, <3>5
  <2>7. CursorAfter(w, 1) = IF i = n THEN 0 ELSE 1
    <3> HIDE DEF w, m
    <3>1. Len(w.node) = n - (i - 1)
      BY <2>3, <2>4
    <3> QED BY <1>1, <2>4, <3>1 DEF CursorAfter
  <2>8. ASSUME NEW j \in 1..(n - i) PROVE q.node[j] = a.node[j + i]
    <3>1. j + 1 \in 1..(n - (i - 1)) /\ (j + 1) + (i - 1) = j + i
      BY <1>1
    <3>2. q.node[j] = m.node[j + 1]
      BY <2>6
    <3> HIDE DEF q
    <3> QED BY <3>1, <3>2, <2>1
  <2>9. e = SubSeq(a.node, 1, i) /\ e \in Seq(Node)
    <3>1. m.node[1] = a.node[i]
      <4>1. 1 \in 1..(n - (i - 1)) /\ 1 + (i - 1) = i
        BY <1>1
      <4> QED BY <4>1, <2>1
    <3>2. SubSeq(a.node, 1, i) = Append(SubSeq(a.node, 1, i - 1), a.node[i])
      BY <1>1, PrefixIs
    <3>3. r.seen = SubSeq(a.node, 1, i - 1)
      BY <2>1
    <3>4. a.node[i] \in Node
      BY <1>1, Parts
    <3>5. e \in Seq(Node)
      BY <2>2, <3>1, <3>4
    <3> QED BY <3>1, <3>2, <3>3, <3>5
  <2> HIDE DEF q, e
  <2>10. t \in States /\ t.map = q /\ t.seen = e
    BY <2>6, <2>9
  <2> HIDE DEF t
  <2>11. Q(i, t)
    BY <2>6, <2>7, <2>8, <2>9, <2>10
  <2> HIDE DEF Q, States
  <2> QED BY <2>1, <2>5, <2>10, <2>11
<1> HIDE DEF s, base
<1>4. Advances(G, "loop", 0, s, n)
  <2> HIDE DEF G
  <2> QED BY <1>3 DEF Advances
<1>5. <<n, Folded("loop", 0, base, s)>> \in G
  <2> HIDE DEF G
  <2> QED BY <1>1, <1>2, <1>4, FoldInduct
<1>6. Looped(a) = Folded("loop", 0, base, s)
  BY LoopedFold DEF base, s
<1> DEFINE r == Looped(a)
<1>7. r \in States /\ Q(n, r)
  <2> HIDE DEF Q, States
  <2> QED BY <1>5, <1>6
<1>8. r.map.node = <<>>
  <2> DEFINE q == r.map.node
  <2>1. q \in Seq(Node) /\ Len(q) = 0
    <3>1. r.map \in Hashmap
      BY <1>7
    <3> QED BY <1>1, <1>7, <3>1, Parts
  <2> HIDE DEF q
  <2>2. q = <<>>
    BY <2>1
  <2> QED BY <2>2 DEF q
<1>9. SubSeq(a.node, 1, n) = a.node
  BY <1>1, WholePrefix
<1> QED BY <1>7, <1>8, <1>9
----------------------------------------------------------------------------
(* Sequences with the same elements are the same. *)
LEMMA SameSeq ==
  ASSUME NEW S, NEW s \in Seq(S), NEW T, NEW t \in Seq(T), Len(s) = Len(t), \A i \in 1..Len(s) : s[i] = t[i]
  PROVE  s = t
<1>1. Len(s) \in Nat /\ s = [i \in 1..Len(s) |-> s[i]] /\ t = [i \in 1..Len(s) |-> t[i]]
  OBVIOUS
<1> QED BY <1>1

LEMMA ConcatIs ==
  ASSUME NEW S, NEW p \in Seq(S), NEW q \in Seq(S)
  PROVE  /\ p \o q \in Seq(S) /\ Len(p \o q) = Len(p) + Len(q)
         /\ \A i \in 1..Len(p) : (p \o q)[i] = p[i]
         /\ \A i \in 1..Len(q) : (p \o q)[Len(p) + i] = q[i]
<1>1. Len(p) \in Nat /\ Len(q) \in Nat
  OBVIOUS
<1>2. p \o q \in Seq(S) /\ Len(p \o q) = Len(p) + Len(q)
  OBVIOUS
<1> QED BY <1>1, <1>2

(* array_slice() and array_splice() in range *)
LEMMA SlicesExact ==
  ASSUME NEW a \in Hashmap, NEW o \in 0..(Len(a.node) - 1), NEW l \in 0..Len(a.node), o + l <= Len(a.node)
  PROVE  LET n == Len(a.node)
         IN /\ Values(Slice(a, o, l, FALSE)) = SubSeq(Values(a), o + 1, o + l)
            /\ Slice(a, o - n, l, TRUE).node = SubSeq(a.node, o + 1, o + l)
            /\ o + l < n => Slice(a, o, l - (n - o), FALSE) = Slice(a, o, l, FALSE)
            /\ Spliced(a, o, l, <<>>).node = SubSeq(a.node, 1, o) \o SubSeq(a.node, o + l + 1, n)
<1> DEFINE n == Len(a.node)
<1>1. n \in Nat \ {0} /\ a.node \in Seq(Node) /\ a.node # <<>> /\ o \in Nat /\ l \in Nat /\ o \in Int /\ l \in Int
  BY Parts
<1>0. o + l <= n /\ o < n /\ o <= n /\ n - (o + l) \in Nat
  BY <1>1
<1>2. SliceOffset(n, o) = o /\ SliceLength(n, o, l) = l
  <2>1. SliceOffset(n, o) = o
    BY <1>1 DEF SliceOffset
  <2>2. SliceLength(n, o, l) = l
    BY <1>1 DEF SliceLength
  <2> QED BY <2>1, <2>2
<1>3. SliceOffset(n, o - n) = o
  BY <1>1 DEF SliceOffset
<1>4. ASSUME o + l < n PROVE SliceLength(n, o, l - (n - o)) = l
  <2> DEFINE k == l - (n - o)
  <2> HIDE DEF n
  <2>1. k \in Int /\ k < 0 /\ n + k - o = l
    BY <1>1, <1>0, <1>4
  <2> HIDE DEF k
  <2>2. SliceLength(n, o, k) = IF n + k - o < 0 \/ o + (n + k - o) >= n THEN n - o ELSE n + k - o
    BY <2>1 DEF SliceLength
  <2>3. SliceLength(n, o, k) = l
    BY <1>1, <1>4, <2>1, <2>2
  <2> QED BY <2>3 DEF k
<1>5. Values(Slice(a, o, l, FALSE)) = SubSeq(Values(a), o + 1, o + l)
  <2> DEFINE r == Slice(a, o, l, FALSE)  s == Values(r)  t == SubSeq(Values(a), o + 1, o + l)
  <2>1. r \in Hashmap /\ Len(r.node) = l /\ \A j \in 1..l : r.node[j].val = a.node[o + j].val
    <3>1. LET x == SliceOffset(Len(a.node), o)  y == SliceLength(Len(a.node), x, l)
          IN r \in Hashmap /\ Len(r.node) = y /\ \A j \in 1..y : r.node[j].val = a.node[x + j].val
      BY <1>1, SliceIs
    <3> HIDE DEF r
    <3> QED BY <1>2, <3>1
  <2> HIDE DEF r
  <2>2. s \in Seq(Value) /\ Len(s) = l /\ \A j \in 1..l : s[j] = a.node[o + j].val
    BY <2>1, ValuesAre
  <2>3. Values(a) \in Seq(Value) /\ Len(Values(a)) = n /\ \A i \in 1..n : Values(a)[i] = a.node[i].val
    BY ValuesAre
  <2> DEFINE v == Values(a)
  <2> HIDE DEF s, v
  <2>4. LET w == SubSeq(v, o + 1, o + l)
        IN w \in Seq(Value) /\ Len(w) = l /\ \A j \in 1..l : w[j] = v[o + j]
    BY <1>1, <2>3, PartIs DEF v
  <2>5. \A j \in 1..l : o + j \in 1..n
    BY <1>1
  <2>6. t \in Seq(Value) /\ Len(t) = l /\ \A j \in 1..l : t[j] = s[j]
    BY <2>2, <2>3, <2>4, <2>5 DEF v
  <2> HIDE DEF t
  <2>7. s = t
    BY <2>2, <2>6, SameSeq
  <2> QED BY <2>7 DEF s, t, r
<1>6. Slice(a, o - n, l, TRUE).node = SubSeq(a.node, o + 1, o + l)
  <2>1. o - n \in Int
    BY <1>1
  <2> DEFINE p == o - n
  <2>2. p \in Int /\ SliceOffset(n, p) = o
    BY <2>1, <1>3
  <2> HIDE DEF p
  <2>3. LET r == Slice(a, p, l, TRUE)
        IN r.node = SubSeq(a.node, SliceOffset(n, p) + 1, SliceOffset(n, p) + SliceLength(n, SliceOffset(n, p), l))
    BY <1>1, <2>2, SliceIs
  <2> QED BY <2>2, <2>3, <1>2 DEF p
<1>7. ASSUME o + l < n PROVE Slice(a, o, l - (n - o), FALSE) = Slice(a, o, l, FALSE)
  BY <1>2, <1>4, <1>7 DEF Slice
<1>8. Spliced(a, o, l, <<>>).node = SubSeq(a.node, 1, o) \o SubSeq(a.node, o + l + 1, n)
  <2> DEFINE rep == <<>>
  <2>1. rep \in Seq(Node) /\ rep = <<>>
    OBVIOUS
  <2> HIDE DEF rep
  <2> DEFINE r == Spliced(a, o, l, rep)  s == r.node
             p == SubSeq(a.node, 1, o)  q == SubSeq(a.node, o + l + 1, n)  t == p \o q
  <2>2. /\ r \in Hashmap /\ Len(s) = n - l
        /\ \A j \in 1..(n - l) : s[j] = a.node[IF j <= o THEN j ELSE j + l]
    <3>1. LET x == SliceOffset(Len(a.node), o)  y == SliceLength(Len(a.node), x, l)
          IN /\ r \in Hashmap
             /\ rep = <<>> => /\ Len(r.node) = Len(a.node) - y
                              /\ \A j \in 1..(Len(a.node) - y) : r.node[j] = a.node[IF j <= x THEN j ELSE j + y]
      BY <1>1, <2>1, SplicedIs
    <3> HIDE DEF r
    <3> QED BY <1>2, <2>1, <3>1
  <2> HIDE DEF r
  <2>3. s \in Seq(Node)
    BY <2>2, Parts
  <2> HIDE DEF s
  <2>4. p \in Seq(Node) /\ Len(p) = o /\ \A j \in 1..o : p[j] = a.node[j]
    <3>1. LET w == SubSeq(a.node, 0 + 1, 0 + o)
          IN w \in Seq(Node) /\ Len(w) = o /\ \A j \in 1..o : w[j] = a.node[0 + j]
      BY <1>1, PartIs
    <3>2. 0 + 1 = 1 /\ 0 + o = o /\ \A j \in 1..o : 0 + j = j
      BY <1>1
    <3> QED BY <3>1, <3>2
  <2>5. q \in Seq(Node) /\ Len(q) = n - (o + l) /\ \A j \in 1..(n - (o + l)) : q[j] = a.node[o + l + j]
    <3> DEFINE u == o + l  k == n - u
    <3>1. u \in Nat /\ k \in Nat /\ u + k = n
      <4> HIDE DEF n
      <4> QED BY <1>0, <1>1
    <3> HIDE DEF u, k
    <3>2. LET w == SubSeq(a.node, u + 1, u + k)
          IN w \in Seq(Node) /\ Len(w) = k /\ \A j \in 1..k : w[j] = a.node[u + j]
      BY <1>1, <3>1, PartIs
    <3> QED BY <3>1, <3>2 DEF u, k
  <2> HIDE DEF p, q
  <2>6. t \in Seq(Node) /\ Len(t) = n - l
    <3> HIDE DEF n
    <3>1. Len(t) = Len(p) + Len(q) /\ t \in Seq(Node)
      BY <2>4, <2>5, ConcatIs
    <3> QED BY <1>0, <1>1, <2>4, <2>5, <3>1
  <2>7. ASSUME NEW j \in 1..(n - l) PROVE s[j] = t[j]
    <3> HIDE DEF n
    <3>0. j \in Nat /\ j >= 1 /\ j <= n - l
      BY <1>0, <1>1
    <3>1. CASE j <= o
      <4>1. j \in 1..o /\ t[j] = p[j]
        BY <1>1, <2>4, <2>5, <3>0, <3>1
      <4> QED BY <2>2, <2>4, <3>1, <4>1
    <3>2. CASE ~(j <= o)
      <4>1. j - o \in 1..(n - (o + l)) /\ o + l + (j - o) = j + l
        BY <1>0, <1>1, <3>0, <3>2
      <4>2. t[j] = q[j - o]
        <5>1. j - o \in 1..Len(q) /\ Len(p) + (j - o) = j
          BY <1>0, <1>1, <2>4, <2>5, <3>0, <4>1
        <5>2. \A k \in 1..Len(q) : t[Len(p) + k] = q[k]
          <6>1. p \in Seq(Node) /\ q \in Seq(Node)
            BY <2>4, <2>5
          <6> QED BY <6>1, ConcatIs
        <5> HIDE DEF t
        <5> QED BY <5>1, <5>2
      <4> QED BY <2>2, <2>5, <3>2, <4>1, <4>2
    <3> QED BY <3>1, <3>2
  <2> HIDE DEF t
  <2>8. Len(s) = Len(t) /\ Len(s) = n - l
    BY <2>2, <2>6
  <2>9. s = t
    BY <2>3, <2>6, <2>7, <2>8, SameSeq
  <2> QED BY <2>1, <2>9 DEF s, r, t, p, q
<1> QED BY <1>5, <1>6, <1>7, <1>8
----------------------------------------------------------------------------
LEMMA Rejoined ==
  ASSUME NEW S, NEW v \in Seq(S), NEW i \in 0..Len(v), NEW j \in 0..Len(v), i <= j
  PROVE  SubSeq(v, 1, i) \o SubSeq(v, i + 1, j) = SubSeq(v, 1, j)
<1>1. 1 \in 1..(Len(v) + 1) /\ i \in (1 - 1)..Len(v) /\ j \in i..Len(v)
  OBVIOUS
<1> QED BY <1>1, ConcatAdjacentSubSeq

(* The sequences of s, one after the other, by the folds of other functions *)
PartsOf(S, s, v, at, n) ==
  /\ n \in Nat \ {0} /\ s \in Seq(Seq(S)) /\ Len(s) = n /\ v \in Seq(S)
  /\ at[0] = 0 /\ at[n] = Len(v) /\ \A i \in 0..n : at[i] \in 0..Len(v)
  /\ \A i \in 1..n : at[i - 1] <= at[i] /\ s[i] = SubSeq(v, at[i - 1] + 1, at[i])

LEMMA FlatIs ==
  ASSUME NEW S, NEW n, NEW s, NEW v, NEW at, PartsOf(S, s, v, at, n)
  PROVE  FlattenSeq(s) = v
<1>0. /\ n \in Nat \ {0} /\ s \in Seq(Seq(S)) /\ Len(s) = n /\ v \in Seq(S)
      /\ at[0] = 0 /\ at[n] = Len(v) /\ \A i \in 0..n : at[i] \in 0..Len(v)
      /\ \A i \in 1..n : at[i - 1] <= at[i] /\ s[i] = SubSeq(v, at[i - 1] + 1, at[i])
  BY DEF PartsOf
<1> DEFINE D == 1..n
           Eq(f) == f = [i \in D |-> IF i = 1 THEN s[i] ELSE f[i - 1] \o s[i]]
           flat == CHOOSE f : Eq(f)
<1>1. \E f : Eq(f)
  <2>1. PICK r : Chain(r, "cat", 0, <<>>, s, D, n)
    BY <1>0, ChainExists
  <2>2. r[0] = <<>> /\ \A i \in D : r[i] = r[i - 1] \o s[i]
    BY <2>1 DEF Chain, Step
  <2> DEFINE f == [i \in D |-> r[i]]
  <2>3. ASSUME NEW i \in D PROVE f[i] = IF i = 1 THEN s[i] ELSE f[i - 1] \o s[i]
    <3>1. CASE i = 1
      <4>1. s[1] \in Seq(S)
        BY <1>0
      <4>2. <<>> \o s[1] = s[1]
        BY <4>1, ConcatEmptySeq
      <4>3. r[1] = <<>> \o s[1]
        <5>1. 1 \in D /\ 1 - 1 = 0
          BY <1>0
        <5>2. r[1] = r[1 - 1] \o s[1]
          BY <2>2, <5>1
        <5> QED BY <2>2, <5>1, <5>2
      <4> QED BY <3>1, <4>2, <4>3
    <3>2. CASE i # 1
      <4>1. i - 1 \in D
        BY <1>0, <3>2
      <4> QED BY <2>2, <3>2, <4>1
    <3> QED BY <3>1, <3>2
  <2>4. Eq(f)
    BY <2>3
  <2> QED BY <2>4
<1>2. Eq(flat)
  <2> HIDE DEF Eq
  <2> QED BY <1>1
<1>3. FlattenSeq(s) = flat[n]
  BY <1>0 DEF FlattenSeq
<1>4. \A i \in D : flat[i] = IF i = 1 THEN s[i] ELSE flat[i - 1] \o s[i]
  BY <1>2
<1> HIDE DEF flat, Eq
<1> DEFINE G == {i \in 0..n : i # 0 => flat[i] = SubSeq(v, 1, at[i])}
<1>5. 0 \in G
  BY <1>0
<1>6. ASSUME NEW i \in 0..n, i < n, i \in G PROVE i + 1 \in G
  <2> DEFINE j == i + 1
  <2>1. j \in 1..n /\ j - 1 = i /\ j \in 0..n /\ j # 0
    BY <1>0, <1>6
  <2>2. at[i] \in 0..Len(v) /\ at[j] \in 0..Len(v) /\ at[i] <= at[j] /\ s[j] = SubSeq(v, at[i] + 1, at[j])
    BY <1>0, <2>1
  <2> HIDE DEF j
  <2>3. CASE i = 0
    <3>1. flat[j] = s[j] /\ at[i] = 0
      BY <1>0, <1>4, <2>1, <2>3
    <3> QED BY <1>0, <2>1, <2>2, <3>1 DEF j
  <2>4. CASE i # 0
    <3>1. flat[i] = SubSeq(v, 1, at[i])
      BY <1>0, <1>6, <2>4
    <3>2. flat[j] = flat[i] \o s[j]
      <4>1. j # 1
        BY <1>0, <2>1, <2>4
      <4>2. flat[j] = flat[j - 1] \o s[j]
        BY <1>4, <2>1, <4>1
      <4> QED BY <2>1, <4>2
    <3>3. SubSeq(v, 1, at[i]) \o SubSeq(v, at[i] + 1, at[j]) = SubSeq(v, 1, at[j])
      BY <1>0, <2>2, Rejoined
    <3> QED BY <2>1, <2>2, <3>1, <3>2, <3>3 DEF j
  <2> QED BY <2>3, <2>4
<1>7. 0..n \subseteq G
  <2> HIDE DEF G
  <2> QED BY <1>0, <1>5, <1>6, UpTo
<1>8. flat[n] = SubSeq(v, 1, Len(v))
  BY <1>0, <1>7
<1> QED BY <1>0, <1>3, <1>8, WholePrefix
LEMMA GatheredValues ==
  ASSUME NEW a \in Hashmap, NEW o \in Nat, NEW t \in Nat, o <= t, t <= Len(a.node)
  PROVE  LET r == Gathered(SubSeq(a.node, o + 1, t), FALSE)
         IN r \in Hashmap /\ Len(r.node) = t - o /\ Values(r) = SubSeq(Values(a), o + 1, t)
<1> DEFINE n == Len(a.node)  l == t - o  v == Values(a)  xs == SubSeq(a.node, o + 1, t)
           r == Gathered(xs, FALSE)  s == Values(r)  w == SubSeq(v, o + 1, t)
<1>1. n \in Nat /\ a.node \in Seq(Node) /\ l \in Nat /\ o + l = t
  BY Parts
<1>2. v \in Seq(Value) /\ Len(v) = n /\ \A i \in 1..n : v[i] = a.node[i].val
  BY ValuesAre
<1> HIDE DEF v
<1>3. o + l <= Len(a.node) /\ o + l <= Len(v)
  BY <1>1, <1>2
<1> HIDE DEF l
<1>4. xs \in Seq(Node) /\ Len(xs) = l /\ \A j \in 1..l : xs[j] = a.node[o + j]
  <2>1. LET u == SubSeq(a.node, o + 1, o + l) IN u \in Seq(Node) /\ Len(u) = l /\ \A j \in 1..l : u[j] = a.node[o + j]
    BY <1>1, <1>3, PartIs
  <2> QED BY <1>1, <2>1
<1>5. w \in Seq(Value) /\ Len(w) = l /\ \A j \in 1..l : w[j] = v[o + j]
  <2>1. LET u == SubSeq(v, o + 1, o + l) IN u \in Seq(Value) /\ Len(u) = l /\ \A j \in 1..l : u[j] = v[o + j]
    BY <1>1, <1>2, <1>3, PartIs
  <2> QED BY <1>1, <2>1
<1> HIDE DEF xs, w
<1>6. r \in Hashmap /\ Len(r.node) = l /\ \A j \in 1..l : r.node[j].val = xs[j].val
  BY <1>4, GatheredIs
<1> HIDE DEF r
<1>7. s \in Seq(Value) /\ Len(s) = l /\ \A j \in 1..l : s[j] = r.node[j].val
  BY <1>6, ValuesAre
<1> HIDE DEF s
<1>8. \A j \in 1..l : o + j \in 1..n
  BY <1>1, <1>3
<1>9. ASSUME NEW j \in 1..Len(s) PROVE s[j] = w[j]
  <2>1. j \in 1..l /\ o + j \in 1..n
    BY <1>7, <1>8
  <2> HIDE DEF n
  <2>2. s[j] = xs[j].val /\ xs[j] = a.node[o + j]
    BY <1>4, <1>6, <1>7, <2>1
  <2>3. w[j] = a.node[o + j].val
    BY <1>2, <1>5, <2>1
  <2> QED BY <2>2, <2>3
<1>10. s = w
  BY <1>5, <1>7, <1>9, SameSeq
<1> QED BY <1>6, <1>10 DEF r, s, w, l, v, xs

(* The n elements in chunks of s *)
LEMMA DivIs ==
  ASSUME NEW n \in Nat, NEW s \in Nat \ {0}, n % s # 0
  PROVE  /\ n \div s \in Nat /\ (n \div s) * s < n /\ n < (n \div s + 1) * s
         /\ \A i \in 0..(n \div s) : i * s \in Nat /\ i * s <= (n \div s) * s
<1> DEFINE q == n \div s
<1>1. q \in Nat /\ n % s \in 0..(s - 1) /\ n = s * q + (n % s)
  OBVIOUS
<1> HIDE DEF q
<1>2. q * s < n /\ n < (q + 1) * s
  <2> DEFINE r == n % s
  <2>1. r \in 1..(s - 1) /\ n = s * q + r
    BY <1>1
  <2> HIDE DEF r
  <2>2. (q + 1) * s = q * s + s /\ s * q = q * s /\ s * q \in Nat
    BY <1>1
  <2> QED BY <2>1, <2>2
<1>3. ASSUME NEW i \in 0..q PROVE i * s \in Nat /\ i * s <= q * s
  <2>1. q - i \in Nat
    BY <1>1
  <2>2. (q - i) * s \in Nat /\ i * s \in Nat
    BY <2>1, <1>1
  <2>3. (q - i) * s = q * s - i * s
    BY <1>1
  <2>4. q * s \in Nat
    BY <1>1
  <2> QED BY <2>2, <2>3, <2>4
<1> QED BY <1>1, <1>2, <1>3 DEF q

LEMMA ChunksExact ==
  ASSUME NEW a \in Hashmap, NEW s \in 1..Len(a.node), s = Len(a.node) \/ Len(a.node) % s # 0
  PROVE  LET c == Chunk(a, s, FALSE)
         IN /\ FlattenSeq([i \in DOMAIN c |-> Values(c[i])]) = Values(a)
            /\ \A i \in DOMAIN c : i < Len(c) => Len(c[i].node) = s
<1> DEFINE n == Len(a.node)  c == Chunk(a, s, FALSE)  v == Values(a)
           f == [i \in DOMAIN c |-> Values(c[i])]
<1>1. n \in Nat \ {0} /\ s \in Nat \ {0} /\ s <= n
  BY Parts
<1>2. v \in Seq(Value) /\ Len(v) = n
  BY ValuesAre
<1>3. CASE s = n
  <2>1. c = <<a>>
    BY <1>1, <1>3 DEF Chunk
  <2> HIDE DEF c
  <2>2. f = [i \in 1..1 |-> v]
    BY <2>1
  <2> DEFINE at == [i \in 0..1 |-> IF i = 0 THEN 0 ELSE Len(v)]  g == [i \in 1..1 |-> v]
  <2>3. SubSeq(v, 1, Len(v)) = v
    BY <1>2, WholePrefix
  <2>4. g \in Seq(Seq(Value)) /\ Len(g) = 1
    <3> HIDE DEF v
    <3>1. \A i \in 1..1 : g[i] \in Seq(Value)
      BY <1>2
    <3> QED BY <3>1, IsASeq
  <2>5. \A i \in 0..1 : at[i] \in 0..Len(v)
    BY <1>1, <1>2
  <2>6. at[0] = 0 /\ at[1] = Len(v)
    OBVIOUS
  <2>7. \A i \in 1..1 : at[i - 1] <= at[i] /\ g[i] = SubSeq(v, at[i - 1] + 1, at[i])
    <3>1. 0 <= Len(v) /\ 0 + 1 = 1 /\ 1 - 1 = 0 /\ g[1] = v
      BY <1>1, <1>2
    <3> HIDE DEF at, g
    <3> QED BY <2>3, <2>6, <3>1
  <2> HIDE DEF at, g, v
  <2>8. FlattenSeq(g) = v
    <3>1. PartsOf(Value, g, v, at, 1)
      BY <1>2, <2>4, <2>5, <2>6, <2>7 DEF PartsOf
    <3> QED BY <3>1, FlatIs
  <2>9. FlattenSeq(f) = v
    BY <2>2, <2>8 DEF g
  <2>10. \A i \in DOMAIN c : ~(i < Len(c))
    <3>1. DOMAIN c = 1..1 /\ Len(c) = 1
      BY <2>1
    <3> QED BY <3>1
  <2> QED BY <2>9, <2>10 DEF c, v
<1>4. CASE s # n
  <2> DEFINE q == n \div s  h == q + 1  at == [i \in 0..h |-> IF i * s < n THEN i * s ELSE n]
  <2>1. /\ q \in Nat /\ q * s < n /\ n < (q + 1) * s
        /\ \A i \in 0..q : i * s \in Nat /\ i * s <= q * s
    BY <1>1, <1>4, DivIs
  <2>2. c = [i \in 1..h |-> Gathered(SubSeq(a.node, (i - 1) * s + 1, IF i * s < n THEN i * s ELSE n), FALSE)]
    <3>1. n % s # 0
      BY <1>4, Zenon
    <3>2. ~(s >= n)
      BY <1>1, <1>4
    <3> QED BY <3>1, <3>2 DEF Chunk
  <2> HIDE DEF q, c
  <2>3. h \in Nat \ {0} /\ h - 1 = q
    BY <2>1
  <2>4. \A i \in 0..q : at[i] = i * s /\ at[i] \in Nat /\ at[i] < n
    <3> SUFFICES ASSUME NEW i \in 0..q PROVE at[i] = i * s /\ at[i] \in Nat /\ at[i] < n
      OBVIOUS
    <3>1. i \in 0..h
      BY <2>1
    <3>2. i * s \in Nat /\ i * s <= q * s /\ q * s < n /\ q * s \in Int
      BY <1>1, <2>1
    <3>3. i * s < n
      BY <1>1, <3>2
    <3> QED BY <3>1, <3>2, <3>3
  <2>5. at[h] = n /\ at[0] = 0
    <3>1. ~(h * s < n) /\ h \in 0..h /\ 0 * s = 0 /\ 0 < n /\ 0 \in 0..h
      BY <2>1, <2>3, <1>1
    <3> QED BY <3>1
  <2> HIDE DEF at
  <2>6. \A i \in 1..q : i * s = (i - 1) * s + s
    BY <1>1, <2>1
  <2>7. ASSUME NEW i \in 1..h
        PROVE  /\ at[i - 1] = (i - 1) * s /\ at[i - 1] \in Nat
               /\ at[i] \in Nat /\ at[i - 1] <= at[i] /\ at[i] <= n
               /\ i < h => at[i] - at[i - 1] = s
    <3>1. i - 1 \in 0..q /\ at[i - 1] = (i - 1) * s /\ at[i - 1] \in Nat /\ at[i - 1] < n
      BY <2>3, <2>4
    <3>2. CASE i = h
      BY <1>1, <2>5, <3>1, <3>2
    <3>3. CASE i # h
      <4>1. i \in 1..q /\ i \in 0..q
        BY <2>3, <3>3
      <4>2. at[i] = i * s /\ at[i] \in Nat /\ at[i] < n /\ i * s = (i - 1) * s + s
        BY <2>4, <2>6, <4>1
      <4> QED BY <1>1, <3>1, <4>2
    <3> QED BY <3>2, <3>3
  <2>8. ASSUME NEW i \in 1..h
        PROVE  /\ c[i] \in Hashmap /\ Len(c[i].node) = at[i] - at[i - 1]
               /\ Values(c[i]) = SubSeq(v, at[i - 1] + 1, at[i])
    <3>1. at[i] = IF i * s < n THEN i * s ELSE n
      BY <2>3 DEF at
    <3>2. c[i] = Gathered(SubSeq(a.node, at[i - 1] + 1, at[i]), FALSE)
      BY <2>2, <2>7, <3>1
    <3> DEFINE o == at[i - 1]  t == at[i]
    <3>3. o \in Nat /\ t \in Nat /\ o <= t /\ t <= Len(a.node)
      BY <2>7
    <3> HIDE DEF o, t
    <3>4. LET r == Gathered(SubSeq(a.node, o + 1, t), FALSE)
          IN r \in Hashmap /\ Len(r.node) = t - o /\ Values(r) = SubSeq(Values(a), o + 1, t)
      BY <3>3, GatheredValues
    <3> QED BY <3>2, <3>4 DEF o, t
  <2>9. DOMAIN c = 1..h /\ Len(c) = h
    BY <2>2, <2>3
  <2> DEFINE g == [i \in 1..h |-> Values(c[i])]
  <2>10. g \in Seq(Seq(Value)) /\ Len(g) = h
    <3>1. \A i \in 1..h : Values(c[i]) \in Seq(Value)
      BY <2>8, ValuesAre
    <3> HIDE DEF h
    <3> QED BY <2>3, <3>1, IsASeq
  <2>11. \A i \in 0..h : at[i] \in 0..Len(v)
    <3>1. ASSUME NEW i \in 0..h PROVE at[i] \in 0..n
      <4>1. CASE i = 0
        BY <2>5, <4>1, <1>1
      <4>2. CASE i # 0
        <5>1. i \in 1..h
          BY <4>2
        <5> QED BY <1>1, <2>7, <5>1
      <4> QED BY <4>1, <4>2
    <3> QED BY <1>2, <3>1
  <2>12. \A i \in 1..h : at[i - 1] <= at[i] /\ g[i] = SubSeq(v, at[i - 1] + 1, at[i])
    BY <2>7, <2>8
  <2>13. f = g
    BY <2>9
  <2> HIDE DEF g, v, h
  <2>14. FlattenSeq(g) = v
    <3>1. PartsOf(Value, g, v, at, h)
      BY <1>2, <2>3, <2>5, <2>10, <2>11, <2>12 DEF PartsOf
    <3> QED BY <3>1, FlatIs
  <2>15. \A i \in DOMAIN c : i < Len(c) => Len(c[i].node) = s
    BY <2>7, <2>8, <2>9
  <2> QED BY <2>13, <2>14, <2>15 DEF v, c
<1> QED BY <1>3, <1>4

LEMMA InvCuts == ASSUME IInv PROVE CutsExact
<1> DEFINE n == Len(arr.node)
<1>0. arr \in Hashmap /\ n \in Nat
  BY Parts DEF IInv
<1>1. ASSUME NEW o \in 0..(n - 1), NEW l \in 0..n, o + l <= n
      PROVE  /\ Values(Slice(arr, o, l, FALSE)) = SubSeq(Values(arr), o + 1, o + l)
             /\ Slice(arr, o - n, l, TRUE).node = SubSeq(arr.node, o + 1, o + l)
             /\ o + l < n => Slice(arr, o, l - (n - o), FALSE) = Slice(arr, o, l, FALSE)
             /\ Spliced(arr, o, l, <<>>).node = SubSeq(arr.node, 1, o) \o SubSeq(arr.node, o + l + 1, n)
  BY <1>0, <1>1, SlicesExact
<1>2. ASSUME NEW s \in 1..n, s = n \/ n % s # 0
      PROVE  LET c == Chunk(arr, s, FALSE)
             IN /\ FlattenSeq([i \in DOMAIN c |-> Values(c[i])]) = Values(arr)
                /\ \A i \in DOMAIN c : i < Len(c) => Len(c[i].node) = s
  BY <1>0, <1>2, ChunksExact
<1> HIDE DEF n
<1> QED BY <1>1, <1>2, Zenon DEF CutsExact, n
----------------------------------------------------------------------------
(* Two arrays that hold, together, the elements of a *)
PartsMake(p, q, a) ==
  /\ {p.node[i] : i \in DOMAIN p.node} \cup {q.node[i] : i \in DOMAIN q.node}
       = {a.node[i] : i \in DOMAIN a.node}
  /\ Len(p.node) + Len(q.node) = Len(a.node)

LEMMA KeptParts ==
  ASSUME NEW a \in Hashmap, NEW I
  PROVE  PartsMake(Kept(a, DOMAIN a.node \ I), Kept(a, DOMAIN a.node \cap I), a)
<1> DEFINE D == 1..Len(a.node)  J == D \ I  K == D \cap I
           p == Kept(a, J)  q == Kept(a, K)  xs == At(a, J)  ys == At(a, K)
<1>1. DOMAIN a.node = D /\ Len(a.node) \in Nat
  BY Parts
<1>2. IsFiniteSet(D) /\ Cardinality(D) = Len(a.node)
  <2> DEFINE n == Len(a.node)
  <2>1. n \in Nat
    BY <1>1
  <2> HIDE DEF n
  <2>2. IsFiniteSet(1..n) /\ Cardinality(1..n) = IF 1 > n THEN 0 ELSE n - 1 + 1
    BY <2>1, FS_Interval
  <2>3. IsFiniteSet(1..n) /\ Cardinality(1..n) = n
    BY <2>1, <2>2
  <2> QED BY <2>3 DEF n
<1>3. J \cap D = J /\ K \cap D = K /\ J \in SUBSET D /\ K \in SUBSET D
  OBVIOUS
<1>4. p.node = xs /\ q.node = ys
  BY KeptIs
<1> DEFINE k == Len(a.node)
<1>5. J \cap 1..k = J /\ K \cap 1..k = K /\ J \in SUBSET (1..k) /\ K \in SUBSET (1..k)
  BY <1>3
<1> HIDE DEF J, K
<1>6. xs \in Seq(Node) /\ Picked(xs, a, J)
  BY <1>5, AtIs
<1>7. ys \in Seq(Node) /\ Picked(ys, a, K)
  BY <1>5, AtIs
<1> HIDE DEF xs, ys
<1>8. {xs[j] : j \in DOMAIN xs} = {a.node[i] : i \in J}
  BY <1>5, <1>6, PickedApart
<1>9. {ys[j] : j \in DOMAIN ys} = {a.node[i] : i \in K}
  BY <1>5, <1>7, PickedApart
<1>10. {xs[j] : j \in DOMAIN xs} \cup {ys[j] : j \in DOMAIN ys} = {a.node[i] : i \in DOMAIN a.node}
  <2>1. {a.node[i] : i \in J} \cup {a.node[i] : i \in K} = {a.node[i] : i \in D}
    <3>1. J \cup K = D
      BY DEF J, K
    <3> QED BY <3>1
  <2> QED BY <1>1, <1>8, <1>9, <2>1
<1>11. Len(xs) + Len(ys) = Len(a.node)
  <2>1. Len(xs) = Cardinality(J) /\ Len(ys) = Cardinality(K)
    BY <1>6, <1>7 DEF Picked
  <2>2. Cardinality(J) = Cardinality(D) - Cardinality(D \cap I)
    BY <1>2, FS_Difference DEF J
  <2>3. Cardinality(K) \in Nat
    <3>1. IsFiniteSet(K)
      BY <1>2, <1>3, FS_Subset
    <3> QED BY <3>1, FS_CardinalityType
  <2> QED BY <1>1, <1>2, <2>1, <2>2, <2>3 DEF K
<1> QED BY <1>1, <1>4, <1>10, <1>11 DEF PartsMake, J, K

LEMMA DiffsWhole ==
  ASSUME NEW a \in Hashmap, NEW b, NEW equal
  PROVE  /\ PartsMake(Diff(a, {b}), Intersect(a, {b}), a)
         /\ PartsMake(DiffAssoc(a, {b}), IntersectAssoc(a, {b}), a)
         /\ PartsMake(DiffKey(a, {b}), IntersectKey(a, {b}), a)
         /\ PartsMake(Udiff(a, {b}, equal), Uintersect(a, {b}, equal), a)
<1> DEFINE D == DOMAIN a.node
<1>1. /\ Common(a, b) \subseteq D /\ Same(a, b) \subseteq D /\ SameKey(a, b) \subseteq D
      /\ CommonBy(a, b, equal) \subseteq D
  BY DEF Common, Same, SameKey, CommonBy
<1>2. Diff(a, {b}) = Kept(a, D \ Common(a, b)) /\ Intersect(a, {b}) = Kept(a, D \cap Common(a, b))
  <2>1. UNION {Common(a, x) : x \in {b}} = Common(a, b)
    OBVIOUS
  <2>2. {i \in D : \A x \in {b} : i \in Common(a, x)} = D \cap Common(a, b)
    OBVIOUS
  <2> QED BY <2>1, <2>2 DEF Diff, Intersect
<1>3. DiffAssoc(a, {b}) = Kept(a, D \ Same(a, b)) /\ IntersectAssoc(a, {b}) = Kept(a, D \cap Same(a, b))
  <2>1. UNION {D \ Same(a, x) : x \in {b}} = D \ Same(a, b)
    OBVIOUS
  <2>2. {i \in D : \A x \in {b} : i \in Same(a, x)} = D \cap Same(a, b)
    OBVIOUS
  <2> QED BY <2>1, <2>2 DEF DiffAssoc, IntersectAssoc
<1>4. DiffKey(a, {b}) = Kept(a, D \ SameKey(a, b)) /\ IntersectKey(a, {b}) = Kept(a, D \cap SameKey(a, b))
  <2>1. UNION {SameKey(a, x) : x \in {b}} = SameKey(a, b)
    OBVIOUS
  <2>2. {i \in D : \A x \in {b} : i \in SameKey(a, x)} = D \cap SameKey(a, b)
    OBVIOUS
  <2> QED BY <2>1, <2>2 DEF DiffKey, IntersectKey
<1>5. /\ Udiff(a, {b}, equal) = Kept(a, D \ CommonBy(a, b, equal))
      /\ Uintersect(a, {b}, equal) = Kept(a, D \cap CommonBy(a, b, equal))
  <2>1. UNION {CommonBy(a, x, equal) : x \in {b}} = CommonBy(a, b, equal)
    OBVIOUS
  <2>2. {i \in D : \A x \in {b} : i \in CommonBy(a, x, equal)} = D \cap CommonBy(a, b, equal)
    OBVIOUS
  <2> QED BY <2>1, <2>2 DEF Udiff, Uintersect
<1> QED BY <1>2, <1>3, <1>4, <1>5, KeptParts

(* As many elements as keys *)
LEMMA SizeIs ==
  ASSUME NEW xs \in Seq(Node), KeysApart(xs), NEW T
  PROVE  LET K == {xs[i].key : i \in {j \in 1..Len(xs) : xs[j].key \in T}}
         IN IsFiniteSet(K) /\ Cardinality({j \in 1..Len(xs) : xs[j].key \in T}) = Cardinality(K)
<1> DEFINE n == Len(xs)  J == {j \in 1..n : xs[j].key \in T}  K == {xs[i].key : i \in J}
           f == [i \in J |-> xs[i].key]
<1>1. n \in Nat /\ DOMAIN xs = 1..n /\ J \in SUBSET (1..n)
  OBVIOUS
<1>2. IsFiniteSet(J)
  <2>1. IsFiniteSet(1..n)
    BY <1>1, FS_Interval
  <2> HIDE DEF J
  <2> QED BY <1>1, <2>1, FS_Subset
<1>3. f \in [J -> K] /\ (\A i, j \in J : f[i] = f[j] => i = j) /\ \A k \in K : \E i \in J : f[i] = k
  <2>1. \A i, j \in J : xs[i].key = xs[j].key => i = j
    BY <1>1 DEF KeysApart
  <2> HIDE DEF J
  <2> QED BY <2>1
<1> HIDE DEF f, J, K
<1>4. f \in Bijection(J, K)
  BY <1>3 DEF Bijection, Injection, Surjection, IsInjective
<1>5. ExistsBijection(J, K)
  BY <1>4 DEF ExistsBijection
<1> QED BY <1>2, <1>5, FS_Bijection DEF J, K

LEMMA LenIs ==
  ASSUME NEW m \in Hashmap, Distinct(m)
  PROVE  IsFiniteSet(KeysOf(m)) /\ Len(m.node) = Cardinality(KeysOf(m))
<1> DEFINE xs == m.node
<1>1. xs \in Seq(Node) /\ Len(xs) \in Nat /\ DOMAIN xs = 1..Len(xs) /\ \A i \in 1..Len(xs) : xs[i].key \in Key
  BY Parts
<1>2. KeysApart(xs)
  BY DEF Distinct, KeysApart
<1>3. KeysOf(m) = {xs[i].key : i \in 1..Len(xs)}
  BY <1>1 DEF KeysOf
<1> HIDE DEF xs
<1>4. {j \in 1..Len(xs) : xs[j].key \in Key} = 1..Len(xs)
  BY <1>1
<1>5. LET K == {xs[i].key : i \in {j \in 1..Len(xs) : xs[j].key \in Key}}
      IN IsFiniteSet(K) /\ Cardinality({j \in 1..Len(xs) : xs[j].key \in Key}) = Cardinality(K)
  BY <1>1, <1>2, SizeIs
<1>6. Cardinality(1..Len(xs)) = Len(xs)
  <2>1. Cardinality(1..Len(xs)) = IF 1 > Len(xs) THEN 0 ELSE Len(xs) - 1 + 1
    BY <1>1, FS_Interval
  <2> QED BY <1>1, <2>1
<1> QED BY <1>3, <1>4, <1>5, <1>6 DEF xs

LEMMA SameLen ==
  ASSUME NEW l \in Hashmap, NEW r \in Hashmap, Distinct(l), Distinct(r), KeysOf(l) = KeysOf(r)
  PROVE  Len(l.node) = Len(r.node)
BY LenIs
----------------------------------------------------------------------------
(* The last element with a key is the one that is looked up. *)
LEMMA LookupLast ==
  ASSUME NEW m \in Hashmap, NEW i \in 1..Len(m.node),
         \A j \in 1..Len(m.node) : m.node[j].key = m.node[i].key => j <= i
  PROVE  Lookup(m, m.node[i].key) = m.node[i].val
<1> DEFINE k == m.node[i].key  p == Position(m, k)
<1>1. k \in KeysOf(m)
  BY KeysOfIs
<1> HIDE DEF p
<1>2. p \in 1..Len(m.node) /\ m.node[p].key = k /\ \A j \in 1..Len(m.node) : m.node[j].key = k => j <= p
  <2> HIDE DEF k
  <2> QED BY <1>1, PositionIs DEF p
<1>3. p = i
  <2>1. Len(m.node) \in Nat
    BY Parts
  <2> QED BY <1>2, <2>1
<1> QED BY <1>3 DEF Lookup, p, k

LEMMA LookupOnly ==
  ASSUME NEW m \in Hashmap, Distinct(m), NEW i \in 1..Len(m.node)
  PROVE  m.node[i].key \in KeysOf(m) /\ Lookup(m, m.node[i].key) = m.node[i].val
<1>1. Len(m.node) \in Nat /\ DOMAIN m.node = 1..Len(m.node)
  BY Parts
<1>2. \A j \in 1..Len(m.node) : m.node[j].key = m.node[i].key => j <= i
  BY <1>1 DEF Distinct
<1> QED BY <1>2, LookupLast, KeysOfIs

LEMMA LookupIs ==
  ASSUME NEW m \in Hashmap, NEW k \in KeysOf(m)
  PROVE  \E i \in 1..Len(m.node) : /\ m.node[i].key = k /\ Lookup(m, k) = m.node[i].val
                                   /\ \A j \in 1..Len(m.node) : m.node[j].key = k => j <= i
BY PositionIs DEF Lookup

(* An element appended is looked up by its key, the others are as before. *)
LEMMA AppendedLookup ==
  ASSUME NEW m \in Hashmap, NEW r \in Hashmap, NEW x \in Node, r.node = Append(m.node, x)
  PROVE  Lookup(r, x.key) = x.val /\ \A j \in KeysOf(m) : j # x.key => Lookup(r, j) = Lookup(m, j)
<1> DEFINE n == Len(m.node)
<1>1. /\ n \in Nat /\ m.node \in Seq(Node) /\ Len(r.node) = n + 1 /\ r.node[n + 1] = x
      /\ \A i \in 1..n : r.node[i] = m.node[i]
  BY Parts, AppendProperties
<1>2. Lookup(r, x.key) = x.val
  <2> DEFINE i == n + 1
  <2>1. i \in 1..Len(r.node) /\ r.node[i] = x /\ \A j \in 1..Len(r.node) : r.node[j].key = r.node[i].key => j <= i
    BY <1>1
  <2> HIDE DEF i
  <2> QED BY <2>1, LookupLast
<1>3. ASSUME NEW k \in KeysOf(m), k # x.key PROVE Lookup(r, k) = Lookup(m, k)
  <2>1. PICK i \in 1..n : /\ m.node[i].key = k /\ Lookup(m, k) = m.node[i].val
                          /\ \A j \in 1..n : m.node[j].key = k => j <= i
    BY LookupIs
  <2>2. i \in 1..Len(r.node) /\ r.node[i] = m.node[i]
    BY <1>1
  <2>3. ASSUME NEW j \in 1..Len(r.node), r.node[j].key = k PROVE j <= i
    <3>1. CASE j = n + 1
      BY <1>1, <1>3, <2>3, <3>1
    <3>2. CASE j # n + 1
      <4>1. j \in 1..n
        BY <1>1, <3>2
      <4> QED BY <1>1, <2>1, <2>3, <4>1
    <3> QED BY <3>1, <3>2
  <2>4. Lookup(r, r.node[i].key) = r.node[i].val
    BY <2>1, <2>2, <2>3, LookupLast
  <2> QED BY <2>1, <2>2, <2>4
<1> QED BY <1>2, <1>3

LEMMA OverwrittenLookup ==
  ASSUME NEW m \in Hashmap, NEW k \in KeysOf(m), NEW v \in Value
  PROVE  LET r == Overwritten(m, k, v)
         IN Lookup(r, k) = v /\ \A j \in KeysOf(m) : j # k => Lookup(r, j) = Lookup(m, j)
<1> DEFINE n == Len(m.node)  r == Overwritten(m, k, v)  p == Position(m, k)
<1>1. /\ r \in Hashmap /\ Len(r.node) = n
      /\ \A i \in 1..n : r.node[i] = IF i = p THEN [key |-> k, val |-> v] ELSE m.node[i]
  BY OverwrittenIs
<1>2. p \in 1..n /\ m.node[p].key = k /\ \A j \in 1..n : m.node[j].key = k => j <= p
  BY PositionIs
<1> HIDE DEF r, p
<1>3. \A i \in 1..n : r.node[i].key = m.node[i].key
  BY <1>1, <1>2
<1>4. Lookup(r, k) = v
  <2>1. r.node[p].key = k /\ r.node[p].val = v
    BY <1>1, <1>2
  <2>2. \A j \in 1..Len(r.node) : r.node[j].key = r.node[p].key => j <= p
    BY <1>1, <1>2, <1>3
  <2>3. p \in 1..Len(r.node)
    BY <1>1, <1>2
  <2> QED BY <1>1, <2>1, <2>2, <2>3, LookupLast
<1>5. ASSUME NEW j \in KeysOf(m), j # k PROVE Lookup(r, j) = Lookup(m, j)
  <2>1. PICK i \in 1..n : /\ m.node[i].key = j /\ Lookup(m, j) = m.node[i].val
                          /\ \A h \in 1..n : m.node[h].key = j => h <= i
    BY LookupIs
  <2>2. i # p /\ r.node[i] = m.node[i] /\ i \in 1..Len(r.node)
    BY <1>1, <1>2, <1>5, <2>1
  <2>3. \A h \in 1..Len(r.node) : r.node[h].key = r.node[i].key => h <= i
    BY <1>1, <1>3, <2>1, <2>2
  <2>4. Lookup(r, r.node[i].key) = r.node[i].val
    BY <1>1, <2>2, <2>3, LookupLast
  <2> QED BY <2>1, <2>2, <2>4
<1> QED BY <1>4, <1>5 DEF r

(* $a[k] = v is what $a[k] gives, and no other element changes. *)
LEMMA InsertLookup ==
  ASSUME NEW m \in Hashmap, NEW k \in Key, NEW v \in Value
  PROVE  LET r == Insert(m, k, v)
         IN Lookup(r, k) = v /\ \A j \in KeysOf(m) : j # k => Lookup(r, j) = Lookup(m, j)
<1> DEFINE r == Insert(m, k, v)  x == [key |-> k, val |-> v]
<1>1. /\ r \in Hashmap /\ k \in KeysOf(m) => r = Overwritten(m, k, v)
      /\ k \notin KeysOf(m) => r.node = Append(m.node, x)
  BY InsertIs
<1>2. r \in Hashmap
  BY InsertIs
<1>3. x \in Node /\ x.key = k /\ x.val = v
  BY NodeIs
<1> HIDE DEF r, x
<1>4. CASE k \in KeysOf(m)
  BY <1>1, <1>2, <1>4, OverwrittenLookup DEF r
<1>5. CASE k \notin KeysOf(m)
  <2>1. Lookup(r, x.key) = x.val /\ \A j \in KeysOf(m) : j # x.key => Lookup(r, j) = Lookup(m, j)
    BY <1>1, <1>2, <1>3, <1>5, AppendedLookup
  <2> QED BY <1>3, <2>1 DEF r
<1> QED BY <1>4, <1>5
----------------------------------------------------------------------------
(* The elements of s inserted one after the other: their last values are    *)
(* those looked up, of the other keys those before.                         *)
LEMMA OverwriteLookup ==
  ASSUME NEW s \in Hashmap, NEW d \in Hashmap
  PROVE  LET r == Overwrite(s, d)
         IN /\ r \in Hashmap /\ KeysOf(r) = KeysOf(d) \cup KeysOf(s)
            /\ \A k \in KeysOf(s) : Lookup(r, k) = Lookup(s, k)
            /\ \A k \in KeysOf(d) \ KeysOf(s) : Lookup(r, k) = Lookup(d, k)
<1> DEFINE n == Len(s.node)  xs == s.node
           Q(i, r) == /\ \A k : k \in KeysOf(r) <=> (k \in KeysOf(d) \/ \E j \in 1..i : xs[j].key = k)
                      /\ \A j \in 1..i : (\A h \in 1..i : xs[h].key = xs[j].key => h <= j)
                                            => Lookup(r, xs[j].key) = xs[j].val
                      /\ \A k \in KeysOf(d) : (\A j \in 1..i : xs[j].key # k) => Lookup(r, k) = Lookup(d, k)
           G == {g \in (0..n) \X Hashmap : Q(g[1], g[2])}
<1>1. n \in Nat /\ DOMAIN xs = 1..n /\ \A i \in 1..n : xs[i].key \in Key /\ xs[i].val \in Value
  BY Parts
<1> HIDE DEF xs
<1>2. <<0, d>> \in G
  <2>1. Q(0, d)
    OBVIOUS
  <2> HIDE DEF Q
  <2> QED BY <1>1, <2>1
<1>3. ASSUME NEW i \in 1..n, NEW r, <<i - 1, r>> \in G
      PROVE  <<i, Step("insert", 0, r, xs[i])>> \in G
  <2>1. Q(i - 1, r) /\ r \in Hashmap /\ i \in 0..n
    <3> HIDE DEF Q
    <3> QED BY <1>3
  <2> DEFINE k == xs[i].key  v == xs[i].val  t == Insert(r, k, v)
  <2>2. k \in Key /\ v \in Value
    BY <1>1
  <2>3. Step("insert", 0, r, xs[i]) = t
    BY DEF Step
  <2>4. t \in Hashmap /\ KeysOf(t) = KeysOf(r) \cup {k}
    <3> HIDE DEF k, v
    <3> QED BY <2>1, <2>2, InsertIs
  <2>5. Lookup(t, k) = v /\ \A j \in KeysOf(r) : j # k => Lookup(t, j) = Lookup(r, j)
    <3> HIDE DEF k, v
    <3> QED BY <2>1, <2>2, InsertLookup
  <2> HIDE DEF t
  <2>6. \A z : z \in KeysOf(t) <=> (z \in KeysOf(d) \/ \E j \in 1..i : xs[j].key = z)
    <3>1. \A j : j \in 1..i <=> (j \in 1..(i - 1) \/ j = i)
      BY <1>1
    <3>2. \A z : z \in KeysOf(r) <=> (z \in KeysOf(d) \/ \E j \in 1..(i - 1) : xs[j].key = z)
      BY <2>1
    <3> HIDE DEF Q
    <3> QED BY <2>4, <3>1, <3>2
  <2>7. ASSUME NEW j \in 1..i, \A h \in 1..i : xs[h].key = xs[j].key => h <= j
        PROVE  Lookup(t, xs[j].key) = xs[j].val
    <3>1. CASE j = i
      BY <2>5, <3>1
    <3>2. CASE j # i
      <4>1. j \in 1..(i - 1) /\ (\A h \in 1..(i - 1) : h \in 1..i) /\ i \in 1..i /\ ~(i <= j)
        BY <1>1, <3>2
      <4>2. xs[j].key # k
        BY <2>7, <4>1
      <4>3. Lookup(r, xs[j].key) = xs[j].val /\ xs[j].key \in KeysOf(r)
        BY <2>1, <2>7, <4>1
      <4> QED BY <2>5, <4>2, <4>3
    <3> QED BY <3>1, <3>2
  <2>8. ASSUME NEW z \in KeysOf(d), \A j \in 1..i : xs[j].key # z
        PROVE  Lookup(t, z) = Lookup(d, z)
    <3>1. (\A h \in 1..(i - 1) : h \in 1..i) /\ i \in 1..i
      BY <1>1
    <3>2. z # k /\ z \in KeysOf(r) /\ Lookup(r, z) = Lookup(d, z)
      BY <2>1, <2>8, <3>1
    <3> QED BY <2>5, <3>2
  <2>9. Q(i, t)
    BY <2>6, <2>7, <2>8
  <2> HIDE DEF Q
  <2> QED BY <2>1, <2>3, <2>4, <2>9
<1>4. Advances(G, "insert", 0, xs, n)
  <2> HIDE DEF G
  <2> QED BY <1>3 DEF Advances
<1>5. <<n, Folded("insert", 0, d, xs)>> \in G
  <2> HIDE DEF G
  <2> QED BY <1>1, <1>2, <1>4, FoldInduct
<1>6. Overwrite(s, d) = Folded("insert", 0, d, xs)
  BY FoldsAre DEF xs
<1> DEFINE r == Overwrite(s, d)
<1>7. r \in Hashmap /\ Q(n, r)
  <2> HIDE DEF Q
  <2> QED BY <1>5, <1>6
<1> HIDE DEF r
<1>8. \A k : k \in KeysOf(s) <=> \E j \in 1..n : xs[j].key = k
  BY KeysOfIs DEF xs
<1>9. KeysOf(r) = KeysOf(d) \cup KeysOf(s)
  BY <1>7, <1>8
<1>10. ASSUME NEW k \in KeysOf(s) PROVE Lookup(r, k) = Lookup(s, k)
  <2>1. PICK i \in 1..n : /\ xs[i].key = k /\ Lookup(s, k) = xs[i].val
                          /\ \A j \in 1..n : xs[j].key = k => j <= i
    BY LookupIs DEF xs
  <2> QED BY <1>7, <2>1
<1>11. ASSUME NEW k \in KeysOf(d) \ KeysOf(s) PROVE Lookup(r, k) = Lookup(d, k)
  BY <1>7, <1>8, <1>11
<1> QED BY <1>7, <1>9, <1>10, <1>11 DEF r

(* A union has the elements of l, and of r those with other keys. *)
LEMMA UnionLookup ==
  ASSUME NEW l \in Hashmap, NEW s \in Hashmap, Distinct(s)
  PROVE  LET r == Union(l, s)
         IN /\ r \in Hashmap /\ KeysOf(r) = KeysOf(l) \cup KeysOf(s)
            /\ \A k \in KeysOf(l) : Lookup(r, k) = Lookup(l, k)
            /\ \A k \in KeysOf(s) \ KeysOf(l) : Lookup(r, k) = Lookup(s, k)
<1> DEFINE n == Len(s.node)  xs == s.node
           Q(i, r) == /\ \A k : k \in KeysOf(r) <=> (k \in KeysOf(l) \/ \E j \in 1..i : xs[j].key = k)
                      /\ \A k \in KeysOf(l) : Lookup(r, k) = Lookup(l, k)
                      /\ \A j \in 1..i : xs[j].key \notin KeysOf(l) => Lookup(r, xs[j].key) = xs[j].val
           G == {g \in (0..n) \X Hashmap : Q(g[1], g[2])}
<1>1. n \in Nat /\ DOMAIN xs = 1..n
      /\ \A i \in 1..n : /\ xs[i].key \in Key /\ xs[i].val \in Value
                         /\ xs[i] = [key |-> xs[i].key, val |-> xs[i].val] /\ xs[i] \in Node
  BY Parts
<1>0. \A i, j \in 1..n : xs[i].key = xs[j].key => i = j
  BY <1>1 DEF Distinct
<1> HIDE DEF xs
<1>2. <<0, l>> \in G
  <2>1. Q(0, l)
    OBVIOUS
  <2> HIDE DEF Q
  <2> QED BY <1>1, <2>1
<1>3. ASSUME NEW i \in 1..n, NEW r, <<i - 1, r>> \in G
      PROVE  <<i, Step("union", 0, r, xs[i])>> \in G
  <2>1. Q(i - 1, r) /\ r \in Hashmap /\ i \in 0..n
    <3> HIDE DEF Q
    <3> QED BY <1>3
  <2> DEFINE k == xs[i].key  v == xs[i].val  t == Step("union", 0, r, xs[i])
  <2>2. k \in Key /\ v \in Value
    BY <1>1
  <2>3. t = IF Has(r, k) THEN r ELSE InsertKey(r, k, v)
    BY DEF Step
  <2>4. Has(r, k) <=> k \in KeysOf(r)
    BY <2>1, KeysOfIs
  <2>a. \A j : j \in 1..i <=> (j \in 1..(i - 1) \/ j = i)
    BY <1>1
  <2>b. \A z : z \in KeysOf(r) <=> (z \in KeysOf(l) \/ \E j \in 1..(i - 1) : xs[j].key = z)
    BY <2>1
  <2>c. \A j \in 1..(i - 1) : xs[j].key # k
    BY <1>0, <1>1
  <2>5. CASE k \in KeysOf(r)
    <3>1. t = r /\ k \in KeysOf(l)
      BY <2>3, <2>4, <2>5, <2>b, <2>c
    <3>2. \A z : z \in KeysOf(r) <=> (z \in KeysOf(l) \/ \E j \in 1..i : xs[j].key = z)
      BY <2>a, <2>b, <3>1
    <3>3. Q(i, r)
      BY <2>1, <2>a, <3>1, <3>2
    <3> HIDE DEF Q, t
    <3> QED BY <2>1, <3>1, <3>3 DEF t
  <2>6. CASE k \notin KeysOf(r)
    <3> DEFINE x == [key |-> k, val |-> v]
    <3>1. t = InsertKey(r, k, v)
      BY <2>3, <2>4, <2>6
    <3> HIDE DEF t
    <3>2. t \in Hashmap /\ t.node = Append(r.node, x)
      <4> HIDE DEF k, v, Q
      <4>1. r \in Hashmap /\ k \in Key /\ v \in Value
        BY <2>1, <2>2
      <4>2. LET w == InsertKey(r, k, v) IN w \in Hashmap /\ w.node = Append(r.node, [key |-> k, val |-> v])
        BY <4>1, InsertKeyIs
      <4> QED BY <3>1, <4>2
    <3>3. KeysOf(t) = KeysOf(r) \cup {k}
      BY <2>1, <2>2, <3>1, InsertKeyKeys
    <3>4. x \in Node /\ x.key = k /\ x.val = v
      BY <2>2, NodeIs
    <3> HIDE DEF x
    <3>5. Lookup(t, x.key) = x.val /\ \A j \in KeysOf(r) : j # x.key => Lookup(t, j) = Lookup(r, j)
      BY <2>1, <3>2, <3>4, AppendedLookup
    <3>6. Lookup(t, k) = v /\ \A j \in KeysOf(r) : Lookup(t, j) = Lookup(r, j)
      BY <2>6, <3>4, <3>5
    <3>7. \A z : z \in KeysOf(t) <=> (z \in KeysOf(l) \/ \E j \in 1..i : xs[j].key = z)
      BY <2>a, <2>b, <3>3
    <3>8. \A z \in KeysOf(l) : Lookup(t, z) = Lookup(l, z)
      BY <2>1, <2>b, <3>6
    <3>9. ASSUME NEW j \in 1..i, xs[j].key \notin KeysOf(l) PROVE Lookup(t, xs[j].key) = xs[j].val
      <4>1. CASE j = i
        BY <3>6, <4>1
      <4>2. CASE j # i
        <5>1. j \in 1..(i - 1)
          BY <2>a, <4>2
        <5>2. xs[j].key \in KeysOf(r) /\ Lookup(r, xs[j].key) = xs[j].val
          BY <2>1, <2>b, <3>9, <5>1
        <5> QED BY <3>6, <5>2
      <4> QED BY <4>1, <4>2
    <3>10. Q(i, t)
      BY <3>7, <3>8, <3>9
    <3> HIDE DEF Q
    <3> QED BY <2>1, <3>2, <3>10 DEF t
  <2> QED BY <2>5, <2>6
<1>4. Advances(G, "union", 0, xs, n)
  <2> HIDE DEF G
  <2> QED BY <1>3 DEF Advances
<1>5. <<n, Folded("union", 0, l, xs)>> \in G
  <2> HIDE DEF G
  <2> QED BY <1>1, <1>2, <1>4, FoldInduct
<1>6. Union(l, s) = Folded("union", 0, l, xs)
  BY FoldsAre DEF xs
<1> DEFINE r == Union(l, s)
<1>7. r \in Hashmap /\ Q(n, r)
  <2> HIDE DEF Q
  <2> QED BY <1>5, <1>6
<1> HIDE DEF r
<1>8. \A k : k \in KeysOf(s) <=> \E j \in 1..n : xs[j].key = k
  BY KeysOfIs DEF xs
<1>9. KeysOf(r) = KeysOf(l) \cup KeysOf(s)
  BY <1>7, <1>8
<1>10. ASSUME NEW k \in KeysOf(s) \ KeysOf(l) PROVE Lookup(r, k) = Lookup(s, k)
  <2>1. PICK i \in 1..n : xs[i].key = k /\ Lookup(s, k) = xs[i].val
    BY <1>10, LookupIs DEF xs
  <2> QED BY <1>7, <1>10, <2>1
<1> QED BY <1>7, <1>9, <1>10 DEF r
----------------------------------------------------------------------------
(* Two arrays that give the same under the same keys are equal, strictly. *)
LEMMA CmpSame == ASSUME NEW v \in Value, NEW strict PROVE MemObjCmp(v, v, strict) = 0
<1>1. v \in Strs => StrRank[v] \in Int
  BY HashmapAssumption
<1>2. Num(v) \in Int
  BY DEF Num
<1>3. Truth(v) - Truth(v) = 0
  BY DEF Truth
<1>4. v \in Strs => Sign(StrRank[v] - StrRank[v]) = 0
  BY <1>1 DEF Sign
<1>5. Sign(Num(v) - Num(v)) = 0
  BY <1>2 DEF Sign
<1> QED BY <1>3, <1>4, <1>5 DEF MemObjCmp

LEMMA CmpZero ==
  ASSUME NEW l \in Hashmap, NEW r \in Hashmap, Len(l.node) = Len(r.node),
         \A i \in 1..Len(l.node) : l.node[i].key \in KeysOf(r) /\ Lookup(r, l.node[i].key) = l.node[i].val
  PROVE  HashmapCmp(l, r, TRUE) = 0
<1> DEFINE differ(x) == ~Has(r, x.key) \/ MemObjCmp(x.val, Lookup(r, x.key), TRUE) # 0
<1>1. ASSUME NEW i \in 1..Len(l.node) PROVE ~differ(l.node[i])
  <2>1. Has(r, l.node[i].key)
    BY KeysOfIs
  <2>2. l.node[i].val \in Value
    BY Parts
  <2>3. MemObjCmp(l.node[i].val, l.node[i].val, TRUE) = 0
    BY <2>2, CmpSame
  <2> QED BY <2>1, <2>3
<1>2. {i \in 1..Len(l.node) : differ(l.node[i])} = {}
  <2> HIDE DEF differ
  <2> QED BY <1>1
<1>3. SelectInSeq(l.node, differ) = 0
  BY <1>2 DEF SelectInSeq
<1> QED BY <1>3 DEF HashmapCmp

LEMMA CopyLookup ==
  ASSUME NEW b \in Hashmap, Distinct(b)
  PROVE  /\ Copy(b) \in Hashmap /\ Copy(b).node = b.node /\ KeysOf(Copy(b)) = KeysOf(b) /\ Distinct(Copy(b))
         /\ \A k \in KeysOf(b) : Lookup(Copy(b), k) = Lookup(b, k)
<1>1. Copy(b) \in Hashmap /\ Copy(b).node = b.node
  BY CopyIs
<1> QED BY <1>1 DEF KeysOf, Lookup, Position, Distinct

(* array_replace() of two arrays *)
LEMMA ReplaceLookup ==
  ASSUME NEW a \in Hashmap, NEW b \in Hashmap
  PROVE  LET r == Replace(<<a, b>>)
         IN /\ r \in Hashmap /\ Distinct(r) /\ KeysOf(r) = KeysOf(a) \cup KeysOf(b)
            /\ \A k \in KeysOf(b) : Lookup(r, k) = Lookup(b, k)
            /\ \A k \in KeysOf(a) \ KeysOf(b) : Lookup(r, k) = Lookup(a, k)
<1> DEFINE c == Overwrite(a, NewHashmap)  r == Overwrite(b, c)
<1>1. Replace(<<a, b>>) = r /\ r \in Hashmap /\ Distinct(r)
  BY PairsAre DEF Top
<1>2. NewHashmap \in Hashmap /\ KeysOf(NewHashmap) = {}
  BY NewIs DEF KeysOf
<1>3. c \in Hashmap /\ KeysOf(c) = KeysOf(a) /\ \A k \in KeysOf(a) : Lookup(c, k) = Lookup(a, k)
  <2> DEFINE d == NewHashmap
  <2>1. d \in Hashmap /\ KeysOf(d) = {}
    BY <1>2
  <2> HIDE DEF d
  <2>2. LET w == Overwrite(a, d)
        IN w \in Hashmap /\ KeysOf(w) = KeysOf(d) \cup KeysOf(a) /\ \A k \in KeysOf(a) : Lookup(w, k) = Lookup(a, k)
    BY <2>1, OverwriteLookup
  <2> QED BY <2>1, <2>2 DEF d
<1> HIDE DEF c
<1>4. /\ KeysOf(r) = KeysOf(c) \cup KeysOf(b)
      /\ \A k \in KeysOf(b) : Lookup(r, k) = Lookup(b, k)
      /\ \A k \in KeysOf(c) \ KeysOf(b) : Lookup(r, k) = Lookup(c, k)
  BY <1>3, OverwriteLookup
<1> HIDE DEF r
<1> QED BY <1>1, <1>3, <1>4

(* b + $a is what array_replace($a, $b) gives, but for the order. *)
LEMMA UnionReplaces ==
  ASSUME NEW a \in Hashmap, NEW b \in Hashmap, Distinct(a), Distinct(b)
  PROVE  /\ HashmapCmp(Union(Copy(b), a), Replace(<<a, b>>), TRUE) = 0
         /\ HashmapCmp(Replace(<<a, a>>), a, TRUE) = 0
<1> DEFINE c == Copy(b)  l == Union(c, a)  r == Replace(<<a, b>>)  q == Replace(<<a, a>>)
<1>1. /\ c \in Hashmap /\ KeysOf(c) = KeysOf(b) /\ Distinct(c)
      /\ \A k \in KeysOf(b) : Lookup(c, k) = Lookup(b, k)
  BY CopyLookup
<1> HIDE DEF c
<1>2. /\ l \in Hashmap /\ KeysOf(l) = KeysOf(c) \cup KeysOf(a)
      /\ \A k \in KeysOf(c) : Lookup(l, k) = Lookup(c, k)
      /\ \A k \in KeysOf(a) \ KeysOf(c) : Lookup(l, k) = Lookup(a, k)
  BY <1>1, UnionLookup
<1>3. Distinct(l)
  <2>1. c \in Uniq
    BY <1>1 DEF Uniq
  <2> QED BY <1>1, <2>1, UnionIs DEF Uniq
<1>4. /\ r \in Hashmap /\ Distinct(r) /\ KeysOf(r) = KeysOf(a) \cup KeysOf(b)
      /\ \A k \in KeysOf(b) : Lookup(r, k) = Lookup(b, k)
      /\ \A k \in KeysOf(a) \ KeysOf(b) : Lookup(r, k) = Lookup(a, k)
  BY ReplaceLookup
<1>5. /\ q \in Hashmap /\ Distinct(q) /\ KeysOf(q) = KeysOf(a)
      /\ \A k \in KeysOf(a) : Lookup(q, k) = Lookup(a, k)
  BY ReplaceLookup
<1> HIDE DEF l, r, q
<1>6. HashmapCmp(l, r, TRUE) = 0
  <2>1. KeysOf(l) = KeysOf(r) /\ \A k \in KeysOf(l) : Lookup(r, k) = Lookup(l, k)
    BY <1>1, <1>2, <1>4
  <2>2. Len(l.node) = Len(r.node)
    BY <1>2, <1>3, <1>4, <2>1, SameLen
  <2>3. \A i \in 1..Len(l.node) : l.node[i].key \in KeysOf(l) /\ Lookup(l, l.node[i].key) = l.node[i].val
    BY <1>2, <1>3, LookupOnly
  <2>4. \A i \in 1..Len(l.node) : l.node[i].key \in KeysOf(r) /\ Lookup(r, l.node[i].key) = l.node[i].val
    BY <2>1, <2>3
  <2> QED BY <1>2, <1>4, <2>2, <2>4, CmpZero
<1>7. HashmapCmp(q, a, TRUE) = 0
  <2>1. Len(q.node) = Len(a.node)
    BY <1>5, SameLen
  <2>2. \A i \in 1..Len(q.node) : q.node[i].key \in KeysOf(q) /\ Lookup(q, q.node[i].key) = q.node[i].val
    BY <1>5, LookupOnly
  <2>3. \A i \in 1..Len(q.node) : q.node[i].key \in KeysOf(a) /\ Lookup(a, q.node[i].key) = q.node[i].val
    BY <1>5, <2>2
  <2> QED BY <1>5, <2>1, <2>3, CmpZero
<1> QED BY <1>6, <1>7 DEF l, r, q, c
----------------------------------------------------------------------------
(* array_merge() finds the string keys of s in d: their elements are not    *)
(* appended, all others are.                                                *)
Found(xs, d, i) == {j \in 1..i : xs[j].key \in KeysOf(d) \cap Strs}

LEMMA FoundGrows ==
  ASSUME NEW xs, NEW d, NEW i \in Nat \ {0}
  PROVE  /\ IsFiniteSet(Found(xs, d, i - 1)) /\ Cardinality(Found(xs, d, i - 1)) \in Nat
         /\ Cardinality(Found(xs, d, i)) = Cardinality(Found(xs, d, i - 1))
                                             + IF xs[i].key \in KeysOf(d) \cap Strs THEN 1 ELSE 0
<1> DEFINE S == Found(xs, d, i - 1)
<1>1. IsFiniteSet(S)
  <2> DEFINE n == i - 1
  <2>1. n \in Int
    OBVIOUS
  <2> HIDE DEF n
  <2>2. IsFiniteSet(1..n)
    BY <2>1, FS_Interval
  <2>3. Found(xs, d, n) \in SUBSET (1..n)
    BY DEF Found
  <2> QED BY <2>2, <2>3, FS_Subset DEF n
<1>2. Cardinality(S) \in Nat
  BY <1>1, FS_CardinalityType
<1>3. i \notin S /\ \A j : j \in 1..i <=> (j \in 1..(i - 1) \/ j = i)
  BY DEF Found
<1>4. CASE xs[i].key \in KeysOf(d) \cap Strs
  <2>1. Found(xs, d, i) = S \cup {i}
    BY <1>3, <1>4 DEF Found
  <2> HIDE DEF S
  <2>2. Cardinality(S \cup {i}) = Cardinality(S) + 1
    BY <1>1, <1>3, FS_AddElement
  <2> QED BY <1>1, <1>2, <1>4, <2>1, <2>2 DEF S
<1>5. CASE xs[i].key \notin KeysOf(d) \cap Strs
  <2>1. Found(xs, d, i) = S
    BY <1>3, <1>5 DEF Found
  <2> QED BY <1>1, <1>2, <1>5, <2>1
<1> QED BY <1>4, <1>5

LEMMA InsertLen ==
  ASSUME NEW m \in Hashmap, NEW k \in Key, NEW v \in Value
  PROVE  LET r == Insert(m, k, v)
         IN /\ r \in Hashmap /\ KeysOf(r) = KeysOf(m) \cup {k}
            /\ Len(r.node) = IF k \in KeysOf(m) THEN Len(m.node) ELSE Len(m.node) + 1
<1> DEFINE r == Insert(m, k, v)  x == [key |-> k, val |-> v]
<1>1. /\ r \in Hashmap /\ KeysOf(r) = KeysOf(m) \cup {k}
      /\ k \in KeysOf(m) => r = Overwritten(m, k, v)
      /\ k \notin KeysOf(m) => Len(r.node) = Len(m.node) + 1
  <2>1. r \in Hashmap /\ (k \in KeysOf(m) => r = Overwritten(m, k, v))
    BY InsertIs
  <2>2. KeysOf(r) = KeysOf(m) \cup {k}
    BY InsertIs
  <2>3. k \notin KeysOf(m) => r.node = Append(m.node, x)
    BY InsertIs
  <2>4. Len(Append(m.node, x)) = Len(m.node) + 1
    BY Parts
  <2> HIDE DEF r, x
  <2> QED BY <2>1, <2>2, <2>3, <2>4
<1> HIDE DEF r
<1>2. ASSUME k \in KeysOf(m) PROVE Len(r.node) = Len(m.node)
  <2>1. Len(Overwritten(m, k, v).node) = Len(m.node)
    BY <1>2, OverwrittenIs
  <2> QED BY <1>1, <1>2, <2>1
<1> QED BY <1>1, <1>2 DEF r

LEMMA MergeLen ==
  ASSUME NEW s \in Hashmap, NEW d \in Hashmap, Distinct(s)
  PROVE  LET r == Merge(s, d)
         IN /\ r \in Hashmap /\ KeysOf(r) \cap Strs = (KeysOf(d) \cup KeysOf(s)) \cap Strs
            /\ Len(r.node) = Len(d.node) + Len(s.node) - Cardinality(KeysOf(s) \cap KeysOf(d) \cap Strs)
<1> DEFINE n == Len(s.node)  xs == s.node
           Q(i, r) == /\ \A k \in Strs : k \in KeysOf(r) <=> (k \in KeysOf(d) \/ \E j \in 1..i : xs[j].key = k)
                      /\ Len(r.node) = Len(d.node) + i - Cardinality(Found(xs, d, i))
           G == {g \in (0..n) \X Hashmap : Q(g[1], g[2])}
<1>1. n \in Nat /\ xs \in Seq(Node) /\ DOMAIN xs = 1..n /\ Len(d.node) \in Nat
      /\ \A i \in 1..n : xs[i].key \in Key /\ xs[i].val \in Value
  BY Parts
<1>0. \A i, j \in 1..n : xs[i].key = xs[j].key => i = j
  BY <1>1 DEF Distinct
<1>k. Strs \cap Int = {} /\ \A k \in Key : k \in Int \/ k \in Strs
  BY HashmapAssumption DEF Key
<1> HIDE DEF xs
<1>2. <<0, d>> \in G
  <2>1. Found(xs, d, 0) = {}
    BY DEF Found
  <2>2. Cardinality({}) = 0
    BY FS_EmptySet
  <2>3. Q(0, d)
    <3> DEFINE l == Len(d.node)  f == Cardinality(Found(xs, d, 0))
    <3>1. l \in Nat /\ f = 0
      BY <1>1, <2>1, <2>2
    <3> HIDE DEF l, f
    <3>2. l = l + 0 - f
      BY <3>1
    <3> QED BY <3>2 DEF l, f
  <2> HIDE DEF Q
  <2> QED BY <1>1, <2>3
<1>3. ASSUME NEW i \in 1..n, NEW r, <<i - 1, r>> \in G
      PROVE  <<i, Step("merge", 0, r, xs[i])>> \in G
  <2>1. Q(i - 1, r) /\ r \in Hashmap /\ i \in 0..n
    <3> HIDE DEF Q
    <3> QED BY <1>3
  <2> DEFINE k == xs[i].key  v == xs[i].val  t == Step("merge", 0, r, xs[i])  l == Len(r.node)
             f == Cardinality(Found(xs, d, i - 1))
  <2>2. k \in Key /\ v \in Value /\ l \in Nat
    BY <1>1, <2>1, Parts
  <2>3. t = IF k \in Int THEN InsertAuto(r, v) ELSE Insert(r, k, v)
    BY DEF Step
  <2>4. f \in Nat /\ Cardinality(Found(xs, d, i)) = f + IF k \in KeysOf(d) \cap Strs THEN 1 ELSE 0
    BY FoundGrows
  <2>5. l = Len(d.node) + (i - 1) - f
    BY <2>1
  <2>a. \A j : j \in 1..i <=> (j \in 1..(i - 1) \/ j = i)
    BY <1>1
  <2>b. \A z \in Strs : z \in KeysOf(r) <=> (z \in KeysOf(d) \/ \E j \in 1..(i - 1) : xs[j].key = z)
    BY <2>1
  <2>c. \A j \in 1..(i - 1) : xs[j].key # k
    BY <1>0, <1>1
  <2>6. CASE k \in Int
    <3>1. t = InsertAuto(r, v) /\ k \notin Strs
      BY <2>3, <2>6, <1>k
    <3> HIDE DEF t, k, l
    <3>2. t \in Hashmap /\ Len(t.node) = l + 1 /\ KeysOf(t) = KeysOf(r) \cup {r.next} /\ r.next \in Int
      BY <2>1, <2>2, <3>1, InsertAutoIs, Parts DEF l
    <3>3. \A z \in Strs : z \in KeysOf(t) <=> (z \in KeysOf(d) \/ \E j \in 1..i : xs[j].key = z)
      <4>1. \A z \in Strs : z # r.next /\ z # xs[i].key
        BY <1>k, <2>6, <3>2 DEF k
      <4> QED BY <2>a, <2>b, <3>2, <4>1
    <3>4. Len(t.node) = Len(d.node) + i - Cardinality(Found(xs, d, i))
      BY <1>1, <2>4, <2>5, <3>1, <3>2
    <3>5. Q(i, t)
      BY <3>3, <3>4
    <3> HIDE DEF Q
    <3> QED BY <2>1, <3>2, <3>5 DEF t
  <2>7. CASE k \notin Int
    <3>1. t = Insert(r, k, v) /\ k \in Strs
      BY <2>2, <2>3, <2>7, <1>k
    <3>0. k = xs[i].key
      OBVIOUS
    <3> HIDE DEF t, k, l
    <3>2. /\ t \in Hashmap /\ KeysOf(t) = KeysOf(r) \cup {k}
          /\ Len(t.node) = IF k \in KeysOf(r) THEN l ELSE l + 1
      <4> HIDE DEF v, Q
      <4>1. r \in Hashmap /\ k \in Key /\ v \in Value
        BY <2>1, <2>2
      <4> QED BY <3>1, <4>1, InsertLen DEF l
    <3>3. \A z \in Strs : z \in KeysOf(t) <=> (z \in KeysOf(d) \/ \E j \in 1..i : xs[j].key = z)
      BY <2>a, <2>b, <3>0, <3>2
    <3>4. k \in KeysOf(r) <=> k \in KeysOf(d)
      BY <2>b, <2>c, <3>1
    <3>5. k \in KeysOf(r) => Len(t.node) = l
      BY <3>2
    <3>6. Len(t.node) = Len(d.node) + i - Cardinality(Found(xs, d, i))
      <4>1. CASE k \in KeysOf(d)
        BY <1>1, <2>4, <2>5, <3>1, <3>4, <3>5, <4>1
      <4>2. CASE k \notin KeysOf(d)
        BY <1>1, <2>4, <2>5, <3>2, <3>4, <4>2
      <4> QED BY <4>1, <4>2
    <3>7. Q(i, t)
      BY <3>3, <3>6
    <3> HIDE DEF Q
    <3> QED BY <2>1, <3>2, <3>7 DEF t
  <2> QED BY <2>6, <2>7
<1>4. Advances(G, "merge", 0, xs, n)
  <2> HIDE DEF G
  <2> QED BY <1>3 DEF Advances
<1>5. <<n, Folded("merge", 0, d, xs)>> \in G
  <2> HIDE DEF G
  <2> QED BY <1>1, <1>2, <1>4, FoldInduct
<1>6. Merge(s, d) = Folded("merge", 0, d, xs)
  BY FoldsAre DEF xs
<1> DEFINE r == Merge(s, d)
<1>7. r \in Hashmap /\ Q(n, r)
  <2> HIDE DEF Q
  <2> QED BY <1>5, <1>6
<1> HIDE DEF r
<1>8. \A k : k \in KeysOf(s) <=> \E j \in 1..n : xs[j].key = k
  BY KeysOfIs DEF xs
<1>9. KeysOf(r) \cap Strs = (KeysOf(d) \cup KeysOf(s)) \cap Strs
  BY <1>7, <1>8
<1>10. Cardinality(Found(xs, d, n)) = Cardinality(KeysOf(s) \cap KeysOf(d) \cap Strs)
  <2> DEFINE T == KeysOf(d) \cap Strs
  <2>1. KeysApart(xs)
    BY <1>0, <1>1 DEF KeysApart
  <2>2. n = Len(xs)
    BY DEF xs
  <2> HIDE DEF T
  <2>3. Cardinality({j \in 1..n : xs[j].key \in T}) = Cardinality({xs[i].key : i \in {j \in 1..n : xs[j].key \in T}})
    BY <1>1, <2>1, <2>2, SizeIs
  <2>4. {xs[i].key : i \in {j \in 1..n : xs[j].key \in T}} = KeysOf(s) \cap T
    BY <1>8
  <2>5. KeysOf(s) \cap KeysOf(d) \cap Strs = KeysOf(s) \cap T
    BY DEF T
  <2> QED BY <2>3, <2>4, <2>5 DEF Found, T
<1> QED BY <1>7, <1>9, <1>10 DEF r

LEMMA ArrayMergeLen ==
  ASSUME NEW a \in Hashmap, NEW b \in Hashmap, Distinct(a), Distinct(b)
  PROVE  Len(ArrayMerge(<<a, b>>).node) + Cardinality(KeysOf(a) \cap KeysOf(b) \cap Strs)
           = Len(a.node) + Len(b.node)
<1> DEFINE d == NewHashmap  c == Merge(a, d)  r == Merge(b, c)
<1>1. d \in Hashmap /\ KeysOf(d) = {} /\ Len(d.node) = 0
  BY NewIs DEF KeysOf
<1>2. ArrayMerge(<<a, b>>) = r
  BY PairsAre
<1> HIDE DEF d
<1>3. /\ c \in Hashmap /\ KeysOf(c) \cap Strs = (KeysOf(d) \cup KeysOf(a)) \cap Strs
      /\ Len(c.node) = Len(d.node) + Len(a.node) - Cardinality(KeysOf(a) \cap KeysOf(d) \cap Strs)
  BY <1>1, MergeLen
<1>4. Len(c.node) = Len(a.node)
  <2>1. KeysOf(a) \cap KeysOf(d) \cap Strs = {}
    BY <1>1
  <2>2. Cardinality({}) = 0
    BY FS_EmptySet
  <2>3. Len(a.node) \in Nat
    BY Parts
  <2> QED BY <1>1, <1>3, <2>1, <2>2, <2>3
<1> HIDE DEF c
<1>5. Len(r.node) = Len(c.node) + Len(b.node) - Cardinality(KeysOf(b) \cap KeysOf(c) \cap Strs)
  BY <1>3, MergeLen
<1>6. KeysOf(b) \cap KeysOf(c) \cap Strs = KeysOf(a) \cap KeysOf(b) \cap Strs
  BY <1>1, <1>3
<1>7. Cardinality(KeysOf(a) \cap KeysOf(b) \cap Strs) \in Nat
  <2>1. IsFiniteSet(KeysOf(a))
    BY LenIs
  <2> DEFINE T == KeysOf(b) \cap Strs
  <2>2. KeysOf(a) \cap KeysOf(b) \cap Strs = KeysOf(a) \cap T
    OBVIOUS
  <2> HIDE DEF T
  <2>3. IsFiniteSet(KeysOf(a) \cap T)
    BY <2>1, FS_Intersection
  <2> QED BY <2>2, <2>3, FS_CardinalityType
<1>8. Len(a.node) \in Nat /\ Len(b.node) \in Nat
  BY Parts
<1> DEFINE x == Cardinality(KeysOf(a) \cap KeysOf(b) \cap Strs)
<1>9. Len(r.node) = Len(a.node) + Len(b.node) - x /\ x \in Nat
  BY <1>4, <1>5, <1>6, <1>7
<1> HIDE DEF r, x
<1>10. Len(r.node) + x = Len(a.node) + Len(b.node)
  BY <1>8, <1>9
<1> QED BY <1>2, <1>10 DEF x
----------------------------------------------------------------------------
(* A fold whose steps insert the elements xs, whose keys are all different  *)
InsertsNew(how, p, n, seq, xs) ==
  /\ n \in Nat /\ DOMAIN seq = 1..n /\ xs \in Seq(Node) /\ Len(xs) = n /\ KeysApart(xs)
  /\ \A i \in 1..n : \A m \in Hashmap : Step(how, p, m, seq[i]) = Insert(m, xs[i].key, xs[i].val)

LEMMA InsertsNewIs ==
  ASSUME NEW how, NEW p, NEW n, NEW seq, NEW xs, InsertsNew(how, p, n, seq, xs)
  PROVE  Folded(how, p, NewHashmap, seq) \in Hashmap /\ Folded(how, p, NewHashmap, seq).node = xs
<1> DEFINE Q(i, r) == /\ Len(r.node) = i
                      /\ \A j \in 1..i : r.node[j] = xs[j]
           G == {g \in (0..n) \X Hashmap : Q(g[1], g[2])}
<1>1. /\ n \in Nat /\ DOMAIN seq = 1..n /\ xs \in Seq(Node) /\ Len(xs) = n /\ KeysApart(xs)
      /\ \A i \in 1..n : \A m \in Hashmap : Step(how, p, m, seq[i]) = Insert(m, xs[i].key, xs[i].val)
  BY DEF InsertsNew
<1>2. \A i \in 1..n : /\ xs[i] \in Node /\ xs[i].key \in Key /\ xs[i].val \in Value
                      /\ xs[i] = [key |-> xs[i].key, val |-> xs[i].val]
  <2>1. \A i \in 1..n : xs[i] \in Node
    BY <1>1
  <2> QED BY <2>1 DEF Node
<1>3. \A i, j \in 1..n : xs[i].key = xs[j].key => i = j
  BY <1>1 DEF KeysApart
<1>4. <<0, NewHashmap>> \in G
  <2> DEFINE d == NewHashmap
  <2>1. d \in Hashmap /\ Q(0, d)
    BY NewIs
  <2> HIDE DEF d, Q
  <2> QED BY <1>1, <2>1 DEF d
<1>5. ASSUME NEW i \in 1..n, NEW r, <<i - 1, r>> \in G
      PROVE  <<i, Step(how, p, r, seq[i])>> \in G
  <2>1. Q(i - 1, r) /\ r \in Hashmap /\ i \in 0..n
    <3> HIDE DEF Q
    <3> QED BY <1>5
  <2> DEFINE k == xs[i].key  v == xs[i].val  t == Insert(r, k, v)
  <2>2. k \in Key /\ v \in Value /\ xs[i] = [key |-> k, val |-> v]
    BY <1>2
  <2>3. Step(how, p, r, seq[i]) = t
    BY <1>1, <2>1
  <2>4. k \notin KeysOf(r)
    <3>1. \A j \in 1..(i - 1) : xs[j].key # k
      BY <1>1, <1>3
    <3>2. \A j \in 1..Len(r.node) : r.node[j].key # k
      BY <2>1, <3>1
    <3> HIDE DEF k
    <3> QED BY <2>1, <3>2, KeysOfIs
  <2> HIDE DEF k, v
  <2>5. LET w == Insert(r, k, v)  l == Len(r.node)
        IN /\ w \in Hashmap
           /\ k \notin KeysOf(r) => /\ Len(w.node) = l + 1
                                    /\ \A j \in 1..l : w.node[j] = r.node[j]
                                    /\ w.node[l + 1] = [key |-> k, val |-> v]
    <3> HIDE DEF Q
    <3> QED BY <2>1, <2>2, InsertIs
  <2>6. Len(r.node) = i - 1 /\ (i - 1) + 1 = i
    BY <1>1, <2>1
  <2>7. /\ t \in Hashmap /\ Len(t.node) = i /\ t.node[i] = xs[i]
        /\ \A j \in 1..(i - 1) : t.node[j] = r.node[j]
    BY <2>2, <2>4, <2>5, <2>6
  <2> HIDE DEF t
  <2>8. \A j \in 1..i : t.node[j] = xs[j]
    <3>1. \A j \in 1..i : j \in 1..(i - 1) \/ j = i
      BY <1>1
    <3> QED BY <2>1, <2>7, <3>1
  <2>9. Q(i, t)
    BY <2>7, <2>8
  <2> HIDE DEF Q
  <2> QED BY <2>1, <2>3, <2>7, <2>9
<1>6. Advances(G, how, p, seq, n)
  <2> HIDE DEF G
  <2> QED BY <1>5 DEF Advances
<1>7. <<n, Folded(how, p, NewHashmap, seq)>> \in G
  <2> HIDE DEF G
  <2> QED BY <1>1, <1>4, <1>6, FoldInduct
<1> DEFINE r == Folded(how, p, NewHashmap, seq)  s == r.node
<1>8. r \in Hashmap /\ Q(n, r)
  <2> HIDE DEF Q, r
  <2> QED BY <1>7 DEF r
<1> HIDE DEF r
<1>9. s \in Seq(Node) /\ Len(s) = n /\ \A i \in 1..Len(s) : s[i] = xs[i]
  BY <1>8, Parts
<1> HIDE DEF s
<1>10. s = xs
  BY <1>1, <1>9, SameSeq
<1> QED BY <1>8, <1>10 DEF s, r

(* array_combine() of an array's keys and values *)
LEMMA CombinedBack ==
  ASSUME NEW a \in Hashmap, Distinct(a)
  PROVE  Combine(ArrayKeys(a), ArrayValues(a)).node = a.node
<1> DEFINE K == ArrayKeys(a)  V == ArrayValues(a)  xs == a.node  n == Len(xs)  seq == Positions(K)
<1>1. /\ K \in Hashmap /\ Len(K.node) = n /\ \A i \in 1..n : K.node[i].val = xs[i].key
      /\ V \in Hashmap /\ Len(V.node) = n /\ \A i \in 1..n : V.node[i].val = xs[i].val
  BY NumberedAnew DEF Top
<1> HIDE DEF K, V
<1>2. n \in Nat /\ xs \in Seq(Node) /\ DOMAIN xs = 1..n /\ \A i \in 1..n : xs[i].key \in Key
  BY Parts
<1>3. KeysApart(xs)
  BY DEF Distinct, KeysApart
<1> HIDE DEF xs
<1>4. DOMAIN seq = 1..n /\ \A i \in 1..n : seq[i] = i
  BY <1>1, PositionsAre
<1>5. \A k \in Key : AsKey(k) = k
  BY HashmapAssumption DEF Key, AsKey
<1>6. ASSUME NEW i \in 1..n, NEW m \in Hashmap
      PROVE  Step("combine", <<K, V>>, m, seq[i]) = Insert(m, xs[i].key, xs[i].val)
  <2>1. Step("combine", <<K, V>>, m, seq[i]) = Insert(m, AsKey(K.node[i].val), V.node[i].val)
    BY <1>4 DEF Step
  <2> QED BY <1>1, <1>2, <1>5, <2>1
<1> HIDE DEF seq
<1> DEFINE p == <<K, V>>
<1> HIDE DEF p
<1>7. \A i \in 1..n : \A m \in Hashmap : Step("combine", p, m, seq[i]) = Insert(m, xs[i].key, xs[i].val)
  BY <1>6 DEF p
<1>8. InsertsNew("combine", p, n, seq, xs)
  BY <1>2, <1>3, <1>4, <1>7 DEF InsertsNew
<1>9. Folded("combine", p, NewHashmap, seq).node = xs
  BY <1>8, InsertsNewIs
<1>10. Combine(K, V) = Folded("combine", p, NewHashmap, seq)
  BY PositionFoldsAre DEF p, seq
<1> QED BY <1>9, <1>10 DEF xs, K, V

(* array_flip() of an array whose values may all be keys, and are different *)
LEMMA FlippedOnce ==
  ASSUME NEW a \in Hashmap, \A i \in 1..Len(a.node) : a.node[i].val # NULL,
         \A i, j \in 1..Len(a.node) : a.node[i].val = a.node[j].val => i = j
  PROVE  LET r == Flip(a)
         IN /\ r \in Hashmap /\ Len(r.node) = Len(a.node)
            /\ \A i \in 1..Len(a.node) : r.node[i] = [key |-> a.node[i].val, val |-> a.node[i].key]
<1> DEFINE s == a.node  n == Len(s)  xs == [i \in 1..n |-> [key |-> s[i].val, val |-> s[i].key]]
<1>1. n \in Nat /\ DOMAIN s = 1..n /\ \A i \in 1..n : s[i].key \in Key /\ s[i].val \in Value
  BY Parts
<1>2. \A i \in 1..n : s[i].val # NULL /\ \A j \in 1..n : s[i].val = s[j].val => i = j
  OBVIOUS
<1> HIDE DEF s
<1>3. \A i \in 1..n : s[i].val \in Key /\ s[i].key \in Value
  BY <1>1, <1>2, KeyOrValue
<1>4. xs \in Seq(Node) /\ Len(xs) = n
  <2>1. \A i \in 1..n : [key |-> s[i].val, val |-> s[i].key] \in Node
    BY <1>3, NodeIs
  <2> HIDE DEF n
  <2> QED BY <1>1, <2>1, IsASeq
<1>5. \A i \in 1..n : xs[i].key = s[i].val /\ xs[i].val = s[i].key
  OBVIOUS
<1>6. KeysApart(xs)
  <2>1. DOMAIN xs = 1..n
    OBVIOUS
  <2> HIDE DEF xs, n
  <2> QED BY <1>2, <1>5, <2>1 DEF KeysApart
<1>7. \A i \in 1..n : \A m \in Hashmap : Step("flip", 0, m, s[i]) = Insert(m, xs[i].key, xs[i].val)
  <2> HIDE DEF xs
  <2> QED BY <1>2, <1>5 DEF Step
<1>8. \A i \in 1..n : xs[i] = [key |-> s[i].val, val |-> s[i].key]
  OBVIOUS
<1> HIDE DEF xs
<1>9. InsertsNew("flip", 0, n, s, xs)
  BY <1>1, <1>4, <1>6, <1>7 DEF InsertsNew
<1>10. Folded("flip", 0, NewHashmap, s) \in Hashmap /\ Folded("flip", 0, NewHashmap, s).node = xs
  BY <1>9, InsertsNewIs
<1>11. Flip(a) = Folded("flip", 0, NewHashmap, s)
  BY FoldsAre DEF s
<1> QED BY <1>4, <1>8, <1>10, <1>11 DEF s

LEMMA FlippedTwice ==
  ASSUME NEW a \in Hashmap, Distinct(a), \A i \in 1..Len(a.node) : a.node[i].val # NULL,
         \A i, j \in 1..Len(a.node) : a.node[i].val = a.node[j].val => i = j
  PROVE  Flip(Flip(a)).node = a.node
<1> DEFINE f == Flip(a)  r == Flip(f)  n == Len(a.node)
<1>1. f \in Hashmap /\ Len(f.node) = n /\ \A i \in 1..n : f.node[i] = [key |-> a.node[i].val, val |-> a.node[i].key]
  BY FlippedOnce
<1>2. /\ n \in Nat /\ DOMAIN a.node = 1..n
      /\ \A i \in 1..n : a.node[i].key \in Key /\ a.node[i] = [key |-> a.node[i].key, val |-> a.node[i].val]
  BY Parts
<1> HIDE DEF f
<1>3. ASSUME NEW i \in 1..n PROVE f.node[i].val = a.node[i].key /\ f.node[i].key = a.node[i].val
  <2> DEFINE k == a.node[i].key  v == a.node[i].val  x == f.node[i]
  <2>1. x = [key |-> v, val |-> k]
    BY <1>1
  <2> HIDE DEF k, v, x
  <2>2. x.val = k /\ x.key = v
    BY <2>1
  <2> QED BY <2>2 DEF k, v, x
<1>4. NULL \notin Key
  BY HashmapAssumption DEF Key
<1>5. ASSUME NEW i \in 1..Len(f.node) PROVE f.node[i].val # NULL
  <2>1. i \in 1..n
    BY <1>1
  <2>2. f.node[i].val = a.node[i].key /\ a.node[i].key \in Key
    BY <1>2, <1>3, <2>1
  <2> QED BY <1>4, <2>2
<1>6. \A i, j \in 1..Len(f.node) : f.node[i].val = f.node[j].val => i = j
  <2>1. \A i, j \in 1..n : a.node[i].key = a.node[j].key => i = j
    BY <1>2 DEF Distinct
  <2> HIDE DEF n
  <2> QED BY <1>1, <1>3, <2>1
<1>7. /\ r \in Hashmap /\ Len(r.node) = Len(f.node)
      /\ \A i \in 1..Len(f.node) : r.node[i] = [key |-> f.node[i].val, val |-> f.node[i].key]
  BY <1>1, <1>5, <1>6, FlippedOnce
<1> HIDE DEF r
<1> DEFINE s == r.node  t == a.node
<1>8. s \in Seq(Node) /\ t \in Seq(Node) /\ Len(s) = Len(t)
  BY <1>1, <1>7, Parts
<1>9. \A i \in 1..Len(s) : s[i] = t[i]
  BY <1>1, <1>2, <1>3, <1>7
<1> HIDE DEF s, t
<1>10. s = t
  BY <1>8, <1>9, SameSeq
<1> QED BY <1>10 DEF s, t, r, f

LEMMA ReversedTwice ==
  ASSUME NEW a \in Hashmap
  PROVE  ArrayReverse(ArrayReverse(a, TRUE), TRUE).node = a.node
<1> DEFINE s == a.node  f == ArrayReverse(a, TRUE)  r == ArrayReverse(f, TRUE)  t == Reverse(s)  w == Reverse(t)
<1>1. f \in Hashmap /\ f.node = t
  BY ArrayReverseIs
<1> HIDE DEF f
<1>2. r.node = w
  BY <1>1, ArrayReverseIs
<1>3. s \in Seq(Node)
  BY Parts
<1> HIDE DEF s
<1>4. t \in Seq(Node) /\ Len(t) = Len(s) /\ \A i \in 1..Len(s) : t[i] = s[Len(s) - i + 1]
  BY <1>3, ReversedSeq
<1> HIDE DEF t
<1>5. w \in Seq(Node) /\ Len(w) = Len(t) /\ \A i \in 1..Len(t) : w[i] = t[Len(t) - i + 1]
  BY <1>4, ReversedSeq
<1> HIDE DEF w
<1>6. ASSUME NEW i \in 1..Len(w) PROVE w[i] = s[i]
  <2> DEFINE n == Len(s)  j == n - i + 1
  <2>1. n \in Nat
    BY <1>3
  <2>2. i \in 1..n /\ Len(t) = n
    BY <1>4, <1>5
  <2> HIDE DEF n
  <2>3. j \in 1..n /\ n - j + 1 = i
    BY <2>1, <2>2
  <2>4. w[i] = t[j]
    BY <1>5, <2>2
  <2> HIDE DEF j
  <2>5. t[j] = s[n - j + 1]
    BY <1>4, <2>3 DEF n
  <2> QED BY <2>3, <2>4, <2>5
<1>7. w = s
  BY <1>3, <1>4, <1>5, <1>6, SameSeq
<1> QED BY <1>2, <1>7 DEF s, r, f
----------------------------------------------------------------------------
(* array_shift() of an array whose keys are integers numbers it anew. *)
LEMMA ShiftNumbers ==
  ASSUME NEW a \in Hashmap, KeysOf(a) \subseteq Int, a.node # <<>>
  PROVE  Numbered(Shift(a))
<1> DEFINE u == UnlinkNode(a, 1)  r == Reindexed(u)  m == Reset(r)  n == Len(u.node)
<1>1. Len(a.node) \in Nat /\ 1 \in 1..Len(a.node)
  BY Parts
<1>2. u \in Hashmap /\ KeysOf(u) \subseteq Int
  BY <1>1, UnlinkIs, UnlinkKeys
<1> HIDE DEF u
<1>3. n \in Nat /\ \A i \in 1..n : u.node[i].key \in Int
  BY <1>2, Parts, KeysOfIs
<1>4. /\ r \in Hashmap /\ Len(r.node) = n /\ r.next = Ints(u, n)
      /\ \A i \in 1..n : r.node[i].key = IF u.node[i].key \in Int THEN Ints(u, i) - 1 ELSE u.node[i].key
  BY <1>2, ReindexedIs
<1>5. ASSUME NEW i \in 0..n PROVE Ints(u, i) = i
  <2>1. i \in Nat /\ i <= i /\ \A k \in 1..i : u.node[k].key \in Int
    BY <1>3
  <2> HIDE DEF n
  <2> QED BY <2>1, IntsIs
<1> HIDE DEF r
<1>6. SameBut(m, r)
  BY <1>4, CursorIs
<1>7. Shift(a) = m
  BY DEF Shift, m, r, u
<1> HIDE DEF m
<1>8. DOMAIN r.node = 1..n
  BY <1>4, Parts
<1>9. (\A i \in 1..n : r.node[i].key = i - 1) /\ r.next = n
  BY <1>3, <1>4, <1>5
<1>10. Len(r.node) = n
  BY <1>4
<1> HIDE DEF n
<1> QED BY <1>6, <1>7, <1>8, <1>9, <1>10 DEF Numbered, SameBut

LEMMA FoldOne ==
  ASSUME NEW how, NEW p, NEW base, NEW x
  PROVE  Folded(how, p, base, <<x>>) = Step(how, p, base, x)
<1> DEFINE G == {<<0, base>>, <<1, Step(how, p, base, x)>>}  seq == <<x>>
<1>1. DOMAIN seq = 1..1 /\ seq[1] = x
  OBVIOUS
<1> HIDE DEF seq
<1>2. <<0, base>> \in G
  OBVIOUS
<1>3. ASSUME NEW i \in 1..1, NEW m, <<i - 1, m>> \in G PROVE <<i, Step(how, p, m, seq[i])>> \in G
  <2>1. i = 1 /\ m = base
    BY <1>3
  <2> QED BY <2>1, <1>1
<1>4. Advances(G, how, p, seq, 1)
  <2> HIDE DEF G
  <2> QED BY <1>3 DEF Advances
<1>5. <<1, Folded(how, p, base, seq)>> \in G
  <2> HIDE DEF G
  <2> QED BY <1>1, <1>2, <1>4, FoldInduct
<1> QED BY <1>5 DEF seq

(* What the next index is above *)
LEMMA AboveAll ==
  ASSUME NEW a \in Hashmap, NEW b \in Top
  PROVE  Above(Overwrite(a, b)) /\ Above(Flip(a)) /\ Above(Replace(<<a>>))
<1>0. b \in Hashmap /\ 0 \in Value /\ 0 \in Int
  BY KeyOrValue DEF Top
<1>1. \A d \in Top : d \in Hashmap => Overwrite(a, d) \in Top
  <2>1. ASSUME NEW d \in Top, d \in Hashmap PROVE Overwrite(a, d) \in Top
    <3>1. ClosedFold("insert", 0, d, a.node)
      BY <2>1, <1>0, InsertFolds
    <3>2. Overwrite(a, d) = Folded("insert", 0, d, a.node)
      BY FoldsAre
    <3>3. Folded("insert", 0, d, a.node) \in Top
      BY <2>1, <3>1 DEF ClosedFold
    <3> QED BY <3>2, <3>3
  <2> QED BY <2>1
<1>2. Flip(a) \in Top
  BY <1>0, MadeAnew
<1>3. Replace(<<a>>) = Overwrite(a, NewHashmap)
  <2>1. Replace(<<a>>) = Folded("replaces", 0, NewHashmap, <<a>>)
    BY FoldsAre
  <2>2. Folded("replaces", 0, NewHashmap, <<a>>) = Step("replaces", 0, NewHashmap, a)
    BY FoldOne
  <2>3. Step("replaces", 0, NewHashmap, a) = Overwrite(a, NewHashmap)
    BY DEF Step
  <2> QED BY <2>1, <2>2, <2>3
<1>4. Overwrite(a, b) \in Top /\ Overwrite(a, NewHashmap) \in Top
  BY <1>0, <1>1, NewTop
<1> QED BY <1>2, <1>3, <1>4 DEF Top

LEMMA InvParts == ASSUME IInv, Distinct(arr) PROVE PartsWhole
<1> DEFINE vs == Values(arr)  plain == \A i, j \in DOMAIN vs : vs[i] # NULL /\ (vs[i] = vs[j] => i = j)
<1>0. arr \in Hashmap
  BY DEF IInv
<1>1. ASSUME NEW b \in Others
      PROVE  /\ PartsMake(Diff(arr, {b}), Intersect(arr, {b}), arr)
             /\ PartsMake(DiffAssoc(arr, {b}), IntersectAssoc(arr, {b}), arr)
             /\ PartsMake(DiffKey(arr, {b}), IntersectKey(arr, {b}), arr)
             /\ PartsMake(Udiff(arr, {b}, Congruent), Uintersect(arr, {b}, Congruent), arr)
             /\ HashmapCmp(Union(Copy(b), arr), Replace(<<arr, b>>), TRUE) = 0
             /\ Len(ArrayMerge(<<arr, b>>).node) + Cardinality(KeysOf(arr) \cap KeysOf(b) \cap Strs)
                  = Len(arr.node) + Len(b.node)
             /\ Above(Overwrite(arr, b))
  <2>1. b \in Hashmap /\ Distinct(b) /\ b \in Top
    BY OthersAre DEF Top
  <2>2. /\ PartsMake(Diff(arr, {b}), Intersect(arr, {b}), arr)
        /\ PartsMake(DiffAssoc(arr, {b}), IntersectAssoc(arr, {b}), arr)
        /\ PartsMake(DiffKey(arr, {b}), IntersectKey(arr, {b}), arr)
        /\ PartsMake(Udiff(arr, {b}, Congruent), Uintersect(arr, {b}, Congruent), arr)
    BY <1>0, DiffsWhole
  <2>3. HashmapCmp(Union(Copy(b), arr), Replace(<<arr, b>>), TRUE) = 0
    BY <1>0, <2>1, UnionReplaces
  <2>4. Len(ArrayMerge(<<arr, b>>).node) + Cardinality(KeysOf(arr) \cap KeysOf(b) \cap Strs)
          = Len(arr.node) + Len(b.node)
    BY <1>0, <2>1, ArrayMergeLen
  <2>5. Above(Overwrite(arr, b))
    BY <1>0, <2>1, AboveAll
  <2> QED BY <2>2, <2>3, <2>4, <2>5
<1>2. Combine(ArrayKeys(arr), ArrayValues(arr)).node = arr.node
  BY <1>0, CombinedBack
<1>3. ArrayReverse(ArrayReverse(arr, TRUE), TRUE).node = arr.node
  BY <1>0, ReversedTwice
<1>4. plain => Flip(Flip(arr)).node = arr.node
  <2>1. DOMAIN vs = 1..Len(arr.node) /\ \A i \in 1..Len(arr.node) : vs[i] = arr.node[i].val
    BY <1>0, ValuesAre
  <2> HIDE DEF vs
  <2>2. ASSUME plain
        PROVE  /\ \A i \in 1..Len(arr.node) : arr.node[i].val # NULL
               /\ \A i, j \in 1..Len(arr.node) : arr.node[i].val = arr.node[j].val => i = j
    BY <2>1, <2>2
  <2> QED BY <1>0, <2>2, FlippedTwice
<1>5. HashmapCmp(Replace(<<arr, arr>>), arr, TRUE) = 0
  BY <1>0, UnionReplaces
<1>6. Numbered(ArrayValues(arr))
  BY <1>0, NumberedAnew
<1>7. Above(Flip(arr)) /\ Above(Replace(<<arr>>))
  BY <1>0, NewTop, AboveAll
<1>8. KeysOf(arr) \subseteq Int /\ arr.node # <<>> => Numbered(Shift(arr))
  BY <1>0, ShiftNumbers
<1> QED BY <1>1, <1>2, <1>3, <1>4, <1>5, <1>6, <1>7, <1>8, Zenon DEF PartsWhole, PartsMake
----------------------------------------------------------------------------
LEMMA InitInv == Init => IInv
<1> SUFFICES ASSUME Init PROVE IInv
  OBVIOUS
<1>1. arr = NewHashmap
  BY DEF Init
<1>2. arr \in Hashmap /\ arr.node = <<>>
  BY <1>1, NewTop, NewIs
<1>3. DOMAIN arr.node = {}
  BY <1>2
<1>4. KeysOf(arr) = {}
  BY <1>3 DEF KeysOf
<1>5. Range(Values(arr)) = {}
  BY <1>2, <1>3, ValuesAre DEF Range
<1> QED BY <1>2, <1>4, <1>5 DEF IInv

LEMMA StepInv == IInv /\ [Next]_arr => IInv'
<1>1. ASSUME IInv, Next PROVE IInv'
  BY <1>1, NextStepped
<1>2. ASSUME IInv, arr' = arr PROVE IInv'
  BY <1>2 DEF IInv
<1> QED BY <1>1, <1>2

LEMMA StepDistinct == IInv /\ [Next]_arr => [Distinct(arr') \/ Unlooked]_arr
<1>1. ASSUME IInv, Next PROVE Distinct(arr') \/ Unlooked
  BY <1>1, NextStepped DEF Stepped
<1> QED BY <1>1

(***************************************************************************)
(* The array of a script is an array of the model whatever built-ins the   *)
(* script calls and in whatever order, with keys and values that it may    *)
(* have: no function of hashmap.c leaves one that is not.                  *)
(***************************************************************************)
THEOREM ArrayInvHolds == Spec => []IInv
BY InitInv, StepInv, PTL DEF Spec

(***************************************************************************)
(* The cursor of the array is on one of its elements or nowhere: unsetting *)
(* an element, sorting or cutting the array leaves no pCur at a node that  *)
(* is gone (HashmapUnlinkNode, PH7_HashmapRelease, hashmap_splice).        *)
(***************************************************************************)
THEOREM ArrayTypeCorrect == Spec => []TypeOK
<1>1. IInv => TypeOK
  BY DEF IInv, TypeOK, Hashmap
<1> QED BY <1>1, ArrayInvHolds, PTL

(***************************************************************************)
(* No function of hashmap.c gives an array of distinct keys a key twice,   *)
(* whatever was called before, but an append to an array whose next index  *)
(* has fallen behind its keys (Dup, Union and HashmapInsertNode leave it   *)
(* behind) and array_splice() with a string key that is there.             *)
(***************************************************************************)
THEOREM KeysStayUnique == Spec => KeysUnique
BY ArrayInvHolds, StepDistinct, PTL DEF Spec, KeysUnique

(***************************************************************************)
(* A loop that unsets the element that each() gave sees all elements, in   *)
(* order, and leaves none: the cursor is past an element before it goes.   *)
(***************************************************************************)
THEOREM LoopsUnsetAll == Spec => []LoopUnsetsAll
<1>1. IInv => LoopUnsetsAll
  BY LoopedIs DEF IInv, LoopUnsetsAll
<1> QED BY <1>1, ArrayInvHolds, PTL

(***************************************************************************)
(* array_slice(), array_splice() and array_chunk() cut an array exactly at *)
(* the offsets they are given, of the beginning or of the end.             *)
(***************************************************************************)
THEOREM CutsAreExact == Spec => []CutsExact
<1>1. IInv => CutsExact
  BY InvCuts
<1> QED BY <1>1, ArrayInvHolds, PTL

(***************************************************************************)
(* The merge sort of hashmap.c puts the elements in order and loses none,  *)
(* for every number of buckets: the runs in the buckets are in order, and  *)
(* the elements in them are those that went in.                            *)
(***************************************************************************)
THEOREM SortsAreRight == Spec => []SortsRight
<1>1. IInv => SortsRight
  BY InvSorts
<1> QED BY <1>1, ArrayInvHolds, PTL

(***************************************************************************)
(* What the functions take apart can be put together again: differences    *)
(* and intersections, keys and values, reversals, flips, unions,           *)
(* replacements, merges, of every array without a key twice.               *)
(***************************************************************************)
THEOREM PartsMakeWhole == Spec => []PartsWhole
<1>1. IInv /\ Distinct(arr) => PartsWhole
  BY InvParts
<1>2. ~Distinct(arr) => PartsWhole
  BY DEF PartsWhole
<1>3. IInv => PartsWhole
  BY <1>1, <1>2
<1> QED BY <1>3, ArrayInvHolds, PTL
============================================================================
