--------------------------- MODULE DListTheorems ---------------------------
(***************************************************************************)
(* What the two list macros guarantee, for every set of addresses: they    *)
(* keep the type of a list, they keep it linked when their caller respects *)
(* the contract of the macro, and the loops that count instead of looking  *)
(* for the end of the list visit every item of it.                         *)
(***************************************************************************)
EXTENDS DList, FiniteSets, FiniteSetTheorems, WellFoundedInduction, TLAPS

(* Zeroing the links of an address keeps a list a list. *)
LEMMA ZeroLinksType ==
  ASSUME NEW Addr, NEW l \in Lists(Addr), NEW a
  PROVE  ZeroLinks(l, a) \in Lists(Addr)
BY DEF ZeroLinks, Lists

(* MACRO_LD_PUSH keeps a list a list. *)
LEMMA LdPushType ==
  ASSUME NEW Addr, NEW l \in Lists(Addr), NEW a \in Addr
  PROVE  LdPush(l, a) \in Lists(Addr)
BY DEF LdPush, Lists

(* MACRO_LD_REMOVE keeps a list a list. *)
LEMMA LdRemoveType ==
  ASSUME NEW Addr, NEW l \in Lists(Addr), NEW a \in Addr
  PROVE  LdRemove(l, a) \in Lists(Addr)
<1> DEFINE nxt == l.next[a]
           prv == l.prev[a]
<1>1. nxt \in Addr \cup {NULL} /\ prv \in Addr \cup {NULL}
  BY DEF Lists
<1>2. (IF l.head = a THEN nxt ELSE l.head) \in Addr \cup {NULL}
  BY <1>1 DEF Lists
<1>3. (IF prv = NULL THEN l.next ELSE [l.next EXCEPT ![prv] = nxt]) \in [Addr -> Addr \cup {NULL}]
  BY <1>1 DEF Lists
<1>4. (IF nxt = NULL THEN l.prev ELSE [l.prev EXCEPT ![nxt] = prv]) \in [Addr -> Addr \cup {NULL}]
  BY <1>1 DEF Lists
<1> QED BY <1>2, <1>3, <1>4 DEF LdRemove, Lists

(* Zeroing the links of an address outside of the list leaves it linked. *)
LEMMA ZeroLinksLinked ==
  ASSUME NEW Addr, NEW l \in Lists(Addr), NEW S \in SUBSET Addr, NEW end,
         LinkedTo(l, S, end), NEW a, a \notin S
  PROVE  LinkedTo(ZeroLinks(l, a), S, end)
<1> DEFINE m == ZeroLinks(l, a)
<1>1. m.head = l.head /\ \A x \in S : m.next[x] = l.next[x] /\ m.prev[x] = l.prev[x]
  BY DEF ZeroLinks, Lists
<1> HIDE DEF m
<1>2. Consistent(m, S, end)
  BY <1>1 DEF LinkedTo, Consistent
<1>3. Acyclic(m, S)
  BY <1>1 DEF LinkedTo, Acyclic
<1> QED BY <1>2, <1>3 DEF LinkedTo, m

(***************************************************************************)
(* MACRO_LD_PUSH(Head, Item) of an item that is not linked and has zero    *)
(* links: the list links one item more, and ends where it ended.           *)
(***************************************************************************)
THEOREM LdPushLinked ==
  ASSUME NEW Addr, NULL \notin Addr,
         NEW l \in Lists(Addr), NEW S \in SUBSET Addr, NEW end \in Addr \cup {NULL},
         LinkedTo(l, S, end),
         NEW a \in Addr \ S, a # end, l.next[a] = NULL, l.prev[a] = NULL
  PROVE  LinkedTo(LdPush(l, a), S \cup {a}, end)
<1> DEFINE m == LdPush(l, a)
<1>1. Consistent(l, S, end) /\ Acyclic(l, S)
  BY DEF LinkedTo
<1>2. CASE l.head = NULL
  <2>1. S = {} /\ end = NULL
    BY <1>1, <1>2 DEF Consistent
  <2>2. m.head = a /\ m.next = l.next /\ m.prev = l.prev
    BY <1>2 DEF LdPush, Lists
  <2>3. Consistent(m, {a}, end)
    BY <2>1, <2>2 DEF Consistent
  <2>4. Acyclic(m, {a})
    BY <2>2 DEF Acyclic
  <2> QED BY <2>1, <2>3, <2>4 DEF LinkedTo
<1>3. CASE l.head # NULL
  <2>1. l.head \in S \cup {end} /\ l.head \in Addr /\ l.head # a
    BY <1>1, <1>3 DEF Consistent
  <2>2. /\ m.head = a
        /\ m.next = [l.next EXCEPT ![a] = l.head]
        /\ m.prev = [l.prev EXCEPT ![l.head] = a]
    BY <1>3 DEF LdPush, Lists
  <2>3. /\ m.next[a] = l.head /\ m.prev[a] = NULL
        /\ m.prev[l.head] = a
        /\ \A x \in S : m.next[x] = l.next[x]
        /\ \A x \in S : x # l.head => m.prev[x] = l.prev[x]
    BY <2>1, <2>2 DEF Lists
  <2>4. Consistent(m, S \cup {a}, end)
    <3>1. m.head \in S \cup {a} /\ m.head # end /\ end \notin S \cup {a}
      BY <2>2, <1>1 DEF Consistent
    <3>2. ASSUME NEW x \in S \cup {a}
          PROVE  /\ m.next[x] \in (S \cup {a}) \cup {end}
                 /\ m.prev[x] \in (S \cup {a}) \cup {NULL}
                 /\ (m.next[x] # end) => (m.prev[m.next[x]] = x)
                 /\ (m.prev[x] # NULL) => (m.next[m.prev[x]] = x)
                 /\ (m.prev[x] = NULL) <=> (x = m.head)
      <4>1. CASE x = a
        BY <4>1, <2>1, <2>2, <2>3
      <4>2. CASE x \in S /\ x = l.head
        <5>1. l.next[x] # l.head
          BY <4>2, <1>1, <1>3 DEF Consistent
        <5> QED BY <5>1, <4>2, <1>1, <2>1, <2>2, <2>3 DEF Consistent
      <4>3. CASE x \in S /\ x # l.head
        <5>1. l.next[x] # l.head
          BY <4>3, <1>1, <1>3 DEF Consistent
        <5> QED BY <5>1, <4>3, <1>1, <2>1, <2>2, <2>3 DEF Consistent
      <4> QED BY <4>1, <4>2, <4>3
    <3> QED BY <3>1, <3>2 DEF Consistent
  <2>5. Acyclic(m, S \cup {a})
    <3> SUFFICES ASSUME NEW T \in SUBSET (S \cup {a}), T # {}
                 PROVE  \E x \in T : m.prev[x] \notin T
      BY DEF Acyclic
    <3>1. CASE a \in T
      BY <3>1, <2>3
    <3>2. CASE a \notin T
      <4>1. T \in SUBSET S
        BY <3>2
      <4>2. PICK x \in T : l.prev[x] \notin T
        BY <4>1, <1>1 DEF Acyclic
      <4> QED BY <4>1, <4>2, <3>2, <2>3
    <3> QED BY <3>1, <3>2
  <2> QED BY <2>4, <2>5 DEF LinkedTo
<1> QED BY <1>2, <1>3

(***************************************************************************)
(* MACRO_LD_REMOVE(Head, Item) of a linked item: exactly that item is no   *)
(* longer linked, wherever it was in the list.                             *)
(***************************************************************************)
THEOREM LdRemoveLinked ==
  ASSUME NEW Addr, NULL \notin Addr,
         NEW l \in Lists(Addr), NEW S \in SUBSET Addr, NEW end \in Addr \cup {NULL},
         LinkedTo(l, S, end), NEW a \in S
  PROVE  LinkedTo(LdRemove(l, a), S \ {a}, end)
<1> DEFINE m == LdRemove(l, a)
           R == S \ {a}
           nxt == l.next[a]
           prv == l.prev[a]
<1>1. Consistent(l, S, end) /\ Acyclic(l, S)
  BY DEF LinkedTo
<1>2. /\ nxt \in S \cup {end} /\ prv \in S \cup {NULL}
      /\ nxt # end => l.prev[nxt] = a
      /\ prv # NULL => l.next[prv] = a
      /\ prv = NULL <=> a = l.head
      /\ end \notin S
  BY <1>1 DEF Consistent
<1>3. prv # a /\ nxt # a
  <2>1. \E x \in {a} : l.prev[x] \notin {a}
    BY <1>1 DEF Acyclic
  <2> QED BY <2>1, <1>2
<1>4. /\ m.head = (IF l.head = a THEN nxt ELSE l.head)
      /\ m.next = (IF prv = NULL THEN l.next ELSE [l.next EXCEPT ![prv] = nxt])
      /\ m.prev = (IF nxt = NULL THEN l.prev ELSE [l.prev EXCEPT ![nxt] = prv])
  BY DEF LdRemove
<1>5. /\ \A x \in R : x # prv => m.next[x] = l.next[x]
      /\ \A x \in R : x # nxt => m.prev[x] = l.prev[x]
      /\ prv # NULL => m.next[prv] = nxt
      /\ nxt \in R => m.prev[nxt] = prv
  BY <1>2, <1>4 DEF Lists
<1>6. \A x \in R : /\ x # prv => l.next[x] # a
                   /\ x # nxt => l.prev[x] # a
  BY <1>1 DEF Consistent
<1>7. Consistent(m, R, end)
  <2>1. m.head \in R \cup {end} /\ end \notin R
    BY <1>1, <1>2, <1>3, <1>4 DEF Consistent
  <2>2. ASSUME m.head = end, R # {}
        PROVE  FALSE
    <3>1. l.head = a /\ nxt = end
      BY <2>2, <1>1, <1>4 DEF Consistent
    <3>2. PICK y \in R : l.prev[y] \notin R
      BY <2>2, <1>1 DEF Acyclic
    <3>3. l.prev[y] = NULL
      BY <3>1, <3>2, <1>1, <1>2, <1>6 DEF Consistent
    <3> QED BY <3>1, <3>3, <1>1 DEF Consistent
  <2>3. ASSUME NEW x \in R
        PROVE  /\ m.next[x] \in R \cup {end}
               /\ m.prev[x] \in R \cup {NULL}
               /\ (m.next[x] # end) => (m.prev[m.next[x]] = x)
               /\ (m.prev[x] # NULL) => (m.next[m.prev[x]] = x)
               /\ (m.prev[x] = NULL) <=> (x = m.head)
    <3>0. x \in S /\ x # a /\ x # NULL /\ x # end
      BY <1>2
    <3>1. m.next[x] \in R \cup {end} /\ (m.next[x] # end => m.prev[m.next[x]] = x)
      <4>1. CASE x = prv
        BY <4>1, <3>0, <1>2, <1>3, <1>5
      <4>2. CASE x # prv
        <5>1. m.next[x] = l.next[x] /\ l.next[x] # a
          BY <4>2, <1>5, <1>6
        <5>2. l.next[x] \in R \cup {end} /\ (l.next[x] # end => l.prev[l.next[x]] = x)
          BY <5>1, <3>0, <1>1 DEF Consistent
        <5>3. l.next[x] # end => l.next[x] # nxt
          BY <5>2, <3>0, <1>2
        <5> QED BY <5>1, <5>2, <5>3, <1>5
      <4> QED BY <4>1, <4>2
    <3>2. m.prev[x] \in R \cup {NULL} /\ (m.prev[x] # NULL => m.next[m.prev[x]] = x)
      <4>1. CASE x = nxt
        BY <4>1, <3>0, <1>2, <1>3, <1>5
      <4>2. CASE x # nxt
        <5>1. m.prev[x] = l.prev[x] /\ l.prev[x] # a
          BY <4>2, <1>5, <1>6
        <5>2. l.prev[x] \in R \cup {NULL} /\ (l.prev[x] # NULL => l.next[l.prev[x]] = x)
          BY <5>1, <3>0, <1>1 DEF Consistent
        <5>3. l.prev[x] # NULL => l.prev[x] # prv
          BY <5>2, <3>0, <1>2
        <5> QED BY <5>1, <5>2, <5>3, <1>5
      <4> QED BY <4>1, <4>2
    <3>3. (m.prev[x] = NULL) <=> (x = m.head)
      <4>1. CASE x = nxt
        <5>1. m.prev[x] = prv /\ l.prev[x] = a
          BY <4>1, <3>0, <1>2, <1>5
        <5>2. x # l.head
          BY <5>1, <3>0, <1>1 DEF Consistent
        <5> QED BY <4>1, <5>1, <5>2, <1>2, <1>4
      <4>2. CASE x # nxt
        <5>1. m.prev[x] = l.prev[x]
          BY <4>2, <1>5
        <5>2. (l.prev[x] = NULL) <=> (x = l.head)
          BY <3>0, <1>1 DEF Consistent
        <5> QED BY <4>2, <5>1, <5>2, <3>0, <1>4
      <4> QED BY <4>1, <4>2
    <3> QED BY <3>1, <3>2, <3>3
  <2> QED BY <2>1, <2>2, <2>3 DEF Consistent
<1>8. Acyclic(m, R)
  <2> SUFFICES ASSUME NEW T \in SUBSET R, T # {}
               PROVE  \E x \in T : m.prev[x] \notin T
    BY DEF Acyclic
  <2>1. PICK y \in T : l.prev[y] \notin T
    BY <1>1 DEF Acyclic
  <2>2. CASE y # nxt
    BY <2>1, <2>2, <1>5
  <2>3. CASE y = nxt /\ prv \notin T
    BY <2>3, <1>5
  <2>4. CASE y = nxt /\ prv \in T
    <3>1. PICK z \in T \cup {a} : l.prev[z] \notin T \cup {a}
      BY <1>1 DEF Acyclic
    <3>2. z \in T /\ z # nxt
      BY <3>1, <2>4, <1>2
    <3> QED BY <3>1, <3>2, <1>5
  <2> QED BY <2>2, <2>3, <2>4
<1> QED BY <1>7, <1>8 DEF LinkedTo
----------------------------------------------------------------------------
(* Every non-empty set of natural numbers has a least one. *)
LEMMA LeastNatural ==
  ASSUME NEW T \in SUBSET Nat, T # {}
  PROVE  \E n \in T : \A m \in T : ~ (m < n)
<1>1. PICK n \in T : \A m \in T : <<m, n>> \notin OpToRel(<, Nat)
  BY WFMin, NatLessThanWellFounded, Zenon
<1>2. \A m \in T : m \in Nat /\ n \in Nat
  OBVIOUS
<1> QED BY <1>1, <1>2, Zenon DEF OpToRel

(* What holds of 0 and passes from i to i+1 holds of all numbers up to n. *)
LEMMA UpTo ==
  ASSUME NEW n \in Nat, NEW G,
         0 \in G, \A i \in 0..n : (i < n /\ i \in G) => (i + 1 \in G)
  PROVE  0..n \subseteq G
<1> DEFINE Bad == (0..n) \ G
<1>1. SUFFICES ASSUME Bad # {} PROVE FALSE
  OBVIOUS
<1>2. PICK i \in Bad : \A j \in Bad : ~ (j < i)
  <2>1. Bad \in SUBSET Nat
    OBVIOUS
  <2> QED BY <1>1, <2>1, LeastNatural
<1>3. i # 0 /\ i - 1 \in 0..n /\ i - 1 < n
  OBVIOUS
<1>4. i - 1 \in G
  BY <1>2, <1>3
<1> QED BY <1>3, <1>4

(***************************************************************************)
(* A recursive function whose step is a function of the value before has a *)
(* solution.                                                               *)
(***************************************************************************)
Iterated(f, step, v, n) == f[0] = v /\ \A i \in 1..n : f[i] = step[f[i-1]]

LEMMA Iterates ==
  ASSUME NEW V, NEW step \in [V -> V], NEW v \in V, NEW n \in Nat
  PROVE  \E f \in [0..n -> V] : Iterated(f, step, v, n)
<1> DEFINE Solves(f, k) == Iterated(f, step, v, k)
           G == {k \in 0..n : \E f \in [0..k -> V] : Solves(f, k)}
<1>1. 0 \in G
  <2> DEFINE f == [i \in 0..0 |-> v]
  <2>1. f \in [0..0 -> V] /\ Solves(f, 0)
    BY DEF Iterated
  <2> HIDE DEF f, Solves
  <2> QED BY <2>1
<1>2. ASSUME NEW k \in 0..n, k < n, k \in G PROVE k + 1 \in G
  <2>1. PICK f \in [0..k -> V] : Solves(f, k)
    BY <1>2
  <2> DEFINE g == [i \in 0..(k+1) |-> IF i \in 0..k THEN f[i] ELSE step[f[k]]]
  <2>2. g \in [0..(k+1) -> V]
    OBVIOUS
  <2>3. ASSUME NEW i \in 1..(k+1)
        PROVE  g[i] = step[g[i-1]]
    <3>1. i - 1 \in 0..k /\ i - 1 \in 0..(k+1) /\ g[i-1] = f[i-1]
      OBVIOUS
    <3>2. CASE i = k + 1
      BY <3>1, <3>2
    <3>3. CASE i \in 0..k
      BY <2>1, <3>1, <3>3 DEF Iterated
    <3> QED BY <3>2, <3>3
  <2>4. g[0] = v
    BY <2>1 DEF Iterated
  <2>5. Solves(g, k + 1)
    BY <2>3, <2>4 DEF Iterated
  <2> HIDE DEF Solves, g
  <2> QED BY <1>2, <2>2, <2>5
<1>3. 0..n \subseteq G
  <2> HIDE DEF G
  <2> QED BY <1>1, <1>2, UpTo
<1> QED BY <1>3

(***************************************************************************)
(* The recursive definition of Walk has a solution: the loop reads the head*)
(* and then the pNext of what it read last.                                *)
(***************************************************************************)
LEMMA WalkSteps ==
  ASSUME NEW l, NEW n \in Nat
  PROVE  /\ Walk(l, n)[0] = l.head
         /\ \A i \in 1..n : Walk(l, n)[i] = (IF Walk(l, n)[i-1] = NULL THEN NULL
                                             ELSE l.next[Walk(l, n)[i-1]])
<1> DEFINE To(x) == IF x = NULL THEN NULL ELSE l.next[x]
           Solves(f, k) == f = [i \in 0..k |-> IF i = 0 THEN l.head ELSE To(f[i-1])]
           Missing == {k \in Nat : ~ \E f : Solves(f, k)}
<1>1. \E f : Solves(f, 0)
  <2> DEFINE f == [i \in 0..0 |-> l.head]
  <2>1. Solves(f, 0)
    OBVIOUS
  <2> QED BY <2>1
<1>2. ASSUME NEW k \in Nat, NEW f, Solves(f, k)
      PROVE  \E g : Solves(g, k+1)
  <2> DEFINE g == [i \in 0..(k+1) |-> IF i = k+1 THEN To(f[k]) ELSE f[i]]
  <2>1. \A i \in 0..k : f[i] = IF i = 0 THEN l.head ELSE To(f[i-1])
    BY <1>2
  <2>2. \A i \in 0..(k+1) : g[i] = IF i = 0 THEN l.head ELSE To(g[i-1])
    <3> SUFFICES ASSUME NEW i \in 0..(k+1) PROVE g[i] = IF i = 0 THEN l.head ELSE To(g[i-1])
      OBVIOUS
    <3>1. CASE i = k+1
      BY <3>1
    <3>2. CASE i # k+1
      <4>1. i \in 0..k /\ (i # 0 => i-1 \in 0..k)
        BY <3>2
      <4>2. g[i] = f[i] /\ (i # 0 => g[i-1] = f[i-1])
        BY <4>1, <3>2
      <4> QED BY <4>1, <4>2, <2>1
    <3> QED BY <3>1, <3>2
  <2> HIDE DEF To
  <2>3. g = [i \in 0..(k+1) |-> IF i = 0 THEN l.head ELSE To(g[i-1])]
    BY <2>2
  <2> QED BY <2>3
<1>3. Missing = {}
  <2> SUFFICES ASSUME Missing # {} PROVE FALSE
    OBVIOUS
  <2>1. PICK k \in Missing : \A m \in Missing : ~ (m < k)
    BY LeastNatural
  <2>2. k # 0
    BY <2>1, <1>1
  <2> HIDE DEF Solves
  <2>3. k-1 \in Nat /\ k-1 \notin Missing /\ (k-1)+1 = k
    <3>1. k \in Nat
      OBVIOUS
    <3>2. k-1 \in Nat /\ k-1 < k /\ (k-1)+1 = k
      BY <3>1, <2>2
    <3> QED BY <3>2, <2>1
  <2>4. PICK f : Solves(f, k-1)
    BY <2>3
  <2>5. \E g : Solves(g, k)
    BY <2>3, <2>4, <1>2
  <2> QED BY <2>1, <2>5
<1>4. \E f : Solves(f, n)
  BY <1>3
<1>5. Walk(l, n) = CHOOSE f : Solves(f, n)
  BY DEF Walk
<1>6. Solves(Walk(l, n), n)
  BY <1>4, <1>5, Zenon
<1> HIDE DEF To
<1>7. \A i \in 0..n : Walk(l, n)[i] = IF i = 0 THEN l.head ELSE To(Walk(l, n)[i-1])
  BY <1>6
<1> QED BY <1>7 DEF To

(***************************************************************************)
(* The counted loops over a list (PH7CoreShutdown, SyMemBackendRelease,    *)
(* EngineRelease): when the count is the number of linked items, the first *)
(* count items from the head are these items, whatever the last one is     *)
(* linked to.                                                              *)
(***************************************************************************)
THEOREM CountedWalk ==
  ASSUME NEW Addr, NULL \notin Addr,
         NEW l \in Lists(Addr), NEW S \in SUBSET Addr, NEW end, LinkedTo(l, S, end),
         IsFiniteSet(S)
  PROVE  FirstItems(l, Cardinality(S)) = S
<1> DEFINE n == Cardinality(S)
           w == Walk(l, n)
           V(k) == {w[i] : i \in 0..(k-1)}
           Good(k) == /\ V(k) \subseteq S
                      /\ Cardinality(V(k)) = k
                      /\ (k < n) => (w[k] \in S \ V(k))
           Bad == {k \in 0..n : ~ Good(k)}
<1>1. n \in Nat
  BY FS_CardinalityType
<1>2. Consistent(l, S, end) /\ Acyclic(l, S)
  BY DEF LinkedTo
<1>3. /\ w[0] = l.head
      /\ \A i \in 1..n : w[i] = (IF w[i-1] = NULL THEN NULL ELSE l.next[w[i-1]])
  BY <1>1, WalkSteps
<1> HIDE DEF n, w
<1>4. Good(0)
  <2>1. V(0) = {}
    OBVIOUS
  <2>2. Cardinality(V(0)) = 0
    BY <2>1, FS_EmptySet
  <2>3. (0 < n) => (w[0] \in S)
    <3> SUFFICES ASSUME 0 < n PROVE w[0] \in S
      OBVIOUS
    <3>1. S # {}
      BY <1>1, FS_EmptySet DEF n
    <3> QED BY <3>1, <1>2, <1>3 DEF Consistent
  <2> QED BY <2>1, <2>2, <2>3
<1>5. ASSUME NEW k \in 0..n, k < n, Good(k) PROVE Good(k+1)
  <2> HIDE DEF V
  <2>0. k \in Nat /\ k+1 \in 1..n
    BY <1>5, <1>1
  <2>1. V(k) \subseteq S /\ Cardinality(V(k)) = k /\ w[k] \in S /\ w[k] \notin V(k)
    BY <1>5
  <2>2. V(k+1) = V(k) \cup {w[k]}
    <3>1. 0..((k+1)-1) = (0..(k-1)) \cup {k}
      BY <2>0
    <3> QED BY <3>1 DEF V
  <2>3. V(k+1) \subseteq S
    BY <2>1, <2>2
  <2>4. Cardinality(V(k+1)) = k+1
    <3>1. IsFiniteSet(V(k))
      BY <2>1, FS_Subset
    <3> QED BY <3>1, <2>1, <2>2, FS_AddElement
  <2>5. ASSUME k+1 < n PROVE w[k+1] \in S \ V(k+1)
    <3>1. w[k+1] = l.next[w[k]]
      <4>1. w[k] # NULL
        BY <2>1
      <4>2. (k+1)-1 = k
        BY <2>0
      <4> QED BY <4>1, <4>2, <2>0, <1>3
    <3>2. \A x \in V(k+1) : x = w[0] \/ \E i \in 0..(k-1) : x = l.next[w[i]] /\ w[i] \in V(k)
      <4> SUFFICES ASSUME NEW j \in 0..k, j # 0
                   PROVE  \E i \in 0..(k-1) : w[j] = l.next[w[i]] /\ w[i] \in V(k)
        BY <2>0 DEF V
      <4>1. j-1 \in 0..(k-1) /\ j \in 1..n
        BY <2>0, <1>1
      <4>2. w[j-1] \in V(k)
        BY <4>1 DEF V
      <4>3. w[j-1] # NULL
        BY <4>2, <2>1
      <4> QED BY <4>1, <4>2, <4>3, <1>3
    <3>3. \A i \in 0..(k-1) : l.next[w[i]] \in V(k+1)
      <4> SUFFICES ASSUME NEW i \in 0..(k-1) PROVE l.next[w[i]] \in V(k+1)
        OBVIOUS
      <4>1. w[i] \in V(k) /\ i+1 \in 0..k /\ i+1 \in 1..n /\ (i+1)-1 = i
        BY <2>0, <1>1 DEF V
      <4>2. w[i] # NULL
        BY <4>1, <2>1
      <4>3. w[i+1] = l.next[w[i]]
        BY <4>1, <4>2, <1>3
      <4>4. (k+1)-1 = k
        BY <2>0
      <4> QED BY <4>1, <4>3, <4>4 DEF V
    <3>4. w[0] \in V(k+1)
      BY <2>0 DEF V
    <3>5. l.next[w[k]] # end
      <4> SUFFICES ASSUME l.next[w[k]] = end PROVE FALSE
        OBVIOUS
      <4>1. V(k+1) # S
        BY <2>4, <2>5, <2>0, <1>1 DEF n
      <4>2. PICK x \in S \ V(k+1) : l.prev[x] \notin S \ V(k+1)
        BY <4>1, <2>3, <1>2 DEF Acyclic
      <4>3. l.prev[x] # NULL
        BY <4>2, <3>4, <1>2, <1>3 DEF Consistent
      <4>4. l.prev[x] \in V(k+1) /\ l.next[l.prev[x]] = x
        BY <4>2, <4>3, <1>2 DEF Consistent
      <4>5. l.prev[x] # w[k]
        BY <4>4, <4>2, <1>2 DEF Consistent
      <4>6. PICK i \in 0..(k-1) : l.prev[x] = w[i]
        BY <4>4, <4>5, <2>2 DEF V
      <4> QED BY <4>2, <4>4, <4>6, <3>3
    <3>6. l.next[w[k]] \in S /\ l.prev[l.next[w[k]]] = w[k]
      BY <3>5, <2>1, <1>2 DEF Consistent
    <3>7. l.next[w[k]] # w[0]
      BY <3>6, <2>1, <1>2, <1>3 DEF Consistent
    <3>8. ASSUME NEW i \in 0..(k-1), w[i] \in V(k), l.next[w[k]] = l.next[w[i]] PROVE FALSE
      <4>1. l.prev[l.next[w[i]]] = w[i]
        BY <3>8, <3>5, <2>1, <1>2 DEF Consistent
      <4> QED BY <4>1, <3>8, <3>6, <2>1
    <3> QED BY <3>1, <3>2, <3>6, <3>7, <3>8
  <2> QED BY <2>3, <2>4, <2>5
<1>6. Bad = {}
  <2> SUFFICES ASSUME Bad # {} PROVE FALSE
    OBVIOUS
  <2> HIDE DEF Good
  <2>1. Bad \subseteq Nat
    BY <1>1
  <2>2. PICK k \in Bad : \A m \in Bad : ~ (m < k)
    BY <2>1, LeastNatural
  <2>3. k \in 0..n /\ k # 0
    BY <2>2, <1>4
  <2>4. k-1 \in 0..n /\ k-1 < k /\ k-1 < n /\ (k-1)+1 = k
    BY <2>3, <1>1
  <2>5. Good(k-1)
    BY <2>2, <2>4
  <2>6. Good(k)
    BY <2>4, <2>5, <1>5
  <2> QED BY <2>2, <2>6
<1>7. Good(n)
  <2> HIDE DEF Good
  <2>1. n \in 0..n
    BY <1>1
  <2> QED BY <2>1, <1>6
<1>8. V(n) = S
  <2> HIDE DEF V
  <2> QED BY <1>7, FS_Subset DEF n
<1> QED BY <1>8 DEF FirstItems, w, n
============================================================================
