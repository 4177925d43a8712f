--------------------------- MODULE ObjectsProofs ---------------------------
(***************************************************************************)
(* Theorems about Objects: the count of an instance is the number of values*)
(* that hold it, whatever scripts do in constructors, destructors and the  *)
(* release of other instances, and its destructor runs once.               *)
(***************************************************************************)
EXTENDS Objects, FiniteSetTheorems, SequenceTheorems, TLAPS

Values == Ids \cup {NULL}
Names == {<<"glob", g>> : g \in Globals}
Dests == Names \cup {<<"v">>, Nowhere}

(* An entry of the stack of each kind. *)
BodyRecords == [do : Bodies, pThis : Ids, this : Values, v : Values,
                loop : {<< >>} \cup (Ids \X {<<"v">>}), dest : Dests]
Entries ==
  {Main} \cup BodyRecords
  \cup [do : {"store"}, dest : Dests, val : Values]
  \cup [do : {"member", "invoke"}, dest : Dests, val : Ids]
  \cup [do : {"drop", "free"}, val : Ids]

Instances ==
  [state : {"living"}, class : Classes, iRef : Int, destroyed : BOOLEAN, cursor : BOOLEAN, p : Values]
Chunks == {Unborn} \cup Instances
Alive(h, o) == h[o].state = "living"
Gone(h, o) == Alive(h, o) /\ h[o].destroyed

(***************************************************************************)
(* How often an entry of the stack holds an object, and how often all do.  *)
(***************************************************************************)
ThisIs(o) == {e \in Entries : e.do \in Bodies /\ e.this = o}
LocalIs(o) == {e \in Entries : e.do \in Bodies /\ e.v = o}
LoopIs(o) == {e \in Entries : e.do \in Bodies /\ e.loop # << >> /\ e.loop[1] = o}
OperandIs(o) == {e \in Entries : e.do \in {"store", "member", "invoke", "drop"} /\ e.val = o}
At(s, E) == {i \in DOMAIN s : s[i] \in E}
One(e, E) == IF e \in E THEN 1 ELSE 0
Weight(e, o) ==
  One(e, ThisIs(o)) + One(e, LocalIs(o)) + One(e, LoopIs(o)) + One(e, OperandIs(o))
OnStack(s, o) ==
  Cardinality(At(s, ThisIs(o))) + Cardinality(At(s, LocalIs(o)))
  + Cardinality(At(s, LoopIs(o))) + Cardinality(At(s, OperandIs(o)))
Is(a, b) == IF a = b THEN 1 ELSE 0
InGlobals(g, o) == Cardinality({x \in Globals : g[x] = o})
InAttributes(h, o) == Cardinality({i \in Ids : Alive(h, i) /\ h[i].p = o})
----------------------------------------------------------------------------
(* Sequences.                                                              *)

LEMMA AppendAt ==
  ASSUME NEW S, NEW s \in Seq(S), NEW e \in S
  PROVE  /\ Append(s, e) \in Seq(S)
         /\ Len(Append(s, e)) = Len(s) + 1
         /\ Last(Append(s, e)) = e
         /\ Front(Append(s, e)) = s
         /\ DOMAIN Append(s, e) = 1 .. Len(s) + 1
         /\ \A i \in DOMAIN s : Append(s, e)[i] = s[i]
         /\ Append(s, e)[Len(s) + 1] = e
<1>1. /\ Append(s, e) \in Seq(S)
      /\ Len(Append(s, e)) = Len(s) + 1
      /\ DOMAIN Append(s, e) = 1 .. Len(s) + 1
      /\ \A i \in DOMAIN s : Append(s, e)[i] = s[i]
      /\ Append(s, e)[Len(s) + 1] = e
  OBVIOUS
<1>2. Front(Append(s, e)) \in Seq(S) /\ Len(Front(Append(s, e))) = Len(s)
  BY <1>1 DEF Front
<1>3. \A i \in 1 .. Len(s) : Front(Append(s, e))[i] = s[i]
  BY <1>1 DEF Front
<1>4. Front(Append(s, e)) = s
  BY <1>2, <1>3, SeqEqual
<1> QED
  BY <1>1, <1>4 DEF Last

LEMMA FrontLast ==
  ASSUME NEW S, NEW s \in Seq(S), Len(s) > 0
  PROVE  /\ Front(s) \in Seq(S) /\ Len(Front(s)) = Len(s) - 1
         /\ Last(s) \in S
         /\ s = Append(Front(s), Last(s))
         /\ \A i \in 1 .. Len(s) - 1 : Front(s)[i] = s[i]
<1>1. Len(s) \in Nat /\ Len(s) - 1 \in Nat
  OBVIOUS
<1>2. Front(s) \in Seq(S) /\ Len(Front(s)) = Len(s) - 1
  <2>1. \A i \in 1 .. Len(s) - 1 : s[i] \in S
    BY <1>1
  <2> DEFINE n == Len(s) - 1
  <2>2. n \in Nat /\ 1 \in Int /\ n \in Int
    BY <1>1
  <2>3. \A i \in 1 .. n : s[i] \in S
    BY <2>1
  <2> HIDE DEF n
  <2>4. SubSeq(s, 1, n) \in Seq(S) /\ Len(SubSeq(s, 1, n)) = IF 1 <= n THEN n - 1 + 1 ELSE 0
    BY <2>2, <2>3, SubSeqProperties
  <2>5. SubSeq(s, 1, n) \in Seq(S) /\ Len(SubSeq(s, 1, n)) = n
    BY <2>2, <2>4
  <2> QED
    BY <2>5 DEF Front, n
<1>a. Last(s) \in S
  BY <1>1 DEF Last
<1>3. \A i \in 1 .. Len(s) - 1 : Front(s)[i] = s[i]
  BY <1>1 DEF Front
<1>4. Append(Front(s), Last(s)) \in Seq(S) /\ Len(Append(Front(s), Last(s))) = Len(s)
  BY <1>1, <1>2, <1>a
<1>5. \A i \in 1 .. Len(s) : Append(Front(s), Last(s))[i] = s[i]
  BY <1>1, <1>2, <1>3, <1>a DEF Last
<1>6. s = Append(Front(s), Last(s))
  BY <1>4, <1>5, SeqEqual
<1> QED
  BY <1>2, <1>3, <1>6, <1>a

LEMMA AppendCounted ==
  ASSUME NEW S, NEW s \in Seq(S), NEW e \in S, NEW E
  PROVE  /\ IsFiniteSet(At(s, E)) /\ Cardinality(At(s, E)) \in Nat
         /\ Cardinality(At(Append(s, e), E)) = Cardinality(At(s, E)) + One(e, E)
<1>1. DOMAIN s = 1 .. Len(s) /\ Len(s) \in Nat
  OBVIOUS
<1>2. IsFiniteSet(1 .. Len(s))
  BY <1>1, FS_Interval
<1>3. IsFiniteSet(At(s, E))
  BY <1>1, <1>2, FS_Subset DEF At
<1>4. Cardinality(At(s, E)) \in Nat
  BY <1>3, FS_CardinalityType
<1>5. At(Append(s, e), E) = IF e \in E THEN At(s, E) \cup {Len(s) + 1} ELSE At(s, E)
  BY AppendAt, <1>1 DEF At
<1>6. Len(s) + 1 \notin At(s, E)
  BY <1>1 DEF At
<1>7. Cardinality(At(s, E) \cup {Len(s) + 1}) = Cardinality(At(s, E)) + 1
  BY <1>3, <1>6, FS_AddElement
<1> QED
  BY <1>3, <1>4, <1>5, <1>7 DEF One

LEMMA StackCounted ==
  ASSUME NEW s \in Seq(Entries), NEW e \in Entries, NEW o
  PROVE  /\ OnStack(s, o) \in Nat /\ Weight(e, o) \in Nat
         /\ OnStack(Append(s, e), o) = OnStack(s, o) + Weight(e, o)
<1>1. /\ Cardinality(At(s, ThisIs(o))) \in Nat
      /\ Cardinality(At(Append(s, e), ThisIs(o))) = Cardinality(At(s, ThisIs(o))) + One(e, ThisIs(o))
  BY AppendCounted
<1>2. /\ Cardinality(At(s, LocalIs(o))) \in Nat
      /\ Cardinality(At(Append(s, e), LocalIs(o))) = Cardinality(At(s, LocalIs(o))) + One(e, LocalIs(o))
  BY AppendCounted
<1>3. /\ Cardinality(At(s, LoopIs(o))) \in Nat
      /\ Cardinality(At(Append(s, e), LoopIs(o))) = Cardinality(At(s, LoopIs(o))) + One(e, LoopIs(o))
  BY AppendCounted
<1>4. /\ Cardinality(At(s, OperandIs(o))) \in Nat
      /\ Cardinality(At(Append(s, e), OperandIs(o))) = Cardinality(At(s, OperandIs(o))) + One(e, OperandIs(o))
  BY AppendCounted
<1>5. /\ One(e, ThisIs(o)) \in Nat /\ One(e, LocalIs(o)) \in Nat
      /\ One(e, LoopIs(o)) \in Nat /\ One(e, OperandIs(o)) \in Nat
  BY DEF One
<1> HIDE DEF One
<1>6. OnStack(s, o) \in Nat
  BY <1>1, <1>2, <1>3, <1>4 DEF OnStack
<1>8. Weight(e, o) \in Nat
  BY <1>5 DEF Weight
<1>7. OnStack(Append(s, e), o) = OnStack(s, o) + Weight(e, o)
  BY <1>1, <1>2, <1>3, <1>4, <1>5, SMTT(30) DEF OnStack, Weight
<1> QED
  BY <1>6, <1>7, <1>8

LEMMA GlobalCounted ==
  ASSUME ObjectsAssumption, NEW g \in [Globals -> Values], NEW k \in [Globals -> Values],
         NEW m \in Globals, NEW o,
         \A j \in Globals \ {m} : k[j] = g[j]
  PROVE  /\ InGlobals(g, o) \in Nat /\ InGlobals(k, o) \in Nat
         /\ InGlobals(k, o) = InGlobals(g, o) + Is(k[m], o) - Is(g[m], o)
<1> DEFINE A == {j \in Globals : g[j] = o}
           B == {j \in Globals : k[j] = o}
           R == {j \in Globals \ {m} : g[j] = o}
<1>1. IsFiniteSet(A) /\ IsFiniteSet(B) /\ IsFiniteSet(R)
  BY FS_Subset DEF ObjectsAssumption
<1>2. m \notin R
  OBVIOUS
<1>3. Cardinality(R \cup {m}) = Cardinality(R) + 1 /\ Cardinality(R) \in Nat
  BY <1>1, <1>2, FS_AddElement, FS_CardinalityType
<1>4. A = IF g[m] = o THEN R \cup {m} ELSE R
  OBVIOUS
<1>5. B = IF k[m] = o THEN R \cup {m} ELSE R
  OBVIOUS
<1> HIDE DEF A, B, R
<1>6. Cardinality(A) = Cardinality(R) + Is(g[m], o) /\ Is(g[m], o) \in Nat
  BY <1>3, <1>4 DEF Is
<1>7. Cardinality(B) = Cardinality(R) + Is(k[m], o) /\ Is(k[m], o) \in Nat
  BY <1>3, <1>5 DEF Is
<1>8. InGlobals(g, o) = Cardinality(A) /\ InGlobals(k, o) = Cardinality(B)
  BY DEF InGlobals, A, B
<1> QED
  BY <1>3, <1>6, <1>7, <1>8

(* One chunk changes. *)
LEMMA AttributeCounted ==
  ASSUME ObjectsAssumption, NEW h, NEW k, NEW i \in Ids, NEW o,
         \A j \in Ids \ {i} : (Alive(k, j) /\ k[j].p = o) <=> (Alive(h, j) /\ h[j].p = o)
  PROVE  /\ InAttributes(h, o) \in Nat /\ InAttributes(k, o) \in Nat
         /\ InAttributes(k, o)
              = InAttributes(h, o) + (IF Alive(k, i) /\ k[i].p = o THEN 1 ELSE 0)
                                   - (IF Alive(h, i) /\ h[i].p = o THEN 1 ELSE 0)
<1> DEFINE A == {j \in Ids : Alive(h, j) /\ h[j].p = o}
           B == {j \in Ids : Alive(k, j) /\ k[j].p = o}
           R == {j \in Ids \ {i} : Alive(h, j) /\ h[j].p = o}
<1>1. IsFiniteSet(A) /\ IsFiniteSet(B) /\ IsFiniteSet(R)
  BY FS_Subset DEF ObjectsAssumption
<1>2. i \notin R
  OBVIOUS
<1>3. Cardinality(R \cup {i}) = Cardinality(R) + 1 /\ Cardinality(R) \in Nat
  BY <1>1, <1>2, FS_AddElement, FS_CardinalityType
<1>4. A = IF Alive(h, i) /\ h[i].p = o THEN R \cup {i} ELSE R
  OBVIOUS
<1>5. B = IF Alive(k, i) /\ k[i].p = o THEN R \cup {i} ELSE R
  OBVIOUS
<1> HIDE DEF A, B, R
<1>6. Cardinality(A) = Cardinality(R) + (IF Alive(h, i) /\ h[i].p = o THEN 1 ELSE 0)
  BY <1>3, <1>4
<1>7. Cardinality(B) = Cardinality(R) + (IF Alive(k, i) /\ k[i].p = o THEN 1 ELSE 0)
  BY <1>3, <1>5
<1>8. InAttributes(h, o) = Cardinality(A) /\ InAttributes(k, o) = Cardinality(B)
  BY DEF InAttributes, A, B
<1> QED
  BY <1>3, <1>6, <1>7, <1>8
----------------------------------------------------------------------------
(***************************************************************************)
(* The invariant, of a heap h, globals g and a stack s, while the machine  *)
(* has x[o] more counts of every instance o in its hands.                  *)
(***************************************************************************)
Fits(dest, f) == dest \in (IF f.do = "main" THEN Names ELSE {<<"v">>}) \cup {Nowhere}
OnScript(e) == e.do \in {"store", "member", "invoke", "method"}
Rests(e, f) == OnScript(e) => f.do \in Scripts /\ Fits(e.dest, f)

(* The main script is at the bottom; a result goes to the script that waits for it. *)
Shape(s) ==
  /\ Len(s) > 0
  /\ \A i \in DOMAIN s : s[i].do = "main" <=> i = 1
  /\ \A i \in DOMAIN s : OnScript(s[i]) => i > 1 /\ Rests(s[i], s[i - 1])

(* An instance is marked from the begin of its one release to its end. *)
Releases(h, s) ==
  /\ \A i \in DOMAIN s : s[i].do = "free" => Gone(h, s[i].val)
  /\ \A i, j \in DOMAIN s : s[i].do = "free" /\ s[j].do = "free" /\ s[i].val = s[j].val => i = j
  /\ \A o \in Ids : Gone(h, o) => \E i \in DOMAIN s : s[i].do = "free" /\ s[i].val = o

Holds(e, o) == e \in ThisIs(o) \/ e \in LocalIs(o) \/ e \in LoopIs(o) \/ e \in OperandIs(o)

(* Only what runs above the release of an instance can hold it by then. *)
Apart(h, g, s) ==
  /\ \A n \in Globals : g[n] # NULL => ~ Gone(h, g[n])
  /\ \A i \in Ids : Alive(h, i) /\ h[i].p # NULL => ~ Gone(h, h[i].p)
  /\ \A i, j \in DOMAIN s : s[i].do = "free" /\ j <= i => ~ Holds(s[j], s[i].val)

Held(h, g, s, o) == InGlobals(g, o) + InAttributes(h, o) + OnStack(s, o)
Kept(h, o) == IF Gone(h, o) /\ h[o].class \in Destructed THEN 2 ELSE 0
Count(h, o) == IF Alive(h, o) THEN h[o].iRef ELSE 0
Exact(h, g, s, x) ==
  \A o \in Ids : /\ Held(h, g, s, o) + x[o] + Kept(h, o) = Count(h, o)
                 /\ Alive(h, o) /\ ~ h[o].destroyed => h[o].iRef >= 1

Typed(h, g, s, x) ==
  /\ h \in [Ids -> Chunks] /\ g \in [Globals -> Values]
  /\ s \in Seq(Entries) /\ x \in [Ids -> Nat]

Sound(h, g, s, x) ==
  Typed(h, g, s, x) /\ Shape(s) /\ Releases(h, s) /\ Apart(h, g, s) /\ Exact(h, g, s, x)

Hand(a, b) == [i \in Ids |-> Is(a, i) + Is(b, i)]

LEMMA HandType == \A a, b : Hand(a, b) \in [Ids -> Nat] /\ \A i \in Ids : Hand(a, b)[i] = Is(a, i) + Is(b, i)
  BY DEF Hand, Is
----------------------------------------------------------------------------
(* What the entries of each kind hold.                                     *)

LEMMA EntryValue ==
  ASSUME NEW e \in Entries
  PROVE  /\ e.do \in Bodies => e \in BodyRecords
         /\ e.do \in {"member", "invoke", "drop", "free"} => e.val \in Ids
         /\ e.do = "store" => e.val \in Values
         /\ e.do \in {"store", "member", "invoke"} => e.dest \in Dests
         /\ e.do = "main" => e = Main
  BY DEF Entries, BodyRecords, Main, Bodies, Values

LEMMA BodyWeight ==
  ASSUME NEW e \in BodyRecords, NEW o \in Ids
  PROVE  /\ e \in Entries
         /\ Weight(e, o) = Is(e.this, o) + Is(e.v, o) + (IF e.loop = << >> THEN 0 ELSE Is(e.loop[1], o))
<1>1. e \in Entries /\ e.do \in Bodies
  BY DEF Entries, BodyRecords
<1>2. e \notin OperandIs(o)
  BY <1>1 DEF OperandIs, Bodies
<1>3. One(e, ThisIs(o)) = Is(e.this, o) /\ One(e, LocalIs(o)) = Is(e.v, o) /\ One(e, OperandIs(o)) = 0
  BY <1>1, <1>2 DEF One, Is, ThisIs, LocalIs
<1>4. One(e, LoopIs(o)) = IF e.loop = << >> THEN 0 ELSE Is(e.loop[1], o)
  BY <1>1 DEF One, Is, LoopIs
<1>5. Is(e.this, o) \in Nat /\ Is(e.v, o) \in Nat /\ One(e, LoopIs(o)) \in Nat
  BY DEF Is, One
<1> HIDE DEF One, Is
<1>6. Weight(e, o) = Is(e.this, o) + Is(e.v, o) + One(e, LoopIs(o))
  BY <1>3, <1>5 DEF Weight
<1> QED
  BY <1>1, <1>4, <1>6

LEMMA OperandWeight ==
  ASSUME NEW e \in Entries, e.do \in {"store", "member", "invoke", "drop"}, NEW o \in Ids
  PROVE  Weight(e, o) = Is(e.val, o)
<1>1. One(e, ThisIs(o)) = 0 /\ One(e, LocalIs(o)) = 0 /\ One(e, LoopIs(o)) = 0
  BY DEF One, ThisIs, LocalIs, LoopIs, Bodies
<1>2. One(e, OperandIs(o)) = Is(e.val, o)
  BY DEF One, Is, OperandIs
<1>3. Is(e.val, o) \in Nat
  BY DEF Is
<1> QED
  BY <1>1, <1>2, <1>3 DEF Weight

LEMMA FreeWeight ==
  ASSUME NEW e \in Entries, e.do \in {"free", "main"}, NEW o \in Ids
  PROVE  Weight(e, o) = 0
<1>1. One(e, ThisIs(o)) = 0 /\ One(e, LocalIs(o)) = 0 /\ One(e, LoopIs(o)) = 0 /\ One(e, OperandIs(o)) = 0
  BY DEF One, ThisIs, LocalIs, LoopIs, OperandIs, Bodies
<1> QED
  BY <1>1 DEF Weight

LEMMA HoldsNot ==
  ASSUME NEW e \in Entries, NEW o \in Ids
  PROVE  Holds(e, o) <=> Weight(e, o) > 0
<1>1. /\ One(e, ThisIs(o)) = IF e \in ThisIs(o) THEN 1 ELSE 0
      /\ One(e, LocalIs(o)) = IF e \in LocalIs(o) THEN 1 ELSE 0
      /\ One(e, LoopIs(o)) = IF e \in LoopIs(o) THEN 1 ELSE 0
      /\ One(e, OperandIs(o)) = IF e \in OperandIs(o) THEN 1 ELSE 0
  BY DEF One
<1> QED
  BY <1>1 DEF Weight, Holds

LEMMA StackFree ==
  ASSUME NEW s \in Seq(Entries), NEW o \in Ids
  PROVE  OnStack(s, o) = 0 <=> \A i \in DOMAIN s : ~ Holds(s[i], o)
<1>1. /\ IsFiniteSet(At(s, ThisIs(o))) /\ IsFiniteSet(At(s, LocalIs(o)))
      /\ IsFiniteSet(At(s, LoopIs(o))) /\ IsFiniteSet(At(s, OperandIs(o)))
  <2>1. IsFiniteSet(DOMAIN s)
    BY FS_Interval
  <2> QED
    BY <2>1, FS_Subset DEF At
<1>2. /\ Cardinality(At(s, ThisIs(o))) \in Nat /\ (Cardinality(At(s, ThisIs(o))) = 0 <=> At(s, ThisIs(o)) = {})
      /\ Cardinality(At(s, LocalIs(o))) \in Nat /\ (Cardinality(At(s, LocalIs(o))) = 0 <=> At(s, LocalIs(o)) = {})
      /\ Cardinality(At(s, LoopIs(o))) \in Nat /\ (Cardinality(At(s, LoopIs(o))) = 0 <=> At(s, LoopIs(o)) = {})
      /\ Cardinality(At(s, OperandIs(o))) \in Nat /\ (Cardinality(At(s, OperandIs(o))) = 0 <=> At(s, OperandIs(o)) = {})
  BY <1>1, FS_CardinalityType, FS_EmptySet
<1>3. OnStack(s, o) = 0 <=> /\ At(s, ThisIs(o)) = {} /\ At(s, LocalIs(o)) = {}
                            /\ At(s, LoopIs(o)) = {} /\ At(s, OperandIs(o)) = {}
  BY <1>2 DEF OnStack
<1> QED
  BY <1>3 DEF At, Holds
----------------------------------------------------------------------------
(* What the machine does to the heap, the variables and the stack.         *)

(* An instance with another count, cursor, attribute, or marked. *)
WithRef(r, n) == [r EXCEPT !.iRef = n]
WithCursor(r, b) == [r EXCEPT !.cursor = b]
WithValue(r, val) == [r EXCEPT !.p = val]
Marked(r, n) == [r EXCEPT !.iRef = n, !.destroyed = TRUE]
Newborn(c, n) == [Instance(c) EXCEPT !.iRef = n]

LEMMA RefChanged ==
  ASSUME NEW r \in Instances, NEW n \in Int
  PROVE  /\ WithRef(r, n) \in Instances /\ WithRef(r, n).state = "living"
         /\ WithRef(r, n).iRef = n /\ WithRef(r, n).p = r.p
         /\ WithRef(r, n).class = r.class /\ WithRef(r, n).destroyed = r.destroyed
  BY DEF Instances, WithRef

LEMMA CursorChanged ==
  ASSUME NEW r \in Instances, NEW b \in BOOLEAN
  PROVE  /\ WithCursor(r, b) \in Instances /\ WithCursor(r, b).state = "living"
         /\ WithCursor(r, b).iRef = r.iRef /\ WithCursor(r, b).p = r.p
         /\ WithCursor(r, b).class = r.class /\ WithCursor(r, b).destroyed = r.destroyed
  BY DEF Instances, WithCursor

LEMMA ValueChanged ==
  ASSUME NEW r \in Instances, NEW val \in Values
  PROVE  /\ WithValue(r, val) \in Instances /\ WithValue(r, val).state = "living"
         /\ WithValue(r, val).iRef = r.iRef /\ WithValue(r, val).p = val
         /\ WithValue(r, val).class = r.class /\ WithValue(r, val).destroyed = r.destroyed
  BY DEF Instances, WithValue

LEMMA MarkChanged ==
  ASSUME NEW r \in Instances, NEW n \in Int
  PROVE  /\ Marked(r, n) \in Instances /\ Marked(r, n).state = "living"
         /\ Marked(r, n).iRef = n /\ Marked(r, n).p = r.p
         /\ Marked(r, n).class = r.class /\ Marked(r, n).destroyed = TRUE
  BY DEF Instances, Marked

LEMMA ChunkMade ==
  ASSUME NEW c \in Classes, NEW n \in Int
  PROVE  /\ Newborn(c, n) \in Instances /\ Newborn(c, n).state = "living"
         /\ Newborn(c, n).iRef = n /\ Newborn(c, n).p = NULL
         /\ Newborn(c, n).class = c /\ Newborn(c, n).destroyed = FALSE
<1>1. Instance(c) \in Instances
  BY DEF Instance, Instances, Values
<1>2. Instance(c).p = NULL /\ Instance(c).class = c /\ Instance(c).destroyed = FALSE
  BY DEF Instance
<1>3. Newborn(c, n) = WithRef(Instance(c), n)
  BY DEF Newborn, WithRef
<1> HIDE DEF Instance
<1> QED
  BY <1>1, <1>2, <1>3, RefChanged

LEMMA AliveInstance ==
  ASSUME NEW h \in [Ids -> Chunks]
  PROVE  \A o \in Ids : Alive(h, o) <=> h[o] \in Instances
<1> TAKE o \in Ids
<1>1. h[o] \in Chunks
  OBVIOUS
<1> QED
  BY <1>1 DEF Alive, Chunks, Unborn, Instances

LEMMA HeldType ==
  ASSUME ObjectsAssumption, NEW h, NEW g \in [Globals -> Values], NEW s \in Seq(Entries), NEW o \in Ids
  PROVE  /\ InGlobals(g, o) \in Nat /\ InAttributes(h, o) \in Nat /\ OnStack(s, o) \in Nat
         /\ Held(h, g, s, o) \in Nat
<1>1. IsFiniteSet({x \in Globals : g[x] = o}) /\ IsFiniteSet({i \in Ids : Alive(h, i) /\ h[i].p = o})
  BY FS_Subset DEF ObjectsAssumption
<1>2. InGlobals(g, o) \in Nat /\ InAttributes(h, o) \in Nat
  BY <1>1, FS_CardinalityType DEF InGlobals, InAttributes
<1>3. Main \in Entries
  BY DEF Entries
<1>4. OnStack(s, o) \in Nat
  BY <1>3, StackCounted
<1> QED
  BY <1>2, <1>4 DEF Held

(* What is in hand or is held lives. *)
LEMMA HeldLives ==
  ASSUME ObjectsAssumption, NEW h, NEW g, NEW s, NEW x, Sound(h, g, s, x), NEW o \in Ids,
         x[o] > 0 \/ InGlobals(g, o) > 0 \/ InAttributes(h, o) > 0 \/ OnStack(s, o) > 0
  PROVE  Alive(h, o)
<1>1. /\ InGlobals(g, o) \in Nat /\ InAttributes(h, o) \in Nat /\ OnStack(s, o) \in Nat
      /\ x[o] \in Nat /\ Kept(h, o) \in Nat
  BY HeldType DEF Sound, Typed, Kept
<1>2. InGlobals(g, o) + InAttributes(h, o) + OnStack(s, o) + x[o] + Kept(h, o) = Count(h, o)
  BY DEF Sound, Exact, Held
<1>3. Count(h, o) # 0
  BY <1>1, <1>2
<1> QED
  BY <1>3 DEF Count

LEMMA HeldBy ==
  ASSUME ObjectsAssumption, NEW h, NEW g \in [Globals -> Values], NEW s \in Seq(Entries), NEW o \in Ids
  PROVE  /\ \A n \in Globals : g[n] = o => InGlobals(g, o) > 0
         /\ \A i \in Ids : Alive(h, i) /\ h[i].p = o => InAttributes(h, o) > 0
         /\ Len(s) > 0 /\ Weight(Last(s), o) > 0 => OnStack(s, o) > 0
<1>1. IsFiniteSet({x \in Globals : g[x] = o}) /\ IsFiniteSet({i \in Ids : Alive(h, i) /\ h[i].p = o})
  BY FS_Subset DEF ObjectsAssumption
<1> DEFINE A == {x \in Globals : g[x] = o}
           B == {i \in Ids : Alive(h, i) /\ h[i].p = o}
<1>a. \A n \in Globals : g[n] = o => A # {}
  OBVIOUS
<1>b. \A i \in Ids : Alive(h, i) /\ h[i].p = o => B # {}
  OBVIOUS
<1>c. IsFiniteSet(A) /\ IsFiniteSet(B) /\ InGlobals(g, o) = Cardinality(A) /\ InAttributes(h, o) = Cardinality(B)
  BY <1>1 DEF InGlobals, InAttributes
<1> HIDE DEF A, B
<1>d. (A # {} => Cardinality(A) > 0) /\ (B # {} => Cardinality(B) > 0)
  BY <1>c, FS_CardinalityType, FS_EmptySet
<1>2. \A n \in Globals : g[n] = o => InGlobals(g, o) > 0
  BY <1>a, <1>c, <1>d
<1>3. \A i \in Ids : Alive(h, i) /\ h[i].p = o => InAttributes(h, o) > 0
  BY <1>b, <1>c, <1>d
<1>4. ASSUME Len(s) > 0, Weight(Last(s), o) > 0 PROVE OnStack(s, o) > 0
  <2>1. Front(s) \in Seq(Entries) /\ Last(s) \in Entries /\ s = Append(Front(s), Last(s))
    BY <1>4, FrontLast
  <2>2. OnStack(s, o) = OnStack(Front(s), o) + Weight(Last(s), o) /\ OnStack(Front(s), o) \in Nat
        /\ Weight(Last(s), o) \in Nat
    BY <2>1, StackCounted, ZenonT(60)
  <2> QED
    BY <1>4, <2>2
<1> QED
  BY <1>2, <1>3, <1>4

(* Counts and cursors change, by what the machine takes or gives. *)
LEMMA Recounted ==
  ASSUME ObjectsAssumption, NEW h, NEW g, NEW s, NEW x, Sound(h, g, s, x),
         NEW k \in [Ids -> Chunks], NEW y \in [Ids -> Nat],
         \A i \in Ids : Alive(k, i) <=> Alive(h, i),
         \A i \in Ids : ~ Alive(h, i) => y[i] = x[i],
         \A i \in Ids : Alive(h, i) =>
           /\ k[i].destroyed = h[i].destroyed /\ k[i].class = h[i].class /\ k[i].p = h[i].p
           /\ k[i].iRef + x[i] = h[i].iRef + y[i]
           /\ ~ h[i].destroyed => k[i].iRef >= 1
  PROVE  Sound(k, g, s, y)
<1>1. \A i \in Ids : Gone(k, i) <=> Gone(h, i)
  BY DEF Gone
<1>2. \A i \in Ids : Alive(k, i) => k[i].p = h[i].p
  OBVIOUS
<1>3. h \in [Ids -> Chunks] /\ s \in Seq(Entries) /\ g \in [Globals -> Values] /\ x \in [Ids -> Nat]
  BY DEF Sound, Typed
<1>4. Releases(k, s)
  <2>1. \A i \in DOMAIN s : s[i].do = "free" => s[i].val \in Ids
    <3> TAKE i \in DOMAIN s
    <3>1. s[i] \in Entries
      BY <1>3
    <3> QED
      BY <3>1, EntryValue
  <2>2. Releases(h, s)
    BY DEF Sound
  <2> HIDE DEF Gone
  <2> QED
    BY <1>1, <2>1, <2>2 DEF Releases
<1>5. Apart(k, g, s)
  <2>1. \A n \in Globals : g[n] # NULL => g[n] \in Ids
    BY <1>3 DEF Values
  <2>2. \A i \in Ids : Alive(h, i) /\ h[i].p # NULL => h[i].p \in Ids
    <3> TAKE i \in Ids
    <3>1. h[i] \in Chunks
      BY <1>3
    <3> QED
      BY <3>1 DEF Alive, Chunks, Instances, Unborn, Values
  <2>3. Apart(h, g, s)
    BY DEF Sound
  <2> HIDE DEF Gone, Alive
  <2>4. \A n \in Globals : g[n] # NULL => ~ Gone(k, g[n])
    BY <1>1, <2>1, <2>3 DEF Apart
  <2>5. \A i \in Ids : Alive(k, i) /\ k[i].p # NULL => ~ Gone(k, k[i].p)
    BY <1>1, <1>2, <2>2, <2>3 DEF Apart
  <2> QED
    BY <2>3, <2>4, <2>5 DEF Apart
<1>6. ASSUME NEW o \in Ids
      PROVE  Held(k, g, s, o) + y[o] + Kept(k, o) = Count(k, o)
  <2>1. InAttributes(k, o) = InAttributes(h, o)
    <3>1. {i \in Ids : Alive(k, i) /\ k[i].p = o} = {i \in Ids : Alive(h, i) /\ h[i].p = o}
      OBVIOUS
    <3> QED
      BY <3>1 DEF InAttributes
  <2>2. Held(k, g, s, o) = Held(h, g, s, o) /\ Held(h, g, s, o) \in Nat
    BY <2>1, <1>3, HeldType DEF Held
  <2>3. Kept(k, o) = Kept(h, o) /\ Kept(h, o) \in Nat
    BY <1>1 DEF Kept, Gone
  <2>4. Held(h, g, s, o) + x[o] + Kept(h, o) = Count(h, o)
    BY DEF Sound, Exact
  <2>5. x[o] \in Nat /\ y[o] \in Nat
    BY <1>3
  <2>6. CASE Alive(h, o)
    <3>1. Count(k, o) = k[o].iRef /\ Count(h, o) = h[o].iRef
      BY <2>6 DEF Count
    <3>2. k[o].iRef \in Int /\ h[o].iRef \in Int
      <4>1. k[o] \in Chunks /\ h[o] \in Chunks /\ Alive(k, o)
        BY <1>3, <2>6
      <4> QED
        BY <2>6, <4>1 DEF Chunks, Instances, Alive, Unborn
    <3>3. k[o].iRef + x[o] = h[o].iRef + y[o]
      BY <2>6
    <3> QED
      BY <2>2, <2>3, <2>4, <2>5, <3>1, <3>2, <3>3
  <2>7. CASE ~ Alive(h, o)
    BY <2>2, <2>3, <2>4, <2>7 DEF Count
  <2> QED
    BY <2>6, <2>7
<1>7. Exact(k, g, s, y)
  BY <1>6 DEF Exact
<1> QED
  BY <1>3, <1>4, <1>5, <1>7 DEF Sound, Typed

(* An entry that holds part of what is in hand. *)
LEMMA Pushed ==
  ASSUME ObjectsAssumption, NEW h, NEW g, NEW s, NEW x, Sound(h, g, s, x),
         NEW e \in Entries, e.do \notin {"main", "free"}, Rests(e, Last(s)),
         NEW y \in [Ids -> Nat], \A i \in Ids : y[i] + Weight(e, i) = x[i]
  PROVE  Sound(h, g, Append(s, e), y)
<1> DEFINE t == Append(s, e)
<1>1. s \in Seq(Entries) /\ Len(s) > 0 /\ Len(s) \in Nat /\ DOMAIN s = 1 .. Len(s)
  BY DEF Sound, Typed, Shape
<1>2. /\ t \in Seq(Entries) /\ Len(t) = Len(s) + 1 /\ DOMAIN t = 1 .. Len(s) + 1
      /\ \A i \in DOMAIN s : t[i] = s[i]
      /\ t[Len(s) + 1] = e
  BY <1>1, AppendAt
<1> HIDE DEF t
<1>3. Shape(t)
  <2>1. Shape(s)
    BY DEF Sound
  <2>2. \A i \in DOMAIN t : t[i].do = "main" <=> i = 1
    BY <1>1, <1>2, <2>1 DEF Shape
  <2>3. \A i \in DOMAIN t : OnScript(t[i]) => i > 1 /\ Rests(t[i], t[i - 1])
    <3> SUFFICES ASSUME NEW i \in DOMAIN t, OnScript(t[i]) PROVE i > 1 /\ Rests(t[i], t[i - 1])
      OBVIOUS
    <3>1. CASE i = Len(s) + 1
      <4>1. t[i] = e /\ t[i - 1] = Last(s) /\ i > 1
        BY <1>1, <1>2, <3>1 DEF Last
      <4> QED
        BY <4>1
    <3>2. CASE i # Len(s) + 1
      <4>1. i \in DOMAIN s /\ t[i] = s[i]
        BY <1>1, <1>2, <3>2
      <4>2. i > 1 /\ Rests(s[i], s[i - 1])
        BY <2>1, <4>1 DEF Shape
      <4>3. i - 1 \in DOMAIN s
        BY <4>1, <4>2, <1>1
      <4> QED
        BY <1>2, <4>1, <4>2, <4>3
    <3> QED
      BY <3>1, <3>2
  <2> QED
    BY <1>1, <1>2, <2>2, <2>3 DEF Shape
<1>4. Releases(h, t)
  <2>1. Releases(h, s)
    BY DEF Sound
  <2>2. \A i \in DOMAIN t : t[i].do = "free" => i \in DOMAIN s /\ t[i] = s[i]
    BY <1>1, <1>2
  <2>3. DOMAIN s \subseteq DOMAIN t
    BY <1>1, <1>2
  <2> QED
    BY <1>2, <2>1, <2>2, <2>3 DEF Releases
<1>5. Apart(h, g, t)
  <2>1. Apart(h, g, s)
    BY DEF Sound
  <2>2. ASSUME NEW i \in DOMAIN t, NEW j \in DOMAIN t, t[i].do = "free", j <= i
        PROVE  ~ Holds(t[j], t[i].val)
    <3>1. i \in DOMAIN s /\ j \in DOMAIN s /\ t[i] = s[i] /\ t[j] = s[j]
      BY <1>1, <1>2, <2>2
    <3> QED
      BY <2>1, <2>2, <3>1 DEF Apart
  <2> QED
    BY <2>1, <2>2 DEF Apart
<1>6. ASSUME NEW o \in Ids
      PROVE  Held(h, g, t, o) + y[o] + Kept(h, o) = Count(h, o)
  <2>1. OnStack(t, o) = OnStack(s, o) + Weight(e, o) /\ Weight(e, o) \in Nat
    BY <1>1, StackCounted DEF t
  <2>2. InGlobals(g, o) \in Nat /\ InAttributes(h, o) \in Nat /\ OnStack(s, o) \in Nat
    BY HeldType DEF Sound, Typed
  <2>3. InGlobals(g, o) + InAttributes(h, o) + OnStack(s, o) + x[o] + Kept(h, o) = Count(h, o)
    BY DEF Sound, Exact, Held
  <2>4. x[o] \in Nat /\ y[o] \in Nat /\ y[o] + Weight(e, o) = x[o] /\ Kept(h, o) \in Nat
    BY DEF Sound, Typed, Kept
  <2> QED
    BY <2>1, <2>2, <2>3, <2>4 DEF Held
<1>7. Exact(h, g, t, y)
  BY <1>6 DEF Sound, Exact
<1> QED
  BY <1>2, <1>3, <1>4, <1>5, <1>7 DEF Sound, Typed, t

LEMMA Dropped ==
  ASSUME ObjectsAssumption, NEW h, NEW g, NEW s, NEW x, Sound(h, g, s, x), NEW o \in Values,
         NEW y \in [Ids -> Nat], \A i \in Ids : y[i] + Is(o, i) = x[i]
  PROVE  Sound(h, g, s \o Drop(o), y)
<1>1. s \in Seq(Entries) /\ x \in [Ids -> Nat]
  BY DEF Sound, Typed
<1>2. CASE o = NULL
  <2>1. \A i \in Ids : Is(o, i) = 0
    BY <1>2 DEF Is, ObjectsAssumption
  <2>2. y = x
    BY <2>1, <1>1
  <2>3. s \o Drop(o) = s
    BY <1>1, <1>2 DEF Drop
  <2> QED
    BY <2>2, <2>3
<1>3. CASE o # NULL
  <2> DEFINE e == [do |-> "drop", val |-> o]
  <2>1. o \in Ids /\ e \in Entries /\ e.do = "drop" /\ e.val = o
    BY <1>3 DEF Values, Entries
  <2>2. s \o Drop(o) = Append(s, e)
    <3>1. Drop(o) = <<e>>
      BY <1>3 DEF Drop
    <3> QED
      BY <1>1, <2>1, <3>1
  <2> HIDE DEF e
  <2>3. \A i \in Ids : y[i] + Weight(e, i) = x[i]
    BY <2>1, OperandWeight
  <2>4. e.do \notin {"main", "free"} /\ Rests(e, Last(s))
    BY <2>1 DEF Rests, OnScript
  <2> QED
    BY <2>1, <2>2, <2>3, <2>4, Pushed
<1> QED
  BY <1>2, <1>3

(* The top of the stack is taken off, and what it held is in hand. *)
LEMMA Popped ==
  ASSUME ObjectsAssumption, NEW h, NEW g, NEW s, NEW x, Sound(h, g, s, x),
         Last(s).do \notin {"main", "free"},
         NEW y \in [Ids -> Nat], \A i \in Ids : y[i] = x[i] + Weight(Last(s), i)
  PROVE  Sound(h, g, Front(s), y) /\ Rests(Last(s), Last(Front(s)))
<1> DEFINE t == Front(s)
           n == Len(s) - 1
<1>1. s \in Seq(Entries) /\ Len(s) > 0 /\ Len(s) \in Nat /\ DOMAIN s = 1 .. Len(s) /\ Shape(s)
  BY DEF Sound, Typed, Shape
<1>2. Len(s) \in DOMAIN s /\ s[Len(s)] = Last(s)
  BY <1>1 DEF Last
<1>3. Len(s) # 1
  BY <1>1, <1>2 DEF Shape
<1>4. /\ t \in Seq(Entries) /\ Len(t) = n /\ n \in Nat /\ n > 0 /\ DOMAIN t = 1 .. n
      /\ \A i \in DOMAIN t : t[i] = s[i] /\ i \in DOMAIN s
      /\ s = Append(t, Last(s)) /\ Last(s) \in Entries /\ Last(t) = s[n]
  <2>1. t \in Seq(Entries) /\ Len(t) = n /\ s = Append(t, Last(s)) /\ Last(s) \in Entries
    BY <1>1, FrontLast
  <2>2. n \in Nat /\ n > 0 /\ DOMAIN t = 1 .. n
    BY <1>1, <1>3, <2>1
  <2>3. \A i \in 1 .. Len(s) - 1 : t[i] = s[i]
    BY <1>1, FrontLast
  <2>4. Last(t) = s[n]
    BY <2>1, <2>2, <2>3 DEF Last
  <2>5. \A i \in DOMAIN t : t[i] = s[i] /\ i \in DOMAIN s
    BY <1>1, <2>2, <2>3
  <2> HIDE DEF t, n
  <2> QED
    BY <2>1, <2>2, <2>4, <2>5, Zenon
<1> HIDE DEF t
<1>5. Rests(Last(s), Last(t))
  BY <1>1, <1>2, <1>4 DEF Shape, Rests
<1>6. Shape(t)
  <2>1. \A i \in DOMAIN t : t[i].do = "main" <=> i = 1
    BY <1>1, <1>4 DEF Shape
  <2>2. \A i \in DOMAIN t : OnScript(t[i]) => i > 1 /\ Rests(t[i], t[i - 1])
    <3> SUFFICES ASSUME NEW i \in DOMAIN t, OnScript(t[i]) PROVE i > 1 /\ Rests(t[i], t[i - 1])
      OBVIOUS
    <3>1. i > 1 /\ Rests(s[i], s[i - 1]) /\ t[i] = s[i]
      BY <1>1, <1>4 DEF Shape
    <3>2. i - 1 \in DOMAIN t
      BY <1>4, <3>1
    <3> QED
      BY <1>4, <3>1, <3>2
  <2> QED
    BY <1>4, <2>1, <2>2 DEF Shape
<1>7. Releases(h, t)
  <2>1. Releases(h, s)
    BY DEF Sound
  <2>2. \A i \in DOMAIN s : s[i].do = "free" => i \in DOMAIN t /\ t[i] = s[i]
    BY <1>1, <1>2, <1>4
  <2>3. \A o \in Ids : Gone(h, o) => \E i \in DOMAIN t : t[i].do = "free" /\ t[i].val = o
    BY <2>1, <2>2 DEF Releases
  <2>4. \A i \in DOMAIN t : t[i].do = "free" => Gone(h, t[i].val)
    BY <1>4, <2>1 DEF Releases
  <2>5. \A i, j \in DOMAIN t : t[i].do = "free" /\ t[j].do = "free" /\ t[i].val = t[j].val => i = j
    BY <1>4, <2>1 DEF Releases
  <2> QED
    BY <2>3, <2>4, <2>5 DEF Releases
<1>8. Apart(h, g, t)
  BY <1>4 DEF Sound, Apart
<1>9. ASSUME NEW o \in Ids
      PROVE  Held(h, g, t, o) + y[o] + Kept(h, o) = Count(h, o)
  <2>1. OnStack(s, o) = OnStack(t, o) + Weight(Last(s), o) /\ Weight(Last(s), o) \in Nat
    <3>1. t \in Seq(Entries) /\ Last(s) \in Entries
      BY <1>4
    <3>2. OnStack(Append(t, Last(s)), o) = OnStack(t, o) + Weight(Last(s), o) /\ Weight(Last(s), o) \in Nat
      BY <3>1, StackCounted
    <3>3. Append(t, Last(s)) = s
      BY <1>4
    <3> QED
      BY <3>2, <3>3, Zenon
  <2>2. InGlobals(g, o) \in Nat /\ InAttributes(h, o) \in Nat /\ OnStack(t, o) \in Nat
    BY <1>4, HeldType DEF Sound, Typed
  <2>3. InGlobals(g, o) + InAttributes(h, o) + OnStack(s, o) + x[o] + Kept(h, o) = Count(h, o)
    BY DEF Sound, Exact, Held
  <2>4. x[o] \in Nat /\ y[o] = x[o] + Weight(Last(s), o) /\ Kept(h, o) \in Nat
    BY DEF Sound, Typed, Kept
  <2> QED
    BY <2>1, <2>2, <2>3, <2>4 DEF Held
<1>10. Exact(h, g, t, y)
  BY <1>9 DEF Sound, Exact
<1> QED
  BY <1>4, <1>5, <1>6, <1>7, <1>8, <1>10 DEF Sound, Typed, t

(* A global variable gets what is in hand, and its old value is in hand. *)
LEMMA GlobalSet ==
  ASSUME ObjectsAssumption, NEW h, NEW g, NEW s, NEW x, Sound(h, g, s, x),
         NEW n \in Globals, NEW val \in Values, val # NULL => ~ Gone(h, val),
         NEW y \in [Ids -> Nat], \A i \in Ids : y[i] + Is(val, i) = x[i] + Is(g[n], i)
  PROVE  Sound(h, [g EXCEPT ![n] = val], s, y)
<1> DEFINE k == [g EXCEPT ![n] = val]
<1>1. g \in [Globals -> Values] /\ k \in [Globals -> Values]
  BY DEF Sound, Typed
<1>2. Apart(h, k, s)
  BY <1>1 DEF Sound, Apart
<1>3. ASSUME NEW o \in Ids
      PROVE  Held(h, k, s, o) + y[o] + Kept(h, o) = Count(h, o)
  <2>1. /\ InGlobals(g, o) \in Nat /\ InGlobals(k, o) \in Nat
        /\ InAttributes(h, o) \in Nat /\ OnStack(s, o) \in Nat
    BY <1>1, HeldType DEF Sound, Typed
  <2>2. InGlobals(k, o) = InGlobals(g, o) + Is(val, o) - Is(g[n], o)
    <3>1. k[n] = val /\ \A j \in Globals \ {n} : k[j] = g[j]
      BY <1>1
    <3> HIDE DEF k
    <3>2. Is(k[n], o) \in Nat /\ Is(g[n], o) \in Nat
      BY DEF Is
    <3>3. InGlobals(k, o) = InGlobals(g, o) + Is(k[n], o) - Is(g[n], o)
      BY <1>1, <3>1, <3>2, GlobalCounted
    <3> QED
      BY <3>1, <3>3, Zenon
  <2>3. InGlobals(g, o) + InAttributes(h, o) + OnStack(s, o) + x[o] + Kept(h, o) = Count(h, o)
    BY DEF Sound, Exact, Held
  <2>4. x[o] \in Nat /\ y[o] \in Nat /\ Kept(h, o) \in Nat
    BY DEF Sound, Typed, Kept
  <2>5. y[o] + Is(val, o) = x[o] + Is(g[n], o) /\ Is(val, o) \in Nat /\ Is(g[n], o) \in Nat
    BY DEF Is
  <2> HIDE DEF k, Is
  <2> QED
    BY <2>1, <2>2, <2>3, <2>4, <2>5 DEF Held
<1>4. Exact(h, k, s, y)
  BY <1>3 DEF Sound, Exact
<1> QED
  BY <1>1, <1>2, <1>4 DEF Sound, Typed

SetValue(h, w, val) == [h EXCEPT ![w].p = val]

(* The attribute of an instance gets what is in hand, and its old value is in hand. *)
LEMMA AttributeSet ==
  ASSUME ObjectsAssumption, NEW h, NEW g, NEW s, NEW x, Sound(h, g, s, x),
         NEW w \in Ids, Alive(h, w), NEW val \in Values, val # NULL => ~ Gone(h, val),
         NEW y \in [Ids -> Nat], \A i \in Ids : y[i] + Is(val, i) = x[i] + Is(h[w].p, i)
  PROVE  Sound(SetValue(h, w, val), g, s, y)
<1> USE DEF SetValue
<1> DEFINE k == [h EXCEPT ![w].p = val]
<1>1. h \in [Ids -> Chunks] /\ s \in Seq(Entries) /\ g \in [Globals -> Values]
  BY DEF Sound, Typed
<1>2. h[w] \in Chunks /\ k[w] \in Chunks /\ k[w] = [h[w] EXCEPT !.p = val] /\ k[w].p = val
  <2>1. h[w] \in Chunks /\ k[w] = [h[w] EXCEPT !.p = val]
    BY <1>1
  <2>2. h[w] \in Instances
    BY <1>1, AliveInstance
  <2>3. k[w] \in Instances /\ k[w].p = val
    <3>1. k[w] = WithValue(h[w], val)
      BY <2>1 DEF WithValue
    <3> QED
      BY <2>2, <3>1, ValueChanged
  <2> QED
    BY <2>1, <2>2, <2>3 DEF Chunks
<1>3. k \in [Ids -> Chunks] /\ \A i \in Ids \ {w} : k[i] = h[i]
  BY <1>1, <1>2
<1>4. /\ k[w].state = h[w].state /\ k[w].destroyed = h[w].destroyed
      /\ k[w].class = h[w].class /\ k[w].iRef = h[w].iRef
  BY <1>1, <1>2 DEF Alive, Chunks, Instances, Unborn
<1> HIDE DEF k
<1>5. \A i \in Ids : /\ Alive(k, i) <=> Alive(h, i)
                     /\ Gone(k, i) <=> Gone(h, i)
                     /\ Kept(k, i) = Kept(h, i) /\ Count(k, i) = Count(h, i)
  BY <1>3, <1>4 DEF Alive, Gone, Kept, Count
<1>6. Releases(k, s)
  <2>1. \A i \in DOMAIN s : s[i].do = "free" => s[i].val \in Ids
    <3> TAKE i \in DOMAIN s
    <3>1. s[i] \in Entries
      BY <1>1
    <3> QED
      BY <3>1, EntryValue
  <2>2. Releases(h, s)
    BY DEF Sound
  <2> QED
    BY <1>5, <2>1, <2>2 DEF Releases
<1>7. Apart(k, g, s)
  <2>1. \A n \in Globals : g[n] # NULL => g[n] \in Ids
    BY <1>1 DEF Values
  <2>2. \A i \in Ids : Alive(h, i) /\ h[i].p # NULL => h[i].p \in Ids
    <3> TAKE i \in Ids
    <3>1. h[i] \in Chunks
      BY <1>1
    <3> QED
      BY <3>1 DEF Alive, Chunks, Instances, Unborn, Values
  <2>3. Apart(h, g, s)
    BY DEF Sound
  <2>4. \A n \in Globals : g[n] # NULL => ~ Gone(k, g[n])
    BY <1>5, <2>1, <2>3 DEF Apart
  <2>5. ASSUME NEW i \in Ids, Alive(k, i), k[i].p # NULL PROVE ~ Gone(k, k[i].p)
    <3>1. CASE i = w
      BY <1>2, <1>5, <2>5, <3>1 DEF Values
    <3>2. CASE i # w
      BY <1>3, <1>5, <2>2, <2>3, <2>5, <3>2 DEF Apart
    <3> QED
      BY <3>1, <3>2
  <2> QED
    BY <2>3, <2>4, <2>5 DEF Apart
<1>8. ASSUME NEW o \in Ids
      PROVE  Held(k, g, s, o) + y[o] + Kept(k, o) = Count(k, o)
  <2>1. InGlobals(g, o) \in Nat /\ OnStack(s, o) \in Nat
    BY HeldType DEF Sound, Typed
  <2>2. /\ InAttributes(h, o) \in Nat /\ InAttributes(k, o) \in Nat
        /\ InAttributes(k, o) = InAttributes(h, o) + Is(val, o) - Is(h[w].p, o)
    <3>1. \A j \in Ids \ {w} : (Alive(k, j) /\ k[j].p = o) <=> (Alive(h, j) /\ h[j].p = o)
      BY <1>3 DEF Alive
    <3>2. Alive(k, w)
      BY <1>5
    <3>3. /\ InAttributes(h, o) \in Nat /\ InAttributes(k, o) \in Nat
          /\ InAttributes(k, o) = InAttributes(h, o) + (IF Alive(k, w) /\ k[w].p = o THEN 1 ELSE 0)
                                                     - (IF Alive(h, w) /\ h[w].p = o THEN 1 ELSE 0)
      BY <3>1, AttributeCounted
    <3>4. (Alive(k, w) /\ k[w].p = o <=> val = o) /\ (Alive(h, w) /\ h[w].p = o <=> h[w].p = o)
      BY <1>2, <3>2
    <3> QED
      BY <3>3, <3>4 DEF Is
  <2>3. InGlobals(g, o) + InAttributes(h, o) + OnStack(s, o) + x[o] + Kept(h, o) = Count(h, o)
    BY DEF Sound, Exact, Held
  <2>4. x[o] \in Nat /\ y[o] \in Nat /\ Kept(h, o) \in Nat
    BY DEF Sound, Typed, Kept
  <2>5. y[o] + Is(val, o) = x[o] + Is(h[w].p, o) /\ Is(val, o) \in Nat /\ Is(h[w].p, o) \in Nat
    BY DEF Is
  <2> HIDE DEF Is
  <2> QED
    BY <1>5, <2>1, <2>2, <2>3, <2>4, <2>5 DEF Held
<1>9. Exact(k, g, s, y)
  <2>1. \A o \in Ids : Alive(k, o) /\ ~ k[o].destroyed => k[o].iRef >= 1
    <3> TAKE o \in Ids
    <3>1. Alive(h, o) /\ ~ h[o].destroyed => h[o].iRef >= 1
      BY DEF Sound, Exact
    <3> QED
      BY <1>3, <1>4, <1>5, <3>1
  <2> QED
    BY <1>8, <2>1 DEF Exact
<1> QED
  BY <1>3, <1>6, <1>7, <1>9 DEF Sound, Typed, k

(* A chunk is made an instance; the machine has the counts it begins with. *)
LEMMA Born ==
  ASSUME ObjectsAssumption, NEW h, NEW g, NEW s, NEW x, Sound(h, g, s, x),
         NEW o \in Ids, h[o] = Unborn, NEW c \in Classes, NEW n \in Nat, n >= 1,
         NEW k, k = [h EXCEPT ![o] = [Instance(c) EXCEPT !.iRef = n]],
         NEW y \in [Ids -> Nat], y[o] = n, \A i \in Ids \ {o} : y[i] = x[i]
  PROVE  Sound(k, g, s, y)
<1>1. h \in [Ids -> Chunks] /\ s \in Seq(Entries) /\ g \in [Globals -> Values]
  BY DEF Sound, Typed
<1>2. ~ Alive(h, o)
  BY DEF Alive, Unborn
<1>3. /\ k[o] = [Instance(c) EXCEPT !.iRef = n]
      /\ \A i \in Ids \ {o} : k[i] = h[i]
  BY <1>1
<1>4. /\ k[o] \in Chunks /\ Alive(k, o) /\ ~ Gone(k, o) /\ k[o].p = NULL /\ k[o].iRef = n
      /\ k[o].destroyed = FALSE
  <2>1. k[o] \in Instances /\ k[o].iRef = n /\ k[o].p = NULL /\ k[o].destroyed = FALSE
    <3>1. k[o] = Newborn(c, n)
      BY <1>3 DEF Newborn
    <3>2. n \in Int
      OBVIOUS
    <3>3. /\ Newborn(c, n) \in Instances /\ Newborn(c, n).iRef = n
          /\ Newborn(c, n).p = NULL /\ Newborn(c, n).destroyed = FALSE
      BY <3>2, ChunkMade, ZenonT(60)
    <3> QED
      BY <3>1, <3>3, Zenon
  <2>2. k[o] \in Chunks /\ k[o].state = "living"
    BY <2>1 DEF Chunks, Instances
  <2> QED
    BY <2>1, <2>2 DEF Alive, Gone
<1>5. k \in [Ids -> Chunks]
  BY <1>1, <1>4
<1>6. \A i \in Ids : Gone(k, i) <=> Gone(h, i)
  BY <1>2, <1>3, <1>4 DEF Gone, Alive
<1>7. Releases(k, s)
  <2>1. \A i \in DOMAIN s : s[i].do = "free" => s[i].val \in Ids
    <3> TAKE i \in DOMAIN s
    <3>1. s[i] \in Entries
      BY <1>1
    <3> QED
      BY <3>1, EntryValue
  <2>2. Releases(h, s)
    BY DEF Sound
  <2> QED
    BY <1>6, <2>1, <2>2 DEF Releases
<1>8. Apart(k, g, s)
  <2>1. \A m \in Globals : g[m] # NULL => g[m] \in Ids
    BY <1>1 DEF Values
  <2>2. \A i \in Ids : Alive(h, i) /\ h[i].p # NULL => h[i].p \in Ids
    <3> TAKE i \in Ids
    <3>1. h[i] \in Chunks
      BY <1>1
    <3> QED
      BY <3>1 DEF Alive, Chunks, Instances, Unborn, Values
  <2>3. Apart(h, g, s)
    BY DEF Sound
  <2>4. \A m \in Globals : g[m] # NULL => ~ Gone(k, g[m])
    BY <1>6, <2>1, <2>3 DEF Apart
  <2>5. ASSUME NEW i \in Ids, Alive(k, i), k[i].p # NULL PROVE ~ Gone(k, k[i].p)
    <3>1. i # o /\ k[i] = h[i] /\ Alive(h, i)
      BY <1>3, <1>4, <2>5 DEF Alive
    <3> QED
      BY <1>6, <2>2, <2>3, <2>5, <3>1 DEF Apart
  <2> QED
    BY <2>3, <2>4, <2>5 DEF Apart
<1>9. ASSUME NEW i \in Ids
      PROVE  Held(k, g, s, i) + y[i] + Kept(k, i) = Count(k, i)
  <2>1. Held(h, g, s, i) + x[i] + Kept(h, i) = Count(h, i) /\ x[i] \in Nat /\ Held(h, g, s, i) \in Nat
    BY HeldType DEF Sound, Exact, Typed
  <2>2. InAttributes(k, i) = InAttributes(h, i)
    <3>1. {j \in Ids : Alive(k, j) /\ k[j].p = i} = {j \in Ids : Alive(h, j) /\ h[j].p = i}
      <4>1. ~ (Alive(k, o) /\ k[o].p = i) /\ ~ (Alive(h, o) /\ h[o].p = i)
        BY <1>2, <1>4 DEF ObjectsAssumption
      <4>2. \A j \in Ids \ {o} : (Alive(k, j) /\ k[j].p = i) <=> (Alive(h, j) /\ h[j].p = i)
        BY <1>3 DEF Alive
      <4> QED
        BY <4>1, <4>2
    <3> QED
      BY <3>1 DEF InAttributes
  <2>3. Held(k, g, s, i) = Held(h, g, s, i)
    BY <2>2 DEF Held
  <2>4. CASE i = o
    <3>1. Count(h, o) = 0 /\ Kept(h, o) = 0 /\ Count(k, o) = n /\ Kept(k, o) = 0
      BY <1>2, <1>4 DEF Count, Kept, Gone
    <3>2. Held(h, g, s, o) = 0
      BY <2>1, <2>4, <3>1
    <3> QED
      BY <2>3, <2>4, <3>1, <3>2
  <2>5. CASE i # o
    <3>1. k[i] = h[i] /\ y[i] = x[i]
      BY <1>3, <2>5
    <3>2. Count(h, i) = Count(k, i) /\ Kept(h, i) = Kept(k, i)
      BY <3>1 DEF Count, Kept, Gone, Alive
    <3> QED
      BY <2>1, <2>3, <3>1, <3>2
  <2> QED
    BY <2>4, <2>5
<1>10. Exact(k, g, s, y)
  <2>1. \A i \in Ids : Alive(k, i) /\ ~ k[i].destroyed => k[i].iRef >= 1
    BY <1>3, <1>4 DEF Sound, Exact, Alive
  <2> QED
    BY <1>9, <2>1 DEF Exact
<1> QED
  BY <1>1, <1>5, <1>7, <1>8, <1>10 DEF Sound, Typed

(* The last count is in hand: the release begins, and the machine goes on with y. *)
LEMMA Died ==
  ASSUME ObjectsAssumption, NEW h, NEW g, NEW s, NEW x, Sound(h, g, s, x),
         NEW o \in Ids, Alive(h, o), ~ h[o].destroyed, h[o].iRef = 1, x[o] >= 1,
         NEW n \in Int, NEW k, k = [h EXCEPT ![o].iRef = n, ![o].destroyed = TRUE],
         NEW y \in [Ids -> Nat], \A i \in Ids \ {o} : y[i] = x[i],
         n = y[o] + (IF h[o].class \in Destructed THEN 2 ELSE 0)
  PROVE  Sound(k, g, Append(s, Free(o)), y)
<1> DEFINE t == Append(s, Free(o))
<1>1. h \in [Ids -> Chunks] /\ s \in Seq(Entries) /\ g \in [Globals -> Values]
  BY DEF Sound, Typed
<1>2. k[o] = [h[o] EXCEPT !.iRef = n, !.destroyed = TRUE] /\ \A i \in Ids \ {o} : k[i] = h[i]
  BY <1>1
<1>3. /\ k[o] \in Chunks /\ Alive(k, o) /\ k[o].destroyed = TRUE /\ k[o].iRef = n
      /\ k[o].class = h[o].class /\ k[o].p = h[o].p
  <2>1. h[o] \in Chunks \ {Unborn}
    BY <1>1 DEF Alive, Unborn
  <2>2. h[o] \in Instances
    BY <2>1 DEF Chunks
  <2>3. /\ k[o] \in Instances
        /\ k[o].destroyed = TRUE /\ k[o].iRef = n /\ k[o].class = h[o].class /\ k[o].p = h[o].p
    <3>1. k[o] = Marked(h[o], n)
      BY <1>2 DEF Marked
    <3>2. /\ Marked(h[o], n) \in Instances /\ Marked(h[o], n).destroyed = TRUE
          /\ Marked(h[o], n).iRef = n /\ Marked(h[o], n).class = h[o].class
          /\ Marked(h[o], n).p = h[o].p
      BY <2>2, MarkChanged
    <3> QED
      BY <3>1, <3>2, Zenon
  <2>4. k[o] \in Chunks /\ k[o].state = "living"
    BY <2>3 DEF Chunks, Instances
  <2> QED
    BY <2>3, <2>4 DEF Alive
<1>4. k \in [Ids -> Chunks]
  BY <1>1, <1>3
<1>5. Gone(k, o) /\ ~ Gone(h, o) /\ \A i \in Ids \ {o} : Gone(k, i) <=> Gone(h, i)
  BY <1>2, <1>3 DEF Gone, Alive
<1>6. Free(o) \in Entries /\ Free(o).do = "free" /\ Free(o).val = o
  BY DEF Free, Entries
<1>7. /\ t \in Seq(Entries) /\ Len(t) = Len(s) + 1 /\ DOMAIN t = 1 .. Len(s) + 1
      /\ \A i \in DOMAIN s : t[i] = s[i]
      /\ t[Len(s) + 1] = Free(o)
      /\ DOMAIN s = 1 .. Len(s) /\ Len(s) \in Nat /\ Len(s) > 0
  BY <1>1, <1>6, AppendAt DEF Sound, Shape
<1> HIDE DEF t
<1>8. Held(h, g, s, o) = 0 /\ x[o] = 1
  <2>1. Held(h, g, s, o) + x[o] + Kept(h, o) = Count(h, o)
    BY DEF Sound, Exact
  <2>2. Held(h, g, s, o) \in Nat /\ x[o] \in Nat
    BY HeldType DEF Sound, Typed
  <2>3. Kept(h, o) = 0 /\ Count(h, o) = 1
    BY <1>5 DEF Kept, Count
  <2> QED
    BY <2>1, <2>2, <2>3
<1>9. /\ \A m \in Globals : g[m] # o
      /\ \A i \in Ids : Alive(h, i) => h[i].p # o
      /\ \A i \in DOMAIN s : ~ Holds(s[i], o)
  <2>1. InGlobals(g, o) = 0 /\ InAttributes(h, o) = 0 /\ OnStack(s, o) = 0
    BY <1>1, <1>8, HeldType DEF Held
  <2>2. (\A m \in Globals : g[m] # o) /\ \A i \in Ids : Alive(h, i) => h[i].p # o
    BY <1>1, <2>1, HeldBy
  <2>3. \A i \in DOMAIN s : ~ Holds(s[i], o)
    BY <1>1, <2>1, StackFree
  <2> QED
    BY <2>2, <2>3
<1>10. Shape(t)
  <2>1. Shape(s)
    BY DEF Sound
  <2>2. \A i \in DOMAIN t : t[i].do = "main" <=> i = 1
    BY <1>6, <1>7, <2>1 DEF Shape
  <2>3. \A i \in DOMAIN t : OnScript(t[i]) => i > 1 /\ Rests(t[i], t[i - 1])
    <3> SUFFICES ASSUME NEW i \in DOMAIN t, OnScript(t[i]) PROVE i > 1 /\ Rests(t[i], t[i - 1])
      OBVIOUS
    <3>1. i # Len(s) + 1
      BY <1>6, <1>7 DEF OnScript
    <3>2. i \in DOMAIN s /\ t[i] = s[i]
      BY <1>7, <3>1
    <3>3. i > 1 /\ Rests(s[i], s[i - 1])
      BY <2>1, <3>2 DEF Shape
    <3>4. i - 1 \in DOMAIN s
      BY <1>7, <3>2, <3>3
    <3> QED
      BY <1>7, <3>2, <3>3, <3>4
  <2> QED
    BY <1>7, <2>2, <2>3 DEF Shape
<1>11. Releases(k, t)
  <2>1. Releases(h, s)
    BY DEF Sound
  <2>2. \A i \in DOMAIN s : s[i].do = "free" => s[i].val \in Ids \ {o}
    <3> TAKE i \in DOMAIN s
    <3>1. s[i] \in Entries
      BY <1>1
    <3> QED
      BY <1>5, <2>1, <3>1, EntryValue DEF Releases
  <2>3. \A i \in DOMAIN t : t[i].do = "free" => Gone(k, t[i].val)
    <3> TAKE i \in DOMAIN t
    <3>1. CASE i = Len(s) + 1
      BY <1>5, <1>6, <1>7, <3>1
    <3>2. CASE i \in DOMAIN s
      BY <1>5, <1>7, <2>1, <2>2, <3>2, ZenonT(60) DEF Releases
    <3> QED
      BY <1>7, <3>1, <3>2
  <2>4. ASSUME NEW i \in DOMAIN t, NEW j \in DOMAIN t, t[i].do = "free", t[j].do = "free", t[i].val = t[j].val
        PROVE  i = j
    <3>1. CASE i \in DOMAIN s /\ j \in DOMAIN s
      BY <1>7, <2>1, <2>4, <3>1 DEF Releases
    <3>2. CASE i \in DOMAIN s /\ j = Len(s) + 1
      BY <1>6, <1>7, <2>2, <2>4, <3>2
    <3>3. CASE i = Len(s) + 1 /\ j \in DOMAIN s
      BY <1>6, <1>7, <2>2, <2>4, <3>3
    <3> QED
      BY <1>7, <3>1, <3>2, <3>3
  <2>5. \A i \in Ids : Gone(k, i) => \E j \in DOMAIN t : t[j].do = "free" /\ t[j].val = i
    <3> TAKE i \in Ids
    <3>1. CASE i = o
      BY <1>6, <1>7, <3>1
    <3>2. CASE i # o
      <4> SUFFICES ASSUME Gone(k, i) PROVE \E j \in DOMAIN t : t[j].do = "free" /\ t[j].val = i
        OBVIOUS
      <4>1. PICK j \in DOMAIN s : s[j].do = "free" /\ s[j].val = i
        BY <1>5, <2>1, <3>2 DEF Releases
      <4> QED
        BY <1>7, <4>1
    <3> QED
      BY <3>1, <3>2
  <2> QED
    BY <2>3, <2>4, <2>5 DEF Releases
<1>12. Apart(k, g, t)
  <2>1. Apart(h, g, s)
    BY DEF Sound
  <2>2. \A m \in Globals : g[m] # NULL => g[m] \in Ids \ {o}
    BY <1>1, <1>9 DEF Values
  <2>3. \A i \in Ids : Alive(h, i) /\ h[i].p # NULL => h[i].p \in Ids \ {o}
    <3> TAKE i \in Ids
    <3>1. h[i] \in Chunks
      BY <1>1
    <3> QED
      BY <1>9, <3>1 DEF Alive, Chunks, Instances, Unborn, Values
  <2>4. \A m \in Globals : g[m] # NULL => ~ Gone(k, g[m])
    BY <1>5, <2>1, <2>2 DEF Apart
  <2>5. ASSUME NEW i \in Ids, Alive(k, i), k[i].p # NULL PROVE ~ Gone(k, k[i].p)
    <3>1. Alive(h, i) /\ k[i].p = h[i].p
      BY <1>2, <1>3, <2>5 DEF Alive
    <3> QED
      BY <1>5, <2>1, <2>3, <2>5, <3>1 DEF Apart
  <2>6. ASSUME NEW i \in DOMAIN t, NEW j \in DOMAIN t, t[i].do = "free", j <= i
        PROVE  ~ Holds(t[j], t[i].val)
    <3>1. CASE i \in DOMAIN s
      <4>1. j \in DOMAIN s
        BY <1>7, <2>6, <3>1
      <4> QED
        BY <1>7, <2>1, <2>6, <3>1, <4>1 DEF Apart
    <3>2. CASE i = Len(s) + 1 /\ j \in DOMAIN s
      BY <1>6, <1>7, <1>9, <3>2
    <3>3. CASE i = Len(s) + 1 /\ j = Len(s) + 1
      <4>1. Weight(Free(o), o) = 0
        BY <1>6, FreeWeight
      <4>2. ~ Holds(Free(o), o)
        BY <1>6, <4>1, HoldsNot
      <4> QED
        BY <1>6, <1>7, <3>3, <4>2
    <3> QED
      BY <1>7, <3>1, <3>2, <3>3
  <2> QED
    BY <2>4, <2>5, <2>6 DEF Apart
<1>13. ASSUME NEW i \in Ids
      PROVE  Held(k, g, t, i) + y[i] + Kept(k, i) = Count(k, i)
  <2>1. Held(h, g, s, i) + x[i] + Kept(h, i) = Count(h, i)
    BY DEF Sound, Exact
  <2>2. InAttributes(k, i) = InAttributes(h, i)
    <3>1. {j \in Ids : Alive(k, j) /\ k[j].p = i} = {j \in Ids : Alive(h, j) /\ h[j].p = i}
      <4>1. (Alive(k, o) /\ k[o].p = i) <=> (Alive(h, o) /\ h[o].p = i)
        BY <1>3
      <4>2. \A j \in Ids \ {o} : (Alive(k, j) /\ k[j].p = i) <=> (Alive(h, j) /\ h[j].p = i)
        BY <1>2 DEF Alive
      <4> QED
        BY <4>1, <4>2
    <3> QED
      BY <3>1 DEF InAttributes
  <2>3. OnStack(t, i) = OnStack(s, i) /\ OnStack(s, i) \in Nat
    <3>1. Weight(Free(o), i) = 0
      BY <1>6, FreeWeight
    <3> QED
      BY <1>1, <1>6, <3>1, StackCounted DEF t
  <2>4. Held(k, g, t, i) = Held(h, g, s, i)
    BY <2>2, <2>3 DEF Held
  <2>5. CASE i = o
    <3>1. Count(k, o) = n
      BY <1>3 DEF Count
    <3>2. Kept(k, o) = IF h[o].class \in Destructed THEN 2 ELSE 0
      BY <1>3, <1>5 DEF Kept
    <3>3. y[o] \in Nat
      OBVIOUS
    <3> QED
      BY <1>8, <2>4, <2>5, <3>1, <3>2, <3>3
  <2>6. CASE i # o
    <3>1. k[i] = h[i] /\ y[i] = x[i]
      BY <1>2, <2>6
    <3>2. Count(h, i) = Count(k, i) /\ Kept(h, i) = Kept(k, i)
      BY <3>1 DEF Count, Kept, Gone, Alive
    <3> QED
      BY <2>1, <2>4, <3>1, <3>2
  <2> QED
    BY <2>5, <2>6
<1>14. Exact(k, g, t, y)
  <2>1. \A i \in Ids : Alive(k, i) /\ ~ k[i].destroyed => k[i].iRef >= 1
    BY <1>2, <1>3 DEF Sound, Exact, Alive
  <2> QED
    BY <1>13, <2>1 DEF Exact
<1> QED
  BY <1>1, <1>4, <1>7, <1>10, <1>11, <1>12, <1>14 DEF Sound, Typed, t

(* The end of a release. *)
LEMMA Freed ==
  ASSUME ObjectsAssumption, NEW h, NEW g, NEW s, NEW x, Sound(h, g, s, x),
         NEW o \in Ids, Last(s) = Free(o), h[o].p = NULL, x[o] = 0,
         NEW k, k = [h EXCEPT ![o] = Unborn]
  PROVE  Sound(k, g, Front(s), x)
<1> DEFINE t == Front(s)
           n == Len(s) - 1
<1>1. /\ h \in [Ids -> Chunks] /\ s \in Seq(Entries) /\ g \in [Globals -> Values]
      /\ Len(s) > 0 /\ Len(s) \in Nat /\ DOMAIN s = 1 .. Len(s)
  BY DEF Sound, Typed, Shape
<1>2. k[o] = Unborn /\ (\A i \in Ids \ {o} : k[i] = h[i]) /\ k \in [Ids -> Chunks]
  BY <1>1 DEF Chunks
<1>3. Free(o) \in Entries /\ Free(o).do = "free" /\ Free(o).val = o /\ s[Len(s)] = Free(o) /\ Len(s) \in DOMAIN s
  BY <1>1 DEF Free, Entries, Last
<1>4. Len(s) # 1
  BY <1>1, <1>3 DEF Sound, Shape
<1>5. /\ t \in Seq(Entries) /\ Len(t) = n /\ n \in Nat /\ n > 0 /\ DOMAIN t = 1 .. n
      /\ \A i \in DOMAIN t : t[i] = s[i] /\ i \in DOMAIN s
      /\ s = Append(t, Free(o))
  <2>1. t \in Seq(Entries) /\ Len(t) = n /\ s = Append(t, Last(s))
    BY <1>1, FrontLast
  <2>2. n \in Nat /\ n > 0 /\ DOMAIN t = 1 .. n
    BY <1>1, <1>4, <2>1
  <2>3. \A i \in 1 .. Len(s) - 1 : t[i] = s[i]
    BY <1>1, FrontLast
  <2>4. \A i \in DOMAIN t : t[i] = s[i] /\ i \in DOMAIN s
    BY <1>1, <2>2, <2>3
  <2> HIDE DEF t, n
  <2> QED
    BY <2>1, <2>2, <2>4, Zenon
<1> HIDE DEF t
<1>6. Releases(h, s) /\ Apart(h, g, s) /\ Shape(s)
  BY DEF Sound
<1>7. Gone(h, o) /\ Alive(h, o) /\ ~ Alive(k, o) /\ \A i \in Ids \ {o} : Gone(k, i) <=> Gone(h, i)
  BY <1>2, <1>3, <1>6 DEF Releases, Gone, Alive, Unborn
<1>8. /\ \A m \in Globals : g[m] # o
      /\ \A i \in Ids : Alive(h, i) => h[i].p # o
      /\ \A j \in DOMAIN s : ~ Holds(s[j], o)
  <2>1. \A m \in Globals : g[m] # o
    BY <1>6, <1>7 DEF Apart, ObjectsAssumption
  <2>2. \A i \in Ids : Alive(h, i) => h[i].p # o
    BY <1>6, <1>7 DEF Apart, ObjectsAssumption
  <2>3. \A j \in DOMAIN s : j <= Len(s)
    BY <1>1
  <2>4. \A j \in DOMAIN s : ~ Holds(s[j], o)
    BY <1>3, <1>6, <2>3 DEF Apart
  <2> QED
    BY <2>1, <2>2, <2>4
<1>9. Shape(t)
  <2>1. \A i \in DOMAIN t : t[i].do = "main" <=> i = 1
    BY <1>1, <1>5, <1>6 DEF Shape
  <2>2. \A i \in DOMAIN t : OnScript(t[i]) => i > 1 /\ Rests(t[i], t[i - 1])
    <3> SUFFICES ASSUME NEW i \in DOMAIN t, OnScript(t[i]) PROVE i > 1 /\ Rests(t[i], t[i - 1])
      OBVIOUS
    <3>1. i > 1 /\ Rests(s[i], s[i - 1]) /\ t[i] = s[i]
      BY <1>5, <1>6 DEF Shape
    <3>2. i - 1 \in DOMAIN t
      BY <1>5, <3>1
    <3> QED
      BY <1>5, <3>1, <3>2
  <2> QED
    BY <1>5, <2>1, <2>2 DEF Shape
<1>10. \A i \in DOMAIN t : t[i].do = "free" => t[i].val \in Ids \ {o}
  <2> SUFFICES ASSUME NEW i \in DOMAIN t, t[i].do = "free" PROVE t[i].val \in Ids \ {o}
    OBVIOUS
  <2>1. t[i] \in Entries
    BY <1>5
  <2>2. i # Len(s) /\ i \in DOMAIN s /\ s[i] = t[i]
    BY <1>1, <1>5
  <2>3. t[i].val # o
    BY <1>3, <1>6, <2>2 DEF Releases
  <2> QED
    BY <2>1, <2>3, EntryValue
<1>11. Releases(k, t)
  <2>1. \A i \in DOMAIN t : t[i].do = "free" => Gone(k, t[i].val)
    <3> TAKE i \in DOMAIN t
    <3>1. t[i].do = "free" => Gone(h, t[i].val) /\ t[i].val \in Ids \ {o}
      BY <1>5, <1>6, <1>10 DEF Releases
    <3> QED
      BY <1>7, <3>1
  <2>2. \A i, j \in DOMAIN t : t[i].do = "free" /\ t[j].do = "free" /\ t[i].val = t[j].val => i = j
    BY <1>5, <1>6 DEF Releases
  <2>3. \A i \in Ids : Gone(k, i) => \E j \in DOMAIN t : t[j].do = "free" /\ t[j].val = i
    <3> SUFFICES ASSUME NEW i \in Ids, Gone(k, i) PROVE \E j \in DOMAIN t : t[j].do = "free" /\ t[j].val = i
      OBVIOUS
    <3>1. i # o
      BY <1>7 DEF Gone
    <3>2. PICK j \in DOMAIN s : s[j].do = "free" /\ s[j].val = i
      BY <1>6, <1>7, <3>1 DEF Releases
    <3>3. j # Len(s)
      BY <1>3, <3>1, <3>2
    <3>4. j \in DOMAIN t
      BY <1>1, <1>5, <3>3
    <3> QED
      BY <1>5, <3>2, <3>4
  <2> QED
    BY <2>1, <2>2, <2>3 DEF Releases
<1>12. Apart(k, g, t)
  <2>1. \A m \in Globals : g[m] # NULL => g[m] \in Ids \ {o}
    BY <1>1, <1>8 DEF Values
  <2>2. \A i \in Ids : Alive(h, i) /\ h[i].p # NULL => h[i].p \in Ids \ {o}
    <3> TAKE i \in Ids
    <3>1. h[i] \in Chunks
      BY <1>1
    <3> QED
      BY <1>8, <3>1 DEF Alive, Chunks, Instances, Unborn, Values
  <2>3. \A m \in Globals : g[m] # NULL => ~ Gone(k, g[m])
    BY <1>6, <1>7, <2>1 DEF Apart
  <2>4. ASSUME NEW i \in Ids, Alive(k, i), k[i].p # NULL PROVE ~ Gone(k, k[i].p)
    <3>1. i # o /\ k[i] = h[i] /\ Alive(h, i)
      BY <1>2, <1>7, <2>4 DEF Alive
    <3> QED
      BY <1>6, <1>7, <2>2, <2>4, <3>1 DEF Apart
  <2>5. \A i, j \in DOMAIN t : t[i].do = "free" /\ j <= i => ~ Holds(t[j], t[i].val)
    BY <1>5, <1>6 DEF Apart
  <2> QED
    BY <2>3, <2>4, <2>5 DEF Apart
<1>13. ASSUME NEW i \in Ids
      PROVE  Held(k, g, t, i) + x[i] + Kept(k, i) = Count(k, i)
  <2>1. Held(h, g, s, i) + x[i] + Kept(h, i) = Count(h, i)
    BY DEF Sound, Exact
  <2>2. InAttributes(k, i) = InAttributes(h, i)
    <3>1. ~ (Alive(k, o) /\ k[o].p = i) /\ ~ (Alive(h, o) /\ h[o].p = i)
      BY <1>7 DEF ObjectsAssumption
    <3>2. \A j \in Ids \ {o} : (Alive(k, j) /\ k[j].p = i) <=> (Alive(h, j) /\ h[j].p = i)
      BY <1>2 DEF Alive
    <3>3. {j \in Ids : Alive(k, j) /\ k[j].p = i} = {j \in Ids : Alive(h, j) /\ h[j].p = i}
      BY <3>1, <3>2
    <3> QED
      BY <3>3 DEF InAttributes
  <2>3. OnStack(s, i) = OnStack(t, i)
    <3>1. Weight(Free(o), i) = 0
      BY <1>3, FreeWeight
    <3>2. OnStack(Append(t, Free(o)), i) = OnStack(t, i) + Weight(Free(o), i) /\ OnStack(t, i) \in Nat
      BY <1>3, <1>5, StackCounted
    <3>3. OnStack(Append(t, Free(o)), i) = OnStack(t, i)
      BY <3>1, <3>2
    <3> QED
      BY <1>5, <3>3, Zenon
  <2>4. Held(k, g, t, i) = Held(h, g, s, i)
    BY <2>2, <2>3 DEF Held
  <2>5. CASE i = o
    <3>1. Count(k, o) = 0 /\ Kept(k, o) = 0
      BY <1>7 DEF Count, Kept, Gone
    <3>2. InGlobals(g, o) = 0 /\ InAttributes(h, o) = 0 /\ OnStack(s, o) = 0
      <4>1. {m \in Globals : g[m] = o} = {} /\ {j \in Ids : Alive(h, j) /\ h[j].p = o} = {}
        BY <1>8
      <4>2. InGlobals(g, o) = 0 /\ InAttributes(h, o) = 0
        BY <4>1, FS_EmptySet DEF InGlobals, InAttributes
      <4> QED
        BY <1>1, <1>8, <4>2, StackFree
    <3>3. Held(h, g, s, o) = 0
      BY <3>2 DEF Held
    <3> QED
      BY <2>4, <2>5, <3>1, <3>3
  <2>6. CASE i # o
    <3>1. k[i] = h[i]
      BY <1>2, <2>6
    <3>2. Count(h, i) = Count(k, i) /\ Kept(h, i) = Kept(k, i)
      BY <3>1 DEF Count, Kept, Gone, Alive
    <3> QED
      BY <2>1, <2>4, <3>2
  <2> QED
    BY <2>5, <2>6
<1>14. Exact(k, g, t, x)
  <2>1. \A i \in Ids : Alive(k, i) /\ ~ k[i].destroyed => k[i].iRef >= 1
    BY <1>2, <1>7 DEF Sound, Exact, Alive
  <2> QED
    BY <1>13, <2>1 DEF Exact
<1> QED
  BY <1>1, <1>2, <1>5, <1>9, <1>11, <1>12, <1>14 DEF Sound, Typed, t
----------------------------------------------------------------------------
(* Counts of several instances change at once.                             *)

Alike(k, h) ==
  \A i \in Ids : /\ Alive(k, i) <=> Alive(h, i)
                 /\ Alive(h, i) => k[i].destroyed = h[i].destroyed /\ k[i].class = h[i].class /\ k[i].p = h[i].p
Due(h, o) == Gone(h, o) /\ h[o].class \in Destructed

LEMMA AlikeDue ==
  ASSUME NEW h, NEW k, Alike(k, h)
  PROVE  \A i \in Ids : (Due(k, i) <=> Due(h, i)) /\ (Gone(k, i) <=> Gone(h, i))
  BY DEF Alike, Due, Gone

LEMMA AlikeTransitive ==
  ASSUME NEW h, NEW k, NEW m, Alike(k, h), Alike(m, k)
  PROVE  Alike(m, h)
  BY DEF Alike

LEMMA IsType == \A a, b : Is(a, b) \in Nat /\ (Is(a, b) = 1 \/ Is(a, b) = 0) /\ (Is(a, b) = 1 <=> a = b)
  BY DEF Is

LEMMA IntCount ==
  ASSUME NEW h \in [Ids -> Chunks], NEW i \in Ids, Alive(h, i)
  PROVE  h[i].iRef \in Int /\ h[i].p \in Values /\ h[i].destroyed \in BOOLEAN /\ h[i].class \in Classes
<1>1. h[i] \in Instances
  BY AliveInstance
<1> QED
  BY <1>1 DEF Instances

LEMMA RefFacts ==
  ASSUME ObjectsAssumption, NEW h \in [Ids -> Chunks], NEW o \in Values, o # NULL => Alive(h, o), NEW n \in Int
  PROVE  /\ Ref(h, o, n) \in [Ids -> Chunks] /\ Alike(Ref(h, o, n), h)
         /\ \A i \in Ids : Alive(h, i) => Ref(h, o, n)[i].iRef = h[i].iRef + (IF o = i THEN n ELSE 0)
<1>1. CASE o = NULL
  <2>1. Ref(h, o, n) = h /\ \A i \in Ids : o # i
    BY <1>1 DEF Ref, ObjectsAssumption
  <2>2. \A i \in Ids : Alive(h, i) => h[i].iRef \in Int
    BY IntCount
  <2> QED
    BY <2>1, <2>2 DEF Alike
<1>2. CASE o # NULL
  <2> DEFINE k == Ref(h, o, n)
  <2>1. o \in Ids /\ h[o] \in Instances /\ h[o].iRef \in Int
    BY <1>2, AliveInstance, IntCount DEF Values
  <2>2. k = [h EXCEPT ![o].iRef = @ + n]
    BY <1>2 DEF Ref
  <2>3. k[o] = WithRef(h[o], h[o].iRef + n) /\ \A i \in Ids \ {o} : k[i] = h[i]
    BY <2>1, <2>2 DEF WithRef
  <2>4. /\ WithRef(h[o], h[o].iRef + n) \in Instances /\ WithRef(h[o], h[o].iRef + n).state = "living"
        /\ WithRef(h[o], h[o].iRef + n).iRef = h[o].iRef + n /\ WithRef(h[o], h[o].iRef + n).p = h[o].p
        /\ WithRef(h[o], h[o].iRef + n).class = h[o].class
        /\ WithRef(h[o], h[o].iRef + n).destroyed = h[o].destroyed
    <3>1. h[o].iRef + n \in Int
      BY <2>1
    <3> QED
      BY <2>1, <3>1, RefChanged
  <2>5. k \in [Ids -> Chunks]
    <3>1. k[o] \in Chunks
      BY <2>3, <2>4 DEF Chunks
    <3>2. \A i \in Ids : k[i] \in Chunks
      BY <2>3, <3>1
    <3> QED
      BY <2>2, <3>2
  <2> HIDE DEF k
  <2>6. /\ k[o].state = "living" /\ k[o].iRef = h[o].iRef + n /\ k[o].p = h[o].p
        /\ k[o].class = h[o].class /\ k[o].destroyed = h[o].destroyed
    BY <2>3, <2>4, Zenon
  <2>7. Alike(k, h)
    BY <1>2, <2>1, <2>3, <2>6 DEF Alike, Alive
  <2>8. \A i \in Ids : Alive(h, i) => h[i].iRef \in Int
    BY IntCount
  <2>9. \A i \in Ids : Alive(h, i) => k[i].iRef = h[i].iRef + (IF o = i THEN n ELSE 0)
    BY <2>1, <2>3, <2>6, <2>8
  <2> QED
    BY <2>5, <2>7, <2>9 DEF k
<1> QED
  BY <1>1, <1>2

(* The machine counts one more value that it is going to keep somewhere. *)
LEMMA Took ==
  ASSUME ObjectsAssumption, NEW h, NEW g, NEW s, NEW x, Sound(h, g, s, x),
         NEW o \in Values, o # NULL => Alive(h, o),
         NEW y \in [Ids -> Nat], \A i \in Ids : y[i] = x[i] + Is(o, i)
  PROVE  Sound(Ref(h, o, 1), g, s, y) /\ Alike(Ref(h, o, 1), h)
<1> DEFINE k == Ref(h, o, 1)
<1>1. h \in [Ids -> Chunks] /\ x \in [Ids -> Nat]
  BY DEF Sound, Typed
<1>2. /\ k \in [Ids -> Chunks] /\ Alike(k, h)
      /\ \A i \in Ids : Alive(h, i) => k[i].iRef = h[i].iRef + (IF o = i THEN 1 ELSE 0)
  BY <1>1, RefFacts
<1> HIDE DEF k
<1>3. \A i \in Ids : ~ Alive(h, i) => y[i] = x[i]
  <2>1. \A i \in Ids : ~ Alive(h, i) => Is(o, i) = 0
    BY DEF Is
  <2> QED
    BY <1>1, <2>1
<1>4. \A i \in Ids : Alive(h, i) =>
        k[i].iRef + x[i] = h[i].iRef + y[i] /\ (~ h[i].destroyed => k[i].iRef >= 1)
  <2> SUFFICES ASSUME NEW i \in Ids, Alive(h, i)
               PROVE  k[i].iRef + x[i] = h[i].iRef + y[i] /\ (~ h[i].destroyed => k[i].iRef >= 1)
    OBVIOUS
  <2>1. h[i].iRef \in Int /\ x[i] \in Nat /\ y[i] = x[i] + Is(o, i)
    BY <1>1, IntCount
  <2>2. k[i].iRef = h[i].iRef + Is(o, i) /\ Is(o, i) \in Nat
    BY <1>2 DEF Is
  <2>3. ~ h[i].destroyed => h[i].iRef >= 1
    BY DEF Sound, Exact
  <2> QED
    BY <2>1, <2>2, <2>3
<1>5. Sound(k, g, s, y)
  BY <1>2, <1>3, <1>4, Recounted DEF Alike
<1> QED
  BY <1>2, <1>5 DEF k

(* A stored value is counted once, for its place; the old one is given up. *)
LEMMA Settled ==
  ASSUME ObjectsAssumption, NEW h, NEW g, NEW s, NEW val \in Values, NEW old \in Values,
         Sound(h, g, s, Hand(val, old)),
         old # NULL => h[old].iRef # 1 \/ h[old].destroyed,
         val # NULL => Held(h, g, s, val) >= 1,
         NEW k \in [Ids -> Chunks], Alike(k, h),
         \A i \in Ids : Alive(h, i) => k[i].iRef = h[i].iRef - Is(old, i) - Is(val, i)
  PROVE  Sound(k, g, s, Hand(NULL, NULL))
<1>1. h \in [Ids -> Chunks]
  BY DEF Sound, Typed
<1>2. \A i \in Ids : Is(NULL, i) = 0
  BY DEF Is, ObjectsAssumption
<1>3. \A i \in Ids : /\ Hand(val, old)[i] = Is(val, i) + Is(old, i)
                     /\ Hand(NULL, NULL)[i] = 0
  BY <1>2, HandType
<1>4. Hand(val, old) \in [Ids -> Nat] /\ Hand(NULL, NULL) \in [Ids -> Nat]
  BY HandType
<1>5. ASSUME NEW i \in Ids, ~ Alive(h, i)
      PROVE  Hand(NULL, NULL)[i] = Hand(val, old)[i]
  <2>1. ~ Hand(val, old)[i] > 0
    BY <1>5, HeldLives
  <2>2. Hand(val, old)[i] \in Nat
    BY <1>4
  <2> QED
    BY <1>3, <2>1, <2>2
<1>6. ASSUME NEW i \in Ids, Alive(h, i)
      PROVE  /\ k[i].iRef + Hand(val, old)[i] = h[i].iRef + Hand(NULL, NULL)[i]
             /\ ~ h[i].destroyed => k[i].iRef >= 1
  <2>1. h[i].iRef \in Int /\ Is(old, i) \in Nat /\ Is(val, i) \in Nat
    BY <1>1, <1>6, IntCount, IsType
  <2>2. k[i].iRef = h[i].iRef - Is(old, i) - Is(val, i)
    BY <1>6
  <2>3. ASSUME ~ h[i].destroyed PROVE k[i].iRef >= 1
    <3>1. Held(h, g, s, i) + Hand(val, old)[i] + Kept(h, i) = h[i].iRef /\ h[i].iRef >= 1
      BY <1>6, <2>3 DEF Sound, Exact, Count
    <3>2. Kept(h, i) = 0
      BY <2>3 DEF Kept, Gone
    <3>3. Held(h, g, s, i) \in Nat
      BY HeldType DEF Sound, Typed
    <3>4. CASE val = i
      <4>1. Held(h, g, s, i) >= 1
        BY <3>4 DEF ObjectsAssumption
      <4> QED
        BY <1>3, <2>1, <2>2, <3>1, <3>2, <3>3, <4>1
    <3>5. CASE val # i /\ old = i
      <4>1. h[i].iRef # 1 /\ Is(old, i) = 1 /\ Is(val, i) = 0
        BY <2>3, <3>5 DEF Is, ObjectsAssumption
      <4> QED
        BY <2>1, <2>2, <3>1, <4>1
    <3>6. CASE val # i /\ old # i
      <4>1. Is(old, i) = 0 /\ Is(val, i) = 0
        BY <3>6 DEF Is
      <4> QED
        BY <2>1, <2>2, <3>1, <4>1
    <3> QED
      BY <3>4, <3>5, <3>6
  <2> QED
    BY <1>3, <2>1, <2>2, <2>3
<1> QED
  BY <1>4, <1>5, <1>6, Recounted DEF Alike

(* The script on top of the stack has other values. *)
LEMMA Rewritten ==
  ASSUME ObjectsAssumption, NEW h, NEW g, NEW s, NEW x, Sound(h, g, s, x), Last(s) \in BodyRecords,
         NEW e \in BodyRecords, e.do = Last(s).do, e.dest = Last(s).dest,
         NEW y \in [Ids -> Nat], \A i \in Ids : y[i] + Weight(e, i) = x[i] + Weight(Last(s), i)
  PROVE  Sound(h, g, Append(Front(s), e), y)
<1> DEFINE z == [i \in Ids |-> x[i] + Weight(Last(s), i)]
<1>1. Last(s) \in Entries /\ e \in Entries /\ x \in [Ids -> Nat] /\ Last(s).do \in Bodies
  BY DEF Entries, BodyRecords, Sound, Typed
<1>2. \A i \in Ids : Weight(Last(s), i) \in Nat /\ Weight(e, i) \in Nat
  BY <1>1, StackCounted DEF Sound, Typed
<1>3. z \in [Ids -> Nat] /\ \A i \in Ids : z[i] = x[i] + Weight(Last(s), i)
  BY <1>1, <1>2
<1> HIDE DEF z
<1>4. Last(s).do \notin {"main", "free"} /\ e.do \notin {"main", "free"}
  BY <1>1 DEF Bodies
<1>5. Sound(h, g, Front(s), z) /\ Rests(Last(s), Last(Front(s)))
  BY <1>3, <1>4, Popped
<1>6. Rests(e, Last(Front(s)))
  BY <1>5 DEF Rests, OnScript
<1>7. \A i \in Ids : y[i] + Weight(e, i) = z[i]
  BY <1>3
<1> QED
  BY <1>1, <1>4, <1>5, <1>6, <1>7, Pushed
----------------------------------------------------------------------------
(* PH7_MemObjStore.                                                        *)

(* Two operands are dropped. *)
LEMMA DroppedBoth ==
  ASSUME ObjectsAssumption, NEW h, NEW g, NEW s, NEW a \in Values, NEW b \in Values,
         Sound(h, g, s, Hand(a, b))
  PROVE  Sound(h, g, s \o (Drop(a) \o Drop(b)), Hand(NULL, NULL))
<1>1. s \in Seq(Entries)
  BY DEF Sound, Typed
<1>2. Drop(a) \in Seq(Entries) /\ Drop(b) \in Seq(Entries)
  <2>1. ASSUME NEW c \in Values PROVE Drop(c) \in Seq(Entries)
    <3>1. CASE c = NULL
      BY <3>1 DEF Drop
    <3>2. CASE c # NULL
      <4>1. [do |-> "drop", val |-> c] \in Entries
        BY <3>2 DEF Entries, Values
      <4> QED
        BY <3>2, <4>1 DEF Drop
    <3> QED
      BY <3>1, <3>2
  <2> QED
    BY <2>1
<1>3. \A i \in Ids : Is(NULL, i) = 0
  BY DEF Is, ObjectsAssumption
<1>4. /\ \A i \in Ids : Hand(NULL, b)[i] + Is(a, i) = Hand(a, b)[i]
      /\ \A i \in Ids : Hand(NULL, NULL)[i] + Is(b, i) = Hand(NULL, b)[i]
  <2> SUFFICES ASSUME NEW i \in Ids
               PROVE  /\ Hand(NULL, b)[i] + Is(a, i) = Hand(a, b)[i]
                      /\ Hand(NULL, NULL)[i] + Is(b, i) = Hand(NULL, b)[i]
    OBVIOUS
  <2>1. /\ Hand(a, b)[i] = Is(a, i) + Is(b, i) /\ Hand(NULL, b)[i] = Is(NULL, i) + Is(b, i)
        /\ Hand(NULL, NULL)[i] = Is(NULL, i) + Is(NULL, i)
    BY HandType
  <2>2. Is(a, i) \in Nat /\ Is(b, i) \in Nat /\ Is(NULL, i) = 0
    BY <1>3, IsType
  <2> QED
    BY <2>1, <2>2
<1>5. Hand(NULL, b) \in [Ids -> Nat] /\ Hand(NULL, NULL) \in [Ids -> Nat]
  BY HandType
<1>6. Sound(h, g, s \o Drop(a), Hand(NULL, b))
  BY <1>4, <1>5, Dropped
<1>7. Sound(h, g, (s \o Drop(a)) \o Drop(b), Hand(NULL, NULL))
  BY <1>4, <1>5, <1>6, Dropped
<1>8. (s \o Drop(a)) \o Drop(b) = s \o (Drop(a) \o Drop(b))
  BY <1>1, <1>2, ConcatAssociative
<1> QED
  BY <1>7, <1>8

LEMMA GaveUp ==
  ASSUME ObjectsAssumption, NEW h \in [Ids -> Chunks], NEW a \in Values, NEW b \in Values,
         a # NULL => Alive(h, a), b # NULL => Alive(h, b),
         NEW k, k = Ref(Ref(h, a, -1), b, -1)
  PROVE  /\ k \in [Ids -> Chunks] /\ Alike(k, h)
         /\ \A i \in Ids : Alive(h, i) => k[i].iRef = h[i].iRef - Is(a, i) - Is(b, i)
<1> DEFINE m == Ref(h, a, -1)
<1>1. -1 \in Int
  OBVIOUS
<1>2. /\ m \in [Ids -> Chunks] /\ Alike(m, h)
      /\ \A i \in Ids : Alive(h, i) => m[i].iRef = h[i].iRef + (IF a = i THEN -1 ELSE 0)
  BY <1>1, RefFacts
<1> HIDE DEF m
<1>3. b # NULL => Alive(m, b)
  BY <1>2 DEF Alike, Values
<1>4. /\ Ref(m, b, -1) \in [Ids -> Chunks] /\ Alike(Ref(m, b, -1), m)
      /\ \A i \in Ids : Alive(m, i) => Ref(m, b, -1)[i].iRef = m[i].iRef + (IF b = i THEN -1 ELSE 0)
  BY <1>1, <1>2, <1>3, RefFacts
<1>5. k = Ref(m, b, -1)
  BY DEF m
<1>6. Alike(k, h)
  BY <1>2, <1>4, <1>5, AlikeTransitive
<1>7. ASSUME NEW i \in Ids, Alive(h, i) PROVE k[i].iRef = h[i].iRef - Is(a, i) - Is(b, i)
  <2>1. h[i].iRef \in Int /\ Alive(m, i)
    BY <1>2, <1>7, IntCount DEF Alike
  <2>2. m[i].iRef = h[i].iRef - Is(a, i) /\ Is(a, i) \in Nat
    BY <1>2, <1>7, <2>1 DEF Is
  <2>3. k[i].iRef = m[i].iRef - Is(b, i) /\ Is(b, i) \in Nat
    BY <1>4, <1>5, <2>1, <2>2 DEF Is
  <2> QED
    BY <2>1, <2>2, <2>3
<1> QED
  BY <1>4, <1>5, <1>6, <1>7

LEMMA ValueFacts ==
  ASSUME NEW h \in [Ids -> Chunks], NEW w \in Ids, Alive(h, w), NEW val \in Values
  PROVE  /\ SetValue(h, w, val) \in [Ids -> Chunks]
         /\ \A i \in Ids : /\ Alive(SetValue(h, w, val), i) <=> Alive(h, i)
                           /\ Alive(h, i) =>
                                /\ SetValue(h, w, val)[i].destroyed = h[i].destroyed
                                /\ SetValue(h, w, val)[i].class = h[i].class
                                /\ SetValue(h, w, val)[i].iRef = h[i].iRef
                                /\ SetValue(h, w, val)[i].p = (IF i = w THEN val ELSE h[i].p)
<1> DEFINE k == SetValue(h, w, val)
<1>1. h[w] \in Instances
  BY AliveInstance
<1>2. k[w] = WithValue(h[w], val) /\ \A i \in Ids \ {w} : k[i] = h[i]
  BY DEF SetValue, WithValue
<1>3. /\ WithValue(h[w], val) \in Instances /\ WithValue(h[w], val).state = "living"
      /\ WithValue(h[w], val).iRef = h[w].iRef /\ WithValue(h[w], val).p = val
      /\ WithValue(h[w], val).class = h[w].class /\ WithValue(h[w], val).destroyed = h[w].destroyed
  BY <1>1, ValueChanged
<1>4. k \in [Ids -> Chunks]
  <2>1. k[w] \in Chunks
    BY <1>2, <1>3 DEF Chunks
  <2> QED
    BY <1>2, <2>1 DEF SetValue
<1> HIDE DEF k
<1>5. /\ k[w].state = "living" /\ k[w].iRef = h[w].iRef /\ k[w].p = val
      /\ k[w].class = h[w].class /\ k[w].destroyed = h[w].destroyed
  BY <1>2, <1>3, Zenon
<1>6. \A i \in Ids : /\ Alive(k, i) <=> Alive(h, i)
                     /\ Alive(h, i) =>
                          /\ k[i].destroyed = h[i].destroyed
                          /\ k[i].class = h[i].class
                          /\ k[i].iRef = h[i].iRef
                          /\ k[i].p = (IF i = w THEN val ELSE h[i].p)
  BY <1>2, <1>5 DEF Alive
<1> QED
  BY <1>4, <1>6 DEF k

(* What can be stored to, and what is asked of the value. *)
Stores(f) ==
  {Nowhere} \cup Names \cup {<<"attr", n>> : n \in Globals}
  \cup (IF f.do = "main" THEN {} ELSE {<<"v">>, <<"this", "p">>})
Storable(h, val, place) == val # NULL /\ place \notin {Nowhere, <<"v">>} => ~ Gone(h, val)

(* The store to a place that is not there drops the operand. *)
LEMMA StoreNowhere ==
  ASSUME ObjectsAssumption, NEW h, NEW st, NEW val \in Values, NEW place,
         Sound(h, glob, st, Hand(val, NULL)), place \in Stores(Last(st)),
         ~ Writable(Last(st), place), PH7_MemObjStore(h, st, place, val)
  PROVE  Sound(heap', glob', stack', Hand(NULL, NULL)) /\ Alike(heap', h)
<1>1. place # <<"v">> /\ place[1] # "glob"
  BY DEF Writable, Stores, Names, Nowhere
<1>2. heap' = h /\ glob' = glob /\ stack' = st \o Drop(val)
  BY <1>1 DEF PH7_MemObjStore, Written
<1>3. \A i \in Ids : Hand(NULL, NULL)[i] + Is(val, i) = Hand(val, NULL)[i]
  BY HandType, IsType
<1>4. Sound(h, glob, st \o Drop(val), Hand(NULL, NULL))
  BY <1>3, HandType, Dropped
<1> QED
  BY <1>2, <1>4 DEF Alike

(* The local variable of a function. *)
LEMMA StoreLocal ==
  ASSUME ObjectsAssumption, NEW h, NEW st, NEW val \in Values,
         Sound(h, glob, st, Hand(val, NULL)), Last(st) \in BodyRecords,
         PH7_MemObjStore(h, st, <<"v">>, val)
  PROVE  Sound(heap', glob', stack', Hand(NULL, NULL)) /\ Alike(heap', h)
<1> DEFINE f == Last(st)
           old == f.v
           c == Ref(h, val, 1)
           e == [f EXCEPT !.v = val]
           s == Append(Front(st), e)
           last == old # NULL /\ c[old].iRef = 1 /\ ~ c[old].destroyed
<1>1. st \in Seq(Entries) /\ h \in [Ids -> Chunks] /\ Len(st) > 0 /\ old \in Values
  BY DEF Sound, Typed, Shape, BodyRecords
<1>2. e \in BodyRecords /\ e.do = f.do /\ e.dest = f.dest /\ e.this = f.this /\ e.v = val /\ e.loop = f.loop
  BY DEF BodyRecords
<1>3. Writable(f, <<"v">>) /\ Value(f, <<"v">>) = old
  BY DEF Writable, Value, Nowhere
<1>4. Written(st, <<"v">>, val) = s
  <2>1. Front(st) \in Seq(Entries) /\ Len(Front(st)) = Len(st) - 1 /\ \A i \in 1 .. Len(st) - 1 : Front(st)[i] = st[i]
    BY <1>1, FrontLast
  <2>2. e \in Entries
    BY <1>2 DEF Entries
  <2>3. s \in Seq(Entries) /\ Len(s) = Len(st) /\ s[Len(st)] = e /\ \A i \in 1 .. Len(st) - 1 : s[i] = st[i]
    BY <1>1, <2>1, <2>2
  <2> HIDE DEF s
  <2> DEFINE t == [st EXCEPT ![Len(st)].v = val]
  <2>4. DOMAIN st = 1 .. Len(st) /\ Len(st) \in Nat /\ Len(st) \in DOMAIN st
    BY <1>1
  <2>5. t[Len(st)] = e /\ \A i \in 1 .. Len(st) - 1 : t[i] = st[i]
    BY <2>4 DEF Last
  <2>6. t \in Seq(Entries) /\ Len(t) = Len(st)
    BY <1>1, <2>2, <2>4, <2>5
  <2> HIDE DEF t
  <2>7. \A i \in 1 .. Len(st) : t[i] = s[i]
    BY <2>3, <2>4, <2>5
  <2>8. t = s
    BY <2>3, <2>6, <2>7, SeqEqual
  <2> QED
    BY <2>8 DEF Written, t
<1> HIDE DEF c, s, e
<1>5. val # NULL => Alive(h, val)
  <2>1. val # NULL => val \in Ids /\ Hand(val, NULL)[val] > 0
    BY HandType, IsType DEF Values
  <2> QED
    BY <2>1, HeldLives
<1>6. Sound(c, glob, st, Hand(val, val)) /\ Alike(c, h)
  <2>1. \A i \in Ids : Hand(val, val)[i] = Hand(val, NULL)[i] + Is(val, i)
    <3>1. \A i \in Ids : Is(NULL, i) = 0
      BY DEF Is, ObjectsAssumption
    <3> QED
      BY <3>1, HandType, IsType
  <2> QED
    BY <1>5, <2>1, HandType, Took DEF c
<1>7. Sound(c, glob, s, Hand(val, old))
  <2>1. ASSUME NEW i \in Ids PROVE Hand(val, old)[i] + Weight(e, i) = Hand(val, val)[i] + Weight(f, i)
    <3>1. /\ Weight(e, i) = Is(f.this, i) + Is(val, i) + (IF f.loop = << >> THEN 0 ELSE Is(f.loop[1], i))
          /\ Weight(f, i) = Is(f.this, i) + Is(old, i) + (IF f.loop = << >> THEN 0 ELSE Is(f.loop[1], i))
      BY <1>2, BodyWeight
    <3>2. Hand(val, old)[i] = Is(val, i) + Is(old, i) /\ Hand(val, val)[i] = Is(val, i) + Is(val, i)
      BY HandType
    <3>3. Is(val, i) \in Nat /\ Is(old, i) \in Nat /\ Is(f.this, i) \in Nat /\ Is(f.loop[1], i) \in Nat
      BY IsType
    <3> HIDE DEF f, old
    <3> QED
      BY <3>1, <3>2, <3>3
  <2> QED
    BY <1>2, <1>6, <2>1, HandType, Rewritten DEF s
<1>8. CASE last
  <2>1. heap' = c /\ glob' = glob /\ stack' = s \o (Drop(val) \o Drop(old))
    BY <1>3, <1>4, <1>8 DEF PH7_MemObjStore, c
  <2> QED
    BY <1>1, <1>6, <1>7, <2>1, DroppedBoth
<1>9. CASE ~ last
  <2>1. heap' = Ref(Ref(c, old, -1), val, -1) /\ glob' = glob /\ stack' = s
    <3>1. heap' = Ref(Ref(c, old, -1), val, -1) /\ glob' = glob /\ stack' = s \o << >>
      BY <1>3, <1>4, <1>9 DEF PH7_MemObjStore, c
    <3>2. s \in Seq(Entries)
      BY <1>7 DEF Sound, Typed
    <3> QED
      BY <3>1, <3>2
  <2>2. (old # NULL => Alive(c, old)) /\ (val # NULL => Alive(c, val))
    <3>1. /\ old # NULL => old \in Ids /\ Hand(val, old)[old] > 0
          /\ val # NULL => val \in Ids /\ Hand(val, old)[val] > 0
      BY <1>1, HandType, IsType DEF Values
    <3> QED
      BY <1>7, <3>1, HeldLives
  <2>3. c \in [Ids -> Chunks]
    BY <1>6 DEF Sound, Typed
  <2>4. /\ heap' \in [Ids -> Chunks] /\ Alike(heap', c)
        /\ \A i \in Ids : Alive(c, i) => heap'[i].iRef = c[i].iRef - Is(old, i) - Is(val, i)
    BY <1>1, <2>1, <2>2, <2>3, GaveUp
  <2>5. old # NULL => c[old].iRef # 1 \/ c[old].destroyed
    BY <1>9
  <2>6. val # NULL => Held(c, glob, s, val) >= 1
    <3> SUFFICES ASSUME val # NULL PROVE Held(c, glob, s, val) >= 1
      OBVIOUS
    <3>1. val \in Ids /\ glob \in [Globals -> Values] /\ s \in Seq(Entries) /\ Len(s) > 0
      BY <1>7 DEF Values, Sound, Typed, Shape
    <3>2. Last(s) = e
      <4>1. Front(st) \in Seq(Entries) /\ e \in Entries
        BY <1>1, <1>2, FrontLast DEF Entries
      <4> QED
        BY <4>1, AppendAt DEF s
    <3>3. Weight(e, val) > 0
      <4>1. Weight(e, val) = Is(e.this, val) + Is(val, val) + (IF e.loop = << >> THEN 0 ELSE Is(e.loop[1], val))
        BY <1>2, <3>1, BodyWeight
      <4>2. Is(val, val) = 1 /\ Is(e.this, val) \in Nat /\ Is(e.loop[1], val) \in Nat
        BY IsType
      <4> QED
        BY <4>1, <4>2
    <3>4. OnStack(s, val) > 0
      BY <3>1, <3>2, <3>3, HeldBy
    <3> QED
      BY <3>1, <3>4, HeldType DEF Held
  <2>7. Sound(heap', glob, s, Hand(NULL, NULL))
    <3> DEFINE k == heap'
    <3>1. /\ k \in [Ids -> Chunks] /\ Alike(k, c)
          /\ \A i \in Ids : Alive(c, i) => k[i].iRef = c[i].iRef - Is(old, i) - Is(val, i)
      BY <2>4
    <3>2. old \in Values
      BY <1>1
    <3> HIDE DEF k, old, f
    <3>3. Sound(k, glob, s, Hand(NULL, NULL))
      BY <1>7, <2>5, <2>6, <3>1, <3>2, Settled
    <3> QED
      BY <3>3 DEF k
  <2>8. Alike(heap', h)
    BY <1>6, <2>4, AlikeTransitive
  <2> QED
    BY <2>1, <2>7, <2>8
<1> QED
  BY <1>8, <1>9

(* A global variable. *)
LEMMA StoreGlobal ==
  ASSUME ObjectsAssumption, NEW h, NEW st, NEW val \in Values, NEW n \in Globals,
         Sound(h, glob, st, Hand(val, NULL)), val # NULL => ~ Gone(h, val),
         PH7_MemObjStore(h, st, <<"glob", n>>, val)
  PROVE  Sound(heap', glob', stack', Hand(NULL, NULL)) /\ Alike(heap', h)
<1> DEFINE f == Last(st)
           old == glob[n]
           c == Ref(h, val, 1)
           g == [glob EXCEPT ![n] = val]
           last == old # NULL /\ c[old].iRef = 1 /\ ~ c[old].destroyed
<1>1. /\ st \in Seq(Entries) /\ h \in [Ids -> Chunks] /\ glob \in [Globals -> Values] /\ old \in Values
      /\ g[n] = val
  BY DEF Sound, Typed
<1>2. Writable(f, <<"glob", n>>) /\ Value(f, <<"glob", n>>) = old /\ Written(st, <<"glob", n>>, val) = st
  BY DEF Writable, Value, Nowhere, Written
<1>3. val # NULL => Alive(h, val)
  <2>1. val # NULL => val \in Ids /\ Hand(val, NULL)[val] > 0
    BY HandType, IsType DEF Values
  <2> QED
    BY <2>1, HeldLives
<1> HIDE DEF c
<1>4. Sound(c, glob, st, Hand(val, val)) /\ Alike(c, h)
  <2>1. \A i \in Ids : Hand(val, val)[i] = Hand(val, NULL)[i] + Is(val, i)
    <3>1. \A i \in Ids : Is(NULL, i) = 0
      BY DEF Is, ObjectsAssumption
    <3> QED
      BY <3>1, HandType, IsType
  <2> QED
    BY <1>3, <2>1, HandType, Took DEF c
<1>5. Sound(c, g, st, Hand(val, old))
  <2>1. \A i \in Ids : Hand(val, old)[i] + Is(val, i) = Hand(val, val)[i] + Is(old, i)
    BY HandType, IsType
  <2>2. val # NULL => ~ Gone(c, val)
    BY <1>4, AlikeDue DEF Values
  <2> QED
    BY <1>4, <2>1, <2>2, HandType, GlobalSet
<1> HIDE DEF g
<1>6. CASE last
  <2>1. heap' = c /\ glob' = g /\ stack' = st \o (Drop(val) \o Drop(old))
    BY <1>2, <1>6 DEF PH7_MemObjStore, c, g
  <2> QED
    BY <1>1, <1>4, <1>5, <2>1, DroppedBoth
<1>7. CASE ~ last
  <2>1. heap' = Ref(Ref(c, old, -1), val, -1) /\ glob' = g /\ stack' = st
    <3>1. heap' = Ref(Ref(c, old, -1), val, -1) /\ glob' = g /\ stack' = st \o << >>
      BY <1>2, <1>7 DEF PH7_MemObjStore, c, g
    <3> QED
      BY <1>1, <3>1
  <2>2. (old # NULL => Alive(c, old)) /\ (val # NULL => Alive(c, val))
    <3>1. /\ old # NULL => old \in Ids /\ Hand(val, old)[old] > 0
          /\ val # NULL => val \in Ids /\ Hand(val, old)[val] > 0
      BY <1>1, HandType, IsType, SMTT(30) DEF Values
    <3> QED
      BY <1>5, <3>1, HeldLives
  <2>3. c \in [Ids -> Chunks]
    BY <1>4 DEF Sound, Typed
  <2>4. /\ heap' \in [Ids -> Chunks] /\ Alike(heap', c)
        /\ \A i \in Ids : Alive(c, i) => heap'[i].iRef = c[i].iRef - Is(old, i) - Is(val, i)
    BY <1>1, <2>1, <2>2, <2>3, GaveUp
  <2>5. old # NULL => c[old].iRef # 1 \/ c[old].destroyed
    BY <1>7
  <2>6. val # NULL => Held(c, g, st, val) >= 1
    <3> SUFFICES ASSUME val # NULL PROVE Held(c, g, st, val) >= 1
      OBVIOUS
    <3>1. val \in Ids /\ g \in [Globals -> Values]
      BY <1>5 DEF Values, Sound, Typed
    <3>2. InGlobals(g, val) > 0
      BY <1>1, <3>1, HeldBy
    <3> QED
      BY <1>1, <3>1, <3>2, HeldType DEF Held
  <2>7. Sound(heap', g, st, Hand(NULL, NULL))
    <3> DEFINE k == heap'
    <3>1. /\ k \in [Ids -> Chunks] /\ Alike(k, c)
          /\ \A i \in Ids : Alive(c, i) => k[i].iRef = c[i].iRef - Is(old, i) - Is(val, i)
      BY <2>4
    <3>2. old \in Values
      BY <1>1
    <3> HIDE DEF k, old
    <3>3. Sound(k, g, st, Hand(NULL, NULL))
      BY <1>5, <2>5, <2>6, <3>1, <3>2, Settled
    <3> QED
      BY <3>3 DEF k
  <2>8. Alike(heap', h)
    BY <1>4, <2>4, AlikeTransitive
  <2> QED
    BY <2>1, <2>7, <2>8
<1> QED
  BY <1>6, <1>7

(* All of an instance but its attribute stays as it is. *)
Similar(k, h) ==
  \A i \in Ids : /\ Alive(k, i) <=> Alive(h, i)
                 /\ Alive(h, i) => k[i].destroyed = h[i].destroyed /\ k[i].class = h[i].class

(* The attribute of an instance, which is w. *)
LEMMA StoreAttribute ==
  ASSUME ObjectsAssumption, NEW h, NEW st, NEW val \in Values, NEW place, NEW w \in Ids,
         Sound(h, glob, st, Hand(val, NULL)), val # NULL => ~ Gone(h, val),
         heap \in [Ids -> Chunks], Alike(h, heap), Alive(h, w),
         place[1] \in {"attr", "this"}, place # <<"this">>, place # Nowhere, place # <<"v">>,
         Owner(Last(st), place) = w,
         PH7_MemObjStore(h, st, place, val)
  PROVE  Sound(heap', glob', stack', Hand(NULL, NULL)) /\ Similar(heap', h)
<1> DEFINE f == Last(st)
           old == h[w].p
           c == Ref(h, val, 1)
           m == SetValue(c, w, val)
           last == old # NULL /\ c[old].iRef = 1 /\ ~ c[old].destroyed
<1>1. st \in Seq(Entries) /\ h \in [Ids -> Chunks] /\ w # NULL /\ old \in Values /\ heap[w].p = old
  <2>1. st \in Seq(Entries) /\ h \in [Ids -> Chunks] /\ w # NULL
    BY DEF Sound, Typed, ObjectsAssumption
  <2>2. old \in Values
    BY <2>1, IntCount
  <2> QED
    BY <2>1, <2>2 DEF Alike
<1>2. Writable(f, place) /\ Value(f, place) = old /\ Written(st, place, val) = st
  <2>1. place[1] # "glob"
    OBVIOUS
  <2>2. Value(f, place) = old
    BY <1>1, <2>1 DEF Value
  <2> QED
    BY <1>1, <2>2 DEF Writable, Written
<1>3. val # NULL => Alive(h, val)
  <2>1. val # NULL => val \in Ids /\ Hand(val, NULL)[val] > 0
    BY HandType, IsType DEF Values
  <2> QED
    BY <2>1, HeldLives
<1> HIDE DEF c
<1>4. Sound(c, glob, st, Hand(val, val)) /\ Alike(c, h)
  <2>1. \A i \in Ids : Hand(val, val)[i] = Hand(val, NULL)[i] + Is(val, i)
    <3>1. \A i \in Ids : Is(NULL, i) = 0
      BY DEF Is, ObjectsAssumption
    <3> QED
      BY <3>1, HandType, IsType
  <2> QED
    BY <1>3, <2>1, HandType, Took DEF c
<1>5. Sound(m, glob, st, Hand(val, old))
  <2>1. Alive(c, w) /\ c[w].p = old
    BY <1>4 DEF Alike
  <2>2. \A i \in Ids : Hand(val, old)[i] + Is(val, i) = Hand(val, val)[i] + Is(c[w].p, i)
    BY <2>1, HandType, IsType
  <2>3. val # NULL => ~ Gone(c, val)
    BY <1>4, AlikeDue DEF Values
  <2> HIDE DEF old
  <2> QED
    BY <1>4, <2>1, <2>2, <2>3, HandType, AttributeSet
<1>6. c \in [Ids -> Chunks] /\ Alive(c, w)
  BY <1>4 DEF Sound, Typed, Alike
<1>7. /\ m \in [Ids -> Chunks]
      /\ \A i \in Ids : /\ Alive(m, i) <=> Alive(c, i)
                        /\ Alive(c, i) => /\ m[i].destroyed = c[i].destroyed /\ m[i].class = c[i].class
                                          /\ m[i].iRef = c[i].iRef
                                          /\ m[i].p = (IF i = w THEN val ELSE c[i].p)
  BY <1>6, ValueFacts
<1>8. Similar(m, h)
  BY <1>4, <1>7 DEF Alike, Similar
<1>9. CASE last
  <2>1. heap' = m /\ glob' = glob /\ stack' = st \o (Drop(val) \o Drop(old))
    <3>1. heap' = [c EXCEPT ![w].p = val] /\ glob' = glob /\ stack' = st \o (Drop(val) \o Drop(old))
      BY <1>2, <1>9 DEF PH7_MemObjStore, c
    <3> QED
      BY <3>1 DEF SetValue
  <2> QED
    BY <1>1, <1>5, <1>8, <2>1, DroppedBoth
<1>10. CASE ~ last
  <2> DEFINE d == Ref(Ref(c, old, -1), val, -1)
             k == SetValue(d, w, val)
  <2>1. heap' = k /\ glob' = glob /\ stack' = st
    <3>1. heap' = [d EXCEPT ![w].p = val] /\ glob' = glob /\ stack' = st \o << >>
      BY <1>2, <1>10 DEF PH7_MemObjStore, c
    <3> QED
      BY <1>1, <3>1 DEF SetValue
  <2>2. (old # NULL => Alive(m, old)) /\ (val # NULL => Alive(m, val))
    <3>a. old \in Values
      BY <1>1
    <3> HIDE DEF old, m
    <3>1. /\ old # NULL => old \in Ids /\ Hand(val, old)[old] > 0
          /\ val # NULL => val \in Ids /\ Hand(val, old)[val] > 0
      BY <3>a, HandType, IsType DEF Values
    <3> QED
      BY <1>5, <3>1, HeldLives
  <2>3. (old # NULL => Alive(c, old)) /\ (val # NULL => Alive(c, val))
    BY <1>1, <1>7, <2>2 DEF Values
  <2>4. /\ d \in [Ids -> Chunks] /\ Alike(d, c)
        /\ \A i \in Ids : Alive(c, i) => d[i].iRef = c[i].iRef - Is(old, i) - Is(val, i)
    BY <1>1, <1>6, <2>3, GaveUp
  <2> HIDE DEF d
  <2>5. Alive(d, w)
    BY <1>6, <2>4 DEF Alike
  <2>6. /\ k \in [Ids -> Chunks]
        /\ \A i \in Ids : /\ Alive(k, i) <=> Alive(d, i)
                          /\ Alive(d, i) => /\ k[i].destroyed = d[i].destroyed /\ k[i].class = d[i].class
                                            /\ k[i].iRef = d[i].iRef
                                            /\ k[i].p = (IF i = w THEN val ELSE d[i].p)
    BY <2>4, <2>5, ValueFacts
  <2> HIDE DEF k, m, old
  <2>7. Alike(k, m)
    BY <1>7, <2>4, <2>6 DEF Alike
  <2>8. \A i \in Ids : Alive(m, i) => k[i].iRef = m[i].iRef - Is(old, i) - Is(val, i)
    BY <1>7, <2>4, <2>6 DEF Alike
  <2>9. old # NULL => m[old].iRef # 1 \/ m[old].destroyed
    BY <1>1, <1>7, <1>10, <2>2 DEF Values
  <2>10. val # NULL => Held(m, glob, st, val) >= 1
    <3> SUFFICES ASSUME val # NULL PROVE Held(m, glob, st, val) >= 1
      OBVIOUS
    <3>1. val \in Ids /\ glob \in [Globals -> Values]
      BY <1>5 DEF Values, Sound, Typed
    <3>2. Alive(m, w) /\ m[w].p = val
      BY <1>6, <1>7
    <3>3. InAttributes(m, val) > 0
      BY <1>1, <3>1, <3>2, HeldBy
    <3> QED
      BY <1>1, <3>1, <3>3, HeldType DEF Held
  <2>11. Sound(k, glob, st, Hand(NULL, NULL))
    <3>1. old \in Values /\ k \in [Ids -> Chunks]
      BY <1>1, <2>6
    <3> HIDE DEF f
    <3> QED
      BY <1>5, <2>7, <2>8, <2>9, <2>10, <3>1, Settled, ZenonT(60)
  <2>12. Similar(k, h)
    BY <1>8, <2>7 DEF Alike, Similar
  <2> QED
    BY <2>1, <2>11, <2>12
<1> QED
  BY <1>9, <1>10

(* PH7_MemObjStore of an operand in hand keeps the invariant. *)
LEMMA StoreSound ==
  ASSUME ObjectsAssumption, NEW h, NEW st, NEW val \in Values, NEW place,
         Sound(h, glob, st, Hand(val, NULL)), Last(st).do \in Scripts, place \in Stores(Last(st)),
         Storable(h, val, place), heap \in [Ids -> Chunks], Alike(h, heap),
         PH7_MemObjStore(h, st, place, val)
  PROVE  Sound(heap', glob', stack', Hand(NULL, NULL)) /\ Similar(heap', h)
<1> DEFINE f == Last(st)
<1>1. st \in Seq(Entries) /\ Len(st) > 0 /\ glob \in [Globals -> Values]
  BY DEF Sound, Typed, Shape
<1>2. f \in Entries
  BY <1>1, FrontLast
<1>3. f.do # "main" => f \in BodyRecords
  BY <1>2, EntryValue DEF Scripts
<1>4. Alike(heap', h) => Similar(heap', h)
  BY DEF Alike, Similar
<1>5. CASE ~ Writable(f, place)
  BY <1>4, <1>5, StoreNowhere
<1>6. CASE place = <<"v">>
  <2>1. f.do # "main"
    BY <1>6 DEF Stores, Names, Nowhere
  <2> QED
    BY <1>3, <1>4, <1>6, <2>1, StoreLocal
<1>7. CASE place \in Names
  <2>1. PICK n \in Globals : place = <<"glob", n>>
    BY <1>7 DEF Names
  <2>2. val # NULL => ~ Gone(h, val)
    BY <2>1 DEF Storable, Nowhere
  <2> QED
    BY <1>4, <2>1, <2>2, StoreGlobal
<1>8. CASE Writable(f, place) /\ place # <<"v">> /\ place \notin Names
  <2> DEFINE w == Owner(f, place)
  <2>1. place # Nowhere /\ w # NULL /\ place[1] \in {"attr", "this"} /\ place # <<"this">>
    <3>1. place # Nowhere
      BY <1>8 DEF Writable
    <3>2. (\E n \in Globals : place = <<"attr", n>>) \/ place = <<"this", "p">>
      BY <1>8, <3>1 DEF Stores
    <3>3. place[1] \in {"attr", "this"} /\ place # <<"this">>
      BY <3>2
    <3> QED
      BY <1>8, <3>1, <3>3 DEF Writable
  <2>2. w \in Ids /\ Alive(h, w)
    <3>1. CASE \E n \in Globals : place = <<"attr", n>>
      <4>1. PICK n \in Globals : place = <<"attr", n>>
        BY <3>1
      <4>2. w = glob[n] /\ w \in Ids
        BY <1>1, <2>1, <4>1 DEF Owner, Values
      <4> QED
        BY <1>1, <4>2, HeldBy, HeldLives DEF Sound, Typed
    <3>2. CASE place = <<"this", "p">>
      <4>1. f.do # "main"
        BY <3>2 DEF Stores, Names, Nowhere
      <4>2. w = f.this /\ f \in BodyRecords
        BY <1>3, <3>2, <4>1 DEF Owner
      <4>3. w \in Ids
        BY <2>1, <4>2 DEF BodyRecords, Values
      <4>4. Weight(f, w) > 0
        <5>1. Weight(f, w) = Is(f.this, w) + Is(f.v, w) + (IF f.loop = << >> THEN 0 ELSE Is(f.loop[1], w))
          BY <4>2, <4>3, BodyWeight
        <5>2. Is(f.this, w) = 1 /\ Is(f.v, w) \in Nat /\ Is(f.loop[1], w) \in Nat
          BY <4>2, IsType
        <5> QED
          BY <5>1, <5>2
      <4>5. OnStack(st, w) > 0
        BY <1>1, <4>3, <4>4, HeldBy
      <4> QED
        BY <4>3, <4>5, HeldLives
    <3> QED
      BY <1>8, <2>1, <3>1, <3>2 DEF Stores
  <2>3. val # NULL => ~ Gone(h, val)
    BY <1>8, <2>1 DEF Storable
  <2> QED
    BY <1>8, <2>1, <2>2, <2>3, StoreAttribute
<1> QED
  BY <1>5, <1>6, <1>7, <1>8
----------------------------------------------------------------------------
(***************************************************************************)
(* The inductive invariant: with nothing in hand, all of the above, and    *)
(* the destructors that have run are those of the instances being released.*)
(***************************************************************************)
Nothing == Hand(NULL, NULL)
RanOnce(r, h) == \A o \in Ids : r[o] = IF Due(h, o) THEN 1 ELSE 0
IInv ==
  /\ wild = FALSE /\ ops \in Nat /\ ran \in [Ids -> Nat]
  /\ Sound(heap, glob, stack, Nothing)
  /\ RanOnce(ran, heap)

SameDue(k, h) == \A i \in Ids : Due(k, i) <=> Due(h, i)

LEMMA SimilarDue ==
  ASSUME NEW h, NEW k, Similar(k, h)
  PROVE  SameDue(k, h)
  BY DEF Similar, SameDue, Due, Gone

LEMMA NothingType == Nothing \in [Ids -> Nat] /\ (ObjectsAssumption => \A i \in Ids : Nothing[i] = 0)
<1>1. Nothing \in [Ids -> Nat]
  BY HandType DEF Nothing
<1>2. ASSUME ObjectsAssumption, NEW i \in Ids PROVE Nothing[i] = 0
  <2>1. Nothing[i] = Is(NULL, i) + Is(NULL, i)
    BY HandType DEF Nothing
  <2>2. Is(NULL, i) = 0
    BY <1>2 DEF Is, ObjectsAssumption
  <2> QED
    BY <2>1, <2>2
<1> QED
  BY <1>1, <1>2

(* One more or one less in hand. *)
LEMMA HandSteps ==
  ASSUME ObjectsAssumption, NEW a, NEW b
  PROVE  /\ \A i \in Ids : Hand(a, NULL)[i] = Nothing[i] + Is(a, i)
         /\ \A i \in Ids : Nothing[i] + Is(a, i) = Hand(a, NULL)[i]
         /\ \A i \in Ids : Hand(a, b)[i] = Hand(a, NULL)[i] + Is(b, i)
         /\ \A i \in Ids : Hand(a, NULL)[i] + Is(b, i) = Hand(a, b)[i]
         /\ Hand(a, b) \in [Ids -> Nat] /\ Hand(a, NULL) \in [Ids -> Nat]
         /\ Nothing \in [Ids -> Nat]
<1>1. \A i \in Ids : Is(NULL, i) = 0 /\ Nothing[i] = 0
  BY NothingType DEF Is, ObjectsAssumption
<1>2. \A i \in Ids : Hand(a, NULL)[i] = Is(a, i) + Is(NULL, i) /\ Hand(a, b)[i] = Is(a, i) + Is(b, i)
  BY HandType
<1>3. \A i \in Ids : Hand(a, NULL)[i] = Is(a, i)
  BY <1>1, <1>2, IsType
<1>4. /\ Hand(a, b) \in [Ids -> Nat] /\ Hand(a, NULL) \in [Ids -> Nat]
      /\ Nothing \in [Ids -> Nat]
  BY HandType, NothingType
<1>5. \A i \in Ids : Is(a, i) \in Nat /\ Is(b, i) \in Nat
  BY IsType
<1> QED
  BY <1>1, <1>2, <1>3, <1>4, <1>5

LEMMA TopFacts ==
  ASSUME ObjectsAssumption, NEW x, Sound(heap, glob, stack, x)
  PROVE  /\ heap \in [Ids -> Chunks] /\ glob \in [Globals -> Values] /\ stack \in Seq(Entries)
         /\ Len(stack) > 0 /\ Top \in Entries /\ Below \in Seq(Entries)
         /\ Top = Last(stack) /\ Below = Front(stack)
         /\ Top.do \in Bodies => Top \in BodyRecords
         /\ \A i \in Ids : Weight(Top, i) > 0 => Alive(heap, i)
         /\ \A n \in Globals : glob[n] # NULL => glob[n] \in Ids /\ Alive(heap, glob[n])
<1>1. heap \in [Ids -> Chunks] /\ glob \in [Globals -> Values] /\ stack \in Seq(Entries) /\ Len(stack) > 0
  BY DEF Sound, Typed, Shape
<1>2. Top \in Entries /\ Below \in Seq(Entries)
  BY <1>1, FrontLast DEF Top, Below
<1>3. Top.do \in Bodies => Top \in BodyRecords
  BY <1>2, EntryValue
<1>4. \A i \in Ids : Weight(Top, i) > 0 => Alive(heap, i)
  <2> SUFFICES ASSUME NEW i \in Ids, Weight(Top, i) > 0 PROVE Alive(heap, i)
    OBVIOUS
  <2>1. OnStack(stack, i) > 0
    BY <1>1, HeldBy DEF Top
  <2> QED
    BY <2>1, HeldLives
<1>5. \A n \in Globals : glob[n] # NULL => glob[n] \in Ids /\ Alive(heap, glob[n])
  <2> SUFFICES ASSUME NEW n \in Globals, glob[n] # NULL PROVE glob[n] \in Ids /\ Alive(heap, glob[n])
    OBVIOUS
  <2>1. glob[n] \in Ids
    BY <1>1 DEF Values
  <2>2. InGlobals(glob, glob[n]) > 0
    BY <1>1, <2>1, HeldBy
  <2> QED
    BY <2>1, <2>2, HeldLives
<1> QED
  BY <1>1, <1>2, <1>3, <1>4, <1>5 DEF Top, Below

LEMMA BodyLives ==
  ASSUME ObjectsAssumption, NEW x, Sound(heap, glob, stack, x), Top.do \in Bodies
  PROVE  /\ Top.this \in Values /\ (Top.this # NULL => Alive(heap, Top.this))
         /\ Top.v \in Values /\ (Top.v # NULL => Alive(heap, Top.v))
         /\ Top.loop # << >> => Top.loop[1] \in Ids /\ Alive(heap, Top.loop[1]) /\ Top.loop[2] = <<"v">>
<1>1. Top \in BodyRecords
  BY TopFacts
<1>2. /\ Top.this \in Values /\ Top.v \in Values
      /\ Top.loop # << >> => Top.loop[1] \in Ids /\ Top.loop[2] = <<"v">>
  BY <1>1 DEF BodyRecords
<1>3. ASSUME NEW i \in Ids, Is(Top.this, i) = 1 \/ Is(Top.v, i) = 1 \/ (Top.loop # << >> /\ Is(Top.loop[1], i) = 1)
      PROVE  Alive(heap, i)
  <2>1. Weight(Top, i) = Is(Top.this, i) + Is(Top.v, i) + (IF Top.loop = << >> THEN 0 ELSE Is(Top.loop[1], i))
    BY <1>1, BodyWeight
  <2>2. Is(Top.this, i) \in Nat /\ Is(Top.v, i) \in Nat /\ Is(Top.loop[1], i) \in Nat
    BY IsType
  <2>3. Weight(Top, i) > 0
    BY <1>3, <2>1, <2>2
  <2> QED
    BY <2>3, TopFacts
<1>4. Top.this # NULL => Alive(heap, Top.this)
  BY <1>2, <1>3, IsType DEF Values
<1>5. Top.v # NULL => Alive(heap, Top.v)
  BY <1>2, <1>3, IsType DEF Values
<1>6. Top.loop # << >> => Alive(heap, Top.loop[1])
  BY <1>2, <1>3, IsType
<1> QED
  BY <1>2, <1>4, <1>5, <1>6

(* What an expression of the running script is worth. *)
LEMMA ValueLives ==
  ASSUME ObjectsAssumption, NEW x, Sound(heap, glob, stack, x), Running, NEW source \in Sources(Top)
  PROVE  /\ Value(Top, source) \in Values
         /\ Value(Top, source) # NULL => Value(Top, source) \in Ids /\ Alive(heap, Value(Top, source))
<1> DEFINE val == Value(Top, source)
<1>1. ASSUME NEW o \in Values, o # NULL => Alive(heap, o)
      PROVE  LET q == IF o = NULL THEN NULL ELSE heap[o].p
             IN q \in Values /\ (q # NULL => Alive(heap, q))
  <2>1. CASE o = NULL
    BY <2>1 DEF Values
  <2>2. CASE o # NULL
    <3>1. o \in Ids /\ Alive(heap, o) /\ heap[o].p \in Values
      BY <1>1, <2>2, IntCount, TopFacts DEF Values
    <3>2. heap[o].p # NULL => heap[o].p \in Ids /\ InAttributes(heap, heap[o].p) > 0
      BY <3>1, TopFacts, HeldBy DEF Values
    <3> QED
      BY <2>2, <3>1, <3>2, HeldLives
  <2> QED
    BY <2>1, <2>2
<1>2. CASE \E n \in Globals : source = <<"glob", n>>
  <2>1. PICK n \in Globals : source = <<"glob", n>>
    BY <1>2
  <2>2. val = glob[n]
    BY <2>1 DEF Value
  <2> QED
    BY <2>2, TopFacts DEF Values
<1>3. CASE \E n \in Globals : source = <<"attr", n>>
  <2>1. PICK n \in Globals : source = <<"attr", n>>
    BY <1>3
  <2>2. Owner(Top, source) = glob[n]
    BY <2>1 DEF Owner
  <2>3. val = IF glob[n] = NULL THEN NULL ELSE heap[glob[n]].p
    BY <2>1, <2>2 DEF Value
  <2>4. glob[n] \in Values /\ (glob[n] # NULL => Alive(heap, glob[n]))
    BY TopFacts
  <2>5. val \in Values /\ (val # NULL => Alive(heap, val))
    BY <1>1, <2>3, <2>4
  <2> QED
    BY <2>5 DEF Values
<1>4. CASE Top.do # "main" /\ source \in {<<"v">>, <<"this">>, <<"this", "p">>}
  <2>1. Top.do \in Bodies
    BY <1>4 DEF Running, Scripts
  <2>2. /\ Top.this \in Values /\ (Top.this # NULL => Alive(heap, Top.this))
        /\ Top.v \in Values /\ (Top.v # NULL => Alive(heap, Top.v))
    BY <2>1, BodyLives
  <2>3. CASE source = <<"v">>
    <3>1. val = Top.v
      BY <2>3 DEF Value
    <3> QED
      BY <2>2, <3>1 DEF Values
  <2>4. CASE source = <<"this">>
    <3>1. val = Top.this
      BY <2>4 DEF Value
    <3> QED
      BY <2>2, <3>1 DEF Values
  <2>5. CASE source = <<"this", "p">>
    <3>1. Owner(Top, source) = Top.this
      BY <2>5 DEF Owner
    <3>2. val = IF Top.this = NULL THEN NULL ELSE heap[Top.this].p
      BY <2>5, <3>1 DEF Value
    <3>3. val \in Values /\ (val # NULL => Alive(heap, val))
      BY <1>1, <2>2, <3>2
    <3> QED
      BY <3>3 DEF Values
  <2> QED
    BY <1>4, <2>3, <2>4, <2>5
<1>5. \/ \E n \in Globals : source = <<"glob", n>>
      \/ \E n \in Globals : source = <<"attr", n>>
      \/ Top.do # "main" /\ source \in {<<"v">>, <<"this">>, <<"this", "p">>}
  BY DEF Sources, Variables, Locals, Attributes
<1> QED
  BY <1>2, <1>3, <1>4, <1>5
----------------------------------------------------------------------------
(* The statements keep the invariant.                                      *)

Keeps == Sound(heap', glob', stack', Nothing) /\ SameDue(heap', heap)

LEMMA DueKept ==
  ASSUME NEW h, NEW k, NEW m, Alike(k, h), Similar(m, k)
  PROVE  SameDue(m, h)
  BY DEF Alike, Similar, SameDue, Due, Gone

LEMMA PlacesStored ==
  ASSUME NEW f, NEW place \in Variables(f) \cup Attributes(f) \cup Results(f)
  PROVE  place \in Stores(f)
  BY DEF Variables, Attributes, Results, Locals, Stores, Names

LEMMA AssignSound ==
  ASSUME ObjectsAssumption, ~ Careless, IInv, Running,
         NEW place \in Variables(Top) \cup Attributes(Top), NEW source \in Sources(Top),
         Assign(place, source)
  PROVE  Keeps
<1> DEFINE val == Value(Top, source)
           h == Ref(heap, val, 1)
<1>1. Sound(heap, glob, stack, Nothing)
  BY DEF IInv
<1>2. val \in Values /\ val # NULL /\ Alive(heap, val) /\ heap \in [Ids -> Chunks]
  BY <1>1, ValueLives, TopFacts DEF Assign
<1>3. MayKeep(val, place) /\ PH7_MemObjStore(h, stack, place, val)
  BY DEF Assign
<1>4. place \in Stores(Last(stack)) /\ Last(stack).do \in Scripts
  BY PlacesStored DEF Running, Top
<1> HIDE DEF val
<1>5. Sound(h, glob, stack, Hand(val, NULL)) /\ Alike(h, heap)
  BY <1>1, <1>2, HandSteps, Took
<1>6. Storable(h, val, place)
  <2>1. ~ Gone(heap, val) \/ place \in {Nowhere, <<"v">>}
    BY <1>2, <1>3 DEF MayKeep, Dying, Living, Gone, Alive
  <2>2. Gone(h, val) <=> Gone(heap, val)
    BY <1>2, <1>5, AlikeDue DEF Values
  <2> QED
    BY <2>1, <2>2 DEF Storable
<1> HIDE DEF h
<1>7. Sound(heap', glob', stack', Nothing) /\ Similar(heap', h)
  BY <1>2, <1>3, <1>4, <1>5, <1>6, StoreSound DEF Nothing
<1> QED
  BY <1>5, <1>7, DueKept DEF Keeps

LEMMA ClearSound ==
  ASSUME ObjectsAssumption, ~ Careless, IInv, Running, NEW place \in Sources(Top), Clear(place)
  PROVE  Keeps
<1>1. Sound(heap, glob, stack, Nothing)
  BY DEF IInv
<1>2. heap \in [Ids -> Chunks] /\ NULL \in Values
  BY <1>1, TopFacts DEF Values
<1>3. CASE place = <<"this">>
  <2> DEFINE e == [Top EXCEPT !.this = NULL]
             a == Top.this
  <2>1. Top.do \in Bodies
    BY <1>3 DEF Running, Scripts, Sources, Variables, Attributes, Locals
  <2>2. Top \in BodyRecords /\ Top.this \in Values /\ Top = Last(stack) /\ Below = Front(stack)
    BY <1>1, <2>1, TopFacts, BodyLives
  <2>3. /\ e \in BodyRecords /\ e.do = Top.do /\ e.dest = Top.dest
        /\ e.this = NULL /\ e.v = Top.v /\ e.loop = Top.loop
    BY <2>2 DEF BodyRecords, Values
  <2>4. heap' = heap /\ glob' = glob /\ stack' = Append(Below, e) \o Drop(a)
    BY <1>3 DEF Clear
  <2> HIDE DEF e, a
  <2>5. \A i \in Ids : Hand(a, NULL)[i] + Weight(e, i) = Nothing[i] + Weight(Top, i)
    <3> TAKE i \in Ids
    <3>1. /\ Weight(Top, i) = Is(Top.this, i) + Is(Top.v, i)
                              + (IF Top.loop = << >> THEN 0 ELSE Is(Top.loop[1], i))
          /\ Weight(e, i) = Is(e.this, i) + Is(e.v, i) + (IF e.loop = << >> THEN 0 ELSE Is(e.loop[1], i))
      BY <2>2, <2>3, BodyWeight
    <3>2. Hand(a, NULL)[i] = Nothing[i] + Is(a, i) /\ Nothing[i] = 0
      BY HandSteps, NothingType
    <3>3. Is(NULL, i) = 0
      BY DEF Is, ObjectsAssumption
    <3>4. Is(Top.this, i) \in Nat /\ Is(Top.v, i) \in Nat /\ Is(Top.loop[1], i) \in Nat
      BY IsType
    <3> QED
      BY <2>3, <3>1, <3>2, <3>3, <3>4 DEF a
  <2>6. Sound(heap, glob, Append(Below, e), Hand(a, NULL))
    BY <1>1, <2>2, <2>3, <2>5, HandSteps, Rewritten
  <2>7. Sound(heap, glob, Append(Below, e) \o Drop(a), Nothing)
    <3>1. a \in Values
      BY <2>2 DEF a
    <3>2. \A i \in Ids : Nothing[i] + Is(a, i) = Hand(a, NULL)[i]
      BY HandSteps
    <3>3. Nothing \in [Ids -> Nat]
      BY HandSteps
    <3> QED
      BY <2>6, <3>1, <3>2, <3>3, Dropped
  <2> QED
    BY <2>4, <2>7 DEF Keeps, SameDue
<1>4. CASE place # <<"this">>
  <2>1. PH7_MemObjStore(heap, stack, place, NULL)
    BY <1>4 DEF Clear
  <2>2. place \in Stores(Last(stack)) /\ Last(stack).do \in Scripts
    BY <1>4, PlacesStored DEF Running, Top, Sources
  <2>3. Storable(heap, NULL, place) /\ Alike(heap, heap)
    BY DEF Storable, Alike
  <2>4. Sound(heap, glob, stack, Hand(NULL, NULL))
    BY <1>1 DEF Nothing
  <2>5. Sound(heap', glob', stack', Nothing) /\ Similar(heap', heap)
    BY <1>2, <2>1, <2>2, <2>3, <2>4, StoreSound DEF Nothing
  <2> QED
    BY <2>5, SimilarDue DEF Keeps
<1> QED
  BY <1>3, <1>4

LEMMA ResultFits ==
  ASSUME NEW f, NEW place \in Results(f)
  PROVE  Fits(place, f) /\ place \in Dests
  BY DEF Results, Locals, Fits, Dests, Names

LEMMA PushedOperand ==
  ASSUME ObjectsAssumption, NEW h, NEW g, NEW s, NEW x, Sound(h, g, s, x),
         NEW what \in {"store", "member", "invoke"}, NEW o \in Values, what # "store" => o # NULL,
         NEW dest \in Dests, Last(s).do \in Scripts, Fits(dest, Last(s)),
         NEW y \in [Ids -> Nat], \A i \in Ids : y[i] + Is(o, i) = x[i]
  PROVE  Sound(h, g, Append(s, Then(what, dest, o)), y)
<1> DEFINE e == Then(what, dest, o)
<1>1. e \in Entries /\ e.do = what /\ e.dest = dest /\ e.val = o
  BY DEF Then, Entries, Values
<1> HIDE DEF e
<1>2. \A i \in Ids : Weight(e, i) = Is(o, i)
  BY <1>1, OperandWeight
<1>3. Rests(e, Last(s)) /\ e.do \notin {"main", "free"}
  BY <1>1 DEF Rests
<1>4. \A i \in Ids : y[i] + Weight(e, i) = x[i]
  BY <1>2
<1>5. Sound(h, g, Append(s, e), y)
  BY <1>1, <1>3, <1>4, Pushed
<1> QED
  BY <1>5 DEF e

LEMMA PushedBody ==
  ASSUME ObjectsAssumption, NEW h, NEW g, NEW s, NEW x, Sound(h, g, s, x),
         NEW kind \in Bodies, NEW o \in Ids, NEW dest \in Dests,
         kind = "method" => Last(s).do \in Scripts /\ Fits(dest, Last(s)),
         NEW y \in [Ids -> Nat], \A i \in Ids : y[i] + Is(o, i) = x[i]
  PROVE  Sound(h, g, Append(s, Body(kind, o, dest)), y)
<1> DEFINE e == Body(kind, o, dest)
<1>1. e \in BodyRecords /\ e.do = kind /\ e.dest = dest /\ e.this = o /\ e.v = NULL /\ e.loop = << >>
  BY DEF Body, BodyRecords, Values
<1> HIDE DEF e
<1>2. e \in Entries /\ \A i \in Ids : Weight(e, i) = Is(o, i)
  <2>1. \A i \in Ids : Is(NULL, i) = 0
    BY DEF Is, ObjectsAssumption
  <2>2. \A i \in Ids : Weight(e, i) = Is(o, i) + Is(NULL, i) + 0
    BY <1>1, BodyWeight
  <2> QED
    BY <1>1, <2>1, <2>2, IsType, BodyWeight DEF Entries
<1>3. Rests(e, Last(s)) /\ e.do \notin {"main", "free"}
  BY <1>1 DEF Rests, OnScript, Bodies
<1>4. \A i \in Ids : y[i] + Weight(e, i) = x[i]
  BY <1>2
<1>5. Sound(h, g, Append(s, e), y)
  BY <1>2, <1>3, <1>4, Pushed
<1> QED
  BY <1>5 DEF e

(* A new instance is no instance in its destructor. *)
LEMMA BornDue ==
  ASSUME NEW h \in [Ids -> Chunks], NEW o \in Ids, h[o] = Unborn, NEW c \in Classes, NEW n \in Nat
  PROVE  SameDue([h EXCEPT ![o] = [Instance(c) EXCEPT !.iRef = n]], h)
<1> DEFINE k == [h EXCEPT ![o] = Newborn(c, n)]
<1>1. Newborn(c, n).destroyed = FALSE
  <2>1. n \in Int
    OBVIOUS
  <2> QED
    BY <2>1, ChunkMade
<1>2. k[o] = Newborn(c, n) /\ \A i \in Ids \ {o} : k[i] = h[i]
  OBVIOUS
<1> HIDE DEF k
<1>3. ~ Due(h, o) /\ ~ Due(k, o)
  BY <1>1, <1>2 DEF Due, Gone, Alive, Unborn
<1>4. SameDue(k, h)
  BY <1>2, <1>3 DEF SameDue, Due, Gone, Alive
<1> QED
  BY <1>4 DEF k, Newborn

LEMMA NewSound ==
  ASSUME ObjectsAssumption, ~ Careless, IInv, Running,
         NEW place \in Results(Top), NEW c \in Classes, NEW what \in {"store", "member", "invoke"},
         New(what, place, c)
  PROVE  Keeps
<1>1. Sound(heap, glob, stack, Nothing) /\ heap \in [Ids -> Chunks] /\ stack \in Seq(Entries)
  BY TopFacts DEF IInv
<1>2. PICK o \in Ids :
        /\ heap[o] = Unborn
        /\ heap' = [heap EXCEPT ![o] = [Instance(c) EXCEPT !.iRef = IF c \in Constructed THEN 2 ELSE 1]]
        /\ stack' = Append(stack, Then(what, place, o)) \o
                      (IF c \in Constructed THEN <<Body("construct", o, Nowhere)>> ELSE << >>)
  BY DEF New
<1>3. glob' = glob /\ Last(stack).do \in Scripts /\ Fits(place, Last(stack)) /\ place \in Dests
  BY ResultFits DEF New, Running, Top
<1> DEFINE b == IF c \in Constructed THEN o ELSE NULL
           n == IF c \in Constructed THEN 2 ELSE 1
           t == Append(stack, Then(what, place, o))
<1>4. n \in Nat /\ n >= 1 /\ n = 1 + Is(b, o) /\ (b = o \/ b = NULL) /\ o \in Values /\ o # NULL
  BY DEF Is, ObjectsAssumption, Values
<1>5. heap' = [heap EXCEPT ![o] = [Instance(c) EXCEPT !.iRef = n]]
  BY <1>2
<1>6. /\ c \in Constructed => b = o /\ stack' = t \o <<Body("construct", o, Nowhere)>>
      /\ c \notin Constructed => b = NULL /\ stack' = t \o << >>
  BY <1>2
<1> HIDE DEF b, n
<1>7. Sound(heap', glob, stack, Hand(o, b)) /\ SameDue(heap', heap)
  <2>1. Hand(o, b) \in [Ids -> Nat] /\ Hand(o, b)[o] = n
    BY <1>4, HandType, IsType
  <2>2. \A i \in Ids \ {o} : Hand(o, b)[i] = Nothing[i]
    <3> TAKE i \in Ids \ {o}
    <3>1. Is(o, i) = 0 /\ Is(b, i) = 0
      BY <1>4 DEF Is, ObjectsAssumption
    <3> QED
      BY <3>1, HandType, NothingType
  <2>3. Sound(heap', glob, stack, Hand(o, b))
    <3> DEFINE y == Hand(o, b)
               k == [heap EXCEPT ![o] = [Instance(c) EXCEPT !.iRef = n]]
    <3>1. y \in [Ids -> Nat] /\ y[o] = n /\ \A i \in Ids \ {o} : y[i] = Nothing[i]
      BY <2>1, <2>2
    <3>2. heap[o] = Unborn /\ k = [heap EXCEPT ![o] = [Instance(c) EXCEPT !.iRef = n]]
      BY <1>2
    <3> HIDE DEF y, k
    <3>3. Sound(k, glob, stack, y)
      BY <1>1, <1>4, <3>1, <3>2, Born
    <3> QED
      BY <1>5, <3>3 DEF y, k
  <2>4. SameDue([heap EXCEPT ![o] = [Instance(c) EXCEPT !.iRef = n]], heap)
    BY <1>1, <1>2, <1>4, BornDue
  <2> QED
    BY <1>5, <2>3, <2>4
<1>8. Sound(heap', glob, t, Hand(b, NULL)) /\ t \in Seq(Entries)
  <2>1. \A i \in Ids : Hand(b, NULL)[i] + Is(o, i) = Hand(o, b)[i]
    <3> TAKE i \in Ids
    <3>1. Hand(b, NULL)[i] = Is(b, i) + Is(NULL, i) /\ Hand(o, b)[i] = Is(o, i) + Is(b, i)
      BY HandType
    <3>2. Is(NULL, i) = 0 /\ Is(b, i) \in Nat /\ Is(o, i) \in Nat
      BY IsType DEF ObjectsAssumption
    <3> QED
      BY <3>1, <3>2
  <2>2. Sound(heap', glob, t, Hand(b, NULL))
    BY <1>3, <1>4, <1>7, <2>1, HandType, PushedOperand
  <2> QED
    BY <2>2 DEF Sound, Typed
<1> HIDE DEF t
<1>9. CASE c \in Constructed
  <2>1. stack' = Append(t, Body("construct", o, Nowhere))
    BY <1>6, <1>8, <1>9
  <2>2. \A i \in Ids : Nothing[i] + Is(o, i) = Hand(b, NULL)[i]
    BY <1>6, <1>9, HandSteps
  <2>3. "construct" \in Bodies /\ Nowhere \in Dests
    BY DEF Bodies, Dests
  <2>4. Sound(heap', glob, Append(t, Body("construct", o, Nowhere)), Nothing)
    BY <1>8, <2>2, <2>3, HandSteps, PushedBody
  <2> QED
    BY <1>3, <1>7, <2>1, <2>4 DEF Keeps
<1>10. CASE c \notin Constructed
  <2>1. stack' = t
    BY <1>6, <1>8, <1>10
  <2> QED
    BY <1>3, <1>6, <1>7, <1>8, <1>10, <2>1 DEF Keeps, Nothing
<1> QED
  BY <1>9, <1>10

LEMMA CallSound ==
  ASSUME ObjectsAssumption, ~ Careless, IInv, Running,
         NEW place \in Results(Top), NEW source \in Sources(Top), Call(place, source)
  PROVE  Keeps
<1> DEFINE o == Value(Top, source)
           h == Ref(heap, o, 1)
<1>1. Sound(heap, glob, stack, Nothing)
  BY DEF IInv
<1>2. o \in Values /\ o # NULL /\ Alive(heap, o)
  BY <1>1, ValueLives DEF Call
<1>3. glob' = glob /\ heap' = h /\ stack' = Append(stack, Then("invoke", place, o))
  BY DEF Call
<1>4. Last(stack).do \in Scripts /\ Fits(place, Last(stack)) /\ place \in Dests
  BY ResultFits DEF Running, Top
<1> HIDE DEF o
<1>5. Sound(h, glob, stack, Hand(o, NULL)) /\ Alike(h, heap)
  BY <1>1, <1>2, HandSteps, Took
<1> HIDE DEF h
<1>6. Sound(h, glob, Append(stack, Then("invoke", place, o)), Nothing)
  BY <1>2, <1>4, <1>5, HandSteps, PushedOperand
<1> QED
  BY <1>3, <1>5, <1>6, AlikeDue DEF Keeps, SameDue

LEMMA SelfCallSound ==
  ASSUME ObjectsAssumption, ~ Careless, IInv, Running, NEW place \in Results(Top), SelfCall(place)
  PROVE  Keeps /\ wild' = wild
<1> DEFINE o == Top.pThis
           h == Ref(heap, o, 1)
<1>1. Sound(heap, glob, stack, Nothing)
  BY DEF IInv
<1>2. o \in Ids /\ o \in Values /\ Alive(heap, o)
  BY <1>1, TopFacts DEF SelfCall, Living, Alive, BodyRecords, Values
<1>3. /\ glob' = glob /\ heap' = h /\ stack' = Append(stack, Body("method", o, place))
      /\ wild' = wild
  BY <1>2 DEF SelfCall, Living, Alive
<1>4. Last(stack).do \in Scripts /\ Fits(place, Last(stack)) /\ place \in Dests /\ "method" \in Bodies
  BY ResultFits DEF Running, Top, Bodies
<1> HIDE DEF o
<1>5. Sound(h, glob, stack, Hand(o, NULL)) /\ Alike(h, heap)
  BY <1>1, <1>2, HandSteps, Took
<1> HIDE DEF h
<1>6. Sound(h, glob, Append(stack, Body("method", o, place)), Nothing)
  BY <1>2, <1>4, <1>5, HandSteps, PushedBody
<1> QED
  BY <1>3, <1>5, <1>6, AlikeDue DEF Keeps, SameDue

(* The cursor of an instance counts nothing. *)
SetCursor(h, o, b) == [h EXCEPT ![o].cursor = b]

LEMMA CursorFacts ==
  ASSUME NEW h \in [Ids -> Chunks], NEW o \in Ids, Alive(h, o), NEW b \in BOOLEAN
  PROVE  /\ SetCursor(h, o, b) \in [Ids -> Chunks] /\ Alike(SetCursor(h, o, b), h)
         /\ \A i \in Ids : Alive(h, i) => SetCursor(h, o, b)[i].iRef = h[i].iRef
         /\ \A i \in Ids : i # o => SetCursor(h, o, b)[i] = h[i]
<1> DEFINE k == SetCursor(h, o, b)
<1>1. h[o] \in Instances
  BY AliveInstance
<1>2. k[o] = WithCursor(h[o], b) /\ \A i \in Ids : i # o => k[i] = h[i]
  BY DEF SetCursor, WithCursor
<1>3. /\ WithCursor(h[o], b) \in Instances /\ WithCursor(h[o], b).state = "living"
      /\ WithCursor(h[o], b).iRef = h[o].iRef /\ WithCursor(h[o], b).p = h[o].p
      /\ WithCursor(h[o], b).class = h[o].class /\ WithCursor(h[o], b).destroyed = h[o].destroyed
  BY <1>1, CursorChanged
<1>4. k \in [Ids -> Chunks]
  <2>1. k = [i \in Ids |-> IF i = o THEN WithCursor(h[o], b) ELSE h[i]]
    BY <1>2 DEF SetCursor
  <2> QED
    BY <1>3, <2>1 DEF Chunks
<1> HIDE DEF k
<1>5. k[o].state = "living" /\ k[o].iRef = h[o].iRef /\ k[o].p = h[o].p /\ k[o].class = h[o].class
      /\ k[o].destroyed = h[o].destroyed
  BY <1>2, <1>3, Zenon
<1>6. Alike(k, h) /\ \A i \in Ids : Alive(h, i) => k[i].iRef = h[i].iRef
  BY <1>2, <1>5 DEF Alike, Alive
<1> QED
  BY <1>2, <1>4, <1>6 DEF k

LEMMA CursorSound ==
  ASSUME ObjectsAssumption, NEW h, NEW g, NEW s, NEW x, Sound(h, g, s, x),
         NEW o \in Ids, Alive(h, o), NEW b \in BOOLEAN
  PROVE  Sound(SetCursor(h, o, b), g, s, x)
<1> DEFINE k == SetCursor(h, o, b)
<1>1. h \in [Ids -> Chunks] /\ x \in [Ids -> Nat]
  BY DEF Sound, Typed
<1>2. /\ k \in [Ids -> Chunks] /\ Alike(k, h)
      /\ \A i \in Ids : Alive(h, i) => k[i].iRef = h[i].iRef
  BY <1>1, CursorFacts
<1> HIDE DEF k
<1>3. \A i \in Ids : Alive(h, i) => k[i].iRef + x[i] = h[i].iRef + x[i] /\ (~ h[i].destroyed => k[i].iRef >= 1)
  BY <1>2 DEF Sound, Exact
<1>4. Sound(k, g, s, x)
  BY <1>1, <1>2, <1>3, Recounted DEF Alike
<1> QED
  BY <1>4 DEF k

(* A chunk that differs stays what it is when other instances are counted. *)
LEMMA RefOff ==
  ASSUME NEW h, NEW k, NEW o \in Ids, NEW v \in Values, v # o, NEW n,
         DOMAIN h = Ids, DOMAIN k = Ids, \A i \in Ids \ {o} : k[i] = h[i]
  PROVE  /\ DOMAIN Ref(h, v, n) = Ids /\ DOMAIN Ref(k, v, n) = Ids
         /\ \A i \in Ids \ {o} : Ref(k, v, n)[i] = Ref(h, v, n)[i]
         /\ Ref(k, v, n)[o] = k[o]
<1>1. CASE v = NULL
  BY <1>1 DEF Ref
<1>2. CASE v # NULL
  <2>1. v \in Ids
    BY <1>2 DEF Values
  <2>2. /\ Ref(h, v, n) = [h EXCEPT ![v].iRef = @ + n]
        /\ Ref(k, v, n) = [k EXCEPT ![v].iRef = @ + n]
    BY <1>2 DEF Ref
  <2> QED
    BY <2>1, <2>2
<1> QED
  BY <1>1, <1>2

Several(a, b, c, d) == [i \in Ids |-> Is(a, i) + Is(b, i) + Is(c, i) + Is(d, i)]

LEMMA SeveralType ==
  ASSUME NEW a, NEW b, NEW c, NEW d
  PROVE  /\ Several(a, b, c, d) \in [Ids -> Nat]
         /\ \A i \in Ids : Several(a, b, c, d)[i] = Is(a, i) + Is(b, i) + Is(c, i) + Is(d, i)
<1>1. \A i \in Ids : Is(a, i) \in Nat /\ Is(b, i) \in Nat /\ Is(c, i) \in Nat /\ Is(d, i) \in Nat
  BY IsType
<1> QED
  BY <1>1 DEF Several

(* The copy: source and attribute are counted, the new instance is made, the attribute is its own. *)
Copied(h, src, o, n) ==
  LET p == h[src].p
      k == Ref(Ref(SetCursor(h, src, FALSE), src, 1), p, 1)
  IN SetValue([k EXCEPT ![o] = Newborn(h[src].class, n)], o, p)

LEMMA CopiedIs ==
  ASSUME ObjectsAssumption, NEW h \in [Ids -> Chunks], NEW o \in Ids, h[o] = Unborn,
         NEW src \in Ids, Alive(h, src), NEW n \in Nat, h[src].p # NULL => Alive(h, h[src].p)
  PROVE  LET new == [Instance(h[src].class) EXCEPT !.p = h[src].p, !.iRef = n]
         IN Ref(Ref([h EXCEPT ![o] = new, ![src].cursor = FALSE], src, 1), h[src].p, 1) = Copied(h, src, o, n)
<1> DEFINE p == h[src].p
           new == [Instance(h[src].class) EXCEPT !.p = p, !.iRef = n]
           a == [h EXCEPT ![o] = new, ![src].cursor = FALSE]
           b == SetCursor(h, src, FALSE)
           k == Ref(Ref(b, src, 1), p, 1)
           m == [k EXCEPT ![o] = Newborn(h[src].class, n)]
<1>1. ~ Alive(h, o) /\ src # o /\ p # o /\ p \in Values /\ h[src].class \in Classes /\ src \in Values
  BY IntCount DEF Alive, Unborn, ObjectsAssumption, Values
<1>2. DOMAIN a = Ids /\ DOMAIN b = Ids /\ a[o] = new /\ \A i \in Ids \ {o} : a[i] = b[i]
  BY <1>1 DEF SetCursor
<1>3. new = WithValue(Newborn(h[src].class, n), p)
  BY DEF WithValue, Newborn, Instance
<1> HIDE DEF a, b, new, p
<1>4. /\ DOMAIN Ref(a, src, 1) = Ids /\ DOMAIN Ref(b, src, 1) = Ids
      /\ Ref(a, src, 1)[o] = new /\ \A i \in Ids \ {o} : Ref(a, src, 1)[i] = Ref(b, src, 1)[i]
  BY <1>1, <1>2, RefOff
<1>5. /\ DOMAIN Ref(Ref(a, src, 1), p, 1) = Ids /\ DOMAIN k = Ids
      /\ Ref(Ref(a, src, 1), p, 1)[o] = new /\ \A i \in Ids \ {o} : Ref(Ref(a, src, 1), p, 1)[i] = k[i]
  BY <1>1, <1>4, RefOff
<1> HIDE DEF k
<1>6. SetValue(m, o, p) = [m EXCEPT ![o] = WithValue(@, p)]
  BY DEF SetValue, WithValue
<1>7. SetValue(m, o, p) = [k EXCEPT ![o] = new]
  BY <1>3, <1>5, <1>6
<1>8. Ref(Ref(a, src, 1), p, 1) = [i \in Ids |-> Ref(Ref(a, src, 1), p, 1)[i]]
  <2>1. Ref(Ref(a, src, 1), p, 1) = [i \in DOMAIN Ref(Ref(a, src, 1), p, 1) |-> Ref(Ref(a, src, 1), p, 1)[i]]
    <3>1. CASE p = NULL
      <4>1. Ref(Ref(a, src, 1), p, 1) = [a EXCEPT ![src].iRef = @ + 1]
        BY <1>1, <3>1 DEF Ref, ObjectsAssumption
      <4> QED
        BY <4>1
    <3>2. CASE p # NULL
      <4>1. Ref(Ref(a, src, 1), p, 1) = [Ref(a, src, 1) EXCEPT ![p].iRef = @ + 1]
        BY <1>1, <3>2 DEF Ref
      <4> QED
        BY <4>1
    <3> QED
      BY <3>1, <3>2
  <2> QED
    BY <1>5, <2>1
<1>9. [k EXCEPT ![o] = new] = Ref(Ref(a, src, 1), p, 1)
  BY <1>5, <1>8
<1> QED
  BY <1>7, <1>9, Zenon DEF Copied, a, b, k, new, p

LEMMA CopiedSound ==
  ASSUME ObjectsAssumption, NEW g, NEW s, NEW h, Sound(h, g, s, Nothing), NEW o \in Ids, h[o] = Unborn,
         NEW src \in Ids, Alive(h, src), h[src].p # NULL => Alive(h, h[src].p),
         NEW b \in Values, b = o \/ b = NULL, NEW n \in Nat, n = 1 + Is(b, o)
  PROVE  /\ Sound(Copied(h, src, o, n), g, s, Several(src, NULL, o, b))
         /\ SameDue(Copied(h, src, o, n), h)
<1> DEFINE p == h[src].p
           c == h[src].class
           h1 == SetCursor(h, src, FALSE)
           h2 == Ref(h1, src, 1)
           h3 == Ref(h2, p, 1)
           h4 == [h3 EXCEPT ![o] = Newborn(c, n)]
           x == Several(src, p, o, b)
           y == Several(src, NULL, o, b)
<1>1. /\ ~ Alive(h, o) /\ src # o /\ p # o /\ p \in Values /\ c \in Classes /\ src \in Values
      /\ src # NULL /\ h \in [Ids -> Chunks]
  BY IntCount DEF Alive, Unborn, ObjectsAssumption, Values, Sound, Typed
<1>2. p # NULL => ~ Gone(h, p)
  BY DEF Sound, Apart
<1>c. Copied(h, src, o, n) = SetValue(h4, o, p)
  BY DEF Copied
<1> HIDE DEF p, c
<1>3. Sound(h1, g, s, Nothing) /\ Alike(h1, h)
  BY <1>1, CursorSound, CursorFacts
<1> HIDE DEF h1
<1>4. Alive(h1, src) /\ (p # NULL => Alive(h1, p))
  <2>1. p # NULL => p \in Ids
    BY <1>1 DEF Values
  <2> QED
    BY <1>3, <2>1 DEF Alike, p
<1>5. Sound(h2, g, s, Hand(src, NULL)) /\ Alike(h2, h1)
  BY <1>1, <1>3, <1>4, HandSteps, Took
<1> HIDE DEF h2
<1>6. p # NULL => Alive(h2, p)
  BY <1>1, <1>4, <1>5 DEF Alike, Values
<1>7. Sound(h3, g, s, Hand(src, p)) /\ Alike(h3, h2)
  <2>1. Hand(src, p) \in [Ids -> Nat] /\ \A i \in Ids : Hand(src, p)[i] = Hand(src, NULL)[i] + Is(p, i)
    BY HandSteps
  <2> QED
    BY <1>1, <1>5, <1>6, <2>1, Took
<1> HIDE DEF h3
<1>8. Alike(h3, h) /\ h3 \in [Ids -> Chunks]
  BY <1>3, <1>5, <1>7, AlikeTransitive DEF Sound, Typed
<1>9. h3[o] = Unborn
  <2>1. ~ Alive(h3, o) /\ h3[o] \in Chunks
    BY <1>1, <1>8 DEF Alike
  <2>2. h3[o] \notin Instances
    BY <1>8, <2>1, AliveInstance
  <2> QED
    BY <2>1, <2>2 DEF Chunks
<1>10. x \in [Ids -> Nat] /\ y \in [Ids -> Nat] /\ x[o] = n /\ \A i \in Ids \ {o} : x[i] = Hand(src, p)[i]
  <2>1. /\ Is(src, o) = 0 /\ Is(p, o) = 0 /\ Is(o, o) = 1
        /\ \A i \in Ids \ {o} : Is(o, i) = 0 /\ Is(b, i) = 0
    BY <1>1 DEF Is, ObjectsAssumption
  <2>2. \A i \in Ids : x[i] = Is(src, i) + Is(p, i) + Is(o, i) + Is(b, i)
    BY SeveralType
  <2>3. Is(b, o) \in Nat /\ \A i \in Ids : Is(src, i) \in Nat /\ Is(p, i) \in Nat
    BY IsType
  <2>4. x[o] = n
    BY <2>1, <2>2, <2>3
  <2>5. \A i \in Ids \ {o} : x[i] = Hand(src, p)[i]
    BY <2>1, <2>2, <2>3, HandType
  <2> QED
    BY <2>4, <2>5, SeveralType
<1>11. \A i \in Ids : y[i] + Is(p, i) = x[i] + Is(NULL, i)
  BY SeveralType, IsType
<1> HIDE DEF x, y
<1>12. Sound(h4, g, s, x)
  <2> DEFINE k == [h3 EXCEPT ![o] = [Instance(c) EXCEPT !.iRef = n]]
  <2>1. k = [h3 EXCEPT ![o] = [Instance(c) EXCEPT !.iRef = n]] /\ n >= 1
    BY DEF Is
  <2> HIDE DEF k
  <2>2. Sound(k, g, s, x)
    BY <1>1, <1>7, <1>9, <1>10, <2>1, Born, ZenonT(60)
  <2> QED
    BY <2>2 DEF k, Newborn
<1>13. SameDue(h4, h3)
  BY <1>1, <1>8, <1>9, BornDue DEF Newborn
<1>14. h4 \in [Ids -> Chunks] /\ h4[o].p = NULL /\ Alive(h4, o) /\ \A i \in Ids \ {o} : h4[i] = h3[i]
  <2>1. n \in Int
    OBVIOUS
  <2>2. Newborn(c, n).p = NULL /\ Newborn(c, n).state = "living"
    BY <1>1, <2>1, ChunkMade, ZenonT(60)
  <2>3. h4 \in [Ids -> Chunks]
    BY <1>12 DEF Sound, Typed
  <2> QED
    BY <1>8, <2>2, <2>3 DEF Alive
<1> HIDE DEF h4
<1>15. p # NULL => ~ Gone(h4, p)
  <2>1. p # NULL => p \in Ids /\ h4[p] = h3[p]
    BY <1>1, <1>14 DEF Values
  <2>2. p # NULL => (Gone(h3, p) <=> Gone(h, p))
    BY <1>8, <2>1, AlikeDue
  <2> QED
    BY <1>2, <2>1, <2>2 DEF Gone, Alive
<1>16. Sound(SetValue(h4, o, p), g, s, y)
  BY <1>1, <1>10, <1>11, <1>12, <1>14, <1>15, AttributeSet
<1>17. SameDue(SetValue(h4, o, p), h4)
  <2>1. \A i \in Ids : /\ Alive(SetValue(h4, o, p), i) <=> Alive(h4, i)
                       /\ Alive(h4, i) => /\ SetValue(h4, o, p)[i].destroyed = h4[i].destroyed
                                          /\ SetValue(h4, o, p)[i].class = h4[i].class
    BY <1>1, <1>14, ValueFacts
  <2> QED
    BY <2>1 DEF SameDue, Due, Gone
<1>18. SameDue(SetValue(h4, o, p), h)
  BY <1>8, <1>13, <1>17, AlikeDue DEF SameDue
<1> QED
  BY <1>c, <1>16, <1>18 DEF y

LEMMA CloneSound ==
  ASSUME ObjectsAssumption, ~ Careless, IInv, Running,
         NEW place \in Results(Top), NEW source \in Sources(Top), Clone(place, source)
  PROVE  Keeps
<1> DEFINE src == Value(Top, source)
           c == heap[src].class
<1>1. Sound(heap, glob, stack, Nothing) /\ heap \in [Ids -> Chunks] /\ stack \in Seq(Entries)
  BY TopFacts DEF IInv
<1>2. src \in Ids /\ Alive(heap, src) /\ src \in Values
  BY <1>1, ValueLives DEF Clone
<1>3. glob' = glob /\ Last(stack).do \in Scripts /\ Fits(place, Last(stack)) /\ place \in Dests
  BY ResultFits DEF Clone, Running, Top
<1>4. PICK o \in Ids :
        /\ heap[o] = Unborn
        /\ heap' = Ref(Ref([heap EXCEPT ![o] = [Instance(c) EXCEPT !.p = heap[src].p,
                                                                   !.iRef = IF c \in Cloned THEN 2 ELSE 1],
                                        ![src].cursor = FALSE], src, 1), heap[src].p, 1)
        /\ stack' = Append(stack, Then("store", place, o)) \o Drop(src) \o
                      (IF c \in Cloned THEN <<Body("clone", o, Nowhere)>> ELSE << >>)
  BY DEF Clone
<1> DEFINE b == IF c \in Cloned THEN o ELSE NULL
           n == IF c \in Cloned THEN 2 ELSE 1
           t == Append(stack, Then("store", place, o))
           u == t \o Drop(src)
<1>5. n \in Nat /\ n = 1 + Is(b, o) /\ (b = o \/ b = NULL) /\ b \in Values /\ o \in Values /\ o # NULL
  BY DEF Is, ObjectsAssumption, Values
<1>6. heap[src].p # NULL => Alive(heap, heap[src].p)
  <2>1. heap[src].p \in Values
    BY <1>1, <1>2, IntCount
  <2>2. heap[src].p # NULL => heap[src].p \in Ids /\ InAttributes(heap, heap[src].p) > 0
    BY <1>1, <1>2, <2>1, HeldBy DEF Values, Sound, Typed
  <2> QED
    BY <1>1, <2>2, HeldLives
<1>7. /\ c \in Cloned => b = o /\ stack' = u \o <<Body("clone", o, Nowhere)>>
      /\ c \notin Cloned => b = NULL /\ stack' = u \o << >>
  BY <1>4
<1>8. heap' = Ref(Ref([heap EXCEPT ![o] = [Instance(c) EXCEPT !.p = heap[src].p, !.iRef = n],
                                   ![src].cursor = FALSE], src, 1), heap[src].p, 1)
  BY <1>4
<1> HIDE DEF src, b, n
<1>9. heap' = Copied(heap, src, o, n)
  BY <1>1, <1>2, <1>4, <1>5, <1>6, <1>8, CopiedIs
<1>10. Sound(heap', glob, stack, Several(src, NULL, o, b)) /\ SameDue(heap', heap)
  BY <1>1, <1>2, <1>4, <1>5, <1>6, <1>9, CopiedSound
<1>11. /\ \A i \in Ids : Several(src, NULL, NULL, b)[i] + Is(o, i) = Several(src, NULL, o, b)[i]
       /\ \A i \in Ids : Hand(b, NULL)[i] + Is(src, i) = Several(src, NULL, NULL, b)[i]
  <2> SUFFICES ASSUME NEW i \in Ids
               PROVE  /\ Several(src, NULL, NULL, b)[i] + Is(o, i) = Several(src, NULL, o, b)[i]
                      /\ Hand(b, NULL)[i] + Is(src, i) = Several(src, NULL, NULL, b)[i]
    OBVIOUS
  <2>1. /\ Several(src, NULL, NULL, b)[i] = Is(src, i) + Is(NULL, i) + Is(NULL, i) + Is(b, i)
        /\ Several(src, NULL, o, b)[i] = Is(src, i) + Is(NULL, i) + Is(o, i) + Is(b, i)
        /\ Hand(b, NULL)[i] = Is(b, i) + Is(NULL, i)
    BY SeveralType, HandType
  <2>2. Is(NULL, i) = 0
    BY DEF Is, ObjectsAssumption
  <2>3. Is(b, i) \in Nat /\ Is(o, i) \in Nat /\ Is(src, i) \in Nat
    BY IsType
  <2> QED
    BY <2>1, <2>2, <2>3
<1>12. Sound(heap', glob, t, Several(src, NULL, NULL, b))
  BY <1>3, <1>5, <1>10, <1>11, SeveralType, PushedOperand
<1>13. Sound(heap', glob, u, Hand(b, NULL)) /\ u \in Seq(Entries)
  <2> HIDE DEF t
  <2>1. Sound(heap', glob, t \o Drop(src), Hand(b, NULL))
    BY <1>2, <1>11, <1>12, HandType, Dropped
  <2> QED
    BY <2>1 DEF Sound, Typed
<1> HIDE DEF u, c
<1>14. CASE c \in Cloned
  <2>1. stack' = Append(u, Body("clone", o, Nowhere))
    BY <1>7, <1>13, <1>14
  <2>2. \A i \in Ids : Nothing[i] + Is(o, i) = Hand(b, NULL)[i]
    BY <1>7, <1>14, HandSteps
  <2>3. "clone" \in Bodies /\ Nowhere \in Dests
    BY DEF Bodies, Dests
  <2>4. Sound(heap', glob, Append(u, Body("clone", o, Nowhere)), Nothing)
    BY <1>13, <2>2, <2>3, HandSteps, PushedBody
  <2> QED
    BY <1>3, <1>10, <2>1, <2>4 DEF Keeps
<1>15. CASE c \notin Cloned
  <2>1. stack' = u
    BY <1>7, <1>13, <1>15
  <2> QED
    BY <1>3, <1>7, <1>10, <1>13, <1>15, <2>1 DEF Keeps, Nothing
<1> QED
  BY <1>14, <1>15
----------------------------------------------------------------------------
(* Loops over an instance, and the end of a script.                        *)

LEMMA ForeachInitSound ==
  ASSUME ObjectsAssumption, ~ Careless, IInv, Running,
         NEW place \in Locals(Top), NEW source \in Sources(Top), ForeachInit(place, source)
  PROVE  Keeps
<1> DEFINE o == Value(Top, source)
           h == Ref(heap, o, 1)
           e == [Top EXCEPT !.loop = <<o, place>>]
<1>1. Sound(heap, glob, stack, Nothing)
  BY DEF IInv
<1>2. o \in Ids /\ o \in Values /\ Alive(heap, o)
  BY <1>1, ValueLives DEF ForeachInit, Values
<1>3. glob' = glob /\ heap' = SetCursor(h, o, TRUE) /\ stack' = Append(Below, e) /\ Top.loop = << >>
  BY DEF ForeachInit, SetCursor
<1>4. Top \in BodyRecords /\ Top = Last(stack) /\ Below = Front(stack) /\ Top.do \in Bodies
  BY <1>1, TopFacts DEF ForeachInit
<1>5. place = <<"v">>
  BY <1>4 DEF Locals, Bodies
<1> HIDE DEF o
<1>6. /\ e \in BodyRecords /\ e.do = Top.do /\ e.dest = Top.dest
      /\ e.this = Top.this /\ e.v = Top.v /\ e.loop = <<o, place>>
  BY <1>2, <1>4, <1>5 DEF BodyRecords
<1>7. Sound(h, glob, stack, Hand(o, NULL)) /\ Alike(h, heap)
  BY <1>1, <1>2, HandSteps, Took
<1> HIDE DEF h, e
<1>8. h \in [Ids -> Chunks] /\ Alive(h, o)
  BY <1>2, <1>7 DEF Alike, Sound, Typed
<1>9. Sound(SetCursor(h, o, TRUE), glob, stack, Hand(o, NULL)) /\ Alike(SetCursor(h, o, TRUE), h)
  BY <1>2, <1>7, <1>8, CursorSound, CursorFacts
<1>10. \A i \in Ids : Nothing[i] + Weight(e, i) = Hand(o, NULL)[i] + Weight(Top, i)
  <2> TAKE i \in Ids
  <2>1. /\ Weight(Top, i) = Is(Top.this, i) + Is(Top.v, i) + 0
        /\ Weight(e, i) = Is(Top.this, i) + Is(Top.v, i) + Is(o, i)
    <3>1. e.loop # << >> /\ e.loop[1] = o
      BY <1>6
    <3>2. /\ Weight(Top, i) = Is(Top.this, i) + Is(Top.v, i)
                              + (IF Top.loop = << >> THEN 0 ELSE Is(Top.loop[1], i))
          /\ Weight(e, i) = Is(e.this, i) + Is(e.v, i) + (IF e.loop = << >> THEN 0 ELSE Is(e.loop[1], i))
      BY <1>4, <1>6, BodyWeight
    <3> QED
      BY <1>3, <1>6, <3>1, <3>2
  <2>2. Hand(o, NULL)[i] = Nothing[i] + Is(o, i) /\ Nothing[i] = 0
    BY HandSteps, NothingType
  <2>3. Is(Top.this, i) \in Nat /\ Is(Top.v, i) \in Nat /\ Is(o, i) \in Nat
    BY IsType
  <2> QED
    BY <2>1, <2>2, <2>3
<1>11. Sound(SetCursor(h, o, TRUE), glob, Append(Below, e), Nothing)
  BY <1>4, <1>6, <1>9, <1>10, HandSteps, Rewritten
<1>12. Alike(SetCursor(h, o, TRUE), heap)
  BY <1>7, <1>9, AlikeTransitive
<1> QED
  BY <1>3, <1>11, <1>12, AlikeDue DEF Keeps, SameDue

LEMMA ForeachStepSound ==
  ASSUME ObjectsAssumption, ~ Careless, IInv, ForeachStep
  PROVE  Keeps
<1> DEFINE o == Top.loop[1]
           p == heap[o].p
           h1 == SetCursor(heap, o, FALSE)
           h == Ref(h1, p, 1)
           e == [Top EXCEPT !.loop = << >>]
<1>1. Sound(heap, glob, stack, Nothing) /\ heap \in [Ids -> Chunks] /\ glob \in [Globals -> Values]
  BY TopFacts DEF IInv
<1>2. Top \in BodyRecords /\ Top = Last(stack) /\ Below = Front(stack) /\ Top.do \in Bodies /\ Top.loop # << >>
  BY <1>1, TopFacts DEF ForeachStep
<1>3. o \in Ids /\ o \in Values /\ Alive(heap, o) /\ Top.loop[2] = <<"v">>
  BY <1>1, <1>2, BodyLives DEF Values
<1>4. CASE heap[o].cursor
  <2>1. PH7_MemObjStore(h, stack, <<"v">>, p)
    BY <1>3, <1>4 DEF ForeachStep, SetCursor
  <2>2. p \in Values
    BY <1>1, <1>3, IntCount
  <2>3. p # NULL => Alive(heap, p)
    <3>1. p # NULL => p \in Ids /\ InAttributes(heap, p) > 0
      BY <1>1, <1>3, <2>2, HeldBy DEF Values, Sound, Typed
    <3> QED
      BY <1>1, <3>1, HeldLives
  <2> HIDE DEF p
  <2>4. Sound(h1, glob, stack, Nothing) /\ Alike(h1, heap)
    BY <1>1, <1>3, CursorSound, CursorFacts
  <2> HIDE DEF h1
  <2>5. p # NULL => Alive(h1, p)
    BY <2>2, <2>3, <2>4 DEF Alike, Values
  <2>6. Sound(h, glob, stack, Hand(p, NULL)) /\ Alike(h, h1)
    BY <2>2, <2>4, <2>5, HandSteps, Took
  <2> HIDE DEF h
  <2>7. Alike(h, heap)
    BY <2>4, <2>6, AlikeTransitive
  <2>8. <<"v">> \in Stores(Last(stack)) /\ Last(stack).do \in Scripts /\ Storable(h, p, <<"v">>)
    BY <1>2 DEF Stores, Scripts, Storable, Bodies
  <2>9. Sound(heap', glob', stack', Nothing) /\ Similar(heap', h)
    BY <1>1, <2>1, <2>2, <2>6, <2>7, <2>8, StoreSound DEF Nothing
  <2> QED
    BY <2>7, <2>9, DueKept DEF Keeps
<1>5. CASE ~ heap[o].cursor
  <2>1. heap' = heap /\ glob' = glob /\ stack' = Append(Below, e) \o Drop(o)
    BY <1>5 DEF ForeachStep
  <2>2. /\ e \in BodyRecords /\ e.do = Top.do /\ e.dest = Top.dest
        /\ e.this = Top.this /\ e.v = Top.v /\ e.loop = << >>
    BY <1>2 DEF BodyRecords
  <2> HIDE DEF e
  <2>3. \A i \in Ids : Hand(o, NULL)[i] + Weight(e, i) = Nothing[i] + Weight(Top, i)
    <3> TAKE i \in Ids
    <3>1. /\ Weight(e, i) = Is(Top.this, i) + Is(Top.v, i) + 0
          /\ Weight(Top, i) = Is(Top.this, i) + Is(Top.v, i) + Is(o, i)
      <4>2. /\ Weight(Top, i) = Is(Top.this, i) + Is(Top.v, i)
                                + (IF Top.loop = << >> THEN 0 ELSE Is(Top.loop[1], i))
            /\ Weight(e, i) = Is(e.this, i) + Is(e.v, i) + (IF e.loop = << >> THEN 0 ELSE Is(e.loop[1], i))
        BY <1>2, <2>2, BodyWeight
      <4> QED
        BY <1>2, <2>2, <4>2
    <3>2. Hand(o, NULL)[i] = Nothing[i] + Is(o, i) /\ Nothing[i] = 0
      BY HandSteps, NothingType
    <3>3. Is(Top.this, i) \in Nat /\ Is(Top.v, i) \in Nat /\ Is(o, i) \in Nat
      BY IsType
    <3> QED
      BY <3>1, <3>2, <3>3
  <2> HIDE DEF o
  <2>4. Sound(heap, glob, Append(Below, e), Hand(o, NULL))
    BY <1>1, <1>2, <2>2, <2>3, HandSteps, Rewritten
  <2>5. \A i \in Ids : Nothing[i] + Is(o, i) = Hand(o, NULL)[i]
    BY HandSteps
  <2>6. Nothing \in [Ids -> Nat]
    BY HandSteps
  <2>7. Sound(heap, glob, Append(Below, e) \o Drop(o), Nothing)
    BY <1>3, <2>4, <2>5, <2>6, Dropped
  <2> QED
    BY <2>1, <2>7 DEF Keeps, SameDue
<1> QED
  BY <1>4, <1>5

(* A script is gone; what its frame held is in hand. *)
LEMMA PoppedBody ==
  ASSUME ObjectsAssumption, NEW h, NEW val, Sound(h, glob, stack, Hand(val, NULL)),
         Top \in BodyRecords, Top.loop = << >>
  PROVE  /\ Sound(h, glob, Below, Several(val, Top.v, Top.this, NULL))
         /\ Top.do = "method" => Last(Below).do \in Scripts /\ Fits(Top.dest, Last(Below))
<1> DEFINE y == Several(val, Top.v, Top.this, NULL)
<1>1. \A i \in Ids : y[i] = Hand(val, NULL)[i] + Weight(Top, i)
  <2> TAKE i \in Ids
  <2>1. Weight(Top, i) = Is(Top.this, i) + Is(Top.v, i) + (IF Top.loop = << >> THEN 0 ELSE Is(Top.loop[1], i))
    BY BodyWeight
  <2>2. Is(Top.this, i) \in Nat /\ Is(Top.v, i) \in Nat /\ Is(val, i) \in Nat /\ Is(NULL, i) \in Nat
    BY IsType
  <2>3. Weight(Top, i) = Is(Top.this, i) + Is(Top.v, i)
    BY <2>1, <2>2
  <2>4. Hand(val, NULL)[i] = Is(val, i) + Is(NULL, i)
        /\ y[i] = Is(val, i) + Is(Top.v, i) + Is(Top.this, i) + Is(NULL, i)
    BY HandType, SeveralType
  <2> QED
    BY <2>2, <2>3, <2>4
<1>2. y \in [Ids -> Nat]
  BY SeveralType
<1>3. Last(stack).do \notin {"main", "free"} /\ Top = Last(stack) /\ Below = Front(stack)
  BY DEF BodyRecords, Bodies, Top, Below
<1> HIDE DEF y
<1>4. Sound(h, glob, Below, y) /\ Rests(Top, Last(Below))
  BY <1>1, <1>2, <1>3, Popped
<1> QED
  BY <1>4 DEF y, Rests, OnScript

LEMMA ReturnSound ==
  ASSUME ObjectsAssumption, ~ Careless, IInv, Running,
         NEW source \in Sources(Top) \cup {Nowhere}, Return(source)
  PROVE  Keeps
<1> DEFINE val == IF source = Nowhere THEN NULL ELSE Value(Top, source)
           h == Ref(heap, val, 1)
           a == Top.v
           b == Top.this
           leave == Drop(a) \o Drop(b)
<1>1. Sound(heap, glob, stack, Nothing)
  BY DEF IInv
<1>2. Top \in BodyRecords /\ Top.loop = << >> /\ a \in Values /\ b \in Values /\ Top.dest \in Dests
  BY <1>1, TopFacts DEF Return, BodyRecords
<1>3. \A i \in Ids : /\ Hand(a, b)[i] + Is(val, i) = Several(val, a, b, NULL)[i]
                     /\ Hand(a, b)[i] + Is(NULL, i) = Several(NULL, a, b, NULL)[i]
  <2> HIDE DEF val, a, b
  <2> TAKE i \in Ids
  <2>1. Is(NULL, i) = 0
    BY DEF Is, ObjectsAssumption
  <2>2. Is(a, i) \in Nat /\ Is(b, i) \in Nat /\ Is(val, i) \in Nat
    BY IsType
  <2>3. /\ Hand(a, b)[i] = Is(a, i) + Is(b, i)
        /\ Several(val, a, b, NULL)[i] = Is(val, i) + Is(a, i) + Is(b, i) + Is(NULL, i)
        /\ Several(NULL, a, b, NULL)[i] = Is(NULL, i) + Is(a, i) + Is(b, i) + Is(NULL, i)
    BY HandType, SeveralType
  <2> QED
    BY <2>1, <2>2, <2>3
<1>4. CASE Top.do = "method"
  <2>1. glob' = glob /\ heap' = h /\ stack' = Append(Below, Then("store", Top.dest, val)) \o leave
    BY <1>4 DEF Return
  <2>2. val \in Values /\ (val # NULL => Alive(heap, val))
    <3>1. CASE source = Nowhere
      BY <3>1 DEF Values
    <3>2. CASE source # Nowhere
      BY <1>1, <3>2, ValueLives
    <3> QED
      BY <3>1, <3>2
  <2> HIDE DEF val
  <2>3. Sound(h, glob, stack, Hand(val, NULL)) /\ Alike(h, heap)
    <3>1. Hand(val, NULL) \in [Ids -> Nat] /\ \A i \in Ids : Hand(val, NULL)[i] = Nothing[i] + Is(val, i)
      BY HandSteps
    <3> QED
      BY <1>1, <2>2, <3>1, Took
  <2> HIDE DEF h
  <2>4. Sound(h, glob, Below, Several(val, a, b, NULL)) /\ Last(Below).do \in Scripts /\ Fits(Top.dest, Last(Below))
    BY <1>2, <1>4, <2>3, PoppedBody
  <2> HIDE DEF a, b
  <2>5. Hand(a, b) \in [Ids -> Nat] /\ \A i \in Ids : Hand(a, b)[i] + Is(val, i) = Several(val, a, b, NULL)[i]
    BY <1>3, HandType
  <2>6. Sound(h, glob, Append(Below, Then("store", Top.dest, val)), Hand(a, b))
    BY <1>2, <2>2, <2>4, <2>5, PushedOperand
  <2>7. Sound(h, glob, Append(Below, Then("store", Top.dest, val)) \o leave, Nothing)
    BY <1>2, <2>6, DroppedBoth DEF Nothing
  <2> QED
    BY <2>1, <2>3, <2>7, AlikeDue DEF Keeps, SameDue
<1>5. CASE Top.do # "method"
  <2>1. glob' = glob /\ heap' = heap /\ stack' = Below \o leave
    BY <1>5 DEF Return
  <2>2. Sound(heap, glob, Below, Several(NULL, a, b, NULL))
    <3>1. Sound(heap, glob, stack, Hand(NULL, NULL))
      BY <1>1 DEF Nothing
    <3> QED
      BY <1>2, <3>1, PoppedBody
  <2>3. Several(NULL, a, b, NULL) = Hand(a, b)
    <3> HIDE DEF a, b
    <3>1. \A i \in Ids : Several(NULL, a, b, NULL)[i] = Hand(a, b)[i]
      <4> TAKE i \in Ids
      <4>1. Is(NULL, i) = 0 /\ Hand(a, b)[i] \in Nat
        BY HandType DEF Is, ObjectsAssumption
      <4> QED
        BY <1>3, <4>1
    <3>2. Several(NULL, a, b, NULL) \in [Ids -> Nat] /\ Hand(a, b) \in [Ids -> Nat]
      BY SeveralType, HandType
    <3> QED
      BY <3>1, <3>2
  <2> HIDE DEF a, b
  <2>4. Sound(heap, glob, Below \o leave, Nothing)
    BY <1>2, <2>2, <2>3, DroppedBoth DEF Nothing
  <2> QED
    BY <2>1, <2>4 DEF Keeps, SameDue
<1> QED
  BY <1>4, <1>5
----------------------------------------------------------------------------
(* What the machine does with an operand.                                  *)

LEMMA PoppedOperand ==
  ASSUME ObjectsAssumption, IInv, Top.do \in {"store", "member", "invoke", "drop"}
  PROVE  /\ Sound(heap, glob, Below, Hand(Top.val, NULL))
         /\ Top.val \in Values /\ (Top.val # NULL => Alive(heap, Top.val))
         /\ Top.do # "store" => Top.val \in Ids
         /\ Top.do # "drop" => Top.dest \in Dests /\ Last(Below).do \in Scripts /\ Fits(Top.dest, Last(Below))
<1> DEFINE o == Top.val
<1>1. Sound(heap, glob, stack, Nothing) /\ Top \in Entries /\ Top = Last(stack) /\ Below = Front(stack)
  BY TopFacts DEF IInv
<1>2. o \in Values /\ (Top.do # "store" => o \in Ids) /\ (Top.do # "drop" => Top.dest \in Dests)
  BY <1>1, EntryValue DEF Values
<1>3. \A i \in Ids : Weight(Top, i) = Is(o, i)
  BY <1>1, OperandWeight
<1> HIDE DEF o
<1>4. \A i \in Ids : Hand(o, NULL)[i] = Nothing[i] + Weight(Top, i)
  BY <1>3, HandSteps
<1>5. Top.do \notin {"main", "free"} /\ Hand(o, NULL) \in [Ids -> Nat]
  BY HandSteps
<1>6. Sound(heap, glob, Below, Hand(o, NULL)) /\ Rests(Top, Last(Below))
  <2>1. Last(stack).do \notin {"main", "free"} /\ \A i \in Ids : Hand(o, NULL)[i] = Nothing[i] + Weight(Last(stack), i)
    BY <1>1, <1>4, <1>5
  <2>2. Sound(heap, glob, Front(stack), Hand(o, NULL)) /\ Rests(Last(stack), Last(Front(stack)))
    BY <1>1, <1>5, <2>1, Popped
  <2> QED
    BY <1>1, <2>2
<1>7. o # NULL => Alive(heap, o)
  <2>1. ASSUME o # NULL PROVE o \in Ids /\ Weight(Top, o) > 0
    <3>1. o \in Ids
      BY <1>2, <2>1 DEF Values
    <3>2. Is(o, o) = 1
      BY IsType
    <3> QED
      BY <1>3, <3>1, <3>2
  <2> QED
    BY <1>1, <2>1, TopFacts
<1> QED
  BY <1>2, <1>6, <1>7 DEF o, Rests, OnScript

(* While nothing is called no instance is being released. *)
LEMMA MainAlone ==
  ASSUME NEW h, NEW g, NEW s, NEW x, Sound(h, g, s, x), Last(s).do = "main"
  PROVE  Len(s) = 1 /\ \A o \in Ids : ~ Gone(h, o)
<1>1. s \in Seq(Entries) /\ Len(s) > 0 /\ Shape(s) /\ Releases(h, s)
  BY DEF Sound, Typed, Shape
<1>2. DOMAIN s = 1 .. Len(s) /\ Len(s) \in DOMAIN s /\ s[Len(s)].do = "main"
  BY <1>1 DEF Last
<1>3. Len(s) = 1
  BY <1>1, <1>2 DEF Shape
<1>4. DOMAIN s = 1 .. 1 /\ s[1].do = "main"
  BY <1>2, <1>3
<1>5. \A i \in DOMAIN s : s[i].do # "free"
  BY <1>4
<1> QED
  BY <1>1, <1>3, <1>5 DEF Releases

LEMMA StoreResultSound ==
  ASSUME ObjectsAssumption, ~ Careless, IInv, StoreResult
  PROVE  Keeps
<1> DEFINE val == Top.val
           place == Top.dest
<1>1. Top.do = "store" /\ PH7_MemObjStore(heap, Below, place, val)
  BY DEF StoreResult, Finish
<1>2. /\ Sound(heap, glob, Below, Hand(val, NULL)) /\ val \in Values /\ (val # NULL => Alive(heap, val))
      /\ place \in Dests /\ Last(Below).do \in Scripts /\ Fits(place, Last(Below))
  BY <1>1, PoppedOperand
<1>3. heap \in [Ids -> Chunks] /\ Alike(heap, heap)
  BY TopFacts DEF IInv, Alike
<1> HIDE DEF val, place
<1>4. place \in Stores(Last(Below))
  BY <1>2 DEF Stores, Fits
<1>5. Storable(heap, val, place)
  <2> SUFFICES ASSUME val # NULL, place \notin {Nowhere, <<"v">>} PROVE ~ Gone(heap, val)
    BY DEF Storable
  <2>1. Last(Below).do = "main"
    BY <1>2 DEF Fits
  <2> QED
    BY <1>2, <2>1, MainAlone DEF Values
<1>6. Sound(heap', glob', stack', Nothing) /\ Similar(heap', heap)
  BY <1>1, <1>2, <1>3, <1>4, <1>5, StoreSound DEF Nothing
<1> QED
  BY <1>6, SimilarDue DEF Keeps

LEMMA LoadMemberSound ==
  ASSUME ObjectsAssumption, ~ Careless, IInv, LoadMember
  PROVE  Keeps
<1> DEFINE o == Top.val
           p == heap[o].p
           h == Ref(heap, p, 1)
           t == Append(Below, Then("store", Top.dest, p))
<1>1. Top.do = "member" /\ glob' = glob /\ heap' = h /\ stack' = t \o Drop(o)
  BY DEF LoadMember, Finish
<1>2. /\ Sound(heap, glob, Below, Hand(o, NULL)) /\ o \in Ids /\ Alive(heap, o)
      /\ Top.dest \in Dests /\ Last(Below).do \in Scripts /\ Fits(Top.dest, Last(Below))
  BY <1>1, PoppedOperand DEF ObjectsAssumption
<1>3. heap \in [Ids -> Chunks] /\ glob \in [Globals -> Values] /\ Sound(heap, glob, stack, Nothing)
  BY TopFacts DEF IInv
<1>4. p \in Values /\ (p # NULL => Alive(heap, p))
  <2>1. p \in Values
    BY <1>2, <1>3, IntCount
  <2>2. p # NULL => p \in Ids /\ InAttributes(heap, p) > 0
    BY <1>2, <1>3, <2>1, HeldBy DEF Values, Sound, Typed
  <2> QED
    BY <1>3, <2>1, <2>2, HeldLives
<1> HIDE DEF p
<1>5. Sound(h, glob, Below, Hand(o, p)) /\ Alike(h, heap)
  <2>1. Hand(o, p) \in [Ids -> Nat] /\ \A i \in Ids : Hand(o, p)[i] = Hand(o, NULL)[i] + Is(p, i)
    BY HandSteps
  <2> QED
    BY <1>2, <1>4, <2>1, Took
<1> HIDE DEF h
<1>6. Sound(h, glob, t, Hand(o, NULL))
  <2>1. Hand(o, NULL) \in [Ids -> Nat] /\ \A i \in Ids : Hand(o, NULL)[i] + Is(p, i) = Hand(o, p)[i]
    BY HandSteps
  <2> QED
    BY <1>2, <1>4, <1>5, <2>1, PushedOperand
<1>7. Sound(h, glob, t \o Drop(o), Nothing)
  <2> HIDE DEF t, o
  <2>1. Nothing \in [Ids -> Nat] /\ (\A i \in Ids : Nothing[i] + Is(o, i) = Hand(o, NULL)[i]) /\ o \in Values
    BY <1>2, HandSteps DEF Values
  <2> QED
    BY <1>6, <2>1, Dropped
<1> QED
  BY <1>1, <1>5, <1>7, AlikeDue DEF Keeps, SameDue

LEMMA InvokeMethodSound ==
  ASSUME ObjectsAssumption, ~ Careless, IInv, InvokeMethod
  PROVE  Keeps
<1> DEFINE o == Top.val
<1>1. Top.do = "invoke" /\ glob' = glob /\ heap' = heap /\ stack' = Append(Below, Body("method", o, Top.dest))
  <2>1. Careless = FALSE
    BY DEF ObjectsAssumption
  <2>2. PICK refused \in {FALSE, Careless} :
          IF refused
          THEN /\ heap' = Ref(heap, o, 1)
               /\ stack' = Append(Below, Then("store", Top.dest, NULL)) \o Drop(o)
          ELSE /\ stack' = Append(Below, Body("method", o, Top.dest))
               /\ UNCHANGED heap
    BY DEF InvokeMethod
  <2>3. refused = FALSE
    BY <2>1
  <2>4. heap' = heap /\ stack' = Append(Below, Body("method", o, Top.dest))
    BY <2>2, <2>3
  <2> QED
    BY <2>4 DEF InvokeMethod, Finish
<1>2. /\ Sound(heap, glob, Below, Hand(o, NULL)) /\ o \in Ids
      /\ Top.dest \in Dests /\ Last(Below).do \in Scripts /\ Fits(Top.dest, Last(Below))
  BY <1>1, PoppedOperand
<1> HIDE DEF o
<1>3. "method" \in Bodies
  BY DEF Bodies
<1>4. Sound(heap, glob, Append(Below, Body("method", o, Top.dest)), Nothing)
  BY <1>2, <1>3, HandSteps, PushedBody
<1> QED
  BY <1>1, <1>4 DEF Keeps, SameDue
----------------------------------------------------------------------------
(* The last count of an instance, and its release.                         *)

MarkIn(h, o, n) == [h EXCEPT ![o].iRef = n, ![o].destroyed = TRUE]

LEMMA MarkFacts ==
  ASSUME NEW h \in [Ids -> Chunks], NEW o \in Ids, Alive(h, o), NEW n \in Int
  PROVE  /\ Due(MarkIn(h, o, n), o) <=> h[o].class \in Destructed
         /\ \A i \in Ids \ {o} : Due(MarkIn(h, o, n), i) <=> Due(h, i)
<1> DEFINE k == MarkIn(h, o, n)
<1>1. h[o] \in Instances
  BY AliveInstance
<1>2. k[o] = Marked(h[o], n) /\ \A i \in Ids \ {o} : k[i] = h[i]
  BY DEF Marked, MarkIn
<1> HIDE DEF k
<1>3. k[o].state = "living" /\ k[o].class = h[o].class /\ k[o].destroyed = TRUE
  <2>1. /\ Marked(h[o], n).state = "living" /\ Marked(h[o], n).class = h[o].class
        /\ Marked(h[o], n).destroyed = TRUE
    BY <1>1, MarkChanged
  <2> QED
    BY <1>2, <2>1, Zenon
<1>4. Due(k, o) <=> h[o].class \in Destructed
  BY <1>3 DEF Due, Gone, Alive
<1>5. \A i \in Ids \ {o} : Due(k, i) <=> Due(h, i)
  BY <1>2 DEF Due, Gone, Alive
<1> QED
  BY <1>4, <1>5 DEF k

LEMMA UnrefSound ==
  ASSUME ObjectsAssumption, ~ Careless, IInv, Unref
  PROVE  /\ Sound(heap', glob', stack', Nothing) /\ wild' = FALSE
         /\ ran' \in [Ids -> Nat] /\ RanOnce(ran', heap')
<1> DEFINE o == Top.val
           n == heap[o].iRef - 1
<1>1. Top.do = "drop" /\ glob' = glob
  BY DEF Unref, Finish
<1>2. Sound(heap, glob, Below, Hand(o, NULL)) /\ o \in Ids /\ Alive(heap, o) /\ o \in Values /\ o # NULL
  BY <1>1, PoppedOperand DEF ObjectsAssumption
<1>3. heap \in [Ids -> Chunks] /\ Below \in Seq(Entries) /\ ran \in [Ids -> Nat] /\ RanOnce(ran, heap)
  BY TopFacts DEF IInv
<1>4. heap[o].iRef \in Int /\ (~ heap[o].destroyed => heap[o].iRef >= 1)
  BY <1>2, <1>3, IntCount DEF Sound, Exact
<1>5. wild' = FALSE
  BY <1>2 DEF Unref, Living, Alive, IInv
<1>6. /\ n >= 1 \/ heap[o].destroyed =>
           heap' = [heap EXCEPT ![o].iRef = n] /\ stack' = Below /\ ran' = ran
      /\ ~ (n >= 1 \/ heap[o].destroyed) /\ heap[o].class \in Destructed =>
           /\ heap' = [heap EXCEPT ![o].iRef = 3, ![o].destroyed = TRUE]
           /\ ran' = [ran EXCEPT ![o] = @ + 1]
           /\ stack' = Below \o <<Free(o), Body("destruct", o, Nowhere)>>
      /\ ~ (n >= 1 \/ heap[o].destroyed) /\ heap[o].class \notin Destructed =>
           /\ heap' = [heap EXCEPT ![o].iRef = n, ![o].destroyed = TRUE]
           /\ stack' = Append(Below, Free(o)) /\ ran' = ran
  BY <1>2 DEF Unref, Living, Alive
<1> HIDE DEF o
<1>7. Hand(o, NULL) \in [Ids -> Nat] /\ Nothing \in [Ids -> Nat]
  BY HandSteps
<1>h. Hand(o, NULL)[o] = 1 /\ Nothing[o] = 0 /\ \A i \in Ids \ {o} : Hand(o, NULL)[i] = 0 /\ Nothing[i] = 0
  <2>1. \A i \in Ids : Hand(o, NULL)[i] = Nothing[i] + Is(o, i) /\ Nothing[i] = 0
    BY HandSteps, NothingType
  <2> QED
    BY <1>2, <2>1 DEF Is
<1>8. CASE n >= 1 \/ heap[o].destroyed
  <2> DEFINE k == Ref(heap, o, -1)
  <2>1. heap' = k /\ stack' = Below /\ ran' = ran
    <3>1. heap[o].iRef - 1 = heap[o].iRef + (-1)
      BY <1>4
    <3> QED
      BY <1>2, <1>6, <1>8, <3>1 DEF Ref
  <2>2. /\ k \in [Ids -> Chunks] /\ Alike(k, heap)
        /\ \A i \in Ids : Alive(heap, i) => k[i].iRef = heap[i].iRef + (IF o = i THEN -1 ELSE 0)
    <3>1. -1 \in Int
      OBVIOUS
    <3> QED
      BY <1>2, <1>3, <3>1, RefFacts
  <2> HIDE DEF k
  <2>3. \A i \in Ids : ~ Alive(heap, i) => Nothing[i] = Hand(o, NULL)[i]
    BY <1>2, <1>h
  <2>4. \A i \in Ids : Alive(heap, i) =>
          /\ k[i].iRef + Hand(o, NULL)[i] = heap[i].iRef + Nothing[i]
          /\ ~ heap[i].destroyed => k[i].iRef >= 1
    <3> SUFFICES ASSUME NEW i \in Ids, Alive(heap, i)
                 PROVE  /\ k[i].iRef + Hand(o, NULL)[i] = heap[i].iRef + Nothing[i]
                        /\ ~ heap[i].destroyed => k[i].iRef >= 1
      OBVIOUS
    <3>1. heap[i].iRef \in Int /\ (~ heap[i].destroyed => heap[i].iRef >= 1)
      BY <1>2, <1>3, IntCount DEF Sound, Exact
    <3>2. CASE i = o
      BY <1>4, <1>8, <1>h, <2>2, <3>2
    <3>3. CASE i # o
      BY <1>h, <2>2, <3>1, <3>3
    <3> QED
      BY <3>2, <3>3
  <2>5. Sound(k, glob, Below, Nothing)
    BY <1>2, <1>7, <2>2, <2>3, <2>4, Recounted DEF Alike
  <2> QED
    BY <1>1, <1>3, <1>5, <2>1, <2>2, <2>5, AlikeDue DEF RanOnce
<1>9. CASE ~ (n >= 1 \/ heap[o].destroyed)
  <2>1. heap[o].iRef = 1 /\ ~ heap[o].destroyed /\ n = 0
    BY <1>4, <1>9
  <2>2. ran[o] = 0
    <3>1. ~ Due(heap, o)
      BY <2>1 DEF Due, Gone
    <3> QED
      BY <1>2, <1>3, <3>1 DEF RanOnce
  <2>3. CASE heap[o].class \in Destructed
    <3> DEFINE t == Append(Below, Free(o))
    <3>1. /\ heap' = [heap EXCEPT ![o].iRef = 3, ![o].destroyed = TRUE]
          /\ ran' = [ran EXCEPT ![o] = @ + 1]
          /\ stack' = Below \o <<Free(o), Body("destruct", o, Nowhere)>>
      BY <1>6, <1>9, <2>3
    <3>2. Hand(o, NULL)[o] >= 1 /\ 3 = Hand(o, NULL)[o] + (IF heap[o].class \in Destructed THEN 2 ELSE 0) /\ 3 \in Int
      BY <1>h, <2>3
    <3>3. Sound(heap', glob, t, Hand(o, NULL))
      BY <1>2, <1>7, <2>1, <3>1, <3>2, Died
    <3>4. stack' = Append(t, Body("destruct", o, Nowhere))
      BY <1>3, <3>1
    <3> HIDE DEF t
    <3>5. "destruct" \in Bodies /\ Nowhere \in Dests /\ \A i \in Ids : Nothing[i] + Is(o, i) = Hand(o, NULL)[i]
      BY HandSteps DEF Bodies, Dests
    <3>6. Sound(heap', glob, Append(t, Body("destruct", o, Nowhere)), Nothing)
      BY <1>2, <1>7, <3>3, <3>5, PushedBody
    <3>7. Due(heap', o) /\ \A i \in Ids \ {o} : Due(heap', i) <=> Due(heap, i)
      <4> DEFINE k == MarkIn(heap, o, 3)
      <4>1. heap' = k /\ 3 \in Int
        BY <3>1 DEF MarkIn
      <4>2. (Due(k, o) <=> heap[o].class \in Destructed) /\ \A i \in Ids \ {o} : Due(k, i) <=> Due(heap, i)
        BY <1>2, <1>3, <4>1, MarkFacts
      <4> HIDE DEF k
      <4> QED
        BY <2>3, <3>1, <4>1, <4>2
    <3>8. ran' \in [Ids -> Nat] /\ ran'[o] = 1 /\ \A i \in Ids \ {o} : ran'[i] = ran[i]
      BY <1>2, <1>3, <2>2, <3>1
    <3>9. RanOnce(ran', heap')
      BY <1>3, <3>7, <3>8 DEF RanOnce
    <3> QED
      BY <1>1, <1>5, <3>4, <3>6, <3>8, <3>9
  <2>4. CASE heap[o].class \notin Destructed
    <3>1. /\ heap' = [heap EXCEPT ![o].iRef = 0, ![o].destroyed = TRUE]
          /\ stack' = Append(Below, Free(o)) /\ ran' = ran
      BY <1>6, <1>9, <2>1, <2>4
    <3>2. Hand(o, NULL)[o] >= 1 /\ 0 = Nothing[o] + (IF heap[o].class \in Destructed THEN 2 ELSE 0) /\ 0 \in Int
          /\ \A i \in Ids \ {o} : Nothing[i] = Hand(o, NULL)[i]
      BY <1>h, <2>4
    <3>3. Sound(heap', glob, Append(Below, Free(o)), Nothing)
      BY <1>2, <1>7, <2>1, <3>1, <3>2, Died
    <3>4. ~ Due(heap', o) /\ \A i \in Ids \ {o} : Due(heap', i) <=> Due(heap, i)
      <4> DEFINE k == MarkIn(heap, o, 0)
      <4>1. heap' = k /\ 0 \in Int
        BY <3>1 DEF MarkIn
      <4>2. (Due(k, o) <=> heap[o].class \in Destructed) /\ \A i \in Ids \ {o} : Due(k, i) <=> Due(heap, i)
        BY <1>2, <1>3, <4>1, MarkFacts
      <4> HIDE DEF k
      <4> QED
        BY <2>4, <3>1, <4>1, <4>2
    <3>5. RanOnce(ran, heap')
      BY <1>2, <1>3, <2>2, <3>4 DEF RanOnce
    <3> QED
      BY <1>1, <1>3, <1>5, <3>1, <3>3, <3>5
  <2> QED
    BY <2>3, <2>4
<1> QED
  BY <1>8, <1>9

LEMMA ReleaseInstanceSound ==
  ASSUME ObjectsAssumption, ~ Careless, IInv, ReleaseInstance
  PROVE  /\ Sound(heap', glob', stack', Nothing) /\ wild' = FALSE
         /\ ran' \in [Ids -> Nat] /\ RanOnce(ran', heap')
<1> DEFINE o == Top.val
           p == heap[o].p
<1>1. Top.do = "free" /\ glob' = glob /\ wild' = FALSE
  BY DEF ReleaseInstance, Finish, IInv
<1>2. /\ Sound(heap, glob, stack, Nothing) /\ heap \in [Ids -> Chunks] /\ Top \in Entries
      /\ Top = Last(stack) /\ Below = Front(stack) /\ ran \in [Ids -> Nat] /\ RanOnce(ran, heap)
      /\ stack \in Seq(Entries) /\ Len(stack) > 0
  BY TopFacts DEF IInv
<1>3. o \in Ids /\ Top = Free(o)
  BY <1>1, <1>2 DEF Entries, Free, Main, BodyRecords, Bodies
<1>4. Gone(heap, o)
  <2>1. Len(stack) \in DOMAIN stack /\ stack[Len(stack)] = Top
    BY <1>2 DEF Last
  <2> QED
    BY <1>1, <1>2, <2>1 DEF Sound, Releases
<1>5. Alive(heap, o) /\ p \in Values /\ NULL \in Values
  BY <1>2, <1>3, <1>4, IntCount DEF Gone, Values
<1>6. /\ p = NULL => heap' = [heap EXCEPT ![o] = Unborn] /\ stack' = Below /\ ran' = [ran EXCEPT ![o] = 0]
      /\ p # NULL => ran' = ran /\ heap' = SetValue(heap, o, NULL) /\ stack' = stack \o Drop(p)
  BY DEF ReleaseInstance, SetValue
<1> HIDE DEF o
<1>7. CASE p = NULL
  <2>1. heap' = [heap EXCEPT ![o] = Unborn] /\ stack' = Below /\ ran' = [ran EXCEPT ![o] = 0]
    BY <1>6, <1>7
  <2>2. Nothing[o] = 0
    BY <1>3, NothingType
  <2>3. Sound(heap', glob, Below, Nothing)
    BY <1>2, <1>3, <1>7, <2>1, <2>2, Freed
  <2>4. ~ Due(heap', o) /\ \A i \in Ids \ {o} : Due(heap', i) <=> Due(heap, i)
    BY <1>2, <1>3, <2>1 DEF Due, Gone, Alive, Unborn
  <2>5. ran' \in [Ids -> Nat] /\ RanOnce(ran', heap')
    BY <1>2, <1>3, <2>1, <2>4 DEF RanOnce
  <2> QED
    BY <1>1, <2>1, <2>3, <2>5
<1>8. CASE p # NULL
  <2>1. ran' = ran /\ heap' = SetValue(heap, o, NULL) /\ stack' = stack \o Drop(p)
    BY <1>6, <1>8
  <2>2. \A i \in Ids : Hand(p, NULL)[i] + Is(NULL, i) = Nothing[i] + Is(p, i)
    <3> HIDE DEF p
    <3> TAKE i \in Ids
    <3>1. Hand(p, NULL)[i] = Nothing[i] + Is(p, i) /\ Is(NULL, i) = 0 /\ Is(p, i) \in Nat /\ Nothing[i] = 0
      BY HandSteps, NothingType, IsType DEF ObjectsAssumption
    <3> QED
      BY <3>1
  <2>3. Hand(p, NULL) \in [Ids -> Nat] /\ Nothing \in [Ids -> Nat]
    BY HandSteps
  <2>4. Sound(SetValue(heap, o, NULL), glob, stack, Hand(p, NULL))
    BY <1>2, <1>3, <1>5, <2>2, <2>3, AttributeSet
  <2>5. Sound(SetValue(heap, o, NULL), glob, stack \o Drop(p), Nothing)
    <3> HIDE DEF p
    <3>1. \A i \in Ids : Nothing[i] + Is(p, i) = Hand(p, NULL)[i]
      BY HandSteps
    <3> QED
      BY <1>5, <2>3, <2>4, <3>1, Dropped
  <2>6. \A i \in Ids : Due(SetValue(heap, o, NULL), i) <=> Due(heap, i)
    <3>1. \A i \in Ids : /\ Alive(SetValue(heap, o, NULL), i) <=> Alive(heap, i)
                         /\ Alive(heap, i) => /\ SetValue(heap, o, NULL)[i].destroyed = heap[i].destroyed
                                              /\ SetValue(heap, o, NULL)[i].class = heap[i].class
      BY <1>2, <1>3, <1>5, ValueFacts
    <3> QED
      BY <3>1 DEF Due, Gone
  <2> QED
    BY <1>1, <1>2, <2>1, <2>5, <2>6 DEF RanOnce
<1> QED
  BY <1>7, <1>8
----------------------------------------------------------------------------
(* The invariant is inductive.                                             *)

LEMMA InitSound ==
  ASSUME ObjectsAssumption, Init
  PROVE  IInv
<1>1. /\ heap = [o \in Ids |-> Unborn] /\ glob = [g \in Globals |-> NULL]
      /\ stack = <<Main>> /\ ops = 0 /\ ran = [o \in Ids |-> 0] /\ wild = FALSE
  BY DEF Init
<1>2. heap \in [Ids -> Chunks] /\ glob \in [Globals -> Values] /\ Main \in Entries /\ Main.do = "main"
  BY <1>1 DEF Chunks, Values, Entries, Main
<1>3. /\ stack \in Seq(Entries) /\ Len(stack) = 1 /\ DOMAIN stack = 1 .. 1 /\ stack[1] = Main
  BY <1>1, <1>2
<1>4. \A o \in Ids : ~ Alive(heap, o)
  BY <1>1 DEF Alive, Unborn
<1>5. \A i \in DOMAIN stack : stack[i].do = "main" /\ i = 1 /\ ~ OnScript(stack[i])
  BY <1>2, <1>3 DEF OnScript
<1>6. Shape(stack)
  BY <1>3, <1>5 DEF Shape
<1>7. Releases(heap, stack)
  BY <1>4, <1>5 DEF Releases, Gone
<1>8. Apart(heap, glob, stack)
  BY <1>1, <1>4, <1>5 DEF Apart
<1>9. \A o \in Ids : Held(heap, glob, stack, o) = 0
  <2> SUFFICES ASSUME NEW o \in Ids PROVE Held(heap, glob, stack, o) = 0
    OBVIOUS
  <2>1. {x \in Globals : glob[x] = o} = {} /\ {i \in Ids : Alive(heap, i) /\ heap[i].p = o} = {}
    BY <1>1, <1>4 DEF ObjectsAssumption
  <2>2. InGlobals(glob, o) = 0 /\ InAttributes(heap, o) = 0
    BY <2>1, FS_EmptySet DEF InGlobals, InAttributes
  <2>3. \A i \in DOMAIN stack : ~ Holds(stack[i], o)
    BY <1>5 DEF Holds, ThisIs, LocalIs, LoopIs, OperandIs, Bodies
  <2>4. OnStack(stack, o) = 0
    BY <1>3, <2>3, StackFree
  <2> QED
    BY <2>2, <2>4 DEF Held
<1>10. Exact(heap, glob, stack, Nothing)
  <2>1. \A o \in Ids : Nothing[o] = 0 /\ Kept(heap, o) = 0 /\ Count(heap, o) = 0
    BY <1>4, NothingType DEF Kept, Count, Gone
  <2> QED
    BY <1>4, <1>9, <2>1 DEF Exact
<1>11. Sound(heap, glob, stack, Nothing)
  BY <1>2, <1>3, <1>6, <1>7, <1>8, <1>10, NothingType DEF Sound, Typed
<1>12. ops \in Nat /\ ran \in [Ids -> Nat] /\ RanOnce(ran, heap)
  BY <1>1, <1>4 DEF RanOnce, Due, Gone
<1> QED
  BY <1>1, <1>11, <1>12 DEF IInv

LEMMA KeptInvariant ==
  ASSUME IInv, Keeps, ran' = ran, wild' = wild, ops' \in Nat
  PROVE  IInv'
<1>1. RanOnce(ran', heap')
  BY DEF IInv, RanOnce, Keeps, SameDue
<1>2. wild' = FALSE /\ ran' \in [Ids -> Nat] /\ Sound(heap', glob', stack', Nothing)
  BY DEF IInv, Keeps
<1> QED
  BY <1>1, <1>2 DEF IInv, Nothing

LEMMA StepSound ==
  ASSUME ObjectsAssumption, ~ Careless, IInv, [Next]_vars
  PROVE  IInv'
<1>1. ops \in Nat
  BY DEF IInv
<1>2. Statement => ops' \in Nat
  BY <1>1 DEF Statement
<1>3. CASE UNCHANGED vars
  BY <1>3 DEF vars, IInv, Nothing
<1>4. ASSUME Running, NEW place \in Results(Top), NEW c \in Classes,
             NEW what \in {"store", "member", "invoke"}, New(what, place, c)
      PROVE  IInv'
  BY <1>2, <1>4, NewSound, KeptInvariant DEF New, Calls
<1>5. ASSUME Running, NEW place \in Results(Top), NEW source \in Sources(Top), Clone(place, source)
      PROVE  IInv'
  BY <1>2, <1>5, CloneSound, KeptInvariant DEF Clone, Calls
<1>6. ASSUME Running, NEW place \in Results(Top), NEW source \in Sources(Top), Call(place, source)
      PROVE  IInv'
  BY <1>2, <1>6, CallSound, KeptInvariant DEF Call, Calls
<1>7. ASSUME Running, NEW place \in Results(Top), SelfCall(place)
      PROVE  IInv'
  BY <1>2, <1>7, SelfCallSound, KeptInvariant DEF SelfCall, Calls
<1>8. ASSUME Running, NEW place \in Variables(Top) \cup Attributes(Top), NEW source \in Sources(Top),
             Assign(place, source)
      PROVE  IInv'
  BY <1>2, <1>8, AssignSound, KeptInvariant DEF Assign
<1>9. ASSUME Running, NEW source \in Sources(Top), Clear(source)
      PROVE  IInv'
  BY <1>2, <1>9, ClearSound, KeptInvariant DEF Clear
<1>10. ASSUME Running, NEW place \in Locals(Top), NEW source \in Sources(Top), ForeachInit(place, source)
       PROVE  IInv'
  BY <1>2, <1>10, ForeachInitSound, KeptInvariant DEF ForeachInit
<1>11. ASSUME Running, NEW source \in Sources(Top) \cup {Nowhere}, Return(source)
       PROVE  IInv'
  BY <1>1, <1>11, ReturnSound, KeptInvariant DEF Return
<1>12. CASE ForeachStep
  BY <1>1, <1>12, ForeachStepSound, KeptInvariant DEF ForeachStep
<1>13. CASE StoreResult
  BY <1>1, <1>13, StoreResultSound, KeptInvariant DEF StoreResult, Finish
<1>14. CASE LoadMember
  BY <1>1, <1>14, LoadMemberSound, KeptInvariant DEF LoadMember, Finish
<1>15. CASE InvokeMethod
  BY <1>1, <1>15, InvokeMethodSound, KeptInvariant DEF InvokeMethod, Finish
<1>16. CASE Unref
  BY <1>1, <1>16, UnrefSound DEF Unref, Finish, IInv, Nothing
<1>17. CASE ReleaseInstance
  BY <1>1, <1>17, ReleaseInstanceSound DEF ReleaseInstance, Finish, IInv, Nothing
<1> QED
  BY <1>3, <1>4, <1>5, <1>6, <1>7, <1>8, <1>9, <1>10, <1>11, <1>12, <1>13, <1>14, <1>15, <1>16, <1>17,
     Zenon DEF Next

LEMMA Inductive == ASSUME ~ Careless PROVE Spec => []IInv
<1> USE ObjectsAssumption
<1>1. Init => IInv
  BY InitSound
<1>2. IInv /\ [Next]_vars => IInv'
  BY StepSound
<1> QED
  BY <1>1, <1>2, PTL DEF Spec
----------------------------------------------------------------------------
(* What the invariant says of the counts, and of the destructors.          *)

LEMMA DestructingDue ==
  ASSUME IInv, ObjectsAssumption
  PROVE  \A o \in Ids : Destructing(o) <=> Due(heap, o)
<1> SUFFICES ASSUME NEW o \in Ids PROVE Destructing(o) <=> Due(heap, o)
  OBVIOUS
<1>1. /\ stack \in Seq(Entries) /\ Releases(heap, stack)
      /\ DOMAIN stack = 1 .. Len(stack) /\ \A i \in DOMAIN stack : stack[i] \in Entries
  BY DEF IInv, Sound, Typed
<1>2. \A e \in Entries : e.do = "free" /\ e.val = o <=> e = Free(o)
  BY DEF Entries, Free, Main, BodyRecords, Bodies
<1>3. Contains(stack, Free(o)) <=> \E i \in DOMAIN stack : stack[i].do = "free" /\ stack[i].val = o
  BY <1>1, <1>2 DEF Contains
<1>4. Alive(heap, o) => (Contains(stack, Free(o)) <=> Gone(heap, o))
  BY <1>1, <1>3 DEF Releases
<1> QED
  BY <1>4 DEF Destructing, Due, Living, Alive, Gone

LEMMA CountsFromInvariant ==
  ASSUME IInv, ObjectsAssumption
  PROVE  CountsExact
<1>1. /\ Sound(heap, glob, stack, Nothing) /\ stack \in Seq(Entries) /\ glob \in [Globals -> Values]
      /\ \A i \in DOMAIN stack : stack[i] \in Entries
  BY DEF IInv, Sound, Typed
<1>2. ~ wild
  BY DEF IInv
<1>3. ASSUME NEW o \in Ids
      PROVE  Holders(o) = (IF Living(o) THEN heap[o].iRef ELSE 0)
  <2>1. /\ Frames = {i \in DOMAIN stack : stack[i].do \in Bodies}
        /\ Operands = {i \in DOMAIN stack : stack[i].do \in {"store", "member", "invoke", "drop"}}
    BY DEF Frames, Operands
  <2>2. /\ {i \in Frames : stack[i].this = o} = At(stack, ThisIs(o))
        /\ {i \in Frames : stack[i].v = o} = At(stack, LocalIs(o))
    BY <1>1, <2>1 DEF At, ThisIs, LocalIs
  <2>3. {i \in Frames : stack[i].loop # << >> /\ stack[i].loop[1] = o} = At(stack, LoopIs(o))
    BY <1>1, <2>1 DEF At, LoopIs
  <2>4. {i \in Operands : stack[i].val = o} = At(stack, OperandIs(o))
    BY <1>1, <2>1 DEF At, OperandIs
  <2>5. {i \in Ids : Living(i) /\ heap[i].p = o} = {i \in Ids : Alive(heap, i) /\ heap[i].p = o}
    BY DEF Living, Alive
  <2>6. Kept(heap, o) = IF Destructing(o) THEN 2 ELSE 0
    BY DestructingDue DEF Kept, Due
  <2>7. /\ Cardinality(At(stack, ThisIs(o))) \in Nat /\ Cardinality(At(stack, LocalIs(o))) \in Nat
        /\ Cardinality(At(stack, LoopIs(o))) \in Nat /\ Cardinality(At(stack, OperandIs(o))) \in Nat
    <3>1. Main \in Entries
      BY DEF Entries
    <3> QED
      BY <1>1, <3>1, AppendCounted
  <2>8. InGlobals(glob, o) \in Nat /\ InAttributes(heap, o) \in Nat /\ Kept(heap, o) \in Nat
    BY <1>1, HeldType DEF Kept
  <2>9. Holders(o) = InGlobals(glob, o) + InAttributes(heap, o)
                     + Cardinality(At(stack, ThisIs(o))) + Cardinality(At(stack, LocalIs(o)))
                     + Cardinality(At(stack, LoopIs(o))) + Cardinality(At(stack, OperandIs(o)))
                     + Kept(heap, o)
    BY <2>2, <2>3, <2>4, <2>5, <2>6 DEF Holders, InGlobals, InAttributes
  <2>10. Held(heap, glob, stack, o) + Nothing[o] + Kept(heap, o) = Count(heap, o) /\ Nothing[o] = 0
    BY <1>1, NothingType DEF Sound, Exact
  <2>11. Holders(o) = Count(heap, o)
    BY <2>7, <2>8, <2>9, <2>10 DEF Held, OnStack
  <2> QED
    BY <2>11 DEF Count, Living, Alive
<1>4. ASSUME Len(stack) = 1, NEW o \in Ids, Living(o)
      PROVE  heap[o].iRef > 0 /\ ~ heap[o].destroyed
  <2>1. Last(stack).do = "main"
    BY <1>1, <1>4 DEF Sound, Shape, Last
  <2>2. ~ Gone(heap, o) /\ Alive(heap, o)
    BY <1>1, <1>4, <2>1, MainAlone DEF Living, Alive
  <2>3. heap[o].iRef >= 1 /\ heap[o].iRef \in Int
    BY <1>1, <2>2, IntCount DEF Sound, Exact, Gone, Typed
  <2> QED
    BY <2>2, <2>3 DEF Gone
<1> QED
  BY <1>2, <1>3, <1>4 DEF CountsExact

LEMMA DestructedFromInvariant ==
  ASSUME IInv, ObjectsAssumption
  PROVE  DestructedOnce
  BY DestructingDue DEF DestructedOnce, IInv, RanOnce

(***************************************************************************)
(* The count of an instance is the number of values that hold it, nothing  *)
(* that was freed is used, and between two statements of the main script   *)
(* no instance is left that nobody holds (oo.c:777-781), as long as scripts*)
(* keep out of what the code does not count.                               *)
(***************************************************************************)
THEOREM CountsKept == ASSUME ~ Careless PROVE Spec => []CountsExact
<1> USE ObjectsAssumption
<1>1. IInv => CountsExact
  BY CountsFromInvariant
<1> QED
  BY <1>1, Inductive, PTL

(* A destructor runs once, when the release of its instance begins (oo.c:792-799). *)
THEOREM DestructorsRunOnce == ASSUME ~ Careless PROVE Spec => []DestructedOnce
<1> USE ObjectsAssumption
<1>1. IInv => DestructedOnce
  BY DestructedFromInvariant
<1> QED
  BY <1>1, Inductive, PTL
=============================================================================
