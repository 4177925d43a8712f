-------------------------- MODULE EngineApiProofs --------------------------
(***************************************************************************)
(* Proofs about the engine and its machines, for every number of threads,  *)
(* machines and nested calls: types, one thread in a machine at a time, the*)
(* list of machines and, for a host that releases only what nobody uses,   *)
(* that every mutex is left as often as it is entered.                     *)
(***************************************************************************)
EXTENDS EngineApi, DListTheorems, SequenceTheorems

(***************************************************************************)
(* Calls.  Calls are counted rather than looked up: two nested calls of a  *)
(* thread may be equal.                                                    *)
(***************************************************************************)
FramesOf(s) == {s[i] : i \in DOMAIN s}
Rest(t) == FramesOf(Tail(stack[t]))
Counted(s, H) == Cardinality({i \in DOMAIN s : s[i] \in H})

----------------------------------------------------------------------------
(***************************************************************************)
(* A stack is its top and the rest.                                        *)
(***************************************************************************)
Holds(S, H) == IF S \cap H = {} THEN 0 ELSE 1

LEMMA Indices ==
  ASSUME NEW S, NEW s \in Seq(S), NEW H
  PROVE  IsFiniteSet({i \in DOMAIN s : s[i] \in H}) /\ Counted(s, H) \in Nat
<1>1. DOMAIN s = 1..Len(s) /\ Len(s) \in Nat
  BY LenProperties
<1>2. IsFiniteSet(1..Len(s))
  BY <1>1, FS_Interval
<1>3. {i \in DOMAIN s : s[i] \in H} \in SUBSET (1..Len(s))
  BY <1>1
<1>4. IsFiniteSet({i \in DOMAIN s : s[i] \in H})
  BY <1>2, <1>3, FS_Subset
<1> QED BY <1>4, FS_CardinalityType DEF Counted

(* A frame on top of a stack moves the others by one. *)
LEMMA OnTop ==
  ASSUME NEW S, NEW s \in Seq(S), NEW f \in S
  PROVE  /\ <<f>> \o s \in Seq(S) /\ <<f>> \o s # << >>
         /\ Head(<<f>> \o s) = f /\ Tail(<<f>> \o s) = s
         /\ FramesOf(<<f>> \o s) = FramesOf(s) \cup {f}
<1> DEFINE r == <<f>> \o s
<1>1. <<f>> \in Seq(S) /\ Len(<<f>>) = 1 /\ <<f>>[1] = f
  OBVIOUS
<1>2. Len(s) \in Nat /\ DOMAIN s = 1..Len(s)
  BY LenProperties
<1>3. r \in Seq(S) /\ Len(r) = 1 + Len(s)
      /\ \A i \in 1..(1 + Len(s)) : r[i] = IF i <= 1 THEN <<f>>[i] ELSE s[i - 1]
  BY <1>1, ConcatProperties
<1> HIDE DEF r
<1>4. DOMAIN r = 1..Len(r)
  BY <1>3, LenProperties
<1>5. r # << >>
  BY <1>2, <1>3
<1>6. r[1] = f /\ \A i \in 1..Len(s) : i + 1 \in DOMAIN r /\ r[i+1] = s[i]
  BY <1>1, <1>2, <1>3, <1>4
<1>7. Head(r) = f
  BY <1>5, <1>6
<1>8. Tail(r) = s
  <2>1. Tail(r) \in Seq(S) /\ Len(Tail(r)) = Len(s) /\ \A i \in 1..Len(Tail(r)) : Tail(r)[i] = r[i+1]
    BY <1>2, <1>3, <1>5, HeadTailProperties
  <2>2. \A i \in 1..Len(s) : Tail(r)[i] = s[i]
    BY <1>6, <2>1
  <2> QED BY <2>1, <2>2, SeqEqual
<1>9. FramesOf(r) = FramesOf(s) \cup {f}
  <2>1. \A x \in FramesOf(s) \cup {f} : x \in FramesOf(r)
    <3>1. 1 \in DOMAIN r
      BY <1>2, <1>3, <1>4
    <3> QED BY <1>2, <1>6, <3>1 DEF FramesOf
  <2>2. ASSUME NEW i \in DOMAIN r PROVE r[i] \in FramesOf(s) \cup {f}
    <3>1. CASE i = 1
      BY <1>6, <3>1
    <3>2. CASE i # 1
      <4>1. i - 1 \in DOMAIN s /\ r[i] = s[i-1]
        BY <1>2, <1>3, <1>4, <3>2
      <4> QED BY <4>1 DEF FramesOf
    <3> QED BY <3>1, <3>2
  <2> QED BY <2>1, <2>2 DEF FramesOf
<1> QED BY <1>3, <1>5, <1>7, <1>8, <1>9 DEF r

LEMMA CountedOnTop ==
  ASSUME NEW S, NEW s \in Seq(S), NEW f \in S, NEW H
  PROVE  Counted(<<f>> \o s, H) = Counted(s, H) + Holds({f}, H)
<1> DEFINE r == <<f>> \o s
<1>1. <<f>> \in Seq(S) /\ Len(<<f>>) = 1 /\ <<f>>[1] = f
  OBVIOUS
<1>2. Len(s) \in Nat /\ DOMAIN s = 1..Len(s)
  BY LenProperties
<1>3. r \in Seq(S) /\ Len(r) = 1 + Len(s)
      /\ \A i \in 1..(1 + Len(s)) : r[i] = IF i <= 1 THEN <<f>>[i] ELSE s[i - 1]
  BY <1>1, ConcatProperties
<1> HIDE DEF r
<1>4. DOMAIN r = 1..Len(r)
  BY <1>3, LenProperties
<1>5. r # << >>
  BY <1>2, <1>3
<1>6. r[1] = f /\ \A i \in 1..Len(s) : i + 1 \in DOMAIN r /\ r[i+1] = s[i]
  BY <1>1, <1>2, <1>3, <1>4
<1> DEFINE A == {i \in DOMAIN s : s[i] \in H}
           B == {i \in DOMAIN r : r[i] \in H}
           C == {i + 1 : i \in A}
           up == [i \in A |-> i + 1]
<1>c1. IsFiniteSet(A) /\ Cardinality(A) \in Nat /\ Counted(s, H) = Cardinality(A) /\ Counted(r, H) = Cardinality(B)
  BY Indices DEF Counted
<1>c2. ExistsBijection(A, C)
  <2>1. A \subseteq Nat
    BY <1>2
  <2>2. up \in [A -> C] /\ (\A i, j \in A : up[i] = up[j] => i = j) /\ (\A x \in C : \E i \in A : up[i] = x)
    BY <2>1
  <2> HIDE DEF up, A, C
  <2>3. up \in Injection(A, C) /\ up \in Surjection(A, C)
    BY <2>2 DEF Injection, IsInjective, Surjection
  <2> QED BY <2>3 DEF ExistsBijection, Bijection
<1>c3. IsFiniteSet(C) /\ Cardinality(C) = Cardinality(A)
  <2> HIDE DEF A, C
  <2> QED BY <1>c1, <1>c2, FS_Bijection
<1>c4. 1 \notin C
  BY <1>2
<1>c5. B = C \cup (IF f \in H THEN {1} ELSE {})
  <2>1. ASSUME NEW i \in B PROVE i \in C \cup (IF f \in H THEN {1} ELSE {})
    <3>1. CASE i = 1
      BY <1>6, <3>1
    <3>2. CASE i # 1
      <4>1. i - 1 \in DOMAIN s /\ r[i] = s[i-1] /\ (i - 1) + 1 = i
        BY <1>2, <1>3, <1>4, <3>2
      <4>2. i - 1 \in A
        BY <4>1
      <4> QED BY <4>1, <4>2
    <3> QED BY <3>1, <3>2
  <2>2. ASSUME NEW i \in A PROVE i + 1 \in B
    BY <1>2, <1>6
  <2>3. 1 \in DOMAIN r
    BY <1>2, <1>3, <1>4
  <2> QED BY <1>6, <2>1, <2>2, <2>3
<1> HIDE DEF A, B, C
<1>c6. CASE f \in H
  <2>1. Cardinality(C \cup {1}) = Cardinality(C) + 1
    BY <1>c3, <1>c4, FS_AddElement
  <2>2. Holds({f}, H) = 1 /\ B = C \cup {1}
    BY <1>c5, <1>c6 DEF Holds
  <2> QED BY <1>c1, <1>c3, <2>1, <2>2 DEF r
<1>c7. CASE f \notin H
  <2>1. Holds({f}, H) = 0 /\ B = C
    BY <1>c5, <1>c7 DEF Holds
  <2> QED BY <1>c1, <1>c3, <2>1 DEF r
<1> QED BY <1>c6, <1>c7 DEF r

LEMMA TopAndRest ==
  ASSUME NEW S, NEW s \in Seq(S), s # << >>
  PROVE  /\ Head(s) \in S /\ Tail(s) \in Seq(S) /\ s = <<Head(s)>> \o Tail(s)
         /\ \A f \in S : [s EXCEPT ![1] = f] = <<f>> \o Tail(s)
<1>1. Head(s) \in S /\ Tail(s) \in Seq(S) /\ Len(Tail(s)) = Len(s) - 1
      /\ \A i \in 1..Len(Tail(s)) : Tail(s)[i] = s[i+1]
  BY HeadTailProperties
<1>2. Len(s) \in Nat \ {0} /\ Head(s) = s[1] /\ DOMAIN s = 1..Len(s)
  BY EmptySeq, LenProperties
<1>3. ASSUME NEW f \in S PROVE [s EXCEPT ![1] = f] = <<f>> \o Tail(s)
  <2> DEFINE r == [s EXCEPT ![1] = f]
             q == <<f>> \o Tail(s)
  <2>1. r \in Seq(S) /\ Len(r) = Len(s) /\ \A j \in 1..Len(s) : r[j] = IF j = 1 THEN f ELSE s[j]
    BY <1>2, ExceptSeq
  <2>2. <<f>> \in Seq(S) /\ Len(<<f>>) = 1 /\ <<f>>[1] = f
    OBVIOUS
  <2>3. q \in Seq(S) /\ Len(q) = 1 + Len(Tail(s))
        /\ \A i \in 1..(1 + Len(Tail(s))) : q[i] = IF i <= 1 THEN <<f>>[i] ELSE Tail(s)[i - 1]
    BY <1>1, <2>2, ConcatProperties
  <2> HIDE DEF r, q
  <2>4. ASSUME NEW i \in 1..Len(s) PROVE r[i] = q[i]
    <3>1. CASE i = 1
      <4>1. 1 \in 1..Len(s) /\ 1 \in 1..(1 + Len(Tail(s)))
        BY <1>1, <1>2
      <4>2. q[1] = <<f>>[1]
        BY <2>3, <4>1
      <4>3. r[1] = f
        BY <2>1, <4>1
      <4> QED BY <2>2, <3>1, <4>2, <4>3
    <3>2. CASE i # 1
      <4>1. i - 1 \in 1..Len(Tail(s)) /\ (i - 1) + 1 = i
        BY <1>1, <1>2, <3>2
      <4>2. q[i] = Tail(s)[i-1] /\ Tail(s)[i-1] = s[i]
        BY <1>1, <2>3, <3>2, <4>1
      <4> QED BY <2>1, <3>2, <4>2
    <3> QED BY <3>1, <3>2
  <2>5. Len(r) = Len(q)
    BY <1>1, <1>2, <2>1, <2>3
  <2>6. r = q
    BY <2>1, <2>3, <2>4, <2>5, SeqEqual
  <2> QED BY <2>6 DEF r, q
<1>4. [s EXCEPT ![1] = Head(s)] = s
  BY <1>2
<1> QED BY <1>1, <1>3, <1>4
----------------------------------------------------------------------------
(***************************************************************************)
(* Types, and which calls there can be.                                    *)
(***************************************************************************)
(* The calls that have entered a mutex and not left it. *)
Held(l) == {c \in Frames : \/ c.lock = l /\ c.at \in Inside
                           \/ l = EngineLock /\ c.at \in {"unlink", "eng_leave"}}
CompilingOf(v) == {c \in Frames : c.at = "compiling" /\ c.v = v}
Compiled == {c.v : c \in {d \in AllCalls : d.at = "compiling"}}

(* The labels and arguments that go with an operation. *)
FrameOK(c) ==
  /\ c \in Frames
  /\ c.op \in VmOps => c.v \in Vms /\ \E g \in 1..MaxGen : c.lock = <<c.v, g>>
  /\ c.op \in EngineOps => c.lock = EngineLock
  /\ c.op \in {"config", "release"} \/ (c.op = "compile" /\ c.at \notin {"compiling", "leave"}) => c.v = NULL
  /\ c.at = "compiling" => c.op = "compile" /\ c.v \in Vms
  /\ c.at = "executing" => c.op = "exec"
  /\ c.at \in {"eng_enter", "unlink", "eng_leave"} => c.op = "vm_release"
  /\ c.at = "destroy" => c.op = "release"

(* Only a running script and a compilation call back; an engine is released   *)
(* from outside of any call, a machine from outside of any call on it.        *)
StackOK(t) ==
  /\ \A c \in Calls(t) : FrameOK(c)
  /\ Busy(t) => /\ \A c \in Rest(t) : c.at \in {"executing", "compiling"}
                /\ Top(t).op = "release" => Rest(t) = {}
                /\ Top(t).op = "vm_release" => \A c \in Rest(t) : c.v # Top(t).v

Typed == TypeOK /\ \A t \in Threads : StackOK(t)

(***************************************************************************)
(* A step changes one stack: some calls stay, at most one goes and at most *)
(* one comes.                                                              *)
(***************************************************************************)
StackStep(t, keep, old, fresh) ==
  /\ stack' \in [Threads -> Seq(Frames)]
  /\ \A u \in Threads : u # t => stack'[u] = stack[u]
  /\ Calls(t) = keep \cup old /\ Calls(t)' = keep \cup fresh
  /\ \A H : Counted(stack'[t], H) = Counted(stack[t], H) - Holds(old, H) + Holds(fresh, H)

Becomes(t, f) == stack' = [stack EXCEPT ![t] = [stack[t] EXCEPT ![1] = f]]
NewFrame(op, v, lock) == [op |-> op, v |-> v, lock |-> lock, at |-> "enter"]
To(c, label) == [op |-> c.op, v |-> c.v, lock |-> c.lock, at |-> label]

LEMMA StackParts ==
  ASSUME TypeOK, NEW t \in Threads, Busy(t)
  PROVE  /\ stack[t] \in Seq(Frames) /\ Top(t) \in Frames /\ Tail(stack[t]) \in Seq(Frames)
         /\ Calls(t) = Rest(t) \cup {Top(t)}
         /\ \A H : Counted(stack[t], H) = Counted(Tail(stack[t]), H) + Holds({Top(t)}, H)
<1>1. stack[t] \in Seq(Frames) /\ stack[t] # << >>
  BY DEF TypeOK, Busy
<1>2. /\ Top(t) \in Frames /\ Tail(stack[t]) \in Seq(Frames)
      /\ stack[t] = <<Top(t)>> \o Tail(stack[t])
  BY <1>1, TopAndRest DEF Top
<1>3. FramesOf(<<Top(t)>> \o Tail(stack[t])) = FramesOf(Tail(stack[t])) \cup {Top(t)}
  BY <1>2, OnTop
<1>4. \A H : Counted(<<Top(t)>> \o Tail(stack[t]), H) = Counted(Tail(stack[t]), H) + Holds({Top(t)}, H)
  BY <1>2, CountedOnTop
<1>5. Calls(t) = FramesOf(stack[t])
  BY DEF Calls, FramesOf
<1>6. FramesOf(stack[t]) = Rest(t) \cup {Top(t)}
  BY <1>2, <1>3 DEF Rest
<1>7. \A H : Counted(stack[t], H) = Counted(Tail(stack[t]), H) + Holds({Top(t)}, H)
  BY <1>2, <1>4
<1> QED BY <1>1, <1>2, <1>5, <1>6, <1>7

LEMMA Replaced ==
  ASSUME TypeOK, NEW t \in Threads, Busy(t), NEW f \in Frames, Becomes(t, f)
  PROVE  /\ StackStep(t, Rest(t), {Top(t)}, {f})
         /\ Busy(t)' /\ Top(t)' = f /\ Rest(t)' = Rest(t)
<1> DEFINE s == stack[t]
           r == <<f>> \o Tail(s)
<1>1. /\ s \in Seq(Frames) /\ Top(t) \in Frames /\ Tail(s) \in Seq(Frames)
      /\ Calls(t) = Rest(t) \cup {Top(t)}
      /\ \A H : Counted(s, H) = Counted(Tail(s), H) + Holds({Top(t)}, H)
  BY StackParts
<1>2. stack'[t] = r /\ \A u \in Threads : u # t => stack'[u] = stack[u]
  <2>1. [s EXCEPT ![1] = f] = r
    BY <1>1, TopAndRest DEF Busy
  <2>2. stack' = [stack EXCEPT ![t] = [s EXCEPT ![1] = f]]
    BY DEF Becomes
  <2>3. stack \in [Threads -> Seq(Frames)]
    BY DEF TypeOK
  <2> QED BY <2>1, <2>2, <2>3
<1> DEFINE q == Tail(s)
<1> HIDE DEF q
<1>q. q \in Seq(Frames)
  BY <1>1 DEF q
<1>3. /\ r \in Seq(Frames) /\ r # << >>
      /\ Head(r) = f /\ Tail(r) = q
      /\ FramesOf(r) = FramesOf(q) \cup {f}
      /\ \A H : Counted(r, H) = Counted(q, H) + Holds({f}, H)
  <2>1. /\ <<f>> \o q \in Seq(Frames) /\ <<f>> \o q # << >>
        /\ Head(<<f>> \o q) = f /\ Tail(<<f>> \o q) = q
        /\ FramesOf(<<f>> \o q) = FramesOf(q) \cup {f}
    BY <1>q, OnTop
  <2>2. ASSUME NEW H PROVE Counted(<<f>> \o q, H) = Counted(q, H) + Holds({f}, H)
    BY <1>q, CountedOnTop
  <2>3. r = <<f>> \o q
    BY DEF q
  <2> HIDE DEF r
  <2>4. \A H : Counted(r, H) = Counted(q, H) + Holds({f}, H)
    BY <2>2, <2>3, Zenon
  <2> QED BY <2>1, <2>3, <2>4
<1>4. stack' \in [Threads -> Seq(Frames)]
  <2>1. stack \in [Threads -> Seq(Frames)] /\ stack' = [stack EXCEPT ![t] = [s EXCEPT ![1] = f]]
    BY DEF TypeOK, Becomes
  <2>2. [s EXCEPT ![1] = f] = r
    BY <1>1, TopAndRest DEF Busy
  <2> QED BY <1>3, <2>1, <2>2
<1> HIDE DEF r
<1>5. Calls(t)' = Rest(t) \cup {f}
  BY <1>2, <1>3 DEF Calls, FramesOf, Rest, q
<1>6. \A H : Counted(stack'[t], H) = Counted(s, H) - Holds({Top(t)}, H) + Holds({f}, H)
  <2> SUFFICES ASSUME NEW H PROVE Counted(r, H) = Counted(s, H) - Holds({Top(t)}, H) + Holds({f}, H)
    BY <1>2
  <2>1. Counted(q, H) \in Nat
    BY <1>q, Indices
  <2>2. Holds({Top(t)}, H) \in Nat /\ Holds({f}, H) \in Nat
    BY DEF Holds
  <2>3. Counted(s, H) = Counted(q, H) + Holds({Top(t)}, H)
    BY <1>1 DEF q
  <2>4. Counted(r, H) = Counted(q, H) + Holds({f}, H)
    BY <1>3
  <2> QED BY <2>1, <2>2, <2>3, <2>4
<1> QED BY <1>1, <1>2, <1>3, <1>4, <1>5, <1>6 DEF StackStep, Busy, Top, Rest, q

LEMMA Popped ==
  ASSUME TypeOK, NEW t \in Threads, Busy(t), Return(t)
  PROVE  /\ StackStep(t, Rest(t), {Top(t)}, {})
         /\ Busy(t)' => Top(t)' \in Rest(t) /\ Rest(t)' \subseteq Rest(t)
<1> DEFINE s == stack[t]
           r == Tail(s)
<1>1. /\ s \in Seq(Frames) /\ Top(t) \in Frames /\ r \in Seq(Frames)
      /\ Calls(t) = Rest(t) \cup {Top(t)}
      /\ \A H : Counted(s, H) = Counted(r, H) + Holds({Top(t)}, H)
  BY StackParts
<1>2. /\ stack' \in [Threads -> Seq(Frames)]
      /\ stack'[t] = r /\ \A u \in Threads : u # t => stack'[u] = stack[u]
  BY <1>1 DEF TypeOK, Return
<1> HIDE DEF r
<1>3. Calls(t)' = Rest(t) \cup {}
  BY <1>2 DEF Calls, FramesOf, Rest, r
<1>4. \A H : Counted(stack'[t], H) = Counted(s, H) - Holds({Top(t)}, H) + Holds({}, H)
  <2> SUFFICES ASSUME NEW H PROVE Counted(r, H) = Counted(s, H) - Holds({Top(t)}, H) + Holds({}, H)
    BY <1>2
  <2>1. Counted(r, H) \in Nat
    BY <1>1, Indices
  <2>2. Holds({Top(t)}, H) \in Nat /\ Holds({}, H) = 0
    BY DEF Holds
  <2>3. Counted(s, H) = Counted(r, H) + Holds({Top(t)}, H)
    BY <1>1
  <2> QED BY <2>1, <2>2, <2>3
<1>5. ASSUME Busy(t)' PROVE Top(t)' \in Rest(t) /\ Rest(t)' \subseteq Rest(t)
  <2>1. r # << >>
    BY <1>2, <1>5 DEF Busy
  <2>2. Head(r) \in Frames /\ Tail(r) \in Seq(Frames) /\ r = <<Head(r)>> \o Tail(r)
    BY <1>1, <2>1, TopAndRest
  <2>3. FramesOf(<<Head(r)>> \o Tail(r)) = FramesOf(Tail(r)) \cup {Head(r)}
    BY <2>2, OnTop
  <2>4. FramesOf(r) = FramesOf(Tail(r)) \cup {Head(r)}
    BY <2>2, <2>3
  <2> QED BY <1>2, <2>4 DEF Top, Rest, r
<1> QED BY <1>1, <1>2, <1>3, <1>4, <1>5 DEF StackStep

LEMMA Pushed ==
  ASSUME TypeOK, NEW t \in Threads, NEW op, NEW v, NEW lock, Push(t, op, v, lock),
         NewFrame(op, v, lock) \in Frames
  PROVE  /\ StackStep(t, Calls(t), {}, {NewFrame(op, v, lock)})
         /\ Busy(t)' /\ Top(t)' = NewFrame(op, v, lock) /\ Rest(t)' = Calls(t)
<1> DEFINE s == stack[t]
           f == NewFrame(op, v, lock)
           r == <<f>> \o s
<1>1. s \in Seq(Frames)
  BY DEF TypeOK
<1>2. stack' = [stack EXCEPT ![t] = r] /\ f \in Frames
  BY DEF Push, NewFrame
<1> HIDE DEF f
<1>3. /\ r \in Seq(Frames) /\ r # << >>
      /\ Head(r) = f /\ Tail(r) = s
      /\ FramesOf(r) = FramesOf(s) \cup {f}
      /\ \A H : Counted(r, H) = Counted(s, H) + Holds({f}, H)
  <2> HIDE DEF s
  <2>1. /\ <<f>> \o s \in Seq(Frames) /\ <<f>> \o s # << >>
        /\ Head(<<f>> \o s) = f /\ Tail(<<f>> \o s) = s
        /\ FramesOf(<<f>> \o s) = FramesOf(s) \cup {f}
    BY <1>1, <1>2, OnTop
  <2>2. ASSUME NEW H PROVE Counted(<<f>> \o s, H) = Counted(s, H) + Holds({f}, H)
    BY <1>1, <1>2, CountedOnTop
  <2>3. r = <<f>> \o s
    OBVIOUS
  <2> HIDE DEF r
  <2>4. \A H : Counted(r, H) = Counted(s, H) + Holds({f}, H)
    BY <2>2, <2>3, Zenon
  <2> QED BY <2>1, <2>3, <2>4
<1> HIDE DEF r
<1>4. stack' \in [Threads -> Seq(Frames)] /\ stack'[t] = r /\ \A u \in Threads : u # t => stack'[u] = stack[u]
  BY <1>2, <1>3 DEF TypeOK
<1>5. Calls(t)' = Calls(t) \cup {f} /\ Calls(t) = Calls(t) \cup {}
  BY <1>3, <1>4 DEF Calls, FramesOf
<1>6. \A H : Counted(stack'[t], H) = Counted(s, H) - Holds({}, H) + Holds({f}, H)
  <2> SUFFICES ASSUME NEW H PROVE Counted(r, H) = Counted(s, H) - Holds({}, H) + Holds({f}, H)
    BY <1>4
  <2>1. Counted(s, H) \in Nat
    BY <1>1, Indices
  <2>2. Holds({f}, H) \in Nat /\ Holds({}, H) = 0
    BY DEF Holds
  <2>3. Counted(r, H) = Counted(s, H) + Holds({f}, H)
    BY <1>3
  <2> QED BY <2>1, <2>2, <2>3
<1>7. Busy(t)' /\ Top(t)' = f /\ Rest(t)' = Calls(t)
  BY <1>3, <1>4 DEF Busy, Top, Rest, Calls, FramesOf
<1> QED BY <1>4, <1>5, <1>6, <1>7 DEF StackStep, f

(* The stacks stay well formed, whichever way they change. *)
LEMMA StacksReplaced ==
  ASSUME Typed, NEW t \in Threads, Busy(t), NEW f \in Frames, Becomes(t, f),
         FrameOK(f), f.op = Top(t).op, f.op = "vm_release" => f.v = Top(t).v
  PROVE  stack' \in [Threads -> Seq(Frames)] /\ \A u \in Threads : StackOK(u)'
<1>1. TypeOK /\ StackOK(t)
  BY DEF Typed
<1>2. StackStep(t, Rest(t), {Top(t)}, {f}) /\ Busy(t)' /\ Top(t)' = f /\ Rest(t)' = Rest(t)
  BY <1>1, Replaced
<1>3. Calls(t) = Rest(t) \cup {Top(t)} /\ Calls(t)' = Rest(t) \cup {f}
  BY <1>2 DEF StackStep
<1>4. StackOK(t)'
  BY <1>1, <1>2, <1>3 DEF StackOK, FrameOK
<1>5. ASSUME NEW u \in Threads, u # t PROVE StackOK(u)'
  <2>1. stack'[u] = stack[u] /\ StackOK(u)
    BY <1>2, <1>5 DEF StackStep, Typed
  <2> QED BY <2>1 DEF StackOK, Calls, Busy, Rest, Top, FrameOK
<1> QED BY <1>2, <1>4, <1>5 DEF StackStep

LEMMA StacksPopped ==
  ASSUME Typed, NEW t \in Threads, Busy(t), Return(t)
  PROVE  stack' \in [Threads -> Seq(Frames)] /\ \A u \in Threads : StackOK(u)'
<1>1. TypeOK /\ StackOK(t)
  BY DEF Typed
<1>2. StackStep(t, Rest(t), {Top(t)}, {}) /\ (Busy(t)' => Top(t)' \in Rest(t) /\ Rest(t)' \subseteq Rest(t))
  BY <1>1, Popped
<1>3. Calls(t) = Rest(t) \cup {Top(t)} /\ Calls(t)' = Rest(t)
  BY <1>2 DEF StackStep
<1>4. \A c \in Rest(t) : FrameOK(c) /\ c.at \in {"executing", "compiling"} /\ c.op \in {"exec", "compile"}
  BY <1>1, <1>3 DEF StackOK, FrameOK
<1>5. StackOK(t)'
  BY <1>2, <1>3, <1>4 DEF StackOK, FrameOK
<1>6. ASSUME NEW u \in Threads, u # t PROVE StackOK(u)'
  <2>1. stack'[u] = stack[u] /\ StackOK(u)
    BY <1>2, <1>6 DEF StackStep, Typed
  <2> QED BY <2>1 DEF StackOK, Calls, Busy, Rest, Top, FrameOK
<1> QED BY <1>2, <1>5, <1>6 DEF StackStep

LEMMA StacksPushed ==
  ASSUME Typed, NEW t \in Threads, NEW op, NEW v, NEW lock, Push(t, op, v, lock), MayCall(t),
         FrameOK(NewFrame(op, v, lock)), op = "release" => ~Busy(t),
         op = "vm_release" => \A c \in Calls(t) : c.v # v
  PROVE  stack' \in [Threads -> Seq(Frames)] /\ \A u \in Threads : StackOK(u)'
<1> DEFINE f == NewFrame(op, v, lock)
<1>1. TypeOK /\ StackOK(t)
  BY DEF Typed
<1>2. StackStep(t, Calls(t), {}, {f}) /\ Busy(t)' /\ Top(t)' = f /\ Rest(t)' = Calls(t)
  BY <1>1, Pushed DEF FrameOK
<1>3. Calls(t)' = Calls(t) \cup {f} /\ f.op = op /\ f.v = v
  BY <1>2 DEF StackStep, NewFrame
<1> HIDE DEF f
<1>4. \A c \in Calls(t) : c.at \in {"executing", "compiling"}
  <2>1. CASE Busy(t)
    <3>1. Calls(t) = Rest(t) \cup {Top(t)}
      BY <1>1, <2>1, StackParts
    <3> QED BY <1>1, <2>1, <3>1 DEF StackOK, MayCall
  <2>2. CASE ~Busy(t)
    <3>1. stack[t] = << >>
      BY <2>2 DEF Busy
    <3> QED BY <3>1 DEF Calls
  <2> QED BY <2>1, <2>2
<1>5. ~Busy(t) => Calls(t) = {}
  BY DEF Busy, Calls
<1>6. StackOK(t)'
  <2>1. \A c \in Calls(t)' : FrameOK(c)
    BY <1>1, <1>3 DEF StackOK, f
  <2> QED BY <1>2, <1>3, <1>4, <1>5, <2>1 DEF StackOK, FrameOK
<1>7. ASSUME NEW u \in Threads, u # t PROVE StackOK(u)'
  <2>1. stack'[u] = stack[u] /\ StackOK(u)
    BY <1>2, <1>7 DEF StackStep, Typed
  <2> QED BY <2>1 DEF StackOK, Calls, Busy, Rest, Top, FrameOK
<1> QED BY <1>2, <1>6, <1>7 DEF StackStep

(* Goto changes the label of the innermost call. *)
LEMMA Relabels ==
  ASSUME Typed, NEW t \in Threads, Busy(t), NEW label \in Labels, Goto(t, label),
         FrameOK(To(Top(t), label))
  PROVE  Becomes(t, To(Top(t), label))
<1> DEFINE f == [Top(t) EXCEPT !.at = label]
<1>1. stack[t] \in Seq(Frames) /\ Top(t) \in Frames
  BY StackParts DEF Typed
<1>2. f = To(Top(t), label)
  BY <1>1 DEF Frames, To
<1>3. stack' = [stack EXCEPT ![t] = [stack[t] EXCEPT ![1] = f]]
  <2>1. stack \in [Threads -> Seq(Frames)] /\ Top(t) = stack[t][1]
    BY DEF Typed, TypeOK, Top, Busy
  <2> QED BY <2>1 DEF Goto
<1> HIDE DEF f
<1> QED BY <1>2, <1>3 DEF Becomes

(* ProcessScript notes the machine it works on. *)
LEMMA RelabelsFor ==
  ASSUME Typed, NEW t \in Threads, Busy(t), NEW label \in Labels, NEW v \in Vms \cup {NULL},
         stack' = [stack EXCEPT ![t][1].at = label, ![t][1].v = v]
  PROVE  \E f \in Frames : /\ f = [op |-> Top(t).op, v |-> v, lock |-> Top(t).lock, at |-> label]
                           /\ Becomes(t, f)
<1> DEFINE f == [op |-> Top(t).op, v |-> v, lock |-> Top(t).lock, at |-> label]
<1>1. stack[t] \in Seq(Frames) /\ Top(t) \in Frames
  BY StackParts DEF Typed
<1>2. f \in Frames /\ f = [[Top(t) EXCEPT !.at = label] EXCEPT !.v = v]
  <2> DEFINE g == [Top(t) EXCEPT !.at = label]
  <2>1. g \in Frames /\ g = [op |-> Top(t).op, v |-> Top(t).v, lock |-> Top(t).lock, at |-> label]
    BY <1>1 DEF Frames
  <2> HIDE DEF g
  <2>2. [g EXCEPT !.v = v] \in Frames /\ [g EXCEPT !.v = v] = f
    BY <2>1 DEF Frames
  <2> QED BY <2>2 DEF g
<1>3. stack \in [Threads -> Seq(Frames)] /\ Top(t) = stack[t][1]
  BY DEF Typed, TypeOK, Top, Busy
<1>4. stack[t] # << >> /\ stack[t] \in Seq(Frames)
  BY <1>1 DEF Busy
<1>5. 1 \in DOMAIN stack[t]
  BY <1>4, EmptySeq, LenProperties
<1>6. [[stack[t] EXCEPT ![1].at = label] EXCEPT ![1].v = v] = [stack[t] EXCEPT ![1] = f]
  BY <1>2, <1>3, <1>5
<1>7. stack' = [stack EXCEPT ![t] = [[stack[t] EXCEPT ![1].at = label] EXCEPT ![1].v = v]]
  BY <1>3
<1> HIDE DEF f
<1>8. Becomes(t, f)
  BY <1>6, <1>7 DEF Becomes
<1> QED BY <1>2, <1>8 DEF f
----------------------------------------------------------------------------
(***************************************************************************)
(* Mutexes.  A mutex is owned by the thread whose calls are inside, once   *)
(* for each at least: a call that finds a stale object returns with it.    *)
(***************************************************************************)
MutexSound(l) ==
  /\ count[l] \in Nat /\ (holder[l] = NULL <=> count[l] = 0)
  /\ \A t \in Threads : Counted(stack[t], Held(l)) > 0 =>
        holder[l] = t /\ Counted(stack[t], Held(l)) <= count[l]

MutexExact(l) ==
  \A t \in Threads : Counted(stack[t], Held(l)) = (IF holder[l] = t THEN count[l] ELSE 0)

LEMMA HoldsOne ==
  /\ \A H : Holds({}, H) = 0
  /\ \A c, H : Holds({c}, H) = (IF c \in H THEN 1 ELSE 0)
BY DEF Holds

(* Who is inside is counted. *)
LEMMA CountsHeld ==
  ASSUME NEW S, NEW s \in Seq(S), NEW H
  PROVE  /\ Counted(s, H) \in Nat
         /\ FramesOf(s) \cap H # {} => Counted(s, H) > 0
         /\ FramesOf(s) \cap H = {} => Counted(s, H) = 0
<1> DEFINE I == {i \in DOMAIN s : s[i] \in H}
<1>1. IsFiniteSet(I) /\ Counted(s, H) \in Nat /\ Counted(s, H) = Cardinality(I)
  BY Indices DEF Counted
<1>2. FramesOf(s) \cap H # {} <=> I # {}
  BY DEF FramesOf
<1> HIDE DEF I
<1>3. Cardinality(I) = 0 <=> I = {}
  BY <1>1, FS_EmptySet
<1> QED BY <1>1, <1>2, <1>3

(* Two threads are not inside of one mutex. *)
LEMMA Exclusion ==
  ASSUME Typed, NEW l \in Locks, MutexSound(l), NEW t \in Threads, NEW u \in Threads,
         Calls(t) \cap Held(l) # {}, Calls(u) \cap Held(l) # {}
  PROVE  t = u /\ holder[l] = t
<1>1. \A w \in Threads : stack[w] \in Seq(Frames) /\ Calls(w) = FramesOf(stack[w])
  BY DEF Typed, TypeOK, Calls, FramesOf
<1>2. Counted(stack[t], Held(l)) > 0 /\ Counted(stack[u], Held(l)) > 0
  BY <1>1, CountsHeld
<1> QED BY <1>2 DEF MutexSound

(* What a step does to the mutexes, given which calls go and which come. *)
Kept(old, fresh) ==
  UNCHANGED <<holder, count>> /\ \A l \in Locks : Holds(fresh, Held(l)) = Holds(old, Held(l))
Entered1(t, l, old, fresh) ==
  /\ Acquire(l, t)
  /\ \A k \in Locks : Holds(old, Held(k)) = 0 /\ Holds(fresh, Held(k)) \in (IF k = l THEN {0, 1} ELSE {0})
Left1(t, l, old, fresh) ==
  /\ Leave(l)
  /\ \A k \in Locks : Holds(fresh, Held(k)) = 0 /\ Holds(old, Held(k)) = (IF k = l THEN 1 ELSE 0)

LEMMA MutexesKept ==
  ASSUME TypeOK, \A l \in Locks : MutexSound(l), NEW t \in Threads, NEW keep, NEW old, NEW fresh,
         StackStep(t, keep, old, fresh), Kept(old, fresh)
  PROVE  /\ \A l \in Locks : MutexSound(l)'
         /\ (\A l \in Locks : MutexExact(l)) => (\A l \in Locks : MutexExact(l)')
<1>1. ASSUME NEW l \in Locks, NEW u \in Threads PROVE Counted(stack'[u], Held(l)) = Counted(stack[u], Held(l))
  <2>1. CASE u = t
    <3>1. Counted(stack[t], Held(l)) \in Nat
      BY CountsHeld DEF TypeOK
    <3>2. Holds(fresh, Held(l)) = Holds(old, Held(l)) /\ Holds(old, Held(l)) \in Nat
      BY DEF Kept, Holds
    <3> QED BY <2>1, <3>1, <3>2 DEF StackStep
  <2>2. CASE u # t
    BY <2>2 DEF StackStep
  <2> QED BY <2>1, <2>2
<1>2. holder' = holder /\ count' = count
  BY DEF Kept
<1>3. ASSUME NEW l \in Locks PROVE MutexSound(l)' /\ (MutexExact(l) => MutexExact(l)')
  <2>1. \A u \in Threads : Counted(stack'[u], Held(l)) = Counted(stack[u], Held(l))
    BY <1>1
  <2> QED BY <1>2, <2>1 DEF MutexSound, MutexExact, Held
<1> QED BY <1>3

LEMMA MutexEntered ==
  ASSUME TypeOK, \A l \in Locks : MutexSound(l), NEW t \in Threads, NEW keep, NEW old, NEW fresh,
         StackStep(t, keep, old, fresh), NEW m \in Locks, Entered1(t, m, old, fresh)
  PROVE  /\ \A l \in Locks : MutexSound(l)'
         /\ (\A l \in Locks : MutexExact(l)) /\ Holds(fresh, Held(m)) = 1 => (\A l \in Locks : MutexExact(l)')
<1>0. t # NULL
  BY EngineApiAssumption
<1>1. /\ holder' = [holder EXCEPT ![m] = t] /\ count' = [count EXCEPT ![m] = @ + 1]
      /\ holder[m] \in {NULL, t}
      /\ holder \in [Locks -> Threads \cup {NULL}] /\ count \in [Locks -> Int]
  BY DEF Entered1, Acquire, Free, TypeOK
<1>2. ASSUME NEW l \in Locks, NEW u \in Threads
      PROVE  /\ Counted(stack[u], Held(l)) \in Nat
             /\ Counted(stack'[u], Held(l)) =
                  Counted(stack[u], Held(l)) + (IF u = t THEN Holds(fresh, Held(l)) ELSE 0)
  <2>1. Counted(stack[u], Held(l)) \in Nat
    BY CountsHeld DEF TypeOK
  <2>2. CASE u = t
    <3>1. Holds(old, Held(l)) = 0 /\ Holds(fresh, Held(l)) \in Nat
      BY DEF Entered1, Holds
    <3> QED BY <2>1, <2>2, <3>1 DEF StackStep
  <2>3. CASE u # t
    BY <2>1, <2>3 DEF StackStep
  <2> QED BY <2>1, <2>2, <2>3
<1>3. Holds(fresh, Held(m)) \in {0, 1} /\ \A k \in Locks : k # m => Holds(fresh, Held(k)) = 0
  BY DEF Entered1
<1>4. ASSUME NEW l \in Locks, l # m PROVE MutexSound(l)' /\ (MutexExact(l) => MutexExact(l)')
  <2>1. holder'[l] = holder[l] /\ count'[l] = count[l]
    BY <1>1, <1>4
  <2>2. \A u \in Threads : Counted(stack'[u], Held(l)) = Counted(stack[u], Held(l))
    BY <1>2, <1>3, <1>4
  <2> QED BY <2>1, <2>2 DEF MutexSound, MutexExact, Held
<1>5. holder'[m] = t /\ count'[m] = count[m] + 1
  BY <1>1
<1>6. count[m] \in Nat /\ (holder[m] = NULL <=> count[m] = 0)
  BY DEF MutexSound
<1>7. \A u \in Threads : u # t => Counted(stack'[u], Held(m)) = Counted(stack[u], Held(m))
  BY <1>2
<1>8. Counted(stack'[t], Held(m)) = Counted(stack[t], Held(m)) + Holds(fresh, Held(m))
  BY <1>2
<1>9. MutexSound(m)'
  <2>1. \A u \in Threads : u # t => Counted(stack'[u], Held(m)) = 0
    <3> SUFFICES ASSUME NEW u \in Threads, u # t PROVE Counted(stack[u], Held(m)) = 0
      BY <1>7
    <3>1. Counted(stack[u], Held(m)) > 0 => holder[m] = u
      BY DEF MutexSound
    <3>2. u # NULL
      BY EngineApiAssumption
    <3>3. ~ (Counted(stack[u], Held(m)) > 0)
      BY <1>1, <3>1, <3>2
    <3> QED BY <1>2, <3>3
  <2>2. Counted(stack[t], Held(m)) <= count[m]
    <3>1. Counted(stack[t], Held(m)) > 0 => Counted(stack[t], Held(m)) <= count[m]
      BY DEF MutexSound
    <3> QED BY <1>2, <1>6, <3>1
  <2>3. Counted(stack'[t], Held(m)) <= count[m] + 1
    BY <1>2, <1>3, <1>6, <1>8, <2>2
  <2>4. count'[m] \in Nat /\ (holder'[m] = NULL <=> count'[m] = 0)
    BY <1>0, <1>5, <1>6
  <2>5. \A u \in Threads : Counted(stack'[u], Held(m)) > 0 => holder'[m] = u /\ Counted(stack'[u], Held(m)) <= count'[m]
    BY <1>5, <2>1, <2>3
  <2> QED BY <2>4, <2>5 DEF MutexSound, Held
<1>10. ASSUME MutexExact(m), Holds(fresh, Held(m)) = 1 PROVE MutexExact(m)'
  <2>1. Counted(stack[t], Held(m)) = count[m]
    BY <1>1, <1>6, <1>10 DEF MutexExact
  <2>2. \A u \in Threads : u # t => Counted(stack[u], Held(m)) = 0
    BY <1>1, <1>10, EngineApiAssumption DEF MutexExact
  <2>3. \A u \in Threads : Counted(stack'[u], Held(m)) = IF holder'[m] = u THEN count'[m] ELSE 0
    BY <1>5, <1>6, <1>7, <1>8, <1>10, <2>1, <2>2
  <2> QED BY <2>3 DEF MutexExact, Held
<1> QED BY <1>4, <1>9, <1>10

LEMMA MutexLeft ==
  ASSUME TypeOK, \A l \in Locks : MutexSound(l), NEW t \in Threads, NEW keep, NEW old, NEW fresh,
         StackStep(t, keep, old, fresh), NEW m \in Locks, Left1(t, m, old, fresh),
         Calls(t) \cap Held(m) # {}
  PROVE  /\ \A l \in Locks : MutexSound(l)'
         /\ (\A l \in Locks : MutexExact(l)) => (\A l \in Locks : MutexExact(l)')
<1>0. t # NULL
  BY EngineApiAssumption
<1>1. /\ count' = [count EXCEPT ![m] = @ - 1]
      /\ holder' = [holder EXCEPT ![m] = IF count[m] = 1 THEN NULL ELSE @]
      /\ holder \in [Locks -> Threads \cup {NULL}] /\ count \in [Locks -> Int]
  BY DEF Left1, Leave, TypeOK
<1>2. ASSUME NEW l \in Locks, NEW u \in Threads
      PROVE  /\ Counted(stack[u], Held(l)) \in Nat
             /\ Counted(stack'[u], Held(l)) =
                  Counted(stack[u], Held(l)) - (IF u = t /\ l = m THEN 1 ELSE 0)
  <2>1. Counted(stack[u], Held(l)) \in Nat
    BY CountsHeld DEF TypeOK
  <2>2. CASE u = t
    <3>1. Holds(fresh, Held(l)) = 0 /\ Holds(old, Held(l)) = IF l = m THEN 1 ELSE 0
      BY DEF Left1
    <3> QED BY <2>1, <2>2, <3>1 DEF StackStep
  <2>3. CASE u # t
    BY <2>1, <2>3 DEF StackStep
  <2> QED BY <2>1, <2>2, <2>3
<1>3. ASSUME NEW l \in Locks, l # m PROVE MutexSound(l)' /\ (MutexExact(l) => MutexExact(l)')
  <2>1. holder'[l] = holder[l] /\ count'[l] = count[l]
    BY <1>1, <1>3
  <2>2. \A u \in Threads : Counted(stack'[u], Held(l)) = Counted(stack[u], Held(l))
    BY <1>2, <1>3
  <2> QED BY <2>1, <2>2 DEF MutexSound, MutexExact, Held
<1>4. count'[m] = count[m] - 1 /\ holder'[m] = IF count[m] = 1 THEN NULL ELSE holder[m]
  BY <1>1
<1>5. Counted(stack[t], Held(m)) > 0
  <2>1. stack[t] \in Seq(Frames) /\ Calls(t) = FramesOf(stack[t])
    BY DEF TypeOK, Calls, FramesOf
  <2> QED BY <2>1, CountsHeld
<1>6. holder[m] = t /\ Counted(stack[t], Held(m)) <= count[m] /\ count[m] \in Nat
  BY <1>5 DEF MutexSound
<1>7. \A u \in Threads : u # t => Counted(stack'[u], Held(m)) = 0
  <2> SUFFICES ASSUME NEW u \in Threads, u # t PROVE Counted(stack[u], Held(m)) = 0
    BY <1>2
  <2>1. Counted(stack[u], Held(m)) > 0 => holder[m] = u
    BY DEF MutexSound
  <2> QED BY <1>2, <1>6, <2>1
<1>8. Counted(stack'[t], Held(m)) = Counted(stack[t], Held(m)) - 1 /\ Counted(stack[t], Held(m)) \in Nat
  BY <1>2
<1>9. MutexSound(m)'
  <2>1. count'[m] \in Nat /\ (holder'[m] = NULL <=> count'[m] = 0)
    BY <1>0, <1>4, <1>5, <1>6, <1>8
  <2>2. Counted(stack'[t], Held(m)) > 0 => holder'[m] = t /\ Counted(stack'[t], Held(m)) <= count'[m]
    BY <1>4, <1>6, <1>8
  <2>3. \A u \in Threads : Counted(stack'[u], Held(m)) > 0 => holder'[m] = u /\ Counted(stack'[u], Held(m)) <= count'[m]
    BY <1>7, <2>2
  <2> QED BY <2>1, <2>3 DEF MutexSound, Held
<1>10. ASSUME MutexExact(m) PROVE MutexExact(m)'
  <2>1. Counted(stack[t], Held(m)) = count[m]
    BY <1>6, <1>10 DEF MutexExact
  <2>2. \A u \in Threads : Counted(stack'[u], Held(m)) = IF holder'[m] = u THEN count'[m] ELSE 0
    BY <1>0, <1>4, <1>6, <1>7, <1>8, <2>1
  <2> QED BY <2>2 DEF MutexExact, Held
<1> QED BY <1>3, <1>9, <1>10
----------------------------------------------------------------------------
(***************************************************************************)
(* The engine and its machines, and what a call may rely on.               *)
(***************************************************************************)
(* A call that works on the engine or a machine works on a living one. *)
Working(c) ==
  \/ c.at \in {"body", "compiling", "executing", "unlink", "eng_leave"}
  \/ c.at = "leave" /\ c.op # "release"

Made == {"RUN", "EXEC"}
Using(c) == c.op \in VmOps /\ c.at \in {"body", "executing", "leave"}
Released(c) == c.op = "vm_release" /\ c.at \in {"leave", "eng_enter", "unlink"}

FrameSound(c) ==
  /\ Working(c) => engine = "engine"
  /\ c.op = "release" /\ c.at \in {"leave", "destroy"} => engine # "engine"
  /\ c.op \in VmOps => /\ c.lock[2] <= gen[c.v]
                       /\ c.lock[2] = gen[c.v] => vm[c.v] \in Made \cup {"STALE"}
  /\ Using(c) => c.lock[2] = gen[c.v] /\ (Released(c) \/ vm[c.v] \in Made)
  /\ Released(c) /\ engine = "engine" => vm[c.v] = "STALE" /\ c.v \in Members
  /\ c.at = "eng_leave" => vm[c.v] = "STALE" /\ c.v \notin live
  /\ c.op = "compile" /\ c.at = "leave" /\ c.v # NULL => c.v \in Members
  /\ c.at = "compiling" => /\ c.v \in live /\ vm[c.v] = "INIT"
                          /\ list.next[c.v] = NULL /\ list.prev[c.v] = NULL

(* A machine that can run is linked; a machine the host holds is linked, or *)
(* the call that releases it is about to return.                            *)
MachineSound(v) ==
  /\ vm[v] \in Made => engine = "engine" /\ v \in Members
  /\ engine = "engine" /\ v \in Members => vm[v] \in Made \cup {"STALE"}
  /\ engine = "engine" /\ v \in handles =>
        v \in Members \/ \E c \in AllCalls : c.at = "eng_leave" /\ c.v = v
  /\ gen[v] = 0 => vm[v] = "none"
  /\ \A t \in Threads : Counted(stack[t], CompilingOf(v)) <= 1

(* One call unlinks a machine. *)
OneReleases ==
  \A t, u \in Threads : \A c \in Calls(t), d \in Calls(u) :
     engine = "engine" /\ Released(c) /\ Released(d) /\ c.v = d.v => t = u

World ==
  /\ VmListExact /\ IsFiniteSet(Members)
  /\ engine # "engine" => live = {} /\ iVm = 0
  /\ engine = "freed" => handles = {}
  /\ \A c \in AllCalls : FrameSound(c)
  /\ \A v \in Vms : MachineSound(v)
  /\ OneReleases

LEMMA CallsTyped ==
  ASSUME Typed
  PROVE  /\ \A t \in Threads : \A c \in Calls(t) : c \in AllCalls /\ FrameOK(c)
         /\ \A c \in AllCalls : FrameOK(c) /\ \E t \in Threads : c \in Calls(t)
BY DEF Typed, StackOK, AllCalls

(* The calls of all threads after a step of one. *)
LEMMA CallsAfter ==
  ASSUME NEW t \in Threads, NEW keep, NEW old, NEW fresh, StackStep(t, keep, old, fresh)
  PROVE  /\ \A c \in AllCalls' : c \in AllCalls \/ c \in fresh
         /\ \A c \in AllCalls : c \in AllCalls' \/ c \in old
         /\ \A u \in Threads : u # t => Calls(u)' = Calls(u)
         /\ \A u \in Threads : u # t => \A H : Counted(stack'[u], H) = Counted(stack[u], H)
         /\ fresh \subseteq Calls(t)' /\ keep \subseteq Calls(t) \cap Calls(t)'
<1>1. \A u \in Threads : u # t => stack'[u] = stack[u]
  BY DEF StackStep
<1>2. \A u \in Threads : u # t => Calls(u)' = Calls(u)
  BY <1>1 DEF Calls
<1>3. Calls(t) = keep \cup old /\ Calls(t)' = keep \cup fresh
  BY DEF StackStep
<1>4. ASSUME NEW c \in AllCalls' PROVE c \in AllCalls \/ c \in fresh
  <2>1. PICK u \in Threads : c \in Calls(u)'
    BY DEF AllCalls
  <2> QED BY <1>2, <1>3, <2>1 DEF AllCalls
<1>5. ASSUME NEW c \in AllCalls PROVE c \in AllCalls' \/ c \in old
  <2>1. PICK u \in Threads : c \in Calls(u)
    BY DEF AllCalls
  <2>2. c \in Calls(u)' \/ c \in old
    BY <1>2, <1>3, <2>1
  <2> QED BY <2>2 DEF AllCalls
<1> QED BY <1>1, <1>2, <1>3, <1>4, <1>5

(***************************************************************************)
(* Most steps leave the machines as they are, for all that matters here: a *)
(* machine that can run still can, and what a call relied on it may rely on*)
(* under its next label.                                                   *)
(***************************************************************************)
SameWorld ==
  /\ UNCHANGED <<gen, live, list, iVm>>
  /\ engine' = engine \/ (engine = "stale" /\ engine' = "freed" /\ handles' = {})
  /\ \A v \in Vms : vm'[v] = vm[v] \/ (vm[v] \in Made /\ vm'[v] \in Made)

LEMMA WorldKept ==
  ASSUME Typed, Typed', World,
         NEW t \in Threads, NEW keep, NEW old, NEW fresh, StackStep(t, keep, old, fresh), SameWorld,
         \A c \in old \cup fresh : c.at # "compiling",
         \A c \in fresh : FrameSound(c) /\ (Released(c) => \E d \in old : Released(d) /\ d.v = c.v),
         \A c \in old : c.at = "eng_leave" => c.v \notin handles',
         \A v \in handles' : v \in handles \/ v \in Members
  PROVE  World'
<1>1. /\ \A c \in AllCalls' : c \in AllCalls \/ c \in fresh
      /\ \A c \in AllCalls : c \in AllCalls' \/ c \in old
      /\ \A u \in Threads : u # t => Calls(u)' = Calls(u)
      /\ \A u \in Threads : u # t => \A H : Counted(stack'[u], H) = Counted(stack[u], H)
  BY CallsAfter
<1>2. Calls(t) = keep \cup old /\ Calls(t)' = keep \cup fresh
  BY DEF StackStep
<1>3. \A c \in AllCalls' : FrameOK(c)
  BY CallsTyped DEF Typed, StackOK, AllCalls, FrameOK
<1>4. \A c \in AllCalls : FrameOK(c)
  BY CallsTyped
<1>5. Members' = Members
  <2>1. {c \in AllCalls : c.at = "compiling"}' = {c \in AllCalls : c.at = "compiling"}
    BY <1>1
  <2> QED BY <2>1 DEF Members, SameWorld
<1>6. /\ gen' = gen /\ live' = live /\ list' = list /\ iVm' = iVm
      /\ engine' = "engine" <=> engine = "engine"
      /\ engine' = "freed" => handles' = {} \/ engine = "freed"
      /\ engine = "freed" => engine' = "freed"
  BY DEF SameWorld
<1>7. VmListExact' /\ IsFiniteSet(Members)'
  BY <1>5, <1>6 DEF World, VmListExact
<1>8. /\ engine' # "engine" => live' = {} /\ iVm' = 0
      /\ engine' = "freed" => handles' = {}
  <2>1. engine = "freed" => handles' = {}
    BY <1>5, <1>6 DEF World, Members
  <2> QED BY <1>6, <2>1 DEF World
<1>9. \A v \in Vms : /\ vm'[v] \in Made <=> vm[v] \in Made
                     /\ vm[v] \notin Made => vm'[v] = vm[v]
  BY DEF SameWorld
<1>10. \A c \in AllCalls' : FrameSound(c)'
  <2> SUFFICES ASSUME NEW c \in AllCalls' PROVE FrameSound(c)'
    OBVIOUS
  <2>1. FrameSound(c)
    BY <1>1 DEF World
  <2>2. FrameOK(c)
    BY <1>3
  <2>3. c.op \in VmOps \/ c.at \in {"compiling", "eng_leave"} \/ Using(c) \/ Released(c) => c.v \in Vms
    BY <2>2 DEF FrameOK, Using, Released, VmOps
  <2>4. /\ Working(c) => engine' = "engine"
        /\ c.op = "release" /\ c.at \in {"leave", "destroy"} => engine' # "engine"
    BY <1>6, <2>1 DEF FrameSound
  <2>5. /\ c.op \in VmOps => /\ c.lock[2] <= gen'[c.v]
                             /\ c.lock[2] = gen'[c.v] => vm'[c.v] \in Made \cup {"STALE"}
        /\ Using(c) => c.lock[2] = gen'[c.v] /\ (Released(c) \/ vm'[c.v] \in Made)
    BY <1>6, <1>9, <2>1, <2>3 DEF FrameSound
  <2>6. /\ Released(c) /\ engine' = "engine" => vm'[c.v] = "STALE" /\ c.v \in Members'
        /\ c.at = "eng_leave" => vm'[c.v] = "STALE" /\ c.v \notin live'
        /\ c.op = "compile" /\ c.at = "leave" /\ c.v # NULL => c.v \in Members'
    BY <1>5, <1>6, <1>9, <2>1, <2>3 DEF FrameSound, Made
  <2>7. c.at = "compiling" => /\ c.v \in live' /\ vm'[c.v] = "INIT"
                              /\ list'.next[c.v] = NULL /\ list'.prev[c.v] = NULL
    BY <1>6, <1>9, <2>1, <2>3 DEF FrameSound, Made
  <2> QED BY <2>4, <2>5, <2>6, <2>7 DEF FrameSound, Working, Using, Released
<1>11. \A v \in Vms : MachineSound(v)'
  <2> SUFFICES ASSUME NEW v \in Vms PROVE MachineSound(v)'
    OBVIOUS
  <2>1. MachineSound(v)
    BY DEF World
  <2>2. /\ vm'[v] \in Made => engine' = "engine" /\ v \in Members'
        /\ engine' = "engine" /\ v \in Members' => vm'[v] \in Made \cup {"STALE"}
        /\ gen'[v] = 0 => vm'[v] = "none"
    BY <1>5, <1>6, <1>9, <2>1 DEF MachineSound, Made
  <2>3. ASSUME engine' = "engine", v \in handles'
        PROVE  v \in Members' \/ \E c \in AllCalls' : c.at = "eng_leave" /\ c.v = v
    <3>1. v \in Members \/ \E c \in AllCalls : c.at = "eng_leave" /\ c.v = v
      BY <1>6, <2>1, <2>3 DEF MachineSound
    <3> QED BY <1>1, <1>5, <2>3, <3>1
  <2>4. ASSUME NEW u \in Threads PROVE Counted(stack'[u], CompilingOf(v)) <= 1
    <3>1. Counted(stack[u], CompilingOf(v)) <= 1
      BY <2>1 DEF MachineSound
    <3>2. CASE u # t
      BY <1>1, <3>1, <3>2
    <3>3. CASE u = t
      <4>1. Holds(old, CompilingOf(v)) = 0 /\ Holds(fresh, CompilingOf(v)) = 0
        BY DEF Holds, CompilingOf
      <4>2. Counted(stack[t], CompilingOf(v)) \in Nat
        BY CountsHeld DEF Typed, TypeOK
      <4> QED BY <3>1, <3>3, <4>1, <4>2 DEF StackStep
    <3> QED BY <3>2, <3>3
  <2> QED BY <2>2, <2>3, <2>4 DEF MachineSound, CompilingOf
<1>12. OneReleases'
  <2>1. ASSUME NEW u \in Threads, NEW c \in Calls(u)', Released(c)
        PROVE  \E d \in Calls(u) : Released(d) /\ d.v = c.v
    <3>1. CASE u # t
      BY <1>1, <2>1, <3>1
    <3>2. CASE u = t
      BY <1>2, <2>1, <3>2
    <3> QED BY <3>1, <3>2
  <2> SUFFICES ASSUME NEW u \in Threads, NEW w \in Threads, NEW c \in Calls(u)', NEW d \in Calls(w)',
                      engine' = "engine", Released(c), Released(d), c.v = d.v
               PROVE  u = w
    BY DEF OneReleases, Released
  <2>2. PICK e \in Calls(u) : Released(e) /\ e.v = c.v
    BY <2>1
  <2>3. PICK g \in Calls(w) : Released(g) /\ g.v = d.v
    BY <2>1
  <2> QED BY <1>6, <2>2, <2>3 DEF World, OneReleases
<1> QED BY <1>7, <1>8, <1>10, <1>11, <1>12 DEF World
----------------------------------------------------------------------------
Sound == (\A l \in Locks : MutexSound(l)) /\ World

(* Once freed memory has been used, nothing more is known of the mutexes. *)
IInv == Typed /\ ExecExclusive /\ VmListExact /\ (wild \/ Sound)

MutexStep(t, old, fresh) ==
  \/ Kept(old, fresh)
  \/ \E l \in Locks : Entered1(t, l, old, fresh)
  \/ \E l \in Locks : Left1(t, l, old, fresh) /\ Calls(t) \cap Held(l) # {}

IsHeld(c, l) == (c.at \in Inside /\ c.lock = l) \/ (c.at \in {"unlink", "eng_leave"} /\ l = EngineLock)

LEMMA HoldsHeld ==
  ASSUME NEW c, FrameOK(c), NEW l
  PROVE  /\ c \in Held(l) <=> IsHeld(c, l)
         /\ Holds({c}, Held(l)) = (IF IsHeld(c, l) THEN 1 ELSE 0)
         /\ Holds({}, Held(l)) = 0
<1>0. c \in Frames
  BY DEF FrameOK
<1>1. c \in Held(l) <=> IsHeld(c, l)
  BY <1>0 DEF Held, IsHeld
<1>2. Holds({}, Held(l)) = 0 /\ Holds({c}, Held(l)) = IF c \in Held(l) THEN 1 ELSE 0
  BY HoldsOne
<1> QED BY <1>1, <1>2

LEMMA MutexesAfter ==
  ASSUME TypeOK, \A l \in Locks : MutexSound(l), NEW t \in Threads, NEW keep, NEW old, NEW fresh,
         StackStep(t, keep, old, fresh), MutexStep(t, old, fresh)
  PROVE  /\ holder' \in [Locks -> Threads \cup {NULL}] /\ count' \in [Locks -> Int]
         /\ \A l \in Locks : MutexSound(l)'
<1>1. CASE Kept(old, fresh)
  BY <1>1, MutexesKept DEF Kept, TypeOK
<1>2. ASSUME NEW l \in Locks, Entered1(t, l, old, fresh)
      PROVE  /\ holder' \in [Locks -> Threads \cup {NULL}] /\ count' \in [Locks -> Int]
             /\ \A k \in Locks : MutexSound(k)'
  <2>1. \A k \in Locks : MutexSound(k)'
    BY <1>2, MutexEntered
  <2> QED BY <1>2, <2>1 DEF Entered1, Acquire, TypeOK
<1>3. ASSUME NEW l \in Locks, Left1(t, l, old, fresh), Calls(t) \cap Held(l) # {}
      PROVE  /\ holder' \in [Locks -> Threads \cup {NULL}] /\ count' \in [Locks -> Int]
             /\ \A k \in Locks : MutexSound(k)'
  <2>1. \A k \in Locks : MutexSound(k)'
    BY <1>3, MutexLeft
  <2> QED BY <1>3, <2>1 DEF Left1, Leave, TypeOK
<1> QED BY <1>1, <1>2, <1>3 DEF MutexStep

(* A machine runs with its mutex held. *)
LEMMA Exclusive ==
  ASSUME Typed, Sound
  PROVE  ExecExclusive
<1> SUFFICES ASSUME NEW t \in Threads, NEW u \in Threads, NEW v \in Vms, Executing(t, v), Executing(u, v)
             PROVE  t = u
  BY DEF ExecExclusive
<1>1. PICK c \in Calls(t) : c.op = "exec" /\ c.v = v /\ c.at = "executing"
  BY DEF Executing
<1>2. PICK d \in Calls(u) : d.op = "exec" /\ d.v = v /\ d.at = "executing"
  BY DEF Executing
<1>3. FrameOK(c) /\ FrameOK(d) /\ c \in AllCalls /\ d \in AllCalls
  BY CallsTyped
<1>4. Using(c) /\ Using(d)
  BY <1>1, <1>2 DEF Using, VmOps
<1>5. c.lock[2] = gen[v] /\ d.lock[2] = gen[v]
  BY <1>1, <1>2, <1>3, <1>4 DEF Sound, World, FrameSound
<1>6. c.lock = d.lock /\ c.lock \in Locks
  BY <1>1, <1>2, <1>3, <1>5 DEF FrameOK, VmOps, Frames
<1>7. c \in Held(c.lock) /\ d \in Held(c.lock)
  BY <1>1, <1>2, <1>3, <1>6 DEF Held, Inside, FrameOK
<1>8. MutexSound(c.lock)
  BY <1>6 DEF Sound
<1> QED BY <1>6, <1>7, <1>8, Exclusion

(* An innermost call goes on. *)
LEMMA Moved ==
  ASSUME Typed, Sound, NEW t \in Threads, Busy(t), NEW label \in Labels, Goto(t, label),
         FrameOK(To(Top(t), label)), FrameSound(To(Top(t), label)),
         label # "compiling", Top(t).at \notin {"compiling", "eng_leave"},
         Released(To(Top(t), label)) => Released(Top(t)),
         SameWorld, engine' = engine, handles' = handles, wild' = wild,
         vm' \in [Vms -> {"none", "INIT", "RUN", "EXEC", "STALE"}],
         MutexStep(t, {Top(t)}, {To(Top(t), label)})
  PROVE  IInv'
<1> DEFINE f == To(Top(t), label)
<1>1. f \in Frames /\ Becomes(t, f) /\ f.op = Top(t).op /\ f.v = Top(t).v /\ f.at = label
  BY Relabels DEF FrameOK, To
<1> HIDE DEF f
<1>2. StackStep(t, Rest(t), {Top(t)}, {f})
  BY <1>1, Replaced DEF Typed
<1>3. stack' \in [Threads -> Seq(Frames)] /\ \A u \in Threads : StackOK(u)'
  BY <1>1, StacksReplaced DEF f
<1>4. /\ holder' \in [Locks -> Threads \cup {NULL}] /\ count' \in [Locks -> Int]
      /\ \A l \in Locks : MutexSound(l)'
  BY <1>2, MutexesAfter DEF f, Sound, Typed
<1>5. Typed'
  <2>1. TypeOK'
    BY <1>3, <1>4 DEF TypeOK, Typed, SameWorld
  <2> QED BY <1>3, <2>1 DEF Typed
<1>6. World'
  <2>1. \A c \in {Top(t)} \cup {f} : c.at # "compiling"
    BY <1>1
  <2>2. \A c \in {f} : FrameSound(c) /\ (Released(c) => \E d \in {Top(t)} : Released(d) /\ d.v = c.v)
    BY <1>1 DEF f
  <2>3. \A c \in {Top(t)} : c.at = "eng_leave" => c.v \notin handles'
    OBVIOUS
  <2>4. \A v \in handles' : v \in handles \/ v \in Members
    OBVIOUS
  <2> QED BY <1>2, <1>5, <2>1, <2>2, <2>3, <2>4, WorldKept DEF Sound
<1>7. Sound'
  BY <1>4, <1>6 DEF Sound
<1>8. ExecExclusive'
  BY <1>5, <1>7, Exclusive, PTL
<1>9. VmListExact'
  BY <1>6 DEF World
<1> QED BY <1>5, <1>7, <1>8, <1>9 DEF IInv

(* An innermost call returns. *)
LEMMA Returned ==
  ASSUME Typed, Sound, NEW t \in Threads, Busy(t), Return(t),
         Top(t).at # "compiling", Top(t).at = "eng_leave" => Top(t).v \notin handles',
         SameWorld, \A v \in handles' : v \in handles \/ v \in Members,
         wild' \in BOOLEAN, vm' = vm, MutexStep(t, {Top(t)}, {})
  PROVE  IInv'
<1>1. StackStep(t, Rest(t), {Top(t)}, {})
  BY Popped DEF Typed
<1>2. stack' \in [Threads -> Seq(Frames)] /\ \A u \in Threads : StackOK(u)'
  BY StacksPopped
<1>3. /\ holder' \in [Locks -> Threads \cup {NULL}] /\ count' \in [Locks -> Int]
      /\ \A l \in Locks : MutexSound(l)'
  BY <1>1, MutexesAfter DEF Sound, Typed
<1>4. Typed'
  <2>1. handles' \subseteq Vms
    BY DEF Typed, TypeOK, Members
  <2>2. engine' \in {"engine", "stale", "freed"}
    BY DEF Typed, TypeOK, SameWorld
  <2>3. TypeOK'
    BY <1>2, <1>3, <2>1, <2>2 DEF TypeOK, Typed, SameWorld
  <2> QED BY <1>2, <2>3 DEF Typed
<1>5. World'
  <2>1. \A c \in {Top(t)} \cup {} : c.at # "compiling"
    OBVIOUS
  <2>2. \A c \in {} : FrameSound(c) /\ (Released(c) => \E d \in {Top(t)} : Released(d) /\ d.v = c.v)
    OBVIOUS
  <2>3. \A c \in {Top(t)} : c.at = "eng_leave" => c.v \notin handles'
    OBVIOUS
  <2> QED BY <1>1, <1>4, <2>1, <2>2, <2>3, WorldKept DEF Sound
<1>6. Sound'
  BY <1>3, <1>5 DEF Sound
<1>7. ExecExclusive'
  BY <1>4, <1>6, Exclusive, PTL
<1>8. VmListExact'
  BY <1>5 DEF World
<1> QED BY <1>4, <1>6, <1>7, <1>8 DEF IInv

(* The host calls. *)
LEMMA Called ==
  ASSUME Typed, Sound, NEW t \in Threads, NEW op, NEW v, NEW lock, Push(t, op, v, lock), MayCall(t),
         FrameOK(NewFrame(op, v, lock)), FrameSound(NewFrame(op, v, lock)),
         op = "release" => ~Busy(t), op = "vm_release" => \A c \in Calls(t) : c.v # v,
         UNCHANGED <<engine, vm, gen, live, list, iVm, holder, count, handles, wild>>
  PROVE  IInv'
<1> DEFINE f == NewFrame(op, v, lock)
<1>1. StackStep(t, Calls(t), {}, {f}) /\ f.at = "enter"
  BY Pushed DEF Typed, FrameOK, NewFrame
<1>2. stack' \in [Threads -> Seq(Frames)] /\ \A u \in Threads : StackOK(u)'
  BY StacksPushed
<1>3. MutexStep(t, {}, {f})
  <2>1. \A l \in Locks : Holds({f}, Held(l)) = 0 /\ Holds({}, Held(l)) = 0
    BY <1>1, HoldsHeld DEF IsHeld, Inside
  <2> QED BY <2>1 DEF MutexStep, Kept
<1>4. FrameSound(f)
  OBVIOUS
<1> HIDE DEF f
<1>5. /\ holder' \in [Locks -> Threads \cup {NULL}] /\ count' \in [Locks -> Int]
      /\ \A l \in Locks : MutexSound(l)'
  BY <1>1, <1>3, MutexesAfter DEF Sound, Typed
<1>6. Typed'
  <2>1. TypeOK'
    BY <1>2, <1>5 DEF TypeOK, Typed
  <2> QED BY <1>2, <2>1 DEF Typed
<1>7. World'
  <2>1. \A c \in {} \cup {f} : c.at # "compiling"
    BY <1>1
  <2>2. \A c \in {f} : FrameSound(c) /\ (Released(c) => \E d \in {} : Released(d) /\ d.v = c.v)
    BY <1>1, <1>4 DEF Released
  <2>3. \A c \in {} : c.at = "eng_leave" => c.v \notin handles'
    OBVIOUS
  <2>4. SameWorld
    BY DEF SameWorld
  <2>5. \A w \in handles' : w \in handles \/ w \in Members
    OBVIOUS
  <2> QED BY <1>1, <1>6, <2>1, <2>2, <2>3, <2>4, <2>5, WorldKept DEF Sound
<1>8. Sound'
  BY <1>5, <1>7 DEF Sound
<1>9. ExecExclusive'
  BY <1>6, <1>8, Exclusive, PTL
<1>10. VmListExact'
  BY <1>7 DEF World
<1> QED BY <1>6, <1>8, <1>9, <1>10 DEF IInv
----------------------------------------------------------------------------
(***************************************************************************)
(* The steps of the entry points, one by one.                              *)
(***************************************************************************)
LEMMA AtTop ==
  ASSUME IInv, NEW t \in Threads, NEW ops, NEW label, At(t, ops, label)
  PROVE  /\ Typed /\ Sound /\ Busy(t) /\ Top(t).op \in ops /\ Top(t).at = label /\ ~wild
         /\ Top(t) \in Calls(t) /\ Calls(t) = Rest(t) \cup {Top(t)}
         /\ FrameOK(Top(t)) /\ FrameSound(Top(t)) /\ StackOK(t)
<1>1. Typed /\ Sound /\ Busy(t) /\ Top(t).op \in ops /\ Top(t).at = label /\ ~wild
  BY DEF IInv, At
<1>2. Calls(t) = Rest(t) \cup {Top(t)}
  BY <1>1, StackParts DEF Typed
<1>3. FrameOK(Top(t)) /\ Top(t) \in AllCalls /\ StackOK(t)
  BY <1>1, <1>2, CallsTyped DEF Typed
<1> QED BY <1>1, <1>2, <1>3 DEF Sound, World

LEMMA OnlyWild ==
  ASSUME IInv, UNCHANGED <<engine, vm, gen, live, list, iVm, holder, count, stack, handles>>,
         wild' \in {wild, TRUE}
  PROVE  IInv'
<1>0. /\ engine' = engine /\ vm' = vm /\ gen' = gen /\ live' = live /\ list' = list /\ iVm' = iVm
      /\ holder' = holder /\ count' = count /\ stack' = stack /\ handles' = handles
  OBVIOUS
<1>1. (\A t \in Threads : Calls(t)' = Calls(t)) /\ AllCalls' = AllCalls /\ Members' = Members
  <2>1. \A t \in Threads : Calls(t)' = Calls(t)
    BY <1>0 DEF Calls
  <2>2. AllCalls' = AllCalls
    BY <2>1 DEF AllCalls
  <2> QED BY <1>0, <2>1, <2>2 DEF Members
<1>2. Typed'
  <2>1. TypeOK'
    BY <1>0 DEF IInv, Typed, TypeOK
  <2>2. ASSUME NEW t \in Threads PROVE StackOK(t)'
    <3>1. StackOK(t)
      BY DEF IInv, Typed
    <3> QED BY <1>0, <1>1, <3>1 DEF StackOK, Busy, Rest, Top, FrameOK
  <2> QED BY <2>1, <2>2 DEF Typed
<1>3. ExecExclusive'
  BY <1>1 DEF IInv, ExecExclusive, Executing
<1>4. VmListExact'
  BY <1>0, <1>1 DEF IInv, VmListExact
<1>5. CASE wild'
  BY <1>2, <1>3, <1>4, <1>5 DEF IInv
<1>6. CASE ~wild'
  <2>1. Sound
    BY <1>6 DEF IInv
  <2>2. \A l \in Locks : MutexSound(l)'
    BY <1>0, <2>1 DEF Sound, MutexSound, Held
  <2>3. \A c \in AllCalls' : FrameSound(c)'
    BY <1>0, <1>1, <2>1 DEF Sound, World, FrameSound, Working, Using, Released
  <2>4. \A v \in Vms : MachineSound(v)'
    BY <1>0, <1>1, <2>1 DEF Sound, World, MachineSound, CompilingOf
  <2>5. OneReleases'
    BY <1>0, <1>1, <2>1 DEF Sound, World, OneReleases, Released
  <2>6. World'
    BY <1>0, <1>1, <1>4, <2>1, <2>3, <2>4, <2>5 DEF Sound, World
  <2>7. Sound'
    BY <2>2, <2>6 DEF Sound
  <2> QED BY <1>2, <1>3, <1>4, <2>7 DEF IInv
<1> QED BY <1>5, <1>6

LEMMA ConfigureStep ==
  ASSUME IInv, NEW t \in Threads, Configure(t)
  PROVE  IInv'
<1>1. /\ At(t, {"config", "vm_config"}, "body") /\ Goto(t, "leave")
      /\ UNCHANGED <<engine, vm, gen, live, list, iVm, holder, count, handles, wild>>
  BY DEF Configure
<1>2. /\ Typed /\ Sound /\ Busy(t) /\ Top(t).op \in {"config", "vm_config"} /\ Top(t).at = "body"
      /\ FrameOK(Top(t)) /\ FrameSound(Top(t))
  BY <1>1, AtTop
<1> DEFINE f == To(Top(t), "leave")
<1>3. FrameOK(f)
  BY <1>2 DEF FrameOK, To, Frames, Labels, VmOps, EngineOps
<1>4. FrameSound(f) /\ ~Released(f)
  BY <1>2 DEF FrameOK, FrameSound, To, Working, Using, Released
<1>5. MutexStep(t, {Top(t)}, {f})
  <2>1. \A l \in Locks : IsHeld(Top(t), l) <=> IsHeld(f, l)
    BY <1>2 DEF IsHeld, To, Inside
  <2> HIDE DEF f
  <2>2. \A l \in Locks : Holds({f}, Held(l)) = Holds({Top(t)}, Held(l))
    BY <1>2, <1>3, <2>1, HoldsHeld
  <2> QED BY <1>1, <2>2 DEF MutexStep, Kept
<1>6. SameWorld
  BY <1>1 DEF SameWorld
<1>7. vm' \in [Vms -> {"none", "INIT", "RUN", "EXEC", "STALE"}]
  BY <1>1, <1>2 DEF Typed, TypeOK
<1> QED BY <1>1, <1>2, <1>3, <1>4, <1>5, <1>6, <1>7, Moved DEF Labels

LEMMA FinishExecStep ==
  ASSUME IInv, NEW t \in Threads, FinishExec(t)
  PROVE  IInv'
<1>1. /\ At(t, {"exec"}, "executing") /\ Goto(t, "leave")
      /\ UNCHANGED <<engine, gen, live, list, iVm, holder, count, handles, wild>>
  BY DEF FinishExec
<1>2. /\ Typed /\ Sound /\ Busy(t) /\ Top(t).op \in {"exec"} /\ Top(t).at = "executing"
      /\ FrameOK(Top(t)) /\ FrameSound(Top(t))
  BY <1>1, AtTop
<1> DEFINE f == To(Top(t), "leave")
<1>3. FrameOK(f)
  BY <1>2 DEF FrameOK, To, Frames, Labels, VmOps, EngineOps
<1>4. FrameSound(f) /\ ~Released(f)
  BY <1>2 DEF FrameOK, FrameSound, To, Working, Using, Released, VmOps
<1>5. MutexStep(t, {Top(t)}, {f})
  <2>1. \A l \in Locks : IsHeld(Top(t), l) <=> IsHeld(f, l)
    BY <1>2 DEF IsHeld, To, Inside
  <2> HIDE DEF f
  <2>2. \A l \in Locks : Holds({f}, Held(l)) = Holds({Top(t)}, Held(l))
    BY <1>2, <1>3, <2>1, HoldsHeld
  <2> QED BY <1>1, <2>2 DEF MutexStep, Kept
<1>6. SameWorld /\ vm' \in [Vms -> {"none", "INIT", "RUN", "EXEC", "STALE"}]
  BY <1>1, <1>2 DEF SameWorld, FinishExec, Typed, TypeOK
<1> QED BY <1>1, <1>2, <1>3, <1>4, <1>5, <1>6, Moved DEF Labels

LEMMA ResetStep ==
  ASSUME IInv, NEW t \in Threads, Reset(t)
  PROVE  IInv'
<1>1. /\ At(t, {"reset"}, "body") /\ Goto(t, "leave")
      /\ UNCHANGED <<engine, gen, live, list, iVm, holder, count, handles, wild>>
  BY DEF Reset
<1>2. /\ Typed /\ Sound /\ Busy(t) /\ Top(t).op \in {"reset"} /\ Top(t).at = "body"
      /\ FrameOK(Top(t)) /\ FrameSound(Top(t))
  BY <1>1, AtTop
<1> DEFINE f == To(Top(t), "leave")
<1>3. FrameOK(f)
  BY <1>2 DEF FrameOK, To, Frames, Labels, VmOps, EngineOps
<1>4. FrameSound(f) /\ ~Released(f)
  BY <1>2 DEF FrameOK, FrameSound, To, Working, Using, Released, VmOps
<1>5. MutexStep(t, {Top(t)}, {f})
  <2>1. \A l \in Locks : IsHeld(Top(t), l) <=> IsHeld(f, l)
    BY <1>2 DEF IsHeld, To, Inside
  <2> HIDE DEF f
  <2>2. \A l \in Locks : Holds({f}, Held(l)) = Holds({Top(t)}, Held(l))
    BY <1>2, <1>3, <2>1, HoldsHeld
  <2> QED BY <1>1, <2>2 DEF MutexStep, Kept
<1>6. SameWorld /\ vm' \in [Vms -> {"none", "INIT", "RUN", "EXEC", "STALE"}]
  <2>1. vm' = IF vm[Top(t).v] \in {"RUN", "EXEC"} THEN [vm EXCEPT ![Top(t).v] = "RUN"] ELSE vm
    BY DEF Reset
  <2>2. vm \in [Vms -> {"none", "INIT", "RUN", "EXEC", "STALE"}]
    BY <1>2 DEF Typed, TypeOK
  <2> QED BY <1>1, <2>1, <2>2 DEF SameWorld, Made
<1> QED BY <1>1, <1>2, <1>3, <1>4, <1>5, <1>6, Moved DEF Labels

LEMMA StartExecStep ==
  ASSUME IInv, NEW t \in Threads, StartExec(t)
  PROVE  IInv'
<1>1. /\ At(t, {"exec"}, "body")
      /\ \/ vm[Top(t).v] = "RUN" /\ vm' = [vm EXCEPT ![Top(t).v] = "EXEC"] /\ Goto(t, "executing")
         \/ Goto(t, "leave") /\ vm' = vm
      /\ UNCHANGED <<engine, gen, live, list, iVm, holder, count, handles, wild>>
  BY DEF StartExec
<1>2. /\ Typed /\ Sound /\ Busy(t) /\ Top(t).op \in {"exec"} /\ Top(t).at = "body"
      /\ FrameOK(Top(t)) /\ FrameSound(Top(t))
  BY <1>1, AtTop
<1>3. PICK label \in {"executing", "leave"} : Goto(t, label)
  BY <1>1
<1> DEFINE f == To(Top(t), label)
<1>4. FrameOK(f)
  BY <1>2 DEF FrameOK, To, Frames, Labels, VmOps, EngineOps
<1>5. FrameSound(f) /\ ~Released(f)
  BY <1>2 DEF FrameOK, FrameSound, To, Working, Using, Released, VmOps
<1>6. MutexStep(t, {Top(t)}, {f})
  <2>1. \A l \in Locks : IsHeld(Top(t), l) <=> IsHeld(f, l)
    BY <1>2 DEF IsHeld, To, Inside
  <2> HIDE DEF f
  <2>2. \A l \in Locks : Holds({f}, Held(l)) = Holds({Top(t)}, Held(l))
    BY <1>2, <1>4, <2>1, HoldsHeld
  <2> QED BY <1>1, <2>2 DEF MutexStep, Kept
<1>7. SameWorld /\ vm' \in [Vms -> {"none", "INIT", "RUN", "EXEC", "STALE"}]
  <2>1. vm \in [Vms -> {"none", "INIT", "RUN", "EXEC", "STALE"}]
    BY <1>2 DEF Typed, TypeOK
  <2> QED BY <1>1, <2>1 DEF SameWorld, Made
<1> QED BY <1>1, <1>2, <1>3, <1>4, <1>5, <1>6, <1>7, Moved DEF Labels

LEMMA EnterEngineStep ==
  ASSUME IInv, NEW t \in Threads, EnterEngine(t)
  PROVE  IInv'
<1>1. At(t, EngineOps, "enter") /\ UNCHANGED <<engine, vm, gen, live, list, iVm, handles>>
  BY DEF EnterEngine
<1>2. /\ Typed /\ Sound /\ Busy(t) /\ Top(t).op \in EngineOps /\ Top(t).at = "enter"
      /\ FrameOK(Top(t)) /\ FrameSound(Top(t))
  BY <1>1, AtTop
<1>3. CASE engine = "freed"
  BY <1>3, OnlyWild DEF EnterEngine
<1>4. CASE engine # "freed"
  <2>1. /\ Acquire(EngineLock, t) /\ wild' = wild
        /\ IF engine = "engine" THEN Goto(t, "body") ELSE Return(t)
    BY <1>4 DEF EnterEngine
  <2>2. SameWorld /\ vm' = vm /\ vm' \in [Vms -> {"none", "INIT", "RUN", "EXEC", "STALE"}]
    BY <1>1, <1>2 DEF SameWorld, Typed, TypeOK
  <2>3. \A l \in Locks : Holds({Top(t)}, Held(l)) = 0 /\ Holds({}, Held(l)) = 0
    BY <1>2, HoldsHeld DEF IsHeld, Inside
  <2>4. EngineLock \in Locks
    BY DEF EngineLock, Locks
  <2>5. CASE engine = "engine"
    <3> DEFINE f == To(Top(t), "body")
    <3>1. FrameOK(f)
      BY <1>2 DEF FrameOK, To, Frames, Labels, VmOps, EngineOps
    <3>2. FrameSound(f) /\ ~Released(f)
      BY <1>2, <2>5 DEF FrameOK, FrameSound, To, Working, Using, Released, VmOps, EngineOps
    <3>3. MutexStep(t, {Top(t)}, {f})
      <4>1. \A l \in Locks : IsHeld(f, l) => l = EngineLock
        BY <1>2 DEF IsHeld, To, Inside, FrameOK
      <4> HIDE DEF f
      <4>2. \A l \in Locks : Holds({f}, Held(l)) \in (IF l = EngineLock THEN {0, 1} ELSE {0})
        BY <3>1, <4>1, HoldsHeld
      <4> QED BY <2>1, <2>3, <2>4, <4>2 DEF MutexStep, Entered1
    <3> QED BY <1>1, <1>2, <2>1, <2>2, <2>5, <3>1, <3>2, <3>3, Moved DEF Labels
  <2>6. CASE engine # "engine"
    <3>1. MutexStep(t, {Top(t)}, {})
      BY <2>1, <2>3, <2>4 DEF MutexStep, Entered1
    <3> QED BY <1>1, <1>2, <2>1, <2>2, <2>6, <3>1, Returned DEF Typed, TypeOK
  <2> QED BY <2>5, <2>6
<1> QED BY <1>3, <1>4

LEMMA EnterVmStep ==
  ASSUME IInv, NEW t \in Threads, EnterVm(t)
  PROVE  IInv'
<1>1. At(t, VmOps, "enter") /\ UNCHANGED <<engine, vm, gen, live, list, iVm, handles>>
  BY DEF EnterVm
<1>2. /\ Typed /\ Sound /\ Busy(t) /\ Top(t).op \in VmOps /\ Top(t).at = "enter"
      /\ FrameOK(Top(t)) /\ FrameSound(Top(t))
  BY <1>1, AtTop
<1>3. CASE wild' = TRUE /\ UNCHANGED <<holder, count, stack>>
  BY <1>1, <1>3, OnlyWild
<1>4. CASE /\ engine = "engine" /\ gen[Top(t).v] = Top(t).lock[2]
           /\ Acquire(Top(t).lock, t)
           /\ IF vm[Top(t).v] # "STALE" THEN Goto(t, "body") ELSE Return(t)
           /\ UNCHANGED wild
  <2>2. SameWorld /\ vm' = vm /\ vm' \in [Vms -> {"none", "INIT", "RUN", "EXEC", "STALE"}]
    BY <1>1, <1>2 DEF SameWorld, Typed, TypeOK
  <2>3. \A l \in Locks : Holds({Top(t)}, Held(l)) = 0 /\ Holds({}, Held(l)) = 0
    BY <1>2, HoldsHeld DEF IsHeld, Inside
  <2>4. Top(t).lock \in Locks
    BY <1>2 DEF FrameOK, Frames
  <2>5. CASE vm[Top(t).v] # "STALE"
    <3> DEFINE f == To(Top(t), "body")
    <3>1. FrameOK(f)
      BY <1>2 DEF FrameOK, To, Frames, Labels, VmOps, EngineOps
    <3>2. FrameSound(f) /\ ~Released(f)
      BY <1>2, <1>4, <2>5 DEF FrameOK, FrameSound, To, Working, Using, Released, VmOps, EngineOps
    <3>3. MutexStep(t, {Top(t)}, {f})
      <4>1. \A l \in Locks : IsHeld(f, l) => l = Top(t).lock
        BY <1>2 DEF IsHeld, To, Inside, FrameOK
      <4> HIDE DEF f
      <4>2. \A l \in Locks : Holds({f}, Held(l)) \in (IF l = Top(t).lock THEN {0, 1} ELSE {0})
        BY <3>1, <4>1, HoldsHeld
      <4> QED BY <1>4, <2>3, <2>4, <4>2 DEF MutexStep, Entered1
    <3> QED BY <1>1, <1>2, <1>4, <2>2, <2>5, <3>1, <3>2, <3>3, Moved DEF Labels
  <2>6. CASE vm[Top(t).v] = "STALE"
    <3>1. MutexStep(t, {Top(t)}, {})
      BY <1>4, <2>3, <2>4 DEF MutexStep, Entered1
    <3> QED BY <1>1, <1>2, <1>4, <2>2, <2>6, <3>1, Returned DEF Typed, TypeOK
  <2> QED BY <2>5, <2>6
<1> QED BY <1>3, <1>4 DEF EnterVm

LEMMA LeaveCallStep ==
  ASSUME IInv, NEW t \in Threads, LeaveCall(t)
  PROVE  IInv'
<1> DEFINE ops == {"config", "compile", "vm_config", "exec", "reset"}
<1>1. /\ At(t, ops, "leave") /\ Leave(Top(t).lock) /\ Return(t)
      /\ handles' = (IF Top(t).op = "compile" /\ Top(t).v # NULL THEN handles \cup {Top(t).v} ELSE handles)
      /\ UNCHANGED <<engine, vm, gen, live, list, iVm, wild>>
  BY DEF LeaveCall
<1>2. /\ Typed /\ Sound /\ Busy(t) /\ Top(t).op \in ops /\ Top(t).at = "leave"
      /\ FrameOK(Top(t)) /\ FrameSound(Top(t)) /\ Top(t) \in Calls(t)
  BY <1>1, AtTop
<1>3. MutexStep(t, {Top(t)}, {})
  <2>1. Top(t).lock \in Locks
    BY <1>2 DEF FrameOK, Frames
  <2>2. \A l \in Locks : IsHeld(Top(t), l) <=> l = Top(t).lock
    BY <1>2 DEF IsHeld, Inside
  <2>3. \A l \in Locks : Holds({}, Held(l)) = 0 /\ Holds({Top(t)}, Held(l)) = (IF l = Top(t).lock THEN 1 ELSE 0)
    BY <1>2, <2>2, HoldsHeld
  <2>4. Top(t) \in Held(Top(t).lock)
    BY <1>2, <2>1, <2>2, HoldsHeld
  <2> QED BY <1>1, <1>2, <2>1, <2>3, <2>4 DEF MutexStep, Left1
<1>4. \A v \in handles' : v \in handles \/ v \in Members
  BY <1>1, <1>2 DEF FrameSound
<1>5. SameWorld /\ wild' \in BOOLEAN
  BY <1>1, <1>2 DEF SameWorld, Typed, TypeOK
<1> QED BY <1>1, <1>2, <1>3, <1>4, <1>5, Returned

LEMMA LeaveReleasedVmStep ==
  ASSUME IInv, NEW t \in Threads, LeaveReleasedVm(t)
  PROVE  IInv'
<1>1. /\ At(t, {"vm_release"}, "leave") /\ Leave(Top(t).lock) /\ Goto(t, "eng_enter")
      /\ UNCHANGED <<engine, vm, gen, live, list, iVm, handles, wild>>
  BY DEF LeaveReleasedVm
<1>2. /\ Typed /\ Sound /\ Busy(t) /\ Top(t).op \in {"vm_release"} /\ Top(t).at = "leave"
      /\ FrameOK(Top(t)) /\ FrameSound(Top(t)) /\ Top(t) \in Calls(t)
  BY <1>1, AtTop
<1> DEFINE f == To(Top(t), "eng_enter")
<1>3. FrameOK(f)
  BY <1>2 DEF FrameOK, To, Frames, Labels, VmOps, EngineOps
<1>4. FrameSound(f) /\ (Released(f) => Released(Top(t)))
  BY <1>2 DEF FrameOK, FrameSound, To, Working, Using, Released, VmOps, EngineOps
<1>5. MutexStep(t, {Top(t)}, {f})
  <2>1. Top(t).lock \in Locks /\ Top(t).lock = Top(t).lock
    BY <1>2 DEF FrameOK, Frames, EngineOps
  <2>2. \A l \in Locks : (IsHeld(Top(t), l) <=> l = Top(t).lock) /\ ~IsHeld(f, l)
    BY <1>2, <2>1 DEF IsHeld, Inside, To
  <2> HIDE DEF f
  <2>3. \A l \in Locks : Holds({f}, Held(l)) = 0 /\ Holds({Top(t)}, Held(l)) = (IF l = Top(t).lock THEN 1 ELSE 0)
    BY <1>2, <1>3, <2>2, HoldsHeld
  <2>4. Top(t) \in Held(Top(t).lock)
    BY <1>2, <2>1, <2>2, HoldsHeld
  <2> QED BY <1>1, <1>2, <2>1, <2>3, <2>4 DEF MutexStep, Left1
<1>6. SameWorld /\ vm' \in [Vms -> {"none", "INIT", "RUN", "EXEC", "STALE"}]
  BY <1>1, <1>2 DEF SameWorld, Typed, TypeOK
<1> QED BY <1>1, <1>2, <1>3, <1>4, <1>5, <1>6, Moved DEF Labels

LEMMA LeaveReleasedEngineStep ==
  ASSUME IInv, NEW t \in Threads, LeaveReleasedEngine(t)
  PROVE  IInv'
<1>1. /\ At(t, {"release"}, "leave") /\ Leave(EngineLock) /\ Goto(t, "destroy")
      /\ UNCHANGED <<engine, vm, gen, live, list, iVm, handles, wild>>
  BY DEF LeaveReleasedEngine
<1>2. /\ Typed /\ Sound /\ Busy(t) /\ Top(t).op \in {"release"} /\ Top(t).at = "leave"
      /\ FrameOK(Top(t)) /\ FrameSound(Top(t)) /\ Top(t) \in Calls(t)
  BY <1>1, AtTop
<1> DEFINE f == To(Top(t), "destroy")
<1>3. FrameOK(f)
  BY <1>2 DEF FrameOK, To, Frames, Labels, VmOps, EngineOps
<1>4. FrameSound(f) /\ (Released(f) => Released(Top(t)))
  BY <1>2 DEF FrameOK, FrameSound, To, Working, Using, Released, VmOps, EngineOps
<1>5. MutexStep(t, {Top(t)}, {f})
  <2>1. EngineLock \in Locks /\ Top(t).lock = EngineLock
    BY <1>2 DEF FrameOK, Frames, EngineOps
  <2>2. \A l \in Locks : (IsHeld(Top(t), l) <=> l = EngineLock) /\ ~IsHeld(f, l)
    BY <1>2, <2>1 DEF IsHeld, Inside, To
  <2> HIDE DEF f
  <2>3. \A l \in Locks : Holds({f}, Held(l)) = 0 /\ Holds({Top(t)}, Held(l)) = (IF l = EngineLock THEN 1 ELSE 0)
    BY <1>2, <1>3, <2>2, HoldsHeld
  <2>4. Top(t) \in Held(EngineLock)
    BY <1>2, <2>1, <2>2, HoldsHeld
  <2> QED BY <1>1, <1>2, <2>1, <2>3, <2>4 DEF MutexStep, Left1
<1>6. SameWorld /\ vm' \in [Vms -> {"none", "INIT", "RUN", "EXEC", "STALE"}]
  BY <1>1, <1>2 DEF SameWorld, Typed, TypeOK
<1> QED BY <1>1, <1>2, <1>3, <1>4, <1>5, <1>6, Moved DEF Labels

LEMMA EnterEngineOfVmStep ==
  ASSUME IInv, NEW t \in Threads, EnterEngineOfVm(t)
  PROVE  IInv'
<1>1. At(t, {"vm_release"}, "eng_enter") /\ UNCHANGED <<engine, vm, gen, live, list, iVm>>
  BY DEF EnterEngineOfVm
<1>2. /\ Typed /\ Sound /\ Busy(t) /\ Top(t).op \in {"vm_release"} /\ Top(t).at = "eng_enter"
      /\ FrameOK(Top(t)) /\ FrameSound(Top(t))
  BY <1>1, AtTop
<1>3. CASE engine = "freed"
  BY <1>1, <1>3, OnlyWild DEF EnterEngineOfVm
<1>4. CASE engine # "freed"
  <2>1. /\ Acquire(EngineLock, t) /\ wild' = wild
        /\ IF engine = "engine" THEN Goto(t, "unlink") /\ handles' = handles
           ELSE Return(t) /\ handles' = handles \ {Top(t).v}
    BY <1>4 DEF EnterEngineOfVm
  <2>2. SameWorld /\ vm' = vm /\ vm' \in [Vms -> {"none", "INIT", "RUN", "EXEC", "STALE"}]
    BY <1>1, <1>2 DEF SameWorld, Typed, TypeOK
  <2>3. \A l \in Locks : Holds({Top(t)}, Held(l)) = 0 /\ Holds({}, Held(l)) = 0
    BY <1>2, HoldsHeld DEF IsHeld, Inside
  <2>4. EngineLock \in Locks
    BY DEF EngineLock, Locks
  <2>5. CASE engine = "engine"
    <3> DEFINE f == To(Top(t), "unlink")
    <3>1. FrameOK(f)
      BY <1>2 DEF FrameOK, To, Frames, Labels, VmOps, EngineOps
    <3>2. FrameSound(f) /\ (Released(f) => Released(Top(t)))
      BY <1>2, <2>5 DEF FrameOK, FrameSound, To, Working, Using, Released, VmOps, EngineOps
    <3>3. MutexStep(t, {Top(t)}, {f})
      <4>1. \A l \in Locks : IsHeld(f, l) => l = EngineLock
        BY <1>2 DEF IsHeld, To, Inside, FrameOK
      <4> HIDE DEF f
      <4>2. \A l \in Locks : Holds({f}, Held(l)) \in (IF l = EngineLock THEN {0, 1} ELSE {0})
        BY <3>1, <4>1, HoldsHeld
      <4> QED BY <2>1, <2>3, <2>4, <4>2 DEF MutexStep, Entered1
    <3> QED BY <1>1, <1>2, <2>1, <2>2, <2>5, <3>1, <3>2, <3>3, Moved DEF Labels
  <2>6. CASE engine # "engine"
    <3>1. MutexStep(t, {Top(t)}, {})
      BY <2>1, <2>3, <2>4 DEF MutexStep, Entered1
    <3> QED BY <1>1, <1>2, <2>1, <2>2, <2>6, <3>1, Returned DEF Typed, TypeOK
  <2> QED BY <2>5, <2>6
<1> QED BY <1>3, <1>4

LEMMA LeaveEngineOfVmStep ==
  ASSUME IInv, NEW t \in Threads, LeaveEngineOfVm(t)
  PROVE  IInv'
<1>1. /\ At(t, {"vm_release"}, "eng_leave") /\ Leave(EngineLock) /\ Return(t)
      /\ handles' = handles \ {Top(t).v}
      /\ UNCHANGED <<engine, vm, gen, live, list, iVm, wild>>
  BY DEF LeaveEngineOfVm
<1>2. /\ Typed /\ Sound /\ Busy(t) /\ Top(t).op \in {"vm_release"} /\ Top(t).at = "eng_leave"
      /\ FrameOK(Top(t)) /\ FrameSound(Top(t)) /\ Top(t) \in Calls(t)
  BY <1>1, AtTop
<1>3. MutexStep(t, {Top(t)}, {})
  <2>1. EngineLock \in Locks
    BY DEF EngineLock, Locks
  <2>2. \A l \in Locks : IsHeld(Top(t), l) <=> l = EngineLock
    BY <1>2 DEF IsHeld, Inside
  <2>3. \A l \in Locks : Holds({}, Held(l)) = 0 /\ Holds({Top(t)}, Held(l)) = (IF l = EngineLock THEN 1 ELSE 0)
    BY <1>2, <2>2, HoldsHeld
  <2>4. Top(t) \in Held(EngineLock)
    BY <1>2, <2>1, <2>2, HoldsHeld
  <2> QED BY <1>1, <1>2, <2>1, <2>3, <2>4 DEF MutexStep, Left1
<1>4. \A v \in handles' : v \in handles \/ v \in Members
  BY <1>1
<1>5. SameWorld /\ wild' \in BOOLEAN
  BY <1>1, <1>2 DEF SameWorld, Typed, TypeOK
<1> QED BY <1>1, <1>2, <1>3, <1>4, <1>5, Returned

LEMMA DestroyEngineStep ==
  ASSUME IInv, NEW t \in Threads, DestroyEngine(t)
  PROVE  IInv'
<1>1. /\ At(t, {"release"}, "destroy") /\ Return(t)
      /\ engine' = "freed" /\ handles' = {} /\ wild' \in BOOLEAN
      /\ UNCHANGED <<vm, gen, live, list, iVm, holder, count>>
  BY DEF DestroyEngine
<1>2. /\ Typed /\ Sound /\ Busy(t) /\ Top(t).op \in {"release"} /\ Top(t).at = "destroy"
      /\ FrameOK(Top(t)) /\ FrameSound(Top(t))
  BY <1>1, AtTop
<1>3. MutexStep(t, {Top(t)}, {})
  <2>1. \A l \in Locks : ~IsHeld(Top(t), l)
    BY <1>2 DEF IsHeld, Inside
  <2>2. \A l \in Locks : Holds({Top(t)}, Held(l)) = 0 /\ Holds({}, Held(l)) = 0
    BY <1>2, <2>1, HoldsHeld
  <2> QED BY <1>1, <2>2 DEF MutexStep, Kept
<1>4. engine \in {"stale", "freed"}
  BY <1>2 DEF FrameSound, Typed, TypeOK
<1>5. SameWorld
  BY <1>1, <1>4 DEF SameWorld
<1> QED BY <1>1, <1>2, <1>3, <1>5, Returned

LEMMA CallEngineStep ==
  ASSUME IInv, NEW t \in Threads, NEW op \in EngineOps, CallEngine(t, op)
  PROVE  IInv'
<1>1. /\ MayCall(t) /\ (op = "release" => ~Busy(t)) /\ Push(t, op, NULL, EngineLock)
      /\ UNCHANGED <<engine, vm, gen, live, list, iVm, holder, count, handles, wild>>
  BY DEF CallEngine
<1>2. Typed /\ Sound
  BY <1>1 DEF IInv, MayCall
<1>3. FrameOK(NewFrame(op, NULL, EngineLock))
  BY DEF FrameOK, NewFrame, Frames, Labels, VmOps, EngineOps, EngineLock, Locks
<1>4. FrameSound(NewFrame(op, NULL, EngineLock))
  BY DEF FrameSound, NewFrame, VmOps, EngineOps, Working, Using, Released
<1>5. op # "vm_release"
  BY DEF EngineOps
<1> QED BY <1>1, <1>2, <1>3, <1>4, <1>5, Called

LEMMA CallVmStep ==
  ASSUME IInv, NEW t \in Threads, NEW op \in VmOps, NEW v \in Vms, CallVm(t, op, v)
  PROVE  IInv'
<1>1. /\ MayCall(t) /\ (op = "vm_release" => \A c \in Calls(t) : c.v # v) /\ Push(t, op, v, <<v, gen[v]>>)
      /\ engine = "engine" /\ v \in handles
      /\ UNCHANGED <<engine, vm, gen, live, list, iVm, holder, count, handles, wild>>
  BY DEF CallVm
<1>2. Typed /\ Sound
  BY <1>1 DEF IInv, MayCall
<1>3. vm[v] \in Made \cup {"STALE"}
  <2>1. v \in Members \/ \E c \in AllCalls : c.at = "eng_leave" /\ c.v = v
    BY <1>1, <1>2 DEF Sound, World, MachineSound
  <2>2. ASSUME NEW c \in AllCalls, c.at = "eng_leave", c.v = v PROVE vm[v] = "STALE"
    BY <1>2, <2>2 DEF Sound, World, FrameSound
  <2> QED BY <1>1, <1>2, <2>1, <2>2 DEF Sound, World, MachineSound
<1>4. gen[v] \in 1..MaxGen
  <2>1. gen[v] \in 0..MaxGen
    BY <1>2 DEF Typed, TypeOK
  <2>2. gen[v] # 0
    BY <1>2, <1>3 DEF Sound, World, MachineSound, Made
  <2> QED BY <2>1, <2>2, EngineApiAssumption
<1> DEFINE lock == <<v, gen[v]>>
<1>5. FrameOK(NewFrame(op, v, lock))
  BY <1>4 DEF FrameOK, NewFrame, Frames, Labels, VmOps, EngineOps, Locks
<1>6. FrameSound(NewFrame(op, v, lock))
  <2>1. lock[2] = gen[v] /\ gen[v] <= gen[v]
    BY <1>4
  <2> HIDE DEF lock
  <2> QED BY <1>3, <2>1 DEF FrameSound, NewFrame, VmOps, EngineOps, Working, Using, Released
<1>7. op # "release"
  BY DEF VmOps
<1> HIDE DEF lock
<1> QED BY <1>1, <1>2, <1>5, <1>6, <1>7, Called DEF lock

(* For the steps that change the machines, what is the same in all of them. *)
LEMMA BecomesTyped ==
  ASSUME Typed, \A l \in Locks : MutexSound(l), NEW t \in Threads, Busy(t), NEW f, FrameOK(f),
         Becomes(t, f), f.op = Top(t).op, f.op = "vm_release" => f.v = Top(t).v,
         MutexStep(t, {Top(t)}, {f}),
         engine' \in {"engine", "stale", "freed"},
         vm' \in [Vms -> {"none", "INIT", "RUN", "EXEC", "STALE"}], gen' \in [Vms -> 0..MaxGen],
         live' \subseteq Vms, list' \in Lists(Vms), iVm' \in Int, handles' \subseteq Vms, wild' \in BOOLEAN
  PROVE  Typed' /\ StackStep(t, Rest(t), {Top(t)}, {f}) /\ \A l \in Locks : MutexSound(l)'
<1>1. f \in Frames /\ TypeOK
  BY DEF FrameOK, Typed
<1>2. StackStep(t, Rest(t), {Top(t)}, {f})
  BY <1>1, Replaced
<1>3. stack' \in [Threads -> Seq(Frames)] /\ \A u \in Threads : StackOK(u)'
  BY <1>1, StacksReplaced
<1>4. /\ holder' \in [Locks -> Threads \cup {NULL}] /\ count' \in [Locks -> Int]
      /\ \A l \in Locks : MutexSound(l)'
  BY <1>1, <1>2, MutexesAfter
<1>5. TypeOK'
  BY <1>3, <1>4 DEF TypeOK
<1> QED BY <1>2, <1>3, <1>4, <1>5 DEF Typed

LEMMA Concludes ==
  ASSUME Typed', \A l \in Locks : MutexSound(l)', World'
  PROVE  IInv'
<1>1. Sound'
  BY DEF Sound
<1>2. ExecExclusive'
  BY <1>1, Exclusive, PTL
<1>3. VmListExact'
  BY DEF World
<1> QED BY <1>1, <1>2, <1>3 DEF IInv

(* Under the mutex of the engine there is nobody else. *)
LEMMA EngineAlone ==
  ASSUME Typed, Sound, NEW t \in Threads, Busy(t), IsHeld(Top(t), EngineLock), NEW c \in AllCalls, IsHeld(c, EngineLock)
  PROVE  c = Top(t) \/ c \in Rest(t)
<1>1. PICK u \in Threads : c \in Calls(u)
  BY DEF AllCalls
<1>2. Calls(t) = Rest(t) \cup {Top(t)}
  BY StackParts DEF Typed
<1>3. FrameOK(c) /\ FrameOK(Top(t))
  BY <1>1, <1>2, CallsTyped
<1>4. c \in Held(EngineLock) /\ Top(t) \in Held(EngineLock)
  BY <1>3, HoldsHeld
<1>5. EngineLock \in Locks
  BY DEF EngineLock, Locks
<1>6. u = t
  BY <1>1, <1>2, <1>4, <1>5, Exclusion DEF Sound
<1> QED BY <1>1, <1>2, <1>6

(* A machine in use is linked. *)
LEMMA InUse ==
  ASSUME Typed, Sound, NEW c \in AllCalls
  PROVE  /\ Using(c) => c.v \in Members
         /\ Released(c) /\ engine = "engine" => c.v \in Members
<1>1. FrameSound(c) /\ FrameOK(c)
  BY CallsTyped DEF Sound, World
<1>2. Released(c) /\ engine = "engine" => c.v \in Members
  BY <1>1 DEF FrameSound
<1>3. ASSUME Using(c) PROVE c.v \in Members
  <2>1. CASE Released(c)
    <3>1. engine = "engine"
      BY <1>1, <1>3 DEF FrameSound, Using, Working, VmOps
    <3> QED BY <1>2, <2>1, <3>1
  <2>2. CASE ~Released(c)
    <3>1. vm[c.v] \in Made /\ c.v \in Vms
      BY <1>1, <1>3, <2>2 DEF FrameSound, FrameOK, Using
    <3> QED BY <3>1 DEF Sound, World, MachineSound
  <2> QED BY <2>1, <2>2
<1> QED BY <1>2, <1>3

LEMMA StartCompileStep ==
  ASSUME IInv, NEW t \in Threads, StartCompile(t)
  PROVE  IInv'
<1>1. /\ At(t, {"compile"}, "body")
      /\ UNCHANGED <<engine, iVm, holder, count, handles, wild>>
  BY DEF StartCompile
<1>2. /\ Typed /\ Sound /\ Busy(t) /\ Top(t).op \in {"compile"} /\ Top(t).at = "body"
      /\ FrameOK(Top(t)) /\ FrameSound(Top(t)) /\ StackOK(t)
      /\ Calls(t) = Rest(t) \cup {Top(t)}
  BY <1>1, AtTop
<1>3. CASE Goto(t, "leave") /\ UNCHANGED <<live, gen, vm, list>>
  <2> DEFINE f == To(Top(t), "leave")
  <2>1. FrameOK(f)
    BY <1>2 DEF FrameOK, To, Frames, Labels, VmOps, EngineOps
  <2>2. FrameSound(f) /\ ~Released(f)
    BY <1>2 DEF FrameOK, FrameSound, To, Working, Using, Released, VmOps
  <2>3. MutexStep(t, {Top(t)}, {f})
    <3>1. \A l \in Locks : IsHeld(Top(t), l) <=> IsHeld(f, l)
      BY <1>2 DEF IsHeld, To, Inside
    <3> HIDE DEF f
    <3>2. \A l \in Locks : Holds({f}, Held(l)) = Holds({Top(t)}, Held(l))
      BY <1>2, <2>1, <3>1, HoldsHeld
    <3> QED BY <1>1, <3>2 DEF MutexStep, Kept
  <2>4. SameWorld /\ vm' \in [Vms -> {"none", "INIT", "RUN", "EXEC", "STALE"}]
    BY <1>1, <1>2, <1>3 DEF SameWorld, Typed, TypeOK
  <2> QED BY <1>1, <1>2, <1>3, <2>1, <2>2, <2>3, <2>4, Moved DEF Labels
<1>4. ASSUME NEW v \in Vms \ live, gen[v] < MaxGen,
             live' = live \cup {v}, gen' = [gen EXCEPT ![v] = @ + 1], vm' = [vm EXCEPT ![v] = "INIT"],
             list' = ZeroLinks(list, v),
             stack' = [stack EXCEPT ![t][1].at = "compiling", ![t][1].v = v]
      PROVE  IInv'
  <2>1. PICK f \in Frames : /\ f = [op |-> Top(t).op, v |-> v, lock |-> Top(t).lock, at |-> "compiling"]
                            /\ Becomes(t, f)
    BY <1>2, <1>4, RelabelsFor DEF Labels
  <2>2. f.op = "compile" /\ f.v = v /\ f.lock = Top(t).lock /\ f.at = "compiling" /\ Top(t).lock = EngineLock
    BY <1>2, <2>1 DEF FrameOK, EngineOps
  <2>3. FrameOK(f)
    BY <2>2 DEF FrameOK, VmOps, EngineOps
  <2>4. MutexStep(t, {Top(t)}, {f})
    <3>1. \A l \in Locks : IsHeld(Top(t), l) <=> IsHeld(f, l)
      BY <1>2, <2>2 DEF IsHeld, Inside
    <3>2. \A l \in Locks : Holds({f}, Held(l)) = Holds({Top(t)}, Held(l))
      BY <1>2, <2>3, <3>1, HoldsHeld
    <3> QED BY <1>1, <3>2 DEF MutexStep, Kept
  <2>5. Typed' /\ StackStep(t, Rest(t), {Top(t)}, {f}) /\ \A l \in Locks : MutexSound(l)'
    <3>1. gen' \in [Vms -> 0..MaxGen] /\ vm' \in [Vms -> {"none", "INIT", "RUN", "EXEC", "STALE"}]
          /\ live' \subseteq Vms
      BY <1>2, <1>4, EngineApiAssumption DEF Typed, TypeOK
    <3>2. list' \in Lists(Vms)
      BY <1>2, <1>4, ZeroLinksType DEF Typed, TypeOK
    <3>3. engine' \in {"engine", "stale", "freed"} /\ iVm' \in Int /\ handles' \subseteq Vms /\ wild' \in BOOLEAN
      BY <1>1, <1>2 DEF Typed, TypeOK
    <3>4. \A l \in Locks : MutexSound(l)
      BY <1>2 DEF Sound
    <3> QED BY <1>2, <2>1, <2>2, <2>3, <2>4, <3>1, <3>2, <3>3, <3>4, BecomesTyped
  <2>6. /\ \A c \in AllCalls' : c \in AllCalls \/ c = f
        /\ \A c \in AllCalls : c \in AllCalls' \/ c = Top(t)
        /\ \A u \in Threads : u # t => Calls(u)' = Calls(u)
        /\ \A u \in Threads : u # t => \A H : Counted(stack'[u], H) = Counted(stack[u], H)
        /\ f \in AllCalls' /\ Calls(t)' = Rest(t) \cup {f}
    <3>1. StackStep(t, Rest(t), {Top(t)}, {f})
      BY <2>5
    <3>2. /\ \A c \in AllCalls' : c \in AllCalls \/ c \in {f}
          /\ \A c \in AllCalls : c \in AllCalls' \/ c \in {Top(t)}
          /\ \A u \in Threads : u # t => Calls(u)' = Calls(u)
          /\ \A u \in Threads : u # t => \A H : Counted(stack'[u], H) = Counted(stack[u], H)
      BY <3>1, CallsAfter
    <3>3. Calls(t)' = Rest(t) \cup {f}
      BY <3>1 DEF StackStep
    <3> QED BY <3>2, <3>3 DEF AllCalls
  <2>7. engine = "engine" /\ engine' = "engine"
    BY <1>1, <1>2 DEF FrameSound, Working
  <2>8. \A c \in AllCalls : /\ FrameOK(c) /\ FrameSound(c)
                            /\ Using(c) \/ Released(c) => c.v \in Members
    BY <1>2, <2>7, InUse, CallsTyped DEF Sound, World
  <2>9. \A c \in AllCalls : c.at # "eng_leave"
    <3> SUFFICES ASSUME NEW c \in AllCalls, c.at = "eng_leave" PROVE FALSE
      OBVIOUS
    <3>1. IsHeld(Top(t), EngineLock) /\ IsHeld(c, EngineLock)
      BY <1>2, <2>2 DEF IsHeld, Inside
    <3>2. c = Top(t) \/ c \in Rest(t)
      BY <1>2, <3>1, EngineAlone
    <3> QED BY <1>2, <3>2 DEF StackOK
  <2>10. v \notin Members /\ \A c \in AllCalls : c.at = "compiling" => c.v # v
    BY <2>8 DEF Members, FrameSound
  <2>11. Members' = Members
    <3>1. {c.v : c \in {d \in AllCalls' : d.at = "compiling"}} = {c.v : c \in {d \in AllCalls : d.at = "compiling"}} \cup {v}
      BY <1>2, <2>2, <2>6
    <3> QED BY <1>4, <3>1 DEF Members
  <2>12. VmListExact' /\ IsFiniteSet(Members)'
    <3>1. Linked(list, Members) /\ iVm = Cardinality(Members) /\ IsFiniteSet(Members)
      BY <1>2, <2>7 DEF Sound, World, VmListExact
    <3>2. list \in Lists(Vms) /\ Members \in SUBSET Vms
      BY <1>2 DEF Typed, TypeOK, Members
    <3>3. Linked(list', Members)
      BY <1>4, <2>10, <3>1, <3>2, ZeroLinksLinked DEF Linked
    <3> QED BY <1>1, <2>11, <3>1, <3>3 DEF VmListExact
  <2>13. /\ \A w \in Vms : w # v => gen'[w] = gen[w] /\ vm'[w] = vm[w]
         /\ gen'[v] = gen[v] + 1 /\ vm'[v] = "INIT" /\ gen[v] \in Nat
         /\ list'.next[v] = NULL /\ list'.prev[v] = NULL
         /\ \A w \in Vms : w # v => list'.next[w] = list.next[w] /\ list'.prev[w] = list.prev[w]
    <3>1. vm \in [Vms -> {"none", "INIT", "RUN", "EXEC", "STALE"}] /\ gen \in [Vms -> 0..MaxGen] /\ list \in Lists(Vms)
      BY <1>2 DEF Typed, TypeOK
    <3> QED BY <1>4, <3>1 DEF ZeroLinks, Lists
  <2>14. Members \subseteq live /\ live \subseteq live' /\ v \in live'
    BY <1>4 DEF Members
  <2>15. \A c \in AllCalls' : FrameSound(c)'
    <3>1. ASSUME NEW c \in AllCalls PROVE FrameSound(c)'
      <4>1. FrameOK(c) /\ FrameSound(c) /\ (Using(c) \/ Released(c) => c.v # v)
        BY <2>8, <2>10
      <4>2. c.op \in VmOps \/ c.at \in {"compiling", "eng_leave"} \/ Using(c) \/ Released(c) => c.v \in Vms
        BY <4>1 DEF FrameOK, Using, Released, VmOps
      <4>3. c.op \in VmOps => /\ c.lock[2] <= gen'[c.v]
                              /\ c.lock[2] = gen'[c.v] => vm'[c.v] \in Made \cup {"STALE"}
        <5> SUFFICES ASSUME c.op \in VmOps PROVE c.lock[2] <= gen'[c.v] /\ (c.lock[2] = gen'[c.v] => vm'[c.v] \in Made \cup {"STALE"})
          OBVIOUS
        <5>1. c.lock[2] <= gen[c.v] /\ c.lock[2] \in Int /\ (c.lock[2] = gen[c.v] => vm[c.v] \in Made \cup {"STALE"})
          BY <4>1 DEF FrameSound, FrameOK
        <5> QED BY <2>13, <4>2, <5>1
      <4>4. Using(c) => c.lock[2] = gen'[c.v] /\ (Released(c) \/ vm'[c.v] \in Made)
        BY <2>13, <4>1, <4>2 DEF FrameSound
      <4>5. /\ Released(c) /\ engine' = "engine" => vm'[c.v] = "STALE" /\ c.v \in Members'
            /\ c.op = "compile" /\ c.at = "leave" /\ c.v # NULL => c.v \in Members'
        BY <2>7, <2>11, <2>13, <4>1, <4>2 DEF FrameSound
      <4>6. c.at = "compiling" => /\ c.v \in live' /\ vm'[c.v] = "INIT"
                                  /\ list'.next[c.v] = NULL /\ list'.prev[c.v] = NULL
        BY <2>10, <2>13, <2>14, <4>1, <4>2 DEF FrameSound
      <4>7. /\ Working(c) => engine' = "engine"
            /\ c.op = "release" /\ c.at \in {"leave", "destroy"} => engine' # "engine"
        BY <2>7, <4>1 DEF FrameSound
      <4> QED BY <2>9, <4>3, <4>4, <4>5, <4>6, <4>7 DEF FrameSound, Working, Using, Released
    <3>2. FrameSound(f)'
      BY <2>2, <2>7, <2>13, <2>14 DEF FrameSound, Working, Using, Released, VmOps
    <3> QED BY <2>6, <3>1, <3>2
  <2>16. \A w \in Vms : MachineSound(w)'
    <3> SUFFICES ASSUME NEW w \in Vms PROVE MachineSound(w)'
      OBVIOUS
    <3>1. MachineSound(w)
      BY <1>2 DEF Sound, World
    <3>2. /\ vm'[w] \in Made => engine' = "engine" /\ w \in Members'
          /\ engine' = "engine" /\ w \in Members' => vm'[w] \in Made \cup {"STALE"}
          /\ gen'[w] = 0 => vm'[w] = "none"
      BY <2>7, <2>10, <2>11, <2>13, <3>1 DEF MachineSound, Made
    <3>3. ASSUME w \in handles' PROVE w \in Members' \/ \E c \in AllCalls' : c.at = "eng_leave" /\ c.v = w
      BY <1>1, <2>7, <2>9, <2>11, <3>1, <3>3 DEF MachineSound
    <3>4. ASSUME NEW u \in Threads PROVE Counted(stack'[u], CompilingOf(w)) <= 1
      <4>1. Counted(stack[u], CompilingOf(w)) <= 1 /\ Counted(stack[u], CompilingOf(w)) \in Nat
        BY <1>2, <3>1, CountsHeld DEF MachineSound, Typed, TypeOK
      <4>2. CASE u # t
        BY <2>6, <4>1, <4>2
      <4>3. CASE u = t
        <5>1. Holds({Top(t)}, CompilingOf(w)) = 0
          BY <1>2 DEF Holds, CompilingOf
        <5>2. Holds({f}, CompilingOf(w)) = (IF w = v THEN 1 ELSE 0)
          BY <2>1, <2>2 DEF Holds, CompilingOf
        <5>3. Counted(stack'[t], CompilingOf(w)) = Counted(stack[t], CompilingOf(w)) + (IF w = v THEN 1 ELSE 0)
          BY <2>5, <4>1, <4>3, <5>1, <5>2 DEF StackStep
        <5>4. w = v => Counted(stack[t], CompilingOf(w)) = 0
          <6> SUFFICES ASSUME w = v PROVE FramesOf(stack[t]) \cap CompilingOf(v) = {}
            BY CountsHeld, <1>2 DEF Typed, TypeOK
          <6> QED BY <2>10 DEF FramesOf, AllCalls, Calls, CompilingOf
        <5> QED BY <4>1, <4>3, <5>3, <5>4
      <4> QED BY <4>2, <4>3
    <3> QED BY <3>2, <3>3, <3>4 DEF MachineSound, CompilingOf
  <2>17. OneReleases'
    <3>1. \A u \in Threads : \A c \in Calls(u)' : Released(c) => c \in Calls(u)
      BY <1>2, <2>2, <2>6 DEF Released
    <3> QED BY <1>2, <2>7, <3>1 DEF Sound, World, OneReleases, Released
  <2>18. World'
    BY <2>7, <2>12, <2>15, <2>16, <2>17 DEF World
  <2> QED BY <2>5, <2>18, Concludes
<1> QED BY <1>3, <1>4 DEF StartCompile

(* While a script is compiled nobody else is in the engine, and no outer call *)
(* of the thread compiles into the same chunk.                                *)
LEMMA Compiles ==
  ASSUME Typed, Sound, NEW t \in Threads, Busy(t), Top(t).at = "compiling"
  PROVE  /\ \A c \in Rest(t) : c.at = "compiling" => c.v # Top(t).v
         /\ \A u \in Threads : u # t => \A c \in Calls(u) : c.at # "compiling"
         /\ \A c \in AllCalls : c.at \notin {"unlink", "eng_leave"}
<1>1. /\ FrameOK(Top(t)) /\ StackOK(t) /\ Calls(t) = Rest(t) \cup {Top(t)}
      /\ \A H : Counted(stack[t], H) = Counted(Tail(stack[t]), H) + Holds({Top(t)}, H)
      /\ stack[t] \in Seq(Frames) /\ Tail(stack[t]) \in Seq(Frames)
  BY StackParts DEF Typed, StackOK
<1>2. Top(t).op = "compile" /\ Top(t).v \in Vms /\ IsHeld(Top(t), EngineLock)
  BY <1>1 DEF FrameOK, IsHeld, Inside, EngineOps
<1> DEFINE H == CompilingOf(Top(t).v)
<1>3. \A c \in Rest(t) : c.at = "compiling" => c.v # Top(t).v
  <2>1. Counted(stack[t], H) <= 1
    BY <1>2 DEF Sound, World, MachineSound
  <2>2. Holds({Top(t)}, H) = 1
    BY <1>1 DEF Holds, CompilingOf, FrameOK
  <2>3. Counted(Tail(stack[t]), H) \in Nat /\ (FramesOf(Tail(stack[t])) \cap H # {} => Counted(Tail(stack[t]), H) > 0)
    BY <1>1, CountsHeld
  <2>4. Counted(stack[t], H) = Counted(Tail(stack[t]), H) + Holds({Top(t)}, H)
    BY <1>1
  <2> HIDE DEF H
  <2>5. FramesOf(Tail(stack[t])) \cap H = {}
    BY <2>1, <2>2, <2>3, <2>4
  <2>6. \A c \in Rest(t) : c \in Frames
    BY <1>1 DEF StackOK, FrameOK
  <2> QED BY <2>5, <2>6 DEF H, Rest, CompilingOf
<1>4. ASSUME NEW u \in Threads, u # t, NEW c \in Calls(u) PROVE ~IsHeld(c, EngineLock)
  <2> SUFFICES ASSUME IsHeld(c, EngineLock) PROVE FALSE
    OBVIOUS
  <2>1. FrameOK(c) /\ EngineLock \in Locks
    BY CallsTyped DEF EngineLock, Locks
  <2>2. c \in Held(EngineLock) /\ Top(t) \in Held(EngineLock)
    BY <1>1, <1>2, <2>1, HoldsHeld
  <2> QED BY <1>1, <1>4, <2>1, <2>2, Exclusion DEF Sound
<1>5. ASSUME NEW u \in Threads, u # t, NEW c \in Calls(u) PROVE c.at # "compiling"
  <2>1. FrameOK(c) /\ ~IsHeld(c, EngineLock)
    BY <1>4, <1>5, CallsTyped
  <2> QED BY <2>1 DEF FrameOK, IsHeld, Inside, EngineOps
<1>6. ASSUME NEW c \in AllCalls, c.at \in {"unlink", "eng_leave"} PROVE FALSE
  <2>1. PICK u \in Threads : c \in Calls(u)
    BY DEF AllCalls
  <2>2. IsHeld(c, EngineLock)
    BY <1>6 DEF IsHeld
  <2>3. u = t
    BY <1>4, <2>1, <2>2
  <2> QED BY <1>1, <1>6, <2>1, <2>3 DEF StackOK
<1> QED BY <1>3, <1>5, <1>6

LEMMA FailCompileStep ==
  ASSUME IInv, NEW t \in Threads, FailCompile(t)
  PROVE  IInv'
<1> DEFINE v == Top(t).v
<1>1. /\ At(t, {"compile"}, "compiling") /\ live' = live \ {v}
      /\ stack' = [stack EXCEPT ![t][1].at = "leave", ![t][1].v = NULL]
      /\ UNCHANGED <<engine, vm, gen, list, iVm, holder, count, handles, wild>>
  BY DEF FailCompile
<1>2. /\ Typed /\ Sound /\ Busy(t) /\ Top(t).op \in {"compile"} /\ Top(t).at = "compiling"
      /\ FrameOK(Top(t)) /\ FrameSound(Top(t)) /\ StackOK(t)
      /\ Calls(t) = Rest(t) \cup {Top(t)}
  BY <1>1, AtTop
<1>3. PICK f \in Frames : /\ f = [op |-> Top(t).op, v |-> NULL, lock |-> Top(t).lock, at |-> "leave"]
                          /\ Becomes(t, f)
  BY <1>1, <1>2, RelabelsFor DEF Labels
<1>4. /\ f.op = "compile" /\ f.v = NULL /\ f.lock = Top(t).lock /\ f.at = "leave" /\ Top(t).lock = EngineLock
      /\ v \in Vms
  BY <1>2, <1>3 DEF FrameOK, EngineOps
<1>5. Typed' /\ StackStep(t, Rest(t), {Top(t)}, {f}) /\ \A l \in Locks : MutexSound(l)'
  <2>1. FrameOK(f)
    BY <1>4 DEF FrameOK, VmOps, EngineOps
  <2>2. MutexStep(t, {Top(t)}, {f})
    <3>1. \A l \in Locks : IsHeld(Top(t), l) <=> IsHeld(f, l)
      BY <1>2, <1>4 DEF IsHeld, Inside
    <3>2. \A l \in Locks : Holds({f}, Held(l)) = Holds({Top(t)}, Held(l))
      BY <1>2, <2>1, <3>1, HoldsHeld
    <3> QED BY <1>1, <3>2 DEF MutexStep, Kept
  <2>3. /\ engine' \in {"engine", "stale", "freed"} /\ iVm' \in Int /\ handles' \subseteq Vms /\ wild' \in BOOLEAN
        /\ gen' \in [Vms -> 0..MaxGen] /\ vm' \in [Vms -> {"none", "INIT", "RUN", "EXEC", "STALE"}]
        /\ live' \subseteq Vms /\ list' \in Lists(Vms)
    BY <1>1, <1>2 DEF Typed, TypeOK
  <2>4. \A l \in Locks : MutexSound(l)
    BY <1>2 DEF Sound
  <2> QED BY <1>2, <1>3, <1>4, <2>1, <2>2, <2>3, <2>4, BecomesTyped
<1>6. /\ \A c \in AllCalls' : c \in AllCalls \/ c = f
      /\ \A c \in AllCalls : c \in AllCalls' \/ c = Top(t)
      /\ \A u \in Threads : u # t => Calls(u)' = Calls(u)
      /\ \A u \in Threads : u # t => \A H : Counted(stack'[u], H) = Counted(stack[u], H)
      /\ f \in AllCalls' /\ Calls(t)' = Rest(t) \cup {f}
  <2>1. StackStep(t, Rest(t), {Top(t)}, {f})
    BY <1>5
  <2>2. /\ \A c \in AllCalls' : c \in AllCalls \/ c \in {f}
        /\ \A c \in AllCalls : c \in AllCalls' \/ c \in {Top(t)}
        /\ \A u \in Threads : u # t => Calls(u)' = Calls(u)
        /\ \A u \in Threads : u # t => \A H : Counted(stack'[u], H) = Counted(stack[u], H)
    BY <2>1, CallsAfter
  <2>3. Calls(t)' = Rest(t) \cup {f}
    BY <2>1 DEF StackStep
  <2> QED BY <2>2, <2>3 DEF AllCalls
<1>7. engine = "engine" /\ engine' = "engine"
  BY <1>1, <1>2 DEF FrameSound, Working
<1>8. \A c \in AllCalls : /\ FrameOK(c) /\ FrameSound(c)
                          /\ c.at \notin {"unlink", "eng_leave"}
  BY <1>2, Compiles, CallsTyped DEF Sound, World
<1>9. \A c \in AllCalls' : c.at = "compiling" => c.v # v
  <2> SUFFICES ASSUME NEW u \in Threads, NEW c \in Calls(u)', c.at = "compiling" PROVE c.v # v
    BY DEF AllCalls
  <2>1. CASE u # t
    BY <1>2, <1>6, <2>1, Compiles
  <2>2. CASE u = t
    BY <1>2, <1>4, <1>6, <2>2, Compiles
  <2> QED BY <2>1, <2>2
<1>10. Members' = Members /\ v \notin Members
  <2>1. {c.v : c \in {d \in AllCalls' : d.at = "compiling"}} \cup {v} = {c.v : c \in {d \in AllCalls : d.at = "compiling"}}
    <3>1. Top(t) \in AllCalls
      BY <1>2 DEF AllCalls
    <3> QED BY <1>2, <1>4, <1>6, <3>1
  <2> QED BY <1>1, <2>1 DEF Members
<1>11. VmListExact' /\ IsFiniteSet(Members)'
  BY <1>1, <1>2, <1>10 DEF Sound, World, VmListExact
<1>12. \A c \in AllCalls' : FrameSound(c)'
  <2>1. ASSUME NEW c \in AllCalls, c \in AllCalls' PROVE FrameSound(c)'
    <3>1. FrameOK(c) /\ FrameSound(c) /\ c.at # "eng_leave" /\ (c.at = "compiling" => c.v # v)
      BY <1>8, <1>9, <2>1
    <3>2. c.at = "compiling" => c.v \in live'
      BY <1>1, <3>1 DEF FrameSound
    <3>3. Members' = Members /\ engine' = engine /\ vm' = vm /\ gen' = gen /\ list' = list
      BY <1>1, <1>10
    <3> QED BY <3>1, <3>2, <3>3 DEF FrameSound, Working, Using, Released
  <2>2. FrameSound(f)'
    BY <1>4, <1>7 DEF FrameSound, Working, Using, Released, VmOps
  <2> QED BY <1>6, <2>1, <2>2
<1>13. \A w \in Vms : MachineSound(w)'
  <2> SUFFICES ASSUME NEW w \in Vms PROVE MachineSound(w)'
    OBVIOUS
  <2>1. MachineSound(w)
    BY <1>2 DEF Sound, World
  <2>2. /\ vm'[w] \in Made => engine' = "engine" /\ w \in Members'
        /\ engine' = "engine" /\ w \in Members' => vm'[w] \in Made \cup {"STALE"}
        /\ gen'[w] = 0 => vm'[w] = "none"
    BY <1>1, <1>10, <2>1 DEF MachineSound, Made
  <2>3. ASSUME w \in handles' PROVE w \in Members' \/ \E c \in AllCalls' : c.at = "eng_leave" /\ c.v = w
    BY <1>1, <1>7, <1>8, <1>10, <2>1, <2>3 DEF MachineSound
  <2>4. ASSUME NEW u \in Threads PROVE Counted(stack'[u], CompilingOf(w)) <= 1
    <3>1. Counted(stack[u], CompilingOf(w)) <= 1 /\ Counted(stack[u], CompilingOf(w)) \in Nat
      BY <1>2, <2>1, CountsHeld DEF MachineSound, Typed, TypeOK
    <3>2. CASE u # t
      BY <1>6, <3>1, <3>2
    <3>3. CASE u = t
      <4>1. Holds({f}, CompilingOf(w)) = 0 /\ Holds({Top(t)}, CompilingOf(w)) \in Nat
        BY <1>4 DEF Holds, CompilingOf
      <4> QED BY <1>5, <3>1, <3>3, <4>1 DEF StackStep
    <3> QED BY <3>2, <3>3
  <2> QED BY <2>2, <2>3, <2>4 DEF MachineSound, CompilingOf
<1>14. OneReleases'
  <2>1. \A u \in Threads : \A c \in Calls(u)' : Released(c) => c \in Calls(u)
    BY <1>2, <1>4, <1>6 DEF Released
  <2> QED BY <1>2, <1>7, <2>1 DEF Sound, World, OneReleases, Released
<1>15. World'
  BY <1>7, <1>11, <1>12, <1>13, <1>14 DEF World
<1> QED BY <1>5, <1>15, Concludes

LEMMA FinishCompileStep ==
  ASSUME IInv, NEW t \in Threads, FinishCompile(t)
  PROVE  IInv'
<1> DEFINE v == Top(t).v
<1>1. /\ At(t, {"compile"}, "compiling") /\ vm' = [vm EXCEPT ![v] = "RUN"]
      /\ list' = LdPush(list, v) /\ iVm' = iVm + 1 /\ Goto(t, "leave")
      /\ UNCHANGED <<engine, gen, live, holder, count, handles, wild>>
  BY DEF FinishCompile
<1>2. /\ Typed /\ Sound /\ Busy(t) /\ Top(t).op \in {"compile"} /\ Top(t).at = "compiling"
      /\ FrameOK(Top(t)) /\ FrameSound(Top(t)) /\ StackOK(t)
      /\ Calls(t) = Rest(t) \cup {Top(t)}
  BY <1>1, AtTop
<1>3. PICK f : f = To(Top(t), "leave") /\ FrameOK(f) /\ Becomes(t, f)
  <2>1. FrameOK(To(Top(t), "leave"))
    BY <1>2 DEF FrameOK, To, Frames, Labels, VmOps, EngineOps
  <2> QED BY <1>1, <1>2, <2>1, Relabels DEF Labels
<1>4. /\ f.op = "compile" /\ f.v = v /\ f.lock = Top(t).lock /\ f.at = "leave" /\ Top(t).lock = EngineLock
      /\ v \in Vms /\ v # NULL
  BY <1>2, <1>3, EngineApiAssumption DEF FrameOK, EngineOps, To
<1>5. Typed' /\ StackStep(t, Rest(t), {Top(t)}, {f}) /\ \A l \in Locks : MutexSound(l)'
  <2>2. MutexStep(t, {Top(t)}, {f})
    <3>1. \A l \in Locks : IsHeld(Top(t), l) <=> IsHeld(f, l)
      BY <1>2, <1>4 DEF IsHeld, Inside
    <3>2. \A l \in Locks : Holds({f}, Held(l)) = Holds({Top(t)}, Held(l))
      BY <1>2, <1>3, <3>1, HoldsHeld
    <3> QED BY <1>1, <3>2 DEF MutexStep, Kept
  <2>3. /\ engine' \in {"engine", "stale", "freed"} /\ iVm' \in Int /\ handles' \subseteq Vms /\ wild' \in BOOLEAN
        /\ gen' \in [Vms -> 0..MaxGen] /\ live' \subseteq Vms
    BY <1>1, <1>2 DEF Typed, TypeOK
  <2>6. vm' \in [Vms -> {"none", "INIT", "RUN", "EXEC", "STALE"}]
    BY <1>1, <1>2, <1>4 DEF Typed, TypeOK
  <2>4. list' \in Lists(Vms)
    BY <1>1, <1>2, <1>4, LdPushType DEF Typed, TypeOK
  <2>5. \A l \in Locks : MutexSound(l)
    BY <1>2 DEF Sound
  <2> QED BY <1>2, <1>3, <1>4, <2>2, <2>3, <2>4, <2>5, <2>6, BecomesTyped
<1>6. /\ \A c \in AllCalls' : c \in AllCalls \/ c = f
      /\ \A c \in AllCalls : c \in AllCalls' \/ c = Top(t)
      /\ \A u \in Threads : u # t => Calls(u)' = Calls(u)
      /\ \A u \in Threads : u # t => \A H : Counted(stack'[u], H) = Counted(stack[u], H)
      /\ f \in AllCalls' /\ Calls(t)' = Rest(t) \cup {f}
  <2>1. StackStep(t, Rest(t), {Top(t)}, {f})
    BY <1>5
  <2>2. /\ \A c \in AllCalls' : c \in AllCalls \/ c \in {f}
        /\ \A c \in AllCalls : c \in AllCalls' \/ c \in {Top(t)}
        /\ \A u \in Threads : u # t => Calls(u)' = Calls(u)
        /\ \A u \in Threads : u # t => \A H : Counted(stack'[u], H) = Counted(stack[u], H)
    BY <2>1, CallsAfter
  <2>3. Calls(t)' = Rest(t) \cup {f}
    BY <2>1 DEF StackStep
  <2> QED BY <2>2, <2>3 DEF AllCalls
<1>7. engine = "engine" /\ engine' = "engine"
  BY <1>1, <1>2 DEF FrameSound, Working
<1>8. \A c \in AllCalls : /\ FrameOK(c) /\ FrameSound(c) /\ (Using(c) \/ Released(c) => c.v \in Members)
                          /\ c.at \notin {"unlink", "eng_leave"}
  BY <1>2, <1>7, Compiles, InUse, CallsTyped DEF Sound, World
<1>9. \A c \in AllCalls' : c.at = "compiling" => c.v # v
  <2> SUFFICES ASSUME NEW u \in Threads, NEW c \in Calls(u)', c.at = "compiling" PROVE c.v # v
    BY DEF AllCalls
  <2>1. CASE u # t
    BY <1>2, <1>6, <2>1, Compiles
  <2>2. CASE u = t
    BY <1>2, <1>4, <1>6, <2>2, Compiles
  <2> QED BY <2>1, <2>2
<1>10. Members' = Members \cup {v} /\ v \notin Members /\ v \in live
  <2>1. {c.v : c \in {d \in AllCalls' : d.at = "compiling"}} \cup {v} = {c.v : c \in {d \in AllCalls : d.at = "compiling"}}
    <3>1. Top(t) \in AllCalls
      BY <1>2 DEF AllCalls
    <3> QED BY <1>2, <1>4, <1>6, <3>1
  <2>2. v \notin {c.v : c \in {d \in AllCalls' : d.at = "compiling"}}
    BY <1>9
  <2>3. v \in live
    BY <1>2 DEF FrameSound
  <2> QED BY <1>1, <2>1, <2>2, <2>3 DEF Members
<1>11. VmListExact' /\ IsFiniteSet(Members)'
  <2>1. Linked(list, Members) /\ iVm = Cardinality(Members) /\ IsFiniteSet(Members)
    BY <1>2, <1>7 DEF Sound, World, VmListExact
  <2>2. list \in Lists(Vms) /\ Members \in SUBSET Vms
    BY <1>2 DEF Typed, TypeOK, Members
  <2>3. list.next[v] = NULL /\ list.prev[v] = NULL
    BY <1>2 DEF FrameSound
  <2>4. v \in Vms \ Members /\ v # NULL /\ NULL \notin Vms
    BY <1>4, <1>10, EngineApiAssumption
  <2> HIDE DEF v
  <2>5. Linked(list', Members \cup {v})
    BY <1>1, <2>1, <2>2, <2>3, <2>4, LdPushLinked DEF Linked
  <2>6. IsFiniteSet(Members \cup {v}) /\ Cardinality(Members \cup {v}) = Cardinality(Members) + 1
    BY <1>10, <2>1, FS_AddElement
  <2> QED BY <1>1, <1>10, <2>1, <2>5, <2>6 DEF VmListExact
<1>12. /\ \A w \in Vms : w # v => vm'[w] = vm[w]
       /\ vm'[v] = "RUN" /\ vm[v] = "INIT"
       /\ \A w \in Vms : w \notin Members \cup {v} => list'.next[w] = list.next[w] /\ list'.prev[w] = list.prev[w]
  <2>1. vm \in [Vms -> {"none", "INIT", "RUN", "EXEC", "STALE"}] /\ list \in Lists(Vms)
    BY <1>2 DEF Typed, TypeOK
  <2>2. list.head \in Members \cup {NULL}
    BY <1>2, <1>7 DEF Sound, World, VmListExact, Linked, LinkedTo, Consistent
  <2> HIDE DEF v
  <2>3. \A w \in Vms : w \notin Members \cup {v} => list'.next[w] = list.next[w] /\ list'.prev[w] = list.prev[w]
    BY <1>1, <1>4, <2>1, <2>2 DEF LdPush, Lists
  <2>4. vm[v] = "INIT"
    BY <1>2 DEF FrameSound, v
  <2> QED BY <1>1, <1>4, <2>1, <2>3, <2>4
<1>13. \A c \in AllCalls' : FrameSound(c)'
  <2>1. ASSUME NEW c \in AllCalls, c \in AllCalls' PROVE FrameSound(c)'
    <3>1. FrameOK(c) /\ FrameSound(c) /\ c.at # "eng_leave" /\ (c.at = "compiling" => c.v # v)
          /\ (Using(c) \/ Released(c) => c.v \in Members)
      BY <1>8, <1>9, <2>1
    <3>2. c.op \in VmOps \/ c.at \in {"compiling", "eng_leave"} \/ Using(c) \/ Released(c) => c.v \in Vms
      BY <3>1 DEF FrameOK, Using, Released, VmOps
    <3>3. /\ c.op \in VmOps => /\ c.lock[2] <= gen'[c.v]
                               /\ c.lock[2] = gen'[c.v] => vm'[c.v] \in Made \cup {"STALE"}
          /\ Using(c) => c.lock[2] = gen'[c.v] /\ (Released(c) \/ vm'[c.v] \in Made)
      BY <1>1, <1>10, <1>12, <3>1, <3>2 DEF FrameSound, Made
    <3>4. /\ Released(c) /\ engine' = "engine" => vm'[c.v] = "STALE" /\ c.v \in Members'
          /\ c.op = "compile" /\ c.at = "leave" /\ c.v # NULL => c.v \in Members'
      BY <1>7, <1>10, <1>12, <3>1, <3>2 DEF FrameSound
    <3>5. c.at = "compiling" => /\ c.v \in live' /\ vm'[c.v] = "INIT"
                                /\ list'.next[c.v] = NULL /\ list'.prev[c.v] = NULL
      <4> SUFFICES ASSUME c.at = "compiling" PROVE c.v \in live' /\ vm'[c.v] = "INIT"
                                /\ list'.next[c.v] = NULL /\ list'.prev[c.v] = NULL
        OBVIOUS
      <4>1. c.v \in live /\ vm[c.v] = "INIT" /\ list.next[c.v] = NULL /\ list.prev[c.v] = NULL
        BY <3>1 DEF FrameSound
      <4>2. c.v \notin Members
        BY <2>1 DEF Members
      <4> QED BY <1>1, <1>12, <3>1, <3>2, <4>1, <4>2
    <3>6. /\ Working(c) => engine' = "engine"
          /\ c.op = "release" /\ c.at \in {"leave", "destroy"} => engine' # "engine"
      BY <1>1, <3>1 DEF FrameSound
    <3> QED BY <3>1, <3>3, <3>4, <3>5, <3>6 DEF FrameSound, Working, Using, Released
  <2>2. FrameSound(f)'
    BY <1>4, <1>7, <1>10 DEF FrameSound, Working, Using, Released, VmOps
  <2> QED BY <1>6, <2>1, <2>2
<1>14. \A w \in Vms : MachineSound(w)'
  <2> SUFFICES ASSUME NEW w \in Vms PROVE MachineSound(w)'
    OBVIOUS
  <2>1. MachineSound(w) /\ MachineSound(v)
    BY <1>2, <1>4 DEF Sound, World
  <2>2. /\ vm'[w] \in Made => engine' = "engine" /\ w \in Members'
        /\ engine' = "engine" /\ w \in Members' => vm'[w] \in Made \cup {"STALE"}
        /\ gen'[w] = 0 => vm'[w] = "none"
    BY <1>1, <1>7, <1>10, <1>12, <2>1 DEF MachineSound, Made
  <2>3. ASSUME w \in handles' PROVE w \in Members' \/ \E c \in AllCalls' : c.at = "eng_leave" /\ c.v = w
    BY <1>1, <1>7, <1>8, <1>10, <2>1, <2>3 DEF MachineSound
  <2>4. ASSUME NEW u \in Threads PROVE Counted(stack'[u], CompilingOf(w)) <= 1
    <3>1. Counted(stack[u], CompilingOf(w)) <= 1 /\ Counted(stack[u], CompilingOf(w)) \in Nat
      BY <1>2, <2>1, CountsHeld DEF MachineSound, Typed, TypeOK
    <3>2. CASE u # t
      BY <1>6, <3>1, <3>2
    <3>3. CASE u = t
      <4>1. Holds({f}, CompilingOf(w)) = 0 /\ Holds({Top(t)}, CompilingOf(w)) \in Nat
        BY <1>4 DEF Holds, CompilingOf
      <4> QED BY <1>5, <3>1, <3>3, <4>1 DEF StackStep
    <3> QED BY <3>2, <3>3
  <2> QED BY <2>2, <2>3, <2>4 DEF MachineSound, CompilingOf
<1>15. OneReleases'
  <2>1. \A u \in Threads : \A c \in Calls(u)' : Released(c) => c \in Calls(u)
    BY <1>2, <1>4, <1>6 DEF Released
  <2> QED BY <1>2, <1>7, <2>1 DEF Sound, World, OneReleases, Released
<1>16. World'
  BY <1>7, <1>11, <1>13, <1>14, <1>15 DEF World
<1> QED BY <1>5, <1>16, Concludes

LEMMA ReleaseVmStep ==
  ASSUME IInv, NEW t \in Threads, ReleaseVm(t)
  PROVE  IInv'
<1> DEFINE v == Top(t).v
<1>1. /\ At(t, {"vm_release"}, "body") /\ vm' = [vm EXCEPT ![v] = "STALE"] /\ Goto(t, "leave")
      /\ UNCHANGED <<engine, gen, live, list, iVm, holder, count, handles, wild>>
  BY DEF ReleaseVm
<1>2. /\ Typed /\ Sound /\ Busy(t) /\ Top(t).op \in {"vm_release"} /\ Top(t).at = "body"
      /\ FrameOK(Top(t)) /\ FrameSound(Top(t)) /\ StackOK(t) /\ Calls(t) = Rest(t) \cup {Top(t)}
      /\ \A c \in Rest(t) : c.v # v /\ c.at \in {"executing", "compiling"}
  <2>1. /\ Typed /\ Sound /\ Busy(t) /\ Top(t).op \in {"vm_release"} /\ Top(t).at = "body"
        /\ FrameOK(Top(t)) /\ FrameSound(Top(t)) /\ StackOK(t) /\ Calls(t) = Rest(t) \cup {Top(t)}
    BY <1>1, AtTop
  <2> QED BY <2>1 DEF StackOK
<1>3. PICK f : f = To(Top(t), "leave") /\ FrameOK(f) /\ Becomes(t, f)
  <2>1. FrameOK(To(Top(t), "leave"))
    BY <1>2 DEF FrameOK, To, Frames, Labels, VmOps, EngineOps
  <2> QED BY <1>1, <1>2, <2>1, Relabels DEF Labels
<1>4. /\ f.op = "vm_release" /\ f.v = v /\ f.lock = Top(t).lock /\ f.at = "leave" /\ v \in Vms
  BY <1>2, <1>3 DEF FrameOK, VmOps, To
<1>5. Typed' /\ StackStep(t, Rest(t), {Top(t)}, {f}) /\ \A l \in Locks : MutexSound(l)'
  <2>1. MutexStep(t, {Top(t)}, {f})
    <3>1. \A l \in Locks : IsHeld(Top(t), l) <=> IsHeld(f, l)
      BY <1>2, <1>4 DEF IsHeld, Inside
    <3>2. \A l \in Locks : Holds({f}, Held(l)) = Holds({Top(t)}, Held(l))
      BY <1>2, <1>3, <3>1, HoldsHeld
    <3> QED BY <1>1, <3>2 DEF MutexStep, Kept
  <2>2. /\ engine' \in {"engine", "stale", "freed"} /\ iVm' \in Int /\ handles' \subseteq Vms /\ wild' \in BOOLEAN
        /\ gen' \in [Vms -> 0..MaxGen] /\ live' \subseteq Vms /\ list' \in Lists(Vms)
    BY <1>1, <1>2 DEF Typed, TypeOK
  <2>3. vm' \in [Vms -> {"none", "INIT", "RUN", "EXEC", "STALE"}]
    BY <1>1, <1>2, <1>4 DEF Typed, TypeOK
  <2>4. \A l \in Locks : MutexSound(l)
    BY <1>2 DEF Sound
  <2> QED BY <1>2, <1>3, <1>4, <2>1, <2>2, <2>3, <2>4, BecomesTyped
<1>6. /\ \A c \in AllCalls' : c \in AllCalls \/ c = f
      /\ \A c \in AllCalls : c \in AllCalls' \/ c = Top(t)
      /\ \A u \in Threads : u # t => Calls(u)' = Calls(u)
      /\ \A u \in Threads : u # t => \A H : Counted(stack'[u], H) = Counted(stack[u], H)
      /\ f \in AllCalls' /\ Calls(t)' = Rest(t) \cup {f} /\ Top(t) \in AllCalls
  <2>1. StackStep(t, Rest(t), {Top(t)}, {f})
    BY <1>5
  <2>2. /\ \A c \in AllCalls' : c \in AllCalls \/ c \in {f}
        /\ \A c \in AllCalls : c \in AllCalls' \/ c \in {Top(t)}
        /\ \A u \in Threads : u # t => Calls(u)' = Calls(u)
        /\ \A u \in Threads : u # t => \A H : Counted(stack'[u], H) = Counted(stack[u], H)
    BY <2>1, CallsAfter
  <2>3. Calls(t)' = Rest(t) \cup {f}
    BY <2>1 DEF StackStep
  <2> QED BY <1>2, <2>2, <2>3 DEF AllCalls
<1>7. /\ engine = "engine" /\ engine' = "engine" /\ vm[v] \in Made /\ v \in Members
      /\ Top(t).lock[2] = gen[v] /\ Top(t).lock \in Locks
  <2>1. engine = "engine" /\ vm[v] \in Made /\ Top(t).lock[2] = gen[v]
    BY <1>1, <1>2 DEF FrameSound, Working, Using, Released, VmOps
  <2> QED BY <1>1, <1>2, <1>4, <2>1 DEF Sound, World, MachineSound, FrameOK, Frames
<1>8. Members' = Members
  <2>1. {c \in AllCalls : c.at = "compiling"}' = {c \in AllCalls : c.at = "compiling"}
    BY <1>2, <1>4, <1>6
  <2> QED BY <1>1, <2>1 DEF Members
<1>9. VmListExact' /\ IsFiniteSet(Members)'
  BY <1>1, <1>2, <1>8 DEF Sound, World, VmListExact
(* Whoever uses the machine holds its mutex. *)
<1>10. \A c \in AllCalls : c # Top(t) => /\ FrameOK(c) /\ FrameSound(c) /\ (Using(c) => c.v # v)
                                         /\ c.at \in {"compiling", "eng_leave"} \/ Released(c) => c.v # v
  <2> SUFFICES ASSUME NEW c \in AllCalls, c # Top(t)
               PROVE  /\ FrameOK(c) /\ FrameSound(c) /\ (Using(c) => c.v # v)
                      /\ c.at \in {"compiling", "eng_leave"} \/ Released(c) => c.v # v
    OBVIOUS
  <2>1. FrameOK(c) /\ FrameSound(c)
    BY <1>2, CallsTyped DEF Sound, World
  <2>2. c.at \in {"compiling", "eng_leave"} \/ Released(c) => c.v # v
    <3>1. /\ c.at = "compiling" => vm[c.v] = "INIT"
          /\ c.at = "eng_leave" => vm[c.v] = "STALE"
          /\ Released(c) => vm[c.v] = "STALE"
      BY <1>7, <2>1 DEF FrameSound
    <3> QED BY <1>7, <3>1 DEF Made
  <2>3. ASSUME Using(c), c.v = v PROVE FALSE
    <3>1. c.lock[2] = gen[v]
      BY <2>1, <2>3 DEF FrameSound
    <3>2. c.lock = Top(t).lock
      BY <1>2, <1>4, <1>7, <2>1, <2>3, <3>1 DEF FrameOK, Using, VmOps
    <3>3. IsHeld(c, Top(t).lock) /\ IsHeld(Top(t), Top(t).lock)
      BY <1>2, <2>3, <3>2 DEF IsHeld, Using, Inside
    <3>4. c \in Held(Top(t).lock) /\ Top(t) \in Held(Top(t).lock)
      BY <1>2, <2>1, <3>3, HoldsHeld
    <3>5. PICK u \in Threads : c \in Calls(u)
      BY DEF AllCalls
    <3>6. u = t
      BY <1>2, <1>7, <3>4, <3>5, Exclusion DEF Sound
    <3>7. c \in Rest(t)
      BY <1>2, <3>5, <3>6
    <3> QED BY <1>2, <2>3, <3>7
  <2> QED BY <2>1, <2>2, <2>3
<1>11. (\A w \in Vms : w # v => vm'[w] = vm[w]) /\ vm'[v] = "STALE"
  BY <1>1, <1>2, <1>4 DEF Typed, TypeOK
<1>12. \A c \in AllCalls' : FrameSound(c)'
  <2>1. ASSUME NEW c \in AllCalls, c # Top(t) PROVE FrameSound(c)'
    <3>1. /\ FrameOK(c) /\ FrameSound(c) /\ (Using(c) => c.v # v)
          /\ c.at \in {"compiling", "eng_leave"} \/ Released(c) => c.v # v
      BY <1>10, <2>1
    <3>2. c.op \in VmOps \/ c.at \in {"compiling", "eng_leave"} \/ Using(c) \/ Released(c) => c.v \in Vms
      BY <3>1 DEF FrameOK, Using, Released, VmOps
    <3>3. /\ c.op \in VmOps => /\ c.lock[2] <= gen'[c.v]
                               /\ c.lock[2] = gen'[c.v] => vm'[c.v] \in Made \cup {"STALE"}
          /\ Using(c) => c.lock[2] = gen'[c.v] /\ (Released(c) \/ vm'[c.v] \in Made)
      BY <1>1, <1>11, <3>1, <3>2 DEF FrameSound
    <3>4. /\ Released(c) /\ engine' = "engine" => vm'[c.v] = "STALE" /\ c.v \in Members'
          /\ c.op = "compile" /\ c.at = "leave" /\ c.v # NULL => c.v \in Members'
          /\ c.at = "eng_leave" => vm'[c.v] = "STALE" /\ c.v \notin live'
      BY <1>1, <1>7, <1>8, <1>11, <3>1, <3>2 DEF FrameSound
    <3>5. c.at = "compiling" => /\ c.v \in live' /\ vm'[c.v] = "INIT"
                                /\ list'.next[c.v] = NULL /\ list'.prev[c.v] = NULL
      BY <1>1, <1>11, <3>1, <3>2 DEF FrameSound
    <3>6. /\ Working(c) => engine' = "engine"
          /\ c.op = "release" /\ c.at \in {"leave", "destroy"} => engine' # "engine"
      BY <1>1, <3>1 DEF FrameSound
    <3> QED BY <3>3, <3>4, <3>5, <3>6 DEF FrameSound, Working, Using, Released
  <2>2. FrameSound(f)'
    <3>1. f.lock[2] = gen[v] /\ gen[v] \in Int
      BY <1>2, <1>4, <1>7 DEF Typed, TypeOK
    <3>2. f.lock[2] <= gen'[f.v] /\ f.lock[2] = gen'[f.v]
      BY <1>1, <1>4, <3>1
    <3> QED BY <1>4, <1>7, <1>8, <1>11, <3>2 DEF FrameSound, Working, Using, Released, VmOps
  <2>3. ASSUME NEW c \in AllCalls', c # f PROVE c \in AllCalls /\ c # Top(t)
    <3>1. PICK u \in Threads : c \in Calls(u)'
      BY DEF AllCalls
    <3>2. c \in Calls(u) /\ c \in AllCalls /\ (u = t => c \in Rest(t))
      BY <1>2, <1>6, <2>3, <3>1 DEF AllCalls
    <3>3. ASSUME c = Top(t) PROVE FALSE
      <4>1. IsHeld(c, Top(t).lock)
        BY <1>2, <3>3 DEF IsHeld, Inside
      <4>2. c \in Held(Top(t).lock)
        BY <1>2, <3>3, <4>1, HoldsHeld
      <4>3. u = t
        BY <1>2, <1>7, <3>2, <3>3, <4>2, Exclusion DEF Sound
      <4> QED BY <1>2, <3>2, <3>3, <4>3
    <3> QED BY <3>2, <3>3
  <2> QED BY <2>1, <2>2, <2>3
<1>13. \A w \in Vms : MachineSound(w)'
  <2> SUFFICES ASSUME NEW w \in Vms PROVE MachineSound(w)'
    OBVIOUS
  <2>1. MachineSound(w) /\ MachineSound(v)
    BY <1>2, <1>4 DEF Sound, World
  <2>2. /\ vm'[w] \in Made => engine' = "engine" /\ w \in Members'
        /\ engine' = "engine" /\ w \in Members' => vm'[w] \in Made \cup {"STALE"}
        /\ gen'[w] = 0 => vm'[w] = "none"
    BY <1>1, <1>7, <1>8, <1>11, <2>1 DEF MachineSound, Made
  <2>3. ASSUME w \in handles' PROVE w \in Members' \/ \E c \in AllCalls' : c.at = "eng_leave" /\ c.v = w
    BY <1>1, <1>2, <1>6, <1>7, <1>8, <2>1, <2>3 DEF MachineSound
  <2>4. ASSUME NEW u \in Threads PROVE Counted(stack'[u], CompilingOf(w)) <= 1
    <3>1. Counted(stack[u], CompilingOf(w)) <= 1 /\ Counted(stack[u], CompilingOf(w)) \in Nat
      BY <1>2, <2>1, CountsHeld DEF MachineSound, Typed, TypeOK
    <3>2. CASE u # t
      BY <1>6, <3>1, <3>2
    <3>3. CASE u = t
      <4>1. Holds({f}, CompilingOf(w)) = 0 /\ Holds({Top(t)}, CompilingOf(w)) \in Nat
        BY <1>4 DEF Holds, CompilingOf
      <4> QED BY <1>5, <3>1, <3>3, <4>1 DEF StackStep
    <3> QED BY <3>2, <3>3
  <2> QED BY <2>2, <2>3, <2>4 DEF MachineSound, CompilingOf
<1>14. OneReleases'
  <2>1. \A u \in Threads : \A c \in Calls(u)' : Released(c) => (c = f /\ u = t) \/ (u # t /\ c \in Calls(u) /\ c.v # v)
    <3>0. \A c \in Rest(t) : ~Released(c)
      BY <1>2 DEF Released
    <3> SUFFICES ASSUME NEW u \in Threads, NEW c \in Calls(u)', Released(c), u # t PROVE c \in Calls(u) /\ c.v # v
      BY <1>6, <3>0
    <3>1. c \in Calls(u) /\ c \in AllCalls
      BY <1>6 DEF AllCalls
    <3>2. c # Top(t)
      BY <1>2 DEF Released
    <3> QED BY <1>10, <3>1, <3>2
  <2> QED BY <1>2, <1>4, <1>7, <2>1 DEF Sound, World, OneReleases, Released
<1>15. World'
  BY <1>7, <1>9, <1>12, <1>13, <1>14 DEF World
<1> QED BY <1>5, <1>15, Concludes

LEMMA UnlinkVmStep ==
  ASSUME IInv, NEW t \in Threads, UnlinkVm(t)
  PROVE  IInv'
<1> DEFINE v == Top(t).v
<1>1. /\ At(t, {"vm_release"}, "unlink") /\ list' = LdRemove(list, v) /\ iVm' = iVm - 1
      /\ live' = live \ {v} /\ Goto(t, "eng_leave")
      /\ UNCHANGED <<engine, vm, gen, holder, count, handles, wild>>
  BY DEF UnlinkVm
<1>2. /\ Typed /\ Sound /\ Busy(t) /\ Top(t).op \in {"vm_release"} /\ Top(t).at = "unlink"
      /\ FrameOK(Top(t)) /\ FrameSound(Top(t)) /\ StackOK(t) /\ Calls(t) = Rest(t) \cup {Top(t)}
      /\ \A c \in Rest(t) : c.v # v /\ c.at \in {"executing", "compiling"}
  <2>1. /\ Typed /\ Sound /\ Busy(t) /\ Top(t).op \in {"vm_release"} /\ Top(t).at = "unlink"
        /\ FrameOK(Top(t)) /\ FrameSound(Top(t)) /\ StackOK(t) /\ Calls(t) = Rest(t) \cup {Top(t)}
    BY <1>1, AtTop
  <2> QED BY <2>1 DEF StackOK
<1>3. PICK f : f = To(Top(t), "eng_leave") /\ FrameOK(f) /\ Becomes(t, f)
  <2>1. FrameOK(To(Top(t), "eng_leave"))
    BY <1>2 DEF FrameOK, To, Frames, Labels, VmOps, EngineOps
  <2> QED BY <1>1, <1>2, <2>1, Relabels DEF Labels
<1>4. /\ f.op = "vm_release" /\ f.v = v /\ f.lock = Top(t).lock /\ f.at = "eng_leave" /\ v \in Vms
  BY <1>2, <1>3 DEF FrameOK, VmOps, To
<1>5. Typed' /\ StackStep(t, Rest(t), {Top(t)}, {f}) /\ \A l \in Locks : MutexSound(l)'
  <2>1. MutexStep(t, {Top(t)}, {f})
    <3>1. \A l \in Locks : IsHeld(Top(t), l) <=> IsHeld(f, l)
      BY <1>2, <1>4 DEF IsHeld, Inside
    <3>2. \A l \in Locks : Holds({f}, Held(l)) = Holds({Top(t)}, Held(l))
      BY <1>2, <1>3, <3>1, HoldsHeld
    <3> QED BY <1>1, <3>2 DEF MutexStep, Kept
  <2>2. /\ engine' \in {"engine", "stale", "freed"} /\ iVm' \in Int /\ handles' \subseteq Vms /\ wild' \in BOOLEAN
        /\ gen' \in [Vms -> 0..MaxGen] /\ live' \subseteq Vms
        /\ vm' \in [Vms -> {"none", "INIT", "RUN", "EXEC", "STALE"}]
    BY <1>1, <1>2 DEF Typed, TypeOK
  <2>3. list' \in Lists(Vms)
    BY <1>1, <1>2, <1>4, LdRemoveType DEF Typed, TypeOK
  <2>4. \A l \in Locks : MutexSound(l)
    BY <1>2 DEF Sound
  <2> QED BY <1>2, <1>3, <1>4, <2>1, <2>2, <2>3, <2>4, BecomesTyped
<1>6. /\ \A c \in AllCalls' : c \in AllCalls \/ c = f
      /\ \A c \in AllCalls : c \in AllCalls' \/ c = Top(t)
      /\ \A u \in Threads : u # t => Calls(u)' = Calls(u)
      /\ \A u \in Threads : u # t => \A H : Counted(stack'[u], H) = Counted(stack[u], H)
      /\ f \in AllCalls' /\ Calls(t)' = Rest(t) \cup {f} /\ Top(t) \in AllCalls
  <2>1. StackStep(t, Rest(t), {Top(t)}, {f})
    BY <1>5
  <2>2. /\ \A c \in AllCalls' : c \in AllCalls \/ c \in {f}
        /\ \A c \in AllCalls : c \in AllCalls' \/ c \in {Top(t)}
        /\ \A u \in Threads : u # t => Calls(u)' = Calls(u)
        /\ \A u \in Threads : u # t => \A H : Counted(stack'[u], H) = Counted(stack[u], H)
    BY <2>1, CallsAfter
  <2>3. Calls(t)' = Rest(t) \cup {f}
    BY <2>1 DEF StackStep
  <2> QED BY <1>2, <2>2, <2>3 DEF AllCalls
<1>7. /\ engine = "engine" /\ engine' = "engine" /\ vm[v] = "STALE" /\ v \in Members
  BY <1>1, <1>2 DEF FrameSound, Working, Released
(* Under the mutex of the engine there are only the thread's own compilations. *)
<1>8. \A c \in AllCalls : c # Top(t) =>
         /\ FrameOK(c) /\ FrameSound(c) /\ (Released(c) => c.v # v)
         /\ IsHeld(c, EngineLock) => c.at = "compiling" /\ c.v # v
  <2> SUFFICES ASSUME NEW c \in AllCalls, c # Top(t)
               PROVE  /\ FrameOK(c) /\ FrameSound(c) /\ (Released(c) => c.v # v)
                      /\ IsHeld(c, EngineLock) => c.at = "compiling" /\ c.v # v
    OBVIOUS
  <2>1. FrameOK(c) /\ FrameSound(c)
    BY <1>2, CallsTyped DEF Sound, World
  <2>2. ASSUME IsHeld(c, EngineLock) PROVE c.at = "compiling" /\ c.v # v
    <3>1. IsHeld(Top(t), EngineLock)
      BY <1>2 DEF IsHeld
    <3>2. c \in Rest(t)
      BY <1>2, <2>2, <3>1, EngineAlone
    <3>3. c.at = "executing" => c.op = "exec" /\ c.v \in Vms /\ \E g \in 1..MaxGen : c.lock = <<c.v, g>>
      BY <2>1 DEF FrameOK, VmOps
    <3>4. c.at # "executing"
      BY <2>2, <3>3, EngineApiAssumption DEF IsHeld, EngineLock, Inside
    <3> QED BY <1>2, <3>2, <3>4
  <2>3. ASSUME Released(c), c.v = v PROVE FALSE
    <3>1. PICK u \in Threads : c \in Calls(u)
      BY DEF AllCalls
    <3>2. Released(Top(t)) /\ Top(t) \in Calls(t)
      BY <1>2 DEF Released
    <3>3. u = t
      BY <1>2, <1>7, <2>3, <3>1, <3>2 DEF Sound, World, OneReleases
    <3>4. c \in Rest(t)
      BY <1>2, <3>1, <3>3
    <3> QED BY <1>2, <2>3, <3>4
  <2> QED BY <2>1, <2>2, <2>3
<1>9. \A c \in AllCalls' : c = f \/ (c \in AllCalls /\ c # Top(t))
  <2> SUFFICES ASSUME NEW u \in Threads, NEW c \in Calls(u)', c # f PROVE c \in AllCalls /\ c # Top(t)
    BY DEF AllCalls
  <2>1. c \in Calls(u) /\ c \in AllCalls /\ (u = t => c \in Rest(t))
    BY <1>2, <1>6 DEF AllCalls
  <2>2. ASSUME c = Top(t) PROVE FALSE
    <3>1. Released(c) /\ Top(t) \in Calls(t)
      BY <1>2, <2>2 DEF Released
    <3>2. u = t
      BY <1>2, <1>7, <2>1, <2>2, <3>1 DEF Sound, World, OneReleases
    <3> QED BY <1>2, <2>1, <2>2, <3>2
  <2> QED BY <2>1, <2>2
<1>10. Members' = Members \ {v}
  <2>1. {c \in AllCalls : c.at = "compiling"}' = {c \in AllCalls : c.at = "compiling"}
    BY <1>2, <1>4, <1>6
  <2>2. live' = live \ {v}
    BY <1>1
  <2> HIDE DEF v
  <2> QED BY <2>1, <2>2 DEF Members
<1>11. VmListExact' /\ IsFiniteSet(Members)'
  <2>1. Linked(list, Members) /\ iVm = Cardinality(Members) /\ IsFiniteSet(Members)
    BY <1>2, <1>7 DEF Sound, World, VmListExact
  <2>2. list \in Lists(Vms) /\ Members \in SUBSET Vms
    BY <1>2 DEF Typed, TypeOK, Members
  <2>3. v \in Members /\ NULL \notin Vms
    BY <1>7, EngineApiAssumption
  <2> HIDE DEF v
  <2>4. Linked(list', Members \ {v})
    BY <1>1, <2>1, <2>2, <2>3, LdRemoveLinked DEF Linked
  <2>5. IsFiniteSet(Members \ {v}) /\ Cardinality(Members \ {v}) = Cardinality(Members) - 1
    BY <2>1, <2>3, FS_RemoveElement
  <2> QED BY <1>1, <1>10, <2>1, <2>4, <2>5 DEF VmListExact
<1>a. \A w \in Vms : w \notin Members => list'.next[w] = list.next[w] /\ list'.prev[w] = list.prev[w]
  <2>1. list \in Lists(Vms) /\ list.next[v] \in Members \cup {NULL} /\ list.prev[v] \in Members \cup {NULL}
    BY <1>2, <1>7 DEF Typed, TypeOK, Sound, World, VmListExact, Linked, LinkedTo, Consistent
  <2> DEFINE nxt == list.next[v]
             prv == list.prev[v]
  <2>2. /\ list'.next = IF prv = NULL THEN list.next ELSE [list.next EXCEPT ![prv] = nxt]
        /\ list'.prev = IF nxt = NULL THEN list.prev ELSE [list.prev EXCEPT ![nxt] = prv]
    BY <1>1 DEF LdRemove
  <2>3. NULL \notin Vms /\ list.next \in [Vms -> Vms \cup {NULL}] /\ list.prev \in [Vms -> Vms \cup {NULL}]
    BY <2>1, EngineApiAssumption DEF Lists
  <2> HIDE DEF nxt, prv
  <2> QED BY <2>1, <2>2, <2>3 DEF nxt, prv
<1>12. \A c \in AllCalls' : FrameSound(c)'
  <2>1. ASSUME NEW c \in AllCalls, c # Top(t) PROVE FrameSound(c)'
    <3>1. /\ FrameOK(c) /\ FrameSound(c) /\ (Released(c) => c.v # v)
          /\ IsHeld(c, EngineLock) => c.at = "compiling" /\ c.v # v
      BY <1>8, <2>1
    <3>2. c.at # "eng_leave" /\ ~(c.op = "compile" /\ c.at = "leave")
      BY <3>1 DEF IsHeld, Inside, FrameOK, EngineOps
    <3>5. c.at = "compiling" => /\ c.v \in live' /\ vm'[c.v] = "INIT"
                                /\ list'.next[c.v] = NULL /\ list'.prev[c.v] = NULL
      <4> SUFFICES ASSUME c.at = "compiling"
                   PROVE  c.v \in live' /\ vm'[c.v] = "INIT" /\ list'.next[c.v] = NULL /\ list'.prev[c.v] = NULL
        OBVIOUS
      <4>1. c.v # v /\ c.v \in Vms
        BY <3>1 DEF IsHeld, Inside, FrameOK, EngineOps
      <4>2. c.v \in live /\ vm[c.v] = "INIT" /\ list.next[c.v] = NULL /\ list.prev[c.v] = NULL
        BY <3>1 DEF FrameSound
      <4>3. c.v \notin Members
        BY <2>1 DEF Members
      <4> QED BY <1>1, <1>a, <4>1, <4>2, <4>3
    <3>3. Released(c) /\ engine' = "engine" => vm'[c.v] = "STALE" /\ c.v \in Members'
      BY <1>1, <1>10, <3>1 DEF FrameSound
    <3>4. engine' = engine /\ vm' = vm /\ gen' = gen
      BY <1>1
    <3> QED BY <3>1, <3>2, <3>3, <3>4, <3>5 DEF FrameSound, Working, Using, Released
  <2>2. FrameSound(f)'
    <3>1. f.lock[2] <= gen'[f.v] /\ vm'[f.v] = "STALE" /\ f.v \notin live'
      BY <1>1, <1>2, <1>4, <1>7 DEF FrameSound, VmOps
    <3> QED BY <1>4, <1>7, <3>1 DEF FrameSound, Working, Using, Released, VmOps
  <2> QED BY <1>9, <2>1, <2>2
<1>13. \A w \in Vms : MachineSound(w)'
  <2> SUFFICES ASSUME NEW w \in Vms PROVE MachineSound(w)'
    OBVIOUS
  <2>1. MachineSound(w)
    BY <1>2 DEF Sound, World
  <2>2. /\ vm'[w] \in Made => engine' = "engine" /\ w \in Members'
        /\ engine' = "engine" /\ w \in Members' => vm'[w] \in Made \cup {"STALE"}
        /\ gen'[w] = 0 => vm'[w] = "none"
    BY <1>1, <1>7, <1>10, <2>1 DEF MachineSound, Made
  <2>3. ASSUME w \in handles' PROVE w \in Members' \/ \E c \in AllCalls' : c.at = "eng_leave" /\ c.v = w
    BY <1>1, <1>2, <1>4, <1>6, <1>7, <1>10, <2>1, <2>3 DEF MachineSound
  <2>4. ASSUME NEW u \in Threads PROVE Counted(stack'[u], CompilingOf(w)) <= 1
    <3>1. Counted(stack[u], CompilingOf(w)) <= 1 /\ Counted(stack[u], CompilingOf(w)) \in Nat
      BY <1>2, <2>1, CountsHeld DEF MachineSound, Typed, TypeOK
    <3>2. CASE u # t
      BY <1>6, <3>1, <3>2
    <3>3. CASE u = t
      <4>1. Holds({f}, CompilingOf(w)) = 0 /\ Holds({Top(t)}, CompilingOf(w)) \in Nat
        BY <1>4 DEF Holds, CompilingOf
      <4> QED BY <1>5, <3>1, <3>3, <4>1 DEF StackStep
    <3> QED BY <3>2, <3>3
  <2> QED BY <2>2, <2>3, <2>4 DEF MachineSound, CompilingOf
<1>14. OneReleases'
  <2>1. \A u \in Threads : \A c \in Calls(u)' : Released(c) => c \in Calls(u)
    BY <1>2, <1>4, <1>6 DEF Released
  <2> QED BY <1>2, <1>7, <2>1 DEF Sound, World, OneReleases, Released
<1>15. World'
  BY <1>7, <1>11, <1>12, <1>13, <1>14 DEF World
<1> QED BY <1>5, <1>15, Concludes

LEMMA ReleaseEngineStep ==
  ASSUME IInv, NEW t \in Threads, ReleaseEngine(t)
  PROVE  IInv'
<1>1. /\ At(t, {"release"}, "body") /\ Goto(t, "leave")
      /\ vm' = [v \in Vms |-> IF v \in FirstItems(list, iVm) THEN "STALE" ELSE vm[v]]
      /\ iVm' = 0 /\ live' = {} /\ engine' = "stale"
      /\ wild' = \E c \in AllCalls : Using(c)
      /\ UNCHANGED <<gen, list, holder, count, handles>>
  BY DEF ReleaseEngine, Using
<1>2. /\ Typed /\ Sound /\ Busy(t) /\ Top(t).op \in {"release"} /\ Top(t).at = "body"
      /\ FrameOK(Top(t)) /\ FrameSound(Top(t)) /\ StackOK(t) /\ Rest(t) = {}
      /\ Calls(t) = {Top(t)}
  <2>1. /\ Typed /\ Sound /\ Busy(t) /\ Top(t).op \in {"release"} /\ Top(t).at = "body"
        /\ FrameOK(Top(t)) /\ FrameSound(Top(t)) /\ StackOK(t) /\ Calls(t) = Rest(t) \cup {Top(t)}
    BY <1>1, AtTop
  <2> QED BY <2>1 DEF StackOK
<1>3. PICK f : f = To(Top(t), "leave") /\ FrameOK(f) /\ Becomes(t, f)
  <2>1. FrameOK(To(Top(t), "leave"))
    BY <1>2 DEF FrameOK, To, Frames, Labels, VmOps, EngineOps
  <2> QED BY <1>1, <1>2, <2>1, Relabels DEF Labels
<1>4. /\ f.op = "release" /\ f.v = Top(t).v /\ f.lock = Top(t).lock /\ f.at = "leave" /\ Top(t).lock = EngineLock
  BY <1>2, <1>3 DEF FrameOK, EngineOps, To
<1>5. Typed' /\ StackStep(t, Rest(t), {Top(t)}, {f}) /\ \A l \in Locks : MutexSound(l)'
  <2>1. MutexStep(t, {Top(t)}, {f})
    <3>1. \A l \in Locks : IsHeld(Top(t), l) <=> IsHeld(f, l)
      BY <1>2, <1>4 DEF IsHeld, Inside
    <3>2. \A l \in Locks : Holds({f}, Held(l)) = Holds({Top(t)}, Held(l))
      BY <1>2, <1>3, <3>1, HoldsHeld
    <3> QED BY <1>1, <3>2 DEF MutexStep, Kept
  <2>2. /\ engine' \in {"engine", "stale", "freed"} /\ iVm' \in Int /\ handles' \subseteq Vms /\ wild' \in BOOLEAN
        /\ gen' \in [Vms -> 0..MaxGen] /\ live' \subseteq Vms /\ list' \in Lists(Vms)
        /\ vm' \in [Vms -> {"none", "INIT", "RUN", "EXEC", "STALE"}]
    BY <1>1, <1>2 DEF Typed, TypeOK
  <2>4. \A l \in Locks : MutexSound(l)
    BY <1>2 DEF Sound
  <2> QED BY <1>2, <1>3, <1>4, <2>1, <2>2, <2>4, BecomesTyped
<1>6. /\ \A c \in AllCalls' : c \in AllCalls \/ c = f
      /\ \A c \in AllCalls : c \in AllCalls' \/ c = Top(t)
      /\ \A u \in Threads : u # t => Calls(u)' = Calls(u)
      /\ \A u \in Threads : u # t => \A H : Counted(stack'[u], H) = Counted(stack[u], H)
      /\ f \in AllCalls' /\ Calls(t)' = {f} /\ Top(t) \in AllCalls
  <2>1. StackStep(t, Rest(t), {Top(t)}, {f})
    BY <1>5
  <2>2. /\ \A c \in AllCalls' : c \in AllCalls \/ c \in {f}
        /\ \A c \in AllCalls : c \in AllCalls' \/ c \in {Top(t)}
        /\ \A u \in Threads : u # t => Calls(u)' = Calls(u)
        /\ \A u \in Threads : u # t => \A H : Counted(stack'[u], H) = Counted(stack[u], H)
    BY <2>1, CallsAfter
  <2>3. Calls(t)' = {f}
    BY <1>2, <2>1 DEF StackStep
  <2> QED BY <1>2, <2>2, <2>3 DEF AllCalls
<1>7. engine = "engine" /\ engine' # "engine" /\ engine' # "freed"
  BY <1>1, <1>2 DEF FrameSound, Working
<1>8. ExecExclusive'
  <2>1. \A u \in Threads : \A v \in Vms : Executing(u, v)' => Executing(u, v)
    BY <1>2, <1>4, <1>6 DEF Executing
  <2> QED BY <2>1 DEF IInv, ExecExclusive
<1>9. VmListExact'
  BY <1>7 DEF VmListExact
<1>10. CASE wild'
  BY <1>5, <1>8, <1>9, <1>10 DEF IInv
(* Nobody uses a machine, and under the mutex of the engine there is nobody else. *)
<1>11. CASE ~wild'
  <2>1. \A c \in AllCalls : ~Using(c)
    BY <1>1, <1>11
  <2>2. \A c \in AllCalls : c # Top(t) => FrameOK(c) /\ FrameSound(c) /\ ~IsHeld(c, EngineLock)
    <3> SUFFICES ASSUME NEW c \in AllCalls, c # Top(t) PROVE FrameOK(c) /\ FrameSound(c) /\ ~IsHeld(c, EngineLock)
      OBVIOUS
    <3>1. IsHeld(Top(t), EngineLock)
      BY <1>2, <1>4 DEF IsHeld, Inside
    <3>2. ~IsHeld(c, EngineLock)
      BY <1>2, <3>1, EngineAlone
    <3> QED BY <1>2, <3>2, CallsTyped DEF Sound, World
  <2>3. \A c \in AllCalls' : c = f \/ (c \in AllCalls /\ c # Top(t))
    <3> SUFFICES ASSUME NEW u \in Threads, NEW c \in Calls(u)', c # f PROVE c \in AllCalls /\ c # Top(t)
      BY DEF AllCalls
    <3>1. u # t /\ c \in Calls(u) /\ c \in AllCalls
      BY <1>6 DEF AllCalls
    <3>2. ASSUME c = Top(t) PROVE FALSE
      <4>1. EngineLock \in Locks /\ IsHeld(Top(t), EngineLock)
        BY <1>2, <1>4 DEF IsHeld, Inside, EngineLock, Locks
      <4>2. Top(t) \in Held(EngineLock)
        BY <1>2, <4>1, HoldsHeld
      <4> QED BY <1>2, <3>1, <3>2, <4>1, <4>2, Exclusion DEF Sound
    <3> QED BY <3>1, <3>2
  <2>4. \A c \in AllCalls : c # Top(t) =>
           c.at \notin {"compiling", "unlink", "eng_leave"} /\ (c.at \in {"body", "executing", "leave"} => FALSE)
    <3> SUFFICES ASSUME NEW c \in AllCalls, c # Top(t)
                 PROVE  c.at \notin {"compiling", "unlink", "eng_leave", "body", "executing", "leave"}
      OBVIOUS
    <3>1. FrameOK(c) /\ ~IsHeld(c, EngineLock) /\ ~Using(c)
      BY <2>1, <2>2
    <3> QED BY <3>1 DEF FrameOK, Frames, IsHeld, Inside, Using, EngineOps, VmOps
  <2>5. \A v \in Vms : vm'[v] = IF v \in Members THEN "STALE" ELSE vm[v]
    <3>1. FirstItems(list, iVm) = Members
      <4>1. LinkedTo(list, Members, NULL) /\ iVm = Cardinality(Members) /\ IsFiniteSet(Members)
        BY <1>2, <1>7 DEF Sound, World, VmListExact, Linked
      <4>2. list \in Lists(Vms) /\ Members \in SUBSET Vms /\ NULL \notin Vms
        BY <1>2, EngineApiAssumption DEF Typed, TypeOK, Members
      <4> QED BY <4>1, <4>2, CountedWalk
    <3> QED BY <1>1, <3>1
  <2>6. /\ IsFiniteSet(Members)'
        /\ engine' # "engine" => live' = {} /\ iVm' = 0
        /\ engine' = "freed" => handles' = {}
    <3>1. Members' = {}
      BY <1>1 DEF Members
    <3> QED BY <1>1, <1>7, <3>1, FS_EmptySet
  <2>7. \A c \in AllCalls' : FrameSound(c)'
    <3>1. ASSUME NEW c \in AllCalls, c # Top(t) PROVE FrameSound(c)'
      <4>1. /\ FrameOK(c) /\ FrameSound(c)
            /\ c.at \notin {"compiling", "unlink", "eng_leave", "body", "executing", "leave"}
        BY <2>2, <2>4, <3>1
      <4>2. c.op \in VmOps => /\ c.lock[2] <= gen'[c.v]
                              /\ c.lock[2] = gen'[c.v] => vm'[c.v] \in Made \cup {"STALE"}
        BY <1>1, <2>5, <4>1 DEF FrameSound, FrameOK
      <4> QED BY <1>7, <4>1, <4>2 DEF FrameSound, Working, Using, Released
    <3>2. FrameSound(f)'
      BY <1>4, <1>7 DEF FrameSound, Working, Using, Released, VmOps
    <3> QED BY <2>3, <3>1, <3>2
  <2>8. \A w \in Vms : MachineSound(w)'
    <3> SUFFICES ASSUME NEW w \in Vms PROVE MachineSound(w)'
      OBVIOUS
    <3>1. MachineSound(w)
      BY <1>2 DEF Sound, World
    <3>2. vm'[w] \notin Made
      BY <1>7, <2>5, <3>1 DEF MachineSound, Made
    <3>3. gen'[w] = 0 => vm'[w] = "none"
      BY <1>1, <1>7, <2>5, <3>1 DEF MachineSound, Made
    <3>4. ASSUME NEW u \in Threads PROVE Counted(stack'[u], CompilingOf(w)) <= 1
      <4>1. Counted(stack[u], CompilingOf(w)) <= 1 /\ Counted(stack[u], CompilingOf(w)) \in Nat
        BY <1>2, <3>1, CountsHeld DEF MachineSound, Typed, TypeOK
      <4>2. CASE u # t
        BY <1>6, <4>1, <4>2
      <4>3. CASE u = t
        <5>1. Holds({f}, CompilingOf(w)) = 0 /\ Holds({Top(t)}, CompilingOf(w)) \in Nat
          BY <1>4 DEF Holds, CompilingOf
        <5> QED BY <1>5, <4>1, <4>3, <5>1 DEF StackStep
      <4> QED BY <4>2, <4>3
    <3> QED BY <1>7, <3>2, <3>3, <3>4 DEF MachineSound, CompilingOf
  <2>9. OneReleases'
    BY <1>7 DEF OneReleases
  <2>10. World'
    BY <1>9, <2>6, <2>7, <2>8, <2>9 DEF World
  <2> QED BY <1>5, <2>10, Concludes
<1> QED BY <1>10, <1>11

LEMMA NewEngineStep ==
  ASSUME IInv, NewEngine
  PROVE  IInv'
<1>1. /\ engine = "freed" /\ ~wild /\ AllCalls = {} /\ engine' = "engine" /\ list' = EmptyList(Vms)
      /\ vm' = vm /\ gen' = gen /\ live' = live /\ iVm' = iVm
      /\ holder' = holder /\ count' = count /\ stack' = stack /\ handles' = handles /\ wild' = wild
  BY DEF NewEngine
<1>2. Typed /\ Sound
  BY <1>1 DEF IInv
<1>3. (\A t \in Threads : Calls(t)' = Calls(t)) /\ AllCalls' = {}
  <2>1. \A t \in Threads : Calls(t)' = Calls(t)
    BY <1>1 DEF Calls
  <2> QED BY <1>1, <2>1 DEF AllCalls
<1>4. Typed'
  <2>1. EmptyList(Vms) \in Lists(Vms)
    BY DEF EmptyList, Lists
  <2>2. TypeOK'
    BY <1>1, <1>2, <2>1 DEF Typed, TypeOK
  <2>3. ASSUME NEW t \in Threads PROVE StackOK(t)'
    <3>1. StackOK(t)
      BY <1>2 DEF Typed
    <3> QED BY <1>1, <1>3, <3>1 DEF StackOK, Busy, Rest, Top, FrameOK
  <2> QED BY <2>2, <2>3 DEF Typed
<1>5. \A l \in Locks : MutexSound(l)'
  BY <1>1, <1>2 DEF Sound, MutexSound, Held
<1>6. live = {} /\ iVm = 0 /\ handles = {} /\ Members' = {}
  BY <1>1, <1>2 DEF Sound, World, Members
<1>7. VmListExact' /\ IsFiniteSet(Members)'
  <2>1. IsFiniteSet({}) /\ Cardinality({}) = 0
    BY FS_EmptySet
  <2>2. Linked(EmptyList(Vms), {})
    BY DEF Linked, LinkedTo, Consistent, Acyclic, EmptyList
  <2> QED BY <1>1, <1>6, <2>1, <2>2 DEF VmListExact
<1>8. \A w \in Vms : MachineSound(w)'
  <2> SUFFICES ASSUME NEW w \in Vms PROVE MachineSound(w)'
    OBVIOUS
  <2>1. MachineSound(w)
    BY <1>2 DEF Sound, World
  <2> QED BY <1>1, <1>6, <2>1 DEF MachineSound, CompilingOf
<1>9. OneReleases'
  BY <1>3 DEF OneReleases, AllCalls
<1>10. World'
  BY <1>1, <1>3, <1>6, <1>7, <1>8, <1>9 DEF World
<1> QED BY <1>4, <1>5, <1>10, Concludes
----------------------------------------------------------------------------
LEMMA InvariantInit ==
  ASSUME Init
  PROVE  IInv
<1>1. stack = [t \in Threads |-> << >>] /\ (\A t \in Threads : Calls(t) = {} /\ ~Busy(t)) /\ AllCalls = {}
  <2>1. stack = [t \in Threads |-> << >>]
    BY DEF Init
  <2>2. ASSUME NEW t \in Threads PROVE Calls(t) = {} /\ ~Busy(t)
    <3>1. stack[t] = << >>
      BY <2>1
    <3> QED BY <3>1 DEF Calls, Busy
  <2> QED BY <2>1, <2>2 DEF AllCalls
<1>2. Members = {} /\ live = {} /\ iVm = 0 /\ handles = {} /\ engine = "engine" /\ ~wild
  BY DEF Init, Members
<1>3. Typed
  <2>1. EmptyList(Vms) \in Lists(Vms)
    BY DEF EmptyList, Lists
  <2>2. \A t \in Threads : << >> \in Seq(Frames)
    OBVIOUS
  <2>3. stack \in [Threads -> Seq(Frames)]
    BY <1>1, <2>2
  <2>4. gen \in [Vms -> 0..MaxGen] /\ vm \in [Vms -> {"none", "INIT", "RUN", "EXEC", "STALE"}]
    BY EngineApiAssumption DEF Init
  <2>5. holder \in [Locks -> Threads \cup {NULL}] /\ count \in [Locks -> Int]
    BY DEF Init
  <2>6. list \in Lists(Vms) /\ wild \in BOOLEAN
    BY <2>1 DEF Init
  <2>7. TypeOK
    BY <1>2, <2>3, <2>4, <2>5, <2>6 DEF TypeOK
  <2> QED BY <1>1, <2>7 DEF Typed, StackOK
<1>4. \A l \in Locks : MutexSound(l)
  <2> SUFFICES ASSUME NEW l \in Locks PROVE MutexSound(l)
    OBVIOUS
  <2>1. holder[l] = NULL /\ count[l] = 0
    BY DEF Init
  <2>2. \A t \in Threads : Counted(stack[t], Held(l)) = 0
    <3> SUFFICES ASSUME NEW t \in Threads PROVE Counted(stack[t], Held(l)) = 0
      OBVIOUS
    <3>1. stack[t] \in Seq(Frames) /\ FramesOf(stack[t]) \cap Held(l) = {}
      BY <1>1, <1>3 DEF Typed, TypeOK, Calls, FramesOf
    <3> QED BY <3>1, CountsHeld
  <2> QED BY <2>1, <2>2 DEF MutexSound
<1>5. VmListExact /\ IsFiniteSet(Members)
  <2>1. IsFiniteSet({}) /\ Cardinality({}) = 0
    BY FS_EmptySet
  <2>2. list = EmptyList(Vms)
    BY DEF Init
  <2>3. Linked(EmptyList(Vms), {})
    BY DEF Linked, LinkedTo, Consistent, Acyclic, EmptyList
  <2> QED BY <1>2, <2>1, <2>2, <2>3 DEF VmListExact
<1>6. \A v \in Vms : MachineSound(v)
  <2> SUFFICES ASSUME NEW v \in Vms PROVE MachineSound(v)
    OBVIOUS
  <2>1. vm[v] = "none"
    BY DEF Init
  <2>2. \A t \in Threads : Counted(stack[t], CompilingOf(v)) = 0
    <3> SUFFICES ASSUME NEW t \in Threads PROVE Counted(stack[t], CompilingOf(v)) = 0
      OBVIOUS
    <3>1. stack[t] \in Seq(Frames) /\ FramesOf(stack[t]) \cap CompilingOf(v) = {}
      BY <1>1, <1>3 DEF Typed, TypeOK, Calls, FramesOf
    <3> QED BY <3>1, CountsHeld
  <2> QED BY <1>2, <2>1, <2>2 DEF MachineSound, Made
<1>7. World
  BY <1>1, <1>2, <1>5, <1>6 DEF World, OneReleases
<1>8. Sound
  BY <1>4, <1>7 DEF Sound
<1> QED BY <1>3, <1>5, <1>8, Exclusive DEF IInv

LEMMA InvariantStep ==
  ASSUME IInv, [Next]_vars
  PROVE  IInv'
<1>1. ASSUME NEW t \in Threads, Step(t) PROVE IInv'
  <2>1. CASE EnterEngine(t) BY <2>1, EnterEngineStep
  <2>2. CASE EnterVm(t) BY <2>2, EnterVmStep
  <2>3. CASE Configure(t) BY <2>3, ConfigureStep
  <2>4. CASE StartCompile(t) BY <2>4, StartCompileStep
  <2>5. CASE FailCompile(t) BY <2>5, FailCompileStep
  <2>6. CASE FinishCompile(t) BY <2>6, FinishCompileStep
  <2>7. CASE StartExec(t) BY <2>7, StartExecStep
  <2>8. CASE FinishExec(t) BY <2>8, FinishExecStep
  <2>9. CASE Reset(t) BY <2>9, ResetStep
  <2>10. CASE ReleaseVm(t) BY <2>10, ReleaseVmStep
  <2>11. CASE LeaveCall(t) BY <2>11, LeaveCallStep
  <2>12. CASE LeaveReleasedVm(t) BY <2>12, LeaveReleasedVmStep
  <2>13. CASE EnterEngineOfVm(t) BY <2>13, EnterEngineOfVmStep
  <2>14. CASE UnlinkVm(t) BY <2>14, UnlinkVmStep
  <2>15. CASE LeaveEngineOfVm(t) BY <2>15, LeaveEngineOfVmStep
  <2>16. CASE ReleaseEngine(t) BY <2>16, ReleaseEngineStep
  <2>17. CASE LeaveReleasedEngine(t) BY <2>17, LeaveReleasedEngineStep
  <2>18. CASE DestroyEngine(t) BY <2>18, DestroyEngineStep
  <2> QED BY <1>1, <2>1, <2>2, <2>3, <2>4, <2>5, <2>6, <2>7, <2>8, <2>9, <2>10, <2>11, <2>12, <2>13,
             <2>14, <2>15, <2>16, <2>17, <2>18 DEF Step
<1>2. ASSUME NEW t \in Threads, NEW op \in EngineOps, CallEngine(t, op) PROVE IInv'
  BY <1>2, CallEngineStep
<1>3. ASSUME NEW t \in Threads, NEW op \in VmOps, NEW v \in Vms, CallVm(t, op, v) PROVE IInv'
  BY <1>3, CallVmStep
<1>4. CASE NewEngine
  BY <1>4, NewEngineStep
<1>5. CASE UNCHANGED vars
  <2>1. UNCHANGED <<engine, vm, gen, live, list, iVm, holder, count, stack, handles>> /\ wild' = wild
    BY <1>5 DEF vars
  <2> QED BY <2>1, OnlyWild
<1> QED BY <1>1, <1>2, <1>3, <1>4, <1>5 DEF Next

LEMMA Invariant == Spec => []IInv
<1>1. Init => IInv
  BY InvariantInit
<1>2. IInv /\ [Next]_vars => IInv'
  BY InvariantStep
<1> QED BY <1>1, <1>2, PTL DEF Spec

(* Types, whatever the host releases and when. *)
THEOREM TypeCorrect == Spec => []TypeOK
<1>1. IInv => TypeOK
  BY DEF IInv, Typed
<1> QED BY <1>1, Invariant, PTL

(***************************************************************************)
(* Two threads never run one machine, however many threads execute it,     *)
(* reset it and execute it again and however deep their scripts call back. *)
(***************************************************************************)
THEOREM OneThreadRuns == Spec => []ExecExclusive
<1>1. IInv => ExecExclusive
  BY DEF IInv
<1> QED BY <1>1, Invariant, PTL

(***************************************************************************)
(* pVms and iVm agree with the machines there are: EngineRelease releases  *)
(* each of them once, also when threads compile and release at the time.   *)
(***************************************************************************)
THEOREM MachinesLinked == Spec => []VmListExact
<1>1. IInv => VmListExact
  BY DEF IInv
<1> QED BY <1>1, Invariant, PTL
----------------------------------------------------------------------------
(***************************************************************************)
(* A host that releases nothing that is in use (~Racy): every call finds   *)
(* its object alive, so no call returns early with a mutex, and nothing is *)
(* destroyed while somebody waits for it.                                  *)
(***************************************************************************)
FrameQuiet(c) ==
  /\ c.op # "release" \/ c.at \in {"enter", "body"} => engine = "engine"
  /\ c.op \in VmOps =>
        /\ c.lock[2] = gen[c.v]
        /\ c.at # "eng_leave" => c.v \in Members
        /\ c.op # "vm_release" \/ c.at \in {"enter", "body"} => vm[c.v] \in Made

(* Calls of two threads at a time: nothing else during a release. *)
Along(c, d) ==
  /\ c.op # "release" /\ d.op # "release"
  /\ c.op = "vm_release" \/ d.op = "vm_release" => c.v # d.v

Quiet ==
  /\ ~wild
  /\ \A l \in Locks : MutexExact(l)
  /\ \A c \in AllCalls : FrameQuiet(c)
  /\ \A t, u \in Threads : t # u => \A c \in Calls(t), d \in Calls(u) : Along(c, d)

(* What a step does to the mutexes when no call returns early. *)
ExactStep(t, old, fresh) ==
  \/ Kept(old, fresh)
  \/ \E l \in Locks : Entered1(t, l, old, fresh) /\ Holds(fresh, Held(l)) = 1
  \/ \E l \in Locks : Left1(t, l, old, fresh) /\ Calls(t) \cap Held(l) # {}

LEMMA StaysInside ==
  ASSUME NEW c, NEW f, FrameOK(c), FrameOK(f), f.lock = c.lock,
         (c.at \in Inside /\ f.at \in Inside) \/ (c.at = "unlink" /\ f.at = "eng_leave"),
         UNCHANGED <<holder, count>>
  PROVE  Kept({c}, {f})
<1>1. \A l \in Locks : IsHeld(c, l) <=> IsHeld(f, l)
  BY DEF IsHeld, Inside
<1>2. \A l \in Locks : Holds({f}, Held(l)) = Holds({c}, Held(l))
  BY <1>1, HoldsHeld
<1> QED BY <1>2 DEF Kept

LEMMA MutexesExact ==
  ASSUME Typed, Sound, Quiet, NEW t \in Threads, NEW keep, NEW old, NEW fresh,
         StackStep(t, keep, old, fresh), ExactStep(t, old, fresh)
  PROVE  \A l \in Locks : MutexExact(l)'
<1>1. TypeOK /\ (\A l \in Locks : MutexSound(l)) /\ \A l \in Locks : MutexExact(l)
  BY DEF Typed, Sound, Quiet
<1>2. CASE Kept(old, fresh)
  BY <1>1, <1>2, MutexesKept
<1>3. ASSUME NEW l \in Locks, Entered1(t, l, old, fresh), Holds(fresh, Held(l)) = 1
      PROVE  \A k \in Locks : MutexExact(k)'
  BY <1>1, <1>3, MutexEntered
<1>4. ASSUME NEW l \in Locks, Left1(t, l, old, fresh), Calls(t) \cap Held(l) # {}
      PROVE  \A k \in Locks : MutexExact(k)'
  BY <1>1, <1>4, MutexLeft
<1> QED BY <1>2, <1>3, <1>4 DEF ExactStep

LEMMA QuietAfter ==
  ASSUME Typed, Sound, Quiet, NEW t \in Threads, NEW keep, NEW old, NEW fresh,
         StackStep(t, keep, old, fresh), ExactStep(t, old, fresh), wild' = FALSE,
         \A c \in AllCalls' : FrameQuiet(c)',
         \A c \in fresh : \A u \in Threads : u # t => \A d \in Calls(u) : Along(c, d)
  PROVE  Quiet'
<1>1. \A l \in Locks : MutexExact(l)'
  BY MutexesExact
<1>2. /\ \A u \in Threads : u # t => Calls(u)' = Calls(u)
      /\ Calls(t) = keep \cup old /\ Calls(t)' = keep \cup fresh
  BY CallsAfter DEF StackStep
<1>3. ASSUME NEW u \in Threads, u # t, NEW c \in Calls(t)', NEW d \in Calls(u)'
      PROVE  Along(c, d) /\ Along(d, c)
  <2>1. Along(c, d)
    BY <1>2, <1>3 DEF Quiet
  <2> QED BY <2>1 DEF Along
<1>4. ASSUME NEW u \in Threads, NEW w \in Threads, u # w, NEW c \in Calls(u)', NEW d \in Calls(w)'
      PROVE  Along(c, d)
  BY <1>2, <1>3, <1>4 DEF Quiet
<1> QED BY <1>1, <1>4 DEF Quiet, Along

LEMMA MembersKept ==
  ASSUME NEW t \in Threads, NEW keep, NEW old, NEW fresh, StackStep(t, keep, old, fresh), live' = live,
         \A c \in old \cup fresh : c.at # "compiling"
  PROVE  Members' = Members
<1>1. {c \in AllCalls : c.at = "compiling"}' = {c \in AllCalls : c.at = "compiling"}
  BY CallsAfter
<1> QED BY <1>1 DEF Members

(* Steps that leave the machines as they are. *)
LEMMA QuietKept ==
  ASSUME Typed, Sound, Quiet, NEW t \in Threads, NEW keep, NEW old, NEW fresh,
         StackStep(t, keep, old, fresh), ExactStep(t, old, fresh), wild' = wild,
         SameWorld, engine' = engine,
         \A c \in old \cup fresh : c.at # "compiling",
         \A c \in fresh : FrameOK(c) /\ FrameQuiet(c),
         \A c \in fresh : \A u \in Threads : u # t => \A d \in Calls(u) : Along(c, d)
  PROVE  Quiet'
<1>1. Members' = Members
  BY MembersKept DEF SameWorld
<1>2. gen' = gen /\ \A v \in Vms : vm[v] \in Made => vm'[v] \in Made
  BY DEF SameWorld
<1>3. ASSUME NEW c, FrameOK(c), FrameQuiet(c) PROVE FrameQuiet(c)'
  <2>1. c.op \in VmOps => c.v \in Vms
    BY <1>3 DEF FrameOK
  <2> QED BY <1>1, <1>2, <1>3, <2>1 DEF FrameQuiet
<1>4. \A c \in AllCalls' : c \in AllCalls \/ c \in fresh
  BY CallsAfter
<1>5. \A c \in AllCalls : FrameOK(c) /\ FrameQuiet(c)
  BY CallsTyped DEF Quiet
<1>6. \A c \in AllCalls' : FrameQuiet(c)'
  BY <1>3, <1>4, <1>5
<1>7. wild' = FALSE
  BY DEF Quiet, Typed, TypeOK
<1> QED BY <1>6, <1>7, QuietAfter

(* An innermost call goes on, under the same name and for the same machine. *)
LEMMA QuietMoved ==
  ASSUME Typed, Sound, Quiet, NEW t \in Threads, Busy(t), NEW label \in Labels, Goto(t, label),
         FrameOK(To(Top(t), label)), FrameQuiet(To(Top(t), label)),
         label # "compiling", Top(t).at # "compiling",
         SameWorld, engine' = engine, wild' = wild, ExactStep(t, {Top(t)}, {To(Top(t), label)})
  PROVE  Quiet'
<1> DEFINE f == To(Top(t), label)
<1>1. f \in Frames /\ Becomes(t, f) /\ f.op = Top(t).op /\ f.v = Top(t).v /\ f.at = label
  BY Relabels DEF FrameOK, To
<1> HIDE DEF f
<1>2. StackStep(t, Rest(t), {Top(t)}, {f})
  BY <1>1, Replaced DEF Typed
<1>3. Top(t) \in Calls(t)
  BY StackParts DEF Typed
<1>4. \A c \in {f} : \A u \in Threads : u # t => \A d \in Calls(u) : Along(c, d)
  BY <1>1, <1>3 DEF Quiet, Along
<1>5. \A c \in {Top(t)} \cup {f} : c.at # "compiling"
  BY <1>1
<1>6. \A c \in {f} : FrameOK(c) /\ FrameQuiet(c)
  BY DEF f
<1>7. ExactStep(t, {Top(t)}, {f})
  BY DEF f
<1> QED BY <1>2, <1>4, <1>5, <1>6, <1>7, QuietKept

(* It returns. *)
LEMMA QuietReturned ==
  ASSUME Typed, Sound, Quiet, NEW t \in Threads, Busy(t), Return(t), Top(t).at # "compiling",
         SameWorld, engine' = engine, wild' = wild, ExactStep(t, {Top(t)}, {})
  PROVE  Quiet'
<1>1. StackStep(t, Rest(t), {Top(t)}, {})
  BY Popped DEF Typed
<1>2. \A c \in {Top(t)} \cup {} : c.at # "compiling"
  OBVIOUS
<1>3. \A c \in {} : FrameOK(c) /\ FrameQuiet(c)
  OBVIOUS
<1>4. \A c \in {} : \A u \in Threads : u # t => \A d \in Calls(u) : Along(c, d)
  OBVIOUS
<1> QED BY <1>1, <1>2, <1>3, <1>4, QuietKept
LEMMA QuietTop ==
  ASSUME IInv, Quiet, NEW t \in Threads, NEW ops, NEW label, At(t, ops, label)
  PROVE  /\ Typed /\ Sound /\ Busy(t) /\ Top(t).op \in ops /\ Top(t).at = label
         /\ Top(t) \in Calls(t) /\ Top(t) \in AllCalls /\ Calls(t) = Rest(t) \cup {Top(t)}
         /\ FrameOK(Top(t)) /\ FrameSound(Top(t)) /\ FrameQuiet(Top(t)) /\ StackOK(t)
         /\ Top(t).lock \in Locks
         /\ \A u \in Threads : u # t => \A d \in Calls(u) : Along(Top(t), d)
<1>1. /\ Typed /\ Sound /\ Busy(t) /\ Top(t).op \in ops /\ Top(t).at = label
      /\ Top(t) \in Calls(t) /\ Calls(t) = Rest(t) \cup {Top(t)}
      /\ FrameOK(Top(t)) /\ FrameSound(Top(t)) /\ StackOK(t)
  BY AtTop
<1>2. Top(t) \in AllCalls
  BY <1>1 DEF AllCalls
<1>3. FrameQuiet(Top(t)) /\ \A u \in Threads : u # t => \A d \in Calls(u) : Along(Top(t), d)
  BY <1>1, <1>2 DEF Quiet
<1> QED BY <1>1, <1>2, <1>3 DEF FrameOK, Frames

(* A call that relies on nothing that changes. *)
LEMMA StillQuiet ==
  ASSUME NEW c, FrameQuiet(c), engine' = engine,
         c.op \in VmOps => /\ gen'[c.v] = gen[c.v] /\ (vm[c.v] \in Made => vm'[c.v] \in Made)
                           /\ (c.v \in Members => c.v \in Members')
  PROVE  FrameQuiet(c)'
BY DEF FrameQuiet

(* Steps that change the machines, and one call. *)
LEMMA QuietBecomes ==
  ASSUME Typed, Sound, Quiet, NEW t \in Threads, Busy(t), NEW f, FrameOK(f), Becomes(t, f), f.op = Top(t).op,
         f.v = Top(t).v \/ (f.op = "compile" /\ \A d \in AllCalls : d.op = "vm_release" => d.v # f.v),
         ExactStep(t, {Top(t)}, {f}), wild' = FALSE,
         FrameQuiet(f)',
         \A u \in Threads : \A c \in Calls(u) : u # t \/ c \in Rest(t) => FrameQuiet(c)'
  PROVE  Quiet'
<1>1. StackStep(t, Rest(t), {Top(t)}, {f})
  BY Replaced DEF Typed, FrameOK
<1>2. ASSUME NEW c \in AllCalls' PROVE FrameQuiet(c)'
  <2>1. PICK u \in Threads : c \in Calls(u)'
    BY DEF AllCalls
  <2>2. CASE u # t
    BY <1>1, <2>1, <2>2, CallsAfter
  <2>3. CASE u = t
    <3>1. Rest(t) \subseteq Calls(t) /\ (c \in Rest(t) \/ c = f)
      BY <1>1, <2>1, <2>3, StackParts DEF StackStep, Typed
    <3> QED BY <3>1
  <2> QED BY <2>2, <2>3
<1>3. Top(t) \in Calls(t)
  BY StackParts DEF Typed
<1>4. ASSUME NEW u \in Threads, u # t, NEW d \in Calls(u) PROVE Along(f, d)
  <2>1. Along(Top(t), d) /\ d \in AllCalls
    BY <1>3, <1>4 DEF Quiet, AllCalls
  <2> QED BY <2>1 DEF Along
<1>5. \A c \in {f} : \A u \in Threads : u # t => \A d \in Calls(u) : Along(c, d)
  BY <1>4
<1>6. PICK keep, old, fresh :
        /\ StackStep(t, keep, old, fresh) /\ ExactStep(t, old, fresh)
        /\ \A c \in fresh : \A u \in Threads : u # t => \A d \in Calls(u) : Along(c, d)
  BY <1>1, <1>5
<1> QED BY <1>2, <1>6, QuietAfter

(* The first mutex of a call. *)
LEMMA EntersExactly ==
  ASSUME NEW t \in Threads, NEW l \in Locks, Acquire(l, t), NEW c, FrameOK(c), c.at \in {"enter", "eng_enter"},
         NEW f, FrameOK(f), \A k \in Locks : IsHeld(f, k) <=> k = l
  PROVE  ExactStep(t, {c}, {f})
<1>1. \A k \in Locks : ~IsHeld(c, k)
  BY DEF IsHeld, Inside
<1>2. \A k \in Locks : Holds({c}, Held(k)) = 0 /\ Holds({f}, Held(k)) = (IF k = l THEN 1 ELSE 0)
  BY <1>1, HoldsHeld
<1> QED BY <1>2 DEF ExactStep, Entered1

LEMMA LeavesExactly ==
  ASSUME NEW t \in Threads, NEW l \in Locks, Leave(l), NEW c \in Calls(t), FrameOK(c), \A k \in Locks : IsHeld(c, k) <=> k = l,
         NEW fresh, \A f \in fresh : FrameOK(f) /\ f.at \in {"eng_enter", "destroy"}
  PROVE  ExactStep(t, {c}, fresh)
<1>1. ASSUME NEW k \in Locks PROVE Holds(fresh, Held(k)) = 0
  <2>1. \A f \in fresh : f \notin Held(k)
    BY HoldsHeld DEF IsHeld, Inside
  <2> QED BY <2>1 DEF Holds
<1>2. \A k \in Locks : Holds({c}, Held(k)) = (IF k = l THEN 1 ELSE 0)
  BY HoldsHeld
<1>3. c \in Held(l)
  BY HoldsHeld
<1> QED BY <1>1, <1>2, <1>3 DEF ExactStep, Left1
----------------------------------------------------------------------------
(* The same steps again, when nothing is released that is in use. *)
LEMMA ConfigureQuiet ==
  ASSUME IInv, Quiet, NEW t \in Threads, Configure(t)
  PROVE  Quiet'
<1>1. /\ At(t, {"config", "vm_config"}, "body") /\ Goto(t, "leave")
      /\ UNCHANGED <<engine, vm, gen, live, list, iVm, holder, count, handles, wild>>
  BY DEF Configure
<1>2. /\ Typed /\ Sound /\ Busy(t) /\ Top(t).op \in {"config", "vm_config"} /\ Top(t).at = "body"
      /\ FrameOK(Top(t)) /\ FrameQuiet(Top(t))
  BY <1>1, QuietTop
<1>3. FrameOK(To(Top(t), "leave"))
  BY <1>2 DEF FrameOK, To, Frames, Labels, VmOps, EngineOps
<1>4. FrameQuiet(To(Top(t), "leave"))
  BY <1>2 DEF FrameQuiet, To, VmOps
<1>5. ExactStep(t, {Top(t)}, {To(Top(t), "leave")})
  BY <1>1, <1>2, <1>3, StaysInside DEF ExactStep, To, Inside
<1> QED BY <1>1, <1>2, <1>3, <1>4, <1>5, QuietMoved DEF Labels, SameWorld

LEMMA StartExecQuiet ==
  ASSUME IInv, Quiet, NEW t \in Threads, StartExec(t)
  PROVE  Quiet'
<1>1. /\ At(t, {"exec"}, "body")
      /\ \/ vm[Top(t).v] = "RUN" /\ vm' = [vm EXCEPT ![Top(t).v] = "EXEC"] /\ Goto(t, "executing")
         \/ Goto(t, "leave") /\ vm' = vm
      /\ UNCHANGED <<engine, gen, live, list, iVm, holder, count, handles, wild>>
  BY DEF StartExec
<1>2. /\ Typed /\ Sound /\ Busy(t) /\ Top(t).op \in {"exec"} /\ Top(t).at = "body"
      /\ FrameOK(Top(t)) /\ FrameQuiet(Top(t))
  BY <1>1, QuietTop
<1>3. PICK label \in {"executing", "leave"} : Goto(t, label)
  BY <1>1
<1>4. FrameOK(To(Top(t), label))
  BY <1>2 DEF FrameOK, To, Frames, Labels, VmOps, EngineOps
<1>5. FrameQuiet(To(Top(t), label))
  BY <1>2 DEF FrameQuiet, To, VmOps
<1>6. ExactStep(t, {Top(t)}, {To(Top(t), label)})
  BY <1>1, <1>2, <1>4, StaysInside DEF ExactStep, To, Inside
<1>7. SameWorld
  <2>1. vm \in [Vms -> {"none", "INIT", "RUN", "EXEC", "STALE"}]
    BY <1>2 DEF Typed, TypeOK
  <2> QED BY <1>1, <2>1 DEF SameWorld, Made
<1> QED BY <1>1, <1>2, <1>3, <1>4, <1>5, <1>6, <1>7, QuietMoved DEF Labels

LEMMA FinishExecQuiet ==
  ASSUME IInv, Quiet, NEW t \in Threads, FinishExec(t)
  PROVE  Quiet'
<1>1. /\ At(t, {"exec"}, "executing") /\ Goto(t, "leave")
      /\ UNCHANGED <<engine, vm, gen, live, list, iVm, holder, count, handles, wild>>
  BY DEF FinishExec
<1>2. /\ Typed /\ Sound /\ Busy(t) /\ Top(t).op \in {"exec"} /\ Top(t).at = "executing"
      /\ FrameOK(Top(t)) /\ FrameQuiet(Top(t))
  BY <1>1, QuietTop
<1>3. FrameOK(To(Top(t), "leave"))
  BY <1>2 DEF FrameOK, To, Frames, Labels, VmOps, EngineOps
<1>4. FrameQuiet(To(Top(t), "leave"))
  BY <1>2 DEF FrameQuiet, To, VmOps
<1>5. ExactStep(t, {Top(t)}, {To(Top(t), "leave")})
  BY <1>1, <1>2, <1>3, StaysInside DEF ExactStep, To, Inside
<1> QED BY <1>1, <1>2, <1>3, <1>4, <1>5, QuietMoved DEF Labels, SameWorld

LEMMA ResetQuiet ==
  ASSUME IInv, Quiet, NEW t \in Threads, Reset(t)
  PROVE  Quiet'
<1>1. /\ At(t, {"reset"}, "body") /\ Goto(t, "leave")
      /\ vm' = (IF vm[Top(t).v] \in {"RUN", "EXEC"} THEN [vm EXCEPT ![Top(t).v] = "RUN"] ELSE vm)
      /\ UNCHANGED <<engine, gen, live, list, iVm, holder, count, handles, wild>>
  BY DEF Reset
<1>2. /\ Typed /\ Sound /\ Busy(t) /\ Top(t).op \in {"reset"} /\ Top(t).at = "body"
      /\ FrameOK(Top(t)) /\ FrameQuiet(Top(t))
  BY <1>1, QuietTop
<1>3. FrameOK(To(Top(t), "leave"))
  BY <1>2 DEF FrameOK, To, Frames, Labels, VmOps, EngineOps
<1>4. FrameQuiet(To(Top(t), "leave"))
  BY <1>2 DEF FrameQuiet, To, VmOps
<1>5. ExactStep(t, {Top(t)}, {To(Top(t), "leave")})
  BY <1>1, <1>2, <1>3, StaysInside DEF ExactStep, To, Inside
<1>6. SameWorld
  <2>1. vm \in [Vms -> {"none", "INIT", "RUN", "EXEC", "STALE"}]
    BY <1>2 DEF Typed, TypeOK
  <2> QED BY <1>1, <2>1 DEF SameWorld, Made
<1> QED BY <1>1, <1>2, <1>3, <1>4, <1>5, <1>6, QuietMoved DEF Labels

LEMMA EnterEngineQuiet ==
  ASSUME IInv, Quiet, NEW t \in Threads, EnterEngine(t)
  PROVE  Quiet'
<1>1. At(t, EngineOps, "enter") /\ UNCHANGED <<engine, vm, gen, live, list, iVm, handles>>
  BY DEF EnterEngine
<1>2. /\ Typed /\ Sound /\ Busy(t) /\ Top(t).op \in EngineOps /\ Top(t).at = "enter"
      /\ FrameOK(Top(t)) /\ FrameQuiet(Top(t))
  BY <1>1, QuietTop
<1>3. engine = "engine"
  BY <1>2 DEF FrameQuiet, EngineOps
<1>4. Acquire(EngineLock, t) /\ Goto(t, "body") /\ wild' = wild
  BY <1>3 DEF EnterEngine
<1>5. FrameOK(To(Top(t), "body"))
  BY <1>2 DEF FrameOK, To, Frames, Labels, VmOps, EngineOps
<1>6. FrameQuiet(To(Top(t), "body"))
  BY <1>2, <1>3 DEF FrameQuiet, To, VmOps, EngineOps
<1>7. ExactStep(t, {Top(t)}, {To(Top(t), "body")})
  <2>1. EngineLock \in Locks /\ Top(t).lock = EngineLock
    BY <1>2 DEF EngineLock, Locks, FrameOK
  <2>2. \A k \in Locks : IsHeld(To(Top(t), "body"), k) <=> k = EngineLock
    BY <2>1 DEF IsHeld, To, Inside
  <2> QED BY <1>2, <1>4, <1>5, <2>1, <2>2, EntersExactly
<1> QED BY <1>1, <1>2, <1>4, <1>5, <1>6, <1>7, QuietMoved DEF Labels, SameWorld

LEMMA EnterVmQuiet ==
  ASSUME IInv, Quiet, NEW t \in Threads, EnterVm(t)
  PROVE  Quiet'
<1>1. At(t, VmOps, "enter") /\ UNCHANGED <<engine, vm, gen, live, list, iVm, handles>>
  BY DEF EnterVm
<1>2. /\ Typed /\ Sound /\ Busy(t) /\ Top(t).op \in VmOps /\ Top(t).at = "enter"
      /\ FrameOK(Top(t)) /\ FrameQuiet(Top(t)) /\ Top(t).lock \in Locks
  BY <1>1, QuietTop
<1>3. engine = "engine" /\ gen[Top(t).v] = Top(t).lock[2] /\ vm[Top(t).v] # "STALE"
  BY <1>2 DEF FrameQuiet, VmOps, Made
<1>4. Acquire(Top(t).lock, t) /\ Goto(t, "body") /\ wild' = wild
  BY <1>3 DEF EnterVm
<1>5. FrameOK(To(Top(t), "body"))
  BY <1>2 DEF FrameOK, To, Frames, Labels, VmOps, EngineOps
<1>6. FrameQuiet(To(Top(t), "body"))
  BY <1>2, <1>3 DEF FrameQuiet, To, VmOps, EngineOps
<1>7. ExactStep(t, {Top(t)}, {To(Top(t), "body")})
  <2>1. \A k \in Locks : IsHeld(To(Top(t), "body"), k) <=> k = Top(t).lock
    BY DEF IsHeld, To, Inside
  <2> QED BY <1>2, <1>4, <1>5, <2>1, EntersExactly
<1> QED BY <1>1, <1>2, <1>4, <1>5, <1>6, <1>7, QuietMoved DEF Labels, SameWorld

LEMMA LeaveCallQuiet ==
  ASSUME IInv, Quiet, NEW t \in Threads, LeaveCall(t)
  PROVE  Quiet'
<1>1. /\ At(t, {"config", "compile", "vm_config", "exec", "reset"}, "leave")
      /\ Leave(Top(t).lock) /\ Return(t) /\ UNCHANGED <<engine, vm, gen, live, list, iVm, wild>>
  BY DEF LeaveCall
<1>2. /\ Typed /\ Sound /\ Busy(t) /\ Top(t).at = "leave" /\ FrameOK(Top(t)) /\ Top(t) \in Calls(t)
      /\ Top(t).lock \in Locks
  BY <1>1, QuietTop
<1>3. \A k \in Locks : IsHeld(Top(t), k) <=> k = Top(t).lock
  BY <1>2 DEF IsHeld, Inside
<1>4. ExactStep(t, {Top(t)}, {})
  BY <1>1, <1>2, <1>3, LeavesExactly
<1> QED BY <1>1, <1>2, <1>4, QuietReturned DEF SameWorld

LEMMA LeaveReleasedVmQuiet ==
  ASSUME IInv, Quiet, NEW t \in Threads, LeaveReleasedVm(t)
  PROVE  Quiet'
<1>1. /\ At(t, {"vm_release"}, "leave") /\ Leave(Top(t).lock) /\ Goto(t, "eng_enter")
      /\ UNCHANGED <<engine, vm, gen, live, list, iVm, handles, wild>>
  BY DEF LeaveReleasedVm
<1>2. /\ Typed /\ Sound /\ Busy(t) /\ Top(t).op \in {"vm_release"} /\ Top(t).at = "leave"
      /\ FrameOK(Top(t)) /\ FrameQuiet(Top(t)) /\ Top(t) \in Calls(t) /\ Top(t).lock \in Locks
  BY <1>1, QuietTop
<1>3. FrameOK(To(Top(t), "eng_enter"))
  BY <1>2 DEF FrameOK, To, Frames, Labels, VmOps, EngineOps
<1>4. FrameQuiet(To(Top(t), "eng_enter"))
  BY <1>2 DEF FrameQuiet, To, VmOps
<1>5. ExactStep(t, {Top(t)}, {To(Top(t), "eng_enter")})
  <2>1. \A k \in Locks : IsHeld(Top(t), k) <=> k = Top(t).lock
    BY <1>2 DEF IsHeld, Inside
  <2>2. \A f \in {To(Top(t), "eng_enter")} : FrameOK(f) /\ f.at \in {"eng_enter", "destroy"}
    BY <1>3 DEF To
  <2> QED BY <1>1, <1>2, <2>1, <2>2, LeavesExactly
<1> QED BY <1>1, <1>2, <1>3, <1>4, <1>5, QuietMoved DEF Labels, SameWorld

LEMMA EnterEngineOfVmQuiet ==
  ASSUME IInv, Quiet, NEW t \in Threads, EnterEngineOfVm(t)
  PROVE  Quiet'
<1>1. At(t, {"vm_release"}, "eng_enter") /\ UNCHANGED <<engine, vm, gen, live, list, iVm>>
  BY DEF EnterEngineOfVm
<1>2. /\ Typed /\ Sound /\ Busy(t) /\ Top(t).op \in {"vm_release"} /\ Top(t).at = "eng_enter"
      /\ FrameOK(Top(t)) /\ FrameQuiet(Top(t))
  BY <1>1, QuietTop
<1>3. engine = "engine"
  BY <1>2 DEF FrameQuiet
<1>4. Acquire(EngineLock, t) /\ Goto(t, "unlink") /\ wild' = wild
  BY <1>3 DEF EnterEngineOfVm
<1>5. FrameOK(To(Top(t), "unlink"))
  BY <1>2 DEF FrameOK, To, Frames, Labels, VmOps, EngineOps
<1>6. FrameQuiet(To(Top(t), "unlink"))
  BY <1>2, <1>3 DEF FrameQuiet, To, VmOps, EngineOps
<1>7. ExactStep(t, {Top(t)}, {To(Top(t), "unlink")})
  <2>1. EngineLock \in Locks
    BY DEF EngineLock, Locks
  <2>2. \A k \in Locks : IsHeld(To(Top(t), "unlink"), k) <=> k = EngineLock
    BY DEF IsHeld, To, Inside
  <2> QED BY <1>2, <1>4, <1>5, <2>1, <2>2, EntersExactly
<1> QED BY <1>1, <1>2, <1>4, <1>5, <1>6, <1>7, QuietMoved DEF Labels, SameWorld

LEMMA LeaveEngineOfVmQuiet ==
  ASSUME IInv, Quiet, NEW t \in Threads, LeaveEngineOfVm(t)
  PROVE  Quiet'
<1>1. /\ At(t, {"vm_release"}, "eng_leave")
      /\ Leave(EngineLock) /\ Return(t) /\ UNCHANGED <<engine, vm, gen, live, list, iVm, wild>>
  BY DEF LeaveEngineOfVm
<1>2. /\ Typed /\ Sound /\ Busy(t) /\ Top(t).at = "eng_leave" /\ FrameOK(Top(t)) /\ Top(t) \in Calls(t)
      /\ EngineLock \in Locks
  BY <1>1, QuietTop DEF EngineLock, Locks
<1>3. \A k \in Locks : IsHeld(Top(t), k) <=> k = EngineLock
  BY <1>2 DEF IsHeld, Inside
<1>4. ExactStep(t, {Top(t)}, {})
  BY <1>1, <1>2, <1>3, LeavesExactly
<1> QED BY <1>1, <1>2, <1>4, QuietReturned DEF SameWorld

LEMMA LeaveReleasedEngineQuiet ==
  ASSUME IInv, Quiet, NEW t \in Threads, LeaveReleasedEngine(t)
  PROVE  Quiet'
<1>1. /\ At(t, {"release"}, "leave") /\ Leave(EngineLock) /\ Goto(t, "destroy")
      /\ UNCHANGED <<engine, vm, gen, live, list, iVm, handles, wild>>
  BY DEF LeaveReleasedEngine
<1>2. /\ Typed /\ Sound /\ Busy(t) /\ Top(t).op \in {"release"} /\ Top(t).at = "leave"
      /\ FrameOK(Top(t)) /\ FrameQuiet(Top(t)) /\ Top(t) \in Calls(t) /\ EngineLock \in Locks
  BY <1>1, QuietTop DEF EngineLock, Locks
<1>3. FrameOK(To(Top(t), "destroy"))
  BY <1>2 DEF FrameOK, To, Frames, Labels, VmOps, EngineOps
<1>4. FrameQuiet(To(Top(t), "destroy"))
  BY <1>2 DEF FrameQuiet, To, VmOps
<1>5. ExactStep(t, {Top(t)}, {To(Top(t), "destroy")})
  <2>1. \A k \in Locks : IsHeld(Top(t), k) <=> k = EngineLock
    BY <1>2 DEF IsHeld, Inside, FrameOK, EngineOps
  <2>2. \A f \in {To(Top(t), "destroy")} : FrameOK(f) /\ f.at \in {"eng_enter", "destroy"}
    BY <1>3 DEF To
  <2> QED BY <1>1, <1>2, <2>1, <2>2, LeavesExactly
<1> QED BY <1>1, <1>2, <1>3, <1>4, <1>5, QuietMoved DEF Labels, SameWorld
LEMMA QuietCalled ==
  ASSUME Typed, Sound, Quiet, NEW t \in Threads, NEW op, NEW v, NEW lock, Push(t, op, v, lock),
         FrameOK(NewFrame(op, v, lock)), FrameQuiet(NewFrame(op, v, lock)),
         \A u \in Threads : u # t => \A d \in Calls(u) : Along(NewFrame(op, v, lock), d),
         UNCHANGED <<engine, vm, gen, live, list, iVm, holder, count, handles, wild>>
  PROVE  Quiet'
<1>1. PICK f : f = NewFrame(op, v, lock)
  OBVIOUS
<1>2. StackStep(t, Calls(t), {}, {f}) /\ f.at = "enter"
  BY <1>1, Pushed DEF Typed, FrameOK, NewFrame
<1>3. ExactStep(t, {}, {f})
  <2>1. \A l \in Locks : ~IsHeld(f, l)
    BY <1>2 DEF IsHeld, Inside
  <2>2. \A l \in Locks : Holds({f}, Held(l)) = 0 /\ Holds({}, Held(l)) = 0
    BY <1>1, <2>1, HoldsHeld
  <2> QED BY <2>2 DEF ExactStep, Kept
<1>4. \A c \in {} \cup {f} : c.at # "compiling"
  BY <1>2
<1>5. \A c \in {f} : FrameOK(c) /\ FrameQuiet(c)
  BY <1>1
<1>6. \A c \in {f} : \A u \in Threads : u # t => \A d \in Calls(u) : Along(c, d)
  BY <1>1
<1>7. SameWorld /\ engine' = engine /\ wild' = wild
  BY DEF SameWorld
<1> QED BY <1>2, <1>3, <1>4, <1>5, <1>6, <1>7, QuietKept

LEMMA CallEngineQuiet ==
  ASSUME IInv, ~Racy, Quiet, NEW t \in Threads, NEW op \in EngineOps, CallEngine(t, op)
  PROVE  Quiet'
<1>1. /\ MayCall(t) /\ engine = "engine" /\ Push(t, op, NULL, EngineLock)
      /\ op = "release" => AllCalls = {}
      /\ \A c \in AllCalls : c.op # "release"
      /\ UNCHANGED <<engine, vm, gen, live, list, iVm, holder, count, handles, wild>>
  BY DEF CallEngine
<1>2. Typed /\ Sound
  BY <1>1 DEF IInv, MayCall
<1>3. FrameOK(NewFrame(op, NULL, EngineLock))
  BY DEF FrameOK, NewFrame, Frames, Labels, VmOps, EngineOps, EngineLock, Locks
<1>4. FrameQuiet(NewFrame(op, NULL, EngineLock))
  BY <1>1 DEF FrameQuiet, NewFrame, VmOps, EngineOps
<1>5. ASSUME NEW u \in Threads, NEW d \in Calls(u) PROVE Along(NewFrame(op, NULL, EngineLock), d)
  <2>1. d \in AllCalls /\ FrameOK(d)
    BY <1>2, CallsTyped
  <2>2. op # "release" /\ d.op # "release"
    BY <1>1, <2>1
  <2>3. d.op = "vm_release" => d.v # NULL
    BY <2>1, EngineApiAssumption DEF FrameOK, VmOps
  <2> QED BY <2>2, <2>3 DEF Along, NewFrame, EngineOps
<1> QED BY <1>1, <1>2, <1>3, <1>4, <1>5, QuietCalled

LEMMA CallVmQuiet ==
  ASSUME IInv, ~Racy, Quiet, NEW t \in Threads, NEW op \in VmOps, NEW v \in Vms, CallVm(t, op, v)
  PROVE  Quiet'
<1>1. /\ MayCall(t) /\ engine = "engine" /\ v \in handles /\ vm[v] # "STALE" /\ Push(t, op, v, <<v, gen[v]>>)
      /\ op = "vm_release" => \A c \in AllCalls : c.v # v
      /\ \A c \in AllCalls : ~(c.op = "vm_release" /\ c.v = v) /\ c.op # "release"
      /\ UNCHANGED <<engine, vm, gen, live, list, iVm, holder, count, handles, wild>>
  BY DEF CallVm
<1>2. Typed /\ Sound
  BY <1>1 DEF IInv, MayCall
<1>3. v \in Members
  <2>1. v \in Members \/ \E c \in AllCalls : c.at = "eng_leave" /\ c.v = v
    BY <1>1, <1>2 DEF Sound, World, MachineSound
  <2>2. \A c \in AllCalls : c.at = "eng_leave" => c.v # v
    BY <1>1, <1>2, CallsTyped DEF FrameOK
  <2> QED BY <2>1, <2>2
<1>4. vm[v] \in Made
  BY <1>1, <1>2, <1>3 DEF Sound, World, MachineSound
<1>5. gen[v] \in 1..MaxGen
  <2>1. gen[v] \in 0..MaxGen
    BY <1>2 DEF Typed, TypeOK
  <2>2. gen[v] # 0
    BY <1>2, <1>4 DEF Sound, World, MachineSound, Made
  <2> QED BY <2>1, <2>2, EngineApiAssumption
<1> DEFINE lock == <<v, gen[v]>>
<1>6. FrameOK(NewFrame(op, v, lock))
  BY <1>5 DEF FrameOK, NewFrame, Frames, Labels, VmOps, EngineOps, Locks
<1>7. lock[2] = gen[v] /\ Push(t, op, v, lock)
  BY <1>1
<1> HIDE DEF lock
<1>8. FrameQuiet(NewFrame(op, v, lock))
  BY <1>1, <1>3, <1>4, <1>7 DEF FrameQuiet, NewFrame, VmOps
<1>9. ASSUME NEW u \in Threads, NEW d \in Calls(u) PROVE Along(NewFrame(op, v, lock), d)
  <2>1. d \in AllCalls
    BY DEF AllCalls
  <2> QED BY <1>1, <2>1 DEF Along, NewFrame, VmOps
<1> QED BY <1>1, <1>2, <1>6, <1>7, <1>8, <1>9, QuietCalled

(* A machine that is being released is still linked, or its release holds the engine. *)
LEMMA StartCompileQuiet ==
  ASSUME IInv, Quiet, NEW t \in Threads, StartCompile(t)
  PROVE  Quiet'
<1>1. At(t, {"compile"}, "body") /\ UNCHANGED <<engine, iVm, holder, count, handles, wild>>
  BY DEF StartCompile
<1>2. /\ Typed /\ Sound /\ Busy(t) /\ Top(t).op \in {"compile"} /\ Top(t).at = "body"
      /\ FrameOK(Top(t)) /\ FrameQuiet(Top(t)) /\ StackOK(t) /\ Calls(t) = Rest(t) \cup {Top(t)}
  BY <1>1, QuietTop
<1>3. CASE Goto(t, "leave") /\ UNCHANGED <<live, gen, vm, list>>
  <2>1. FrameOK(To(Top(t), "leave"))
    BY <1>2 DEF FrameOK, To, Frames, Labels, VmOps, EngineOps
  <2>2. FrameQuiet(To(Top(t), "leave"))
    BY <1>2 DEF FrameQuiet, To, VmOps
  <2>3. ExactStep(t, {Top(t)}, {To(Top(t), "leave")})
    BY <1>1, <1>2, <2>1, StaysInside DEF ExactStep, To, Inside
  <2> QED BY <1>1, <1>2, <1>3, <2>1, <2>2, <2>3, QuietMoved DEF Labels, SameWorld
<1>4. ASSUME NEW v \in Vms \ live,
             live' = live \cup {v}, gen' = [gen EXCEPT ![v] = @ + 1], vm' = [vm EXCEPT ![v] = "INIT"],
             stack' = [stack EXCEPT ![t][1].at = "compiling", ![t][1].v = v]
      PROVE  Quiet'
  <2>1. PICK f \in Frames : /\ f = [op |-> Top(t).op, v |-> v, lock |-> Top(t).lock, at |-> "compiling"]
                            /\ Becomes(t, f)
    BY <1>2, <1>4, RelabelsFor DEF Labels
  <2>2. /\ f.op = "compile" /\ f.v = v /\ f.lock = Top(t).lock /\ f.at = "compiling" /\ Top(t).lock = EngineLock
    BY <1>2, <2>1 DEF FrameOK, EngineOps
  <2>3. FrameOK(f)
    BY <2>2 DEF FrameOK, VmOps, EngineOps
  <2>4. ASSUME NEW c \in AllCalls, c.op \in VmOps PROVE c.v \in Members /\ c.v # v /\ c.v \in Vms
    <3>1. FrameOK(c) /\ FrameQuiet(c)
      BY <1>2, CallsTyped DEF Quiet
    <3>2. ASSUME c.at = "eng_leave" PROVE FALSE
      <4>1. IsHeld(Top(t), EngineLock) /\ IsHeld(c, EngineLock)
        BY <1>2, <2>2, <3>2 DEF IsHeld, Inside
      <4>2. c = Top(t) \/ c \in Rest(t)
        BY <1>2, <4>1, EngineAlone
      <4> QED BY <1>2, <3>2, <4>2 DEF StackOK
    <3> QED BY <2>4, <3>1, <3>2 DEF FrameQuiet, FrameOK, Members
  <2>5. StackStep(t, Rest(t), {Top(t)}, {f})
    BY <1>2, <2>1, Replaced DEF Typed
  <2>6. \A w \in Members : w \in Members'
    <3>1. \A c \in AllCalls' : c \in AllCalls \/ c = f
      BY <2>5, CallsAfter
    <3> QED BY <1>4, <2>2, <3>1 DEF Members
  <2>7. ASSUME NEW c \in AllCalls PROVE FrameQuiet(c)'
    <3>1. FrameQuiet(c)
      BY DEF Quiet
    <3>2. c.op \in VmOps => gen'[c.v] = gen[c.v] /\ vm'[c.v] = vm[c.v]
      BY <1>2, <1>4, <2>4 DEF Typed, TypeOK
    <3> QED BY <1>1, <2>4, <2>6, <3>1, <3>2, StillQuiet
  <2>8. \A u \in Threads : \A c \in Calls(u) : FrameQuiet(c)'
    BY <2>7 DEF AllCalls
  <2>9. FrameQuiet(f)'
    BY <1>1, <1>2, <2>2 DEF FrameQuiet, VmOps
  <2>10. ExactStep(t, {Top(t)}, {f})
    BY <1>1, <1>2, <2>2, <2>3, StaysInside DEF ExactStep, Inside
  <2>11. \A d \in AllCalls : d.op = "vm_release" => d.v # f.v
    BY <2>2, <2>4 DEF VmOps
  <2>12. wild' = FALSE /\ f.op = Top(t).op
    BY <1>1, <1>2, <2>2 DEF Quiet, Typed, TypeOK
  <2> QED BY <1>2, <2>1, <2>2, <2>3, <2>8, <2>9, <2>10, <2>11, <2>12, QuietBecomes
<1> QED BY <1>3, <1>4 DEF StartCompile

(* One compilation less: the linked machines stay. *)
LEMMA StillMembers ==
  ASSUME NEW t \in Threads, NEW keep, NEW old, NEW f, StackStep(t, keep, old, {f}), f.at # "compiling",
         NEW w \in Members, w \in live'
  PROVE  w \in Members'
<1>1. \A c \in AllCalls' : c \in AllCalls \/ c \in {f}
  BY CallsAfter
<1> QED BY <1>1 DEF Members

LEMMA FailCompileQuiet ==
  ASSUME IInv, Quiet, NEW t \in Threads, FailCompile(t)
  PROVE  Quiet'
<1>1. /\ At(t, {"compile"}, "compiling") /\ live' = live \ {Top(t).v}
      /\ stack' = [stack EXCEPT ![t][1].at = "leave", ![t][1].v = NULL]
      /\ UNCHANGED <<engine, vm, gen, list, iVm, holder, count, handles, wild>>
  BY DEF FailCompile
<1>2. /\ Typed /\ Sound /\ Busy(t) /\ Top(t).op \in {"compile"} /\ Top(t).at = "compiling"
      /\ FrameOK(Top(t)) /\ FrameQuiet(Top(t)) /\ Top(t) \in AllCalls
  BY <1>1, QuietTop
<1>3. PICK f \in Frames : /\ f = [op |-> Top(t).op, v |-> NULL, lock |-> Top(t).lock, at |-> "leave"]
                          /\ Becomes(t, f)
  BY <1>1, <1>2, RelabelsFor DEF Labels
<1>4. f.op = "compile" /\ f.v = NULL /\ f.lock = Top(t).lock /\ f.at = "leave" /\ Top(t).lock = EngineLock
  BY <1>2, <1>3 DEF FrameOK, EngineOps
<1>5. FrameOK(f)
  BY <1>4 DEF FrameOK, VmOps, EngineOps
<1>6. StackStep(t, Rest(t), {Top(t)}, {f})
  BY <1>2, <1>3, Replaced DEF Typed
<1>7. ASSUME NEW c \in AllCalls PROVE FrameQuiet(c)'
  <2>1. FrameQuiet(c)
    BY DEF Quiet
  <2>2. ASSUME NEW w \in Members PROVE w \in Members'
    <3>1. w \in live'
      BY <1>1, <1>2 DEF Members
    <3> QED BY <1>4, <1>6, <3>1, StillMembers
  <2> QED BY <1>1, <2>1, <2>2, StillQuiet
<1>8. \A u \in Threads : \A c \in Calls(u) : FrameQuiet(c)'
  BY <1>7 DEF AllCalls
<1>9. FrameQuiet(f)'
  BY <1>1, <1>2, <1>4 DEF FrameQuiet, VmOps
<1>10. ExactStep(t, {Top(t)}, {f})
  BY <1>1, <1>2, <1>4, <1>5, StaysInside DEF ExactStep, Inside
<1>11. \A d \in AllCalls : d.op = "vm_release" => d.v # f.v
  BY <1>2, <1>4, CallsTyped, EngineApiAssumption DEF FrameOK, VmOps
<1>12. wild' = FALSE /\ f.op = Top(t).op
  BY <1>1, <1>2, <1>4 DEF Quiet, Typed, TypeOK
<1> QED BY <1>2, <1>3, <1>4, <1>5, <1>8, <1>9, <1>10, <1>11, <1>12, QuietBecomes

LEMMA FinishCompileQuiet ==
  ASSUME IInv, Quiet, NEW t \in Threads, FinishCompile(t)
  PROVE  Quiet'
<1>1. /\ At(t, {"compile"}, "compiling") /\ vm' = [vm EXCEPT ![Top(t).v] = "RUN"] /\ Goto(t, "leave")
      /\ UNCHANGED <<engine, gen, live, holder, count, handles, wild>>
  BY DEF FinishCompile
<1>2. /\ Typed /\ Sound /\ Busy(t) /\ Top(t).op \in {"compile"} /\ Top(t).at = "compiling"
      /\ FrameOK(Top(t)) /\ FrameQuiet(Top(t)) /\ Top(t) \in AllCalls
  BY <1>1, QuietTop
<1>3. PICK f : f = To(Top(t), "leave") /\ FrameOK(f) /\ Becomes(t, f)
  <2>1. FrameOK(To(Top(t), "leave"))
    BY <1>2 DEF FrameOK, To, Frames, Labels, VmOps, EngineOps
  <2> QED BY <1>1, <1>2, <2>1, Relabels DEF Labels
<1>4. f.op = "compile" /\ f.v = Top(t).v /\ f.lock = Top(t).lock /\ f.at = "leave"
  BY <1>2, <1>3 DEF To
<1>6. StackStep(t, Rest(t), {Top(t)}, {f})
  BY <1>2, <1>3, Replaced DEF Typed, FrameOK
<1>7. ASSUME NEW c \in AllCalls PROVE FrameQuiet(c)'
  <2>1. FrameQuiet(c) /\ (c.op \in VmOps => c.v \in Vms)
    BY <1>2, CallsTyped DEF Quiet, FrameOK
  <2>2. ASSUME NEW w \in Members PROVE w \in Members'
    <3>1. w \in live'
      BY <1>1 DEF Members
    <3> QED BY <1>4, <1>6, <3>1, StillMembers
  <2>3. \A w \in Vms : vm[w] \in Made => vm'[w] \in Made
    BY <1>1, <1>2 DEF Typed, TypeOK, Made
  <2> QED BY <1>1, <2>1, <2>2, <2>3, StillQuiet
<1>8. \A u \in Threads : \A c \in Calls(u) : FrameQuiet(c)'
  BY <1>7 DEF AllCalls
<1>9. FrameQuiet(f)'
  BY <1>1, <1>2, <1>4 DEF FrameQuiet, VmOps
<1>10. ExactStep(t, {Top(t)}, {f})
  BY <1>1, <1>2, <1>3, <1>4, StaysInside DEF ExactStep, Inside
<1>12. wild' = FALSE /\ f.op = Top(t).op
  BY <1>1, <1>2, <1>4 DEF Quiet, Typed, TypeOK
<1> QED BY <1>2, <1>3, <1>4, <1>8, <1>9, <1>10, <1>12, QuietBecomes
(* Nobody else calls on a machine that is being released. *)
LEMMA AloneOnMachine ==
  ASSUME IInv, Quiet, NEW t \in Threads, Busy(t), Top(t).op = "vm_release",
         NEW u \in Threads, NEW c \in Calls(u), u # t \/ c \in Rest(t)
  PROVE  c \in AllCalls /\ FrameOK(c) /\ FrameQuiet(c) /\ c.v # Top(t).v
<1>1. Typed /\ ~wild
  BY DEF IInv, Quiet
<1>2. c \in AllCalls /\ FrameOK(c) /\ FrameQuiet(c)
  BY <1>1, CallsTyped DEF Quiet
<1>3. Top(t) \in Calls(t) /\ \A d \in Rest(t) : d.v # Top(t).v
  BY <1>1, StackParts DEF Typed, StackOK
<1>4. u # t => Along(Top(t), c)
  BY <1>3 DEF Quiet
<1> QED BY <1>2, <1>3, <1>4 DEF Along

LEMMA ReleaseVmQuiet ==
  ASSUME IInv, Quiet, NEW t \in Threads, ReleaseVm(t)
  PROVE  Quiet'
<1>1. /\ At(t, {"vm_release"}, "body") /\ vm' = [vm EXCEPT ![Top(t).v] = "STALE"] /\ Goto(t, "leave")
      /\ UNCHANGED <<engine, gen, live, list, iVm, holder, count, handles, wild>>
  BY DEF ReleaseVm
<1>2. /\ Typed /\ Sound /\ Busy(t) /\ Top(t).op \in {"vm_release"} /\ Top(t).at = "body"
      /\ FrameOK(Top(t)) /\ FrameQuiet(Top(t)) /\ Top(t) \in AllCalls
  BY <1>1, QuietTop
<1>3. PICK f : f = To(Top(t), "leave") /\ FrameOK(f) /\ Becomes(t, f)
  <2>1. FrameOK(To(Top(t), "leave"))
    BY <1>2 DEF FrameOK, To, Frames, Labels, VmOps, EngineOps
  <2> QED BY <1>1, <1>2, <2>1, Relabels DEF Labels
<1>4. f.op = "vm_release" /\ f.v = Top(t).v /\ f.lock = Top(t).lock /\ f.at = "leave"
  BY <1>2, <1>3 DEF To
<1>5. Members' = Members
  <2>1. StackStep(t, Rest(t), {Top(t)}, {f})
    BY <1>2, <1>3, Replaced DEF Typed, FrameOK
  <2>2. \A c \in {Top(t)} \cup {f} : c.at # "compiling"
    BY <1>2, <1>4
  <2>3. live' = live
    BY <1>1
  <2> QED BY <2>1, <2>2, <2>3, MembersKept
<1>6. ASSUME NEW u \in Threads, NEW c \in Calls(u), u # t \/ c \in Rest(t) PROVE FrameQuiet(c)'
  <2>1. FrameOK(c) /\ FrameQuiet(c) /\ c.v # Top(t).v
    BY <1>2, <1>6, AloneOnMachine
  <2>2. c.op \in VmOps => vm'[c.v] = vm[c.v]
    BY <1>1, <1>2, <2>1 DEF Typed, TypeOK, FrameOK
  <2> QED BY <1>1, <1>5, <2>1, <2>2, StillQuiet
<1>7. FrameQuiet(f)'
  BY <1>1, <1>2, <1>4, <1>5 DEF FrameQuiet, VmOps
<1>8. ExactStep(t, {Top(t)}, {f})
  BY <1>1, <1>2, <1>3, <1>4, StaysInside DEF ExactStep, Inside
<1>9. wild' = FALSE /\ f.op = Top(t).op
  BY <1>1, <1>2, <1>4 DEF Quiet, Typed, TypeOK
<1> QED BY <1>2, <1>3, <1>4, <1>6, <1>7, <1>8, <1>9, QuietBecomes

LEMMA UnlinkVmQuiet ==
  ASSUME IInv, Quiet, NEW t \in Threads, UnlinkVm(t)
  PROVE  Quiet'
<1>1. /\ At(t, {"vm_release"}, "unlink") /\ live' = live \ {Top(t).v} /\ Goto(t, "eng_leave")
      /\ UNCHANGED <<engine, vm, gen, holder, count, handles, wild>>
  BY DEF UnlinkVm
<1>2. /\ Typed /\ Sound /\ Busy(t) /\ Top(t).op \in {"vm_release"} /\ Top(t).at = "unlink"
      /\ FrameOK(Top(t)) /\ FrameQuiet(Top(t)) /\ Top(t) \in AllCalls
  BY <1>1, QuietTop
<1>3. PICK f : f = To(Top(t), "eng_leave") /\ FrameOK(f) /\ Becomes(t, f)
  <2>1. FrameOK(To(Top(t), "eng_leave"))
    BY <1>2 DEF FrameOK, To, Frames, Labels, VmOps, EngineOps
  <2> QED BY <1>1, <1>2, <2>1, Relabels DEF Labels
<1>4. f.op = "vm_release" /\ f.v = Top(t).v /\ f.lock = Top(t).lock /\ f.at = "eng_leave"
  BY <1>2, <1>3 DEF To
<1>5. StackStep(t, Rest(t), {Top(t)}, {f})
  BY <1>2, <1>3, Replaced DEF Typed, FrameOK
<1>6. ASSUME NEW u \in Threads, NEW c \in Calls(u), u # t \/ c \in Rest(t) PROVE FrameQuiet(c)'
  <2>1. FrameQuiet(c) /\ c.v # Top(t).v
    BY <1>2, <1>6, AloneOnMachine
  <2>2. ASSUME c.v \in Members PROVE c.v \in Members'
    <3>1. c.v \in live'
      BY <1>1, <2>1, <2>2 DEF Members
    <3> QED BY <1>4, <1>5, <2>2, <3>1, StillMembers
  <2> QED BY <1>1, <2>1, <2>2, StillQuiet
<1>7. FrameQuiet(f)'
  BY <1>1, <1>2, <1>4 DEF FrameQuiet, VmOps
<1>8. ExactStep(t, {Top(t)}, {f})
  BY <1>1, <1>2, <1>3, <1>4, StaysInside DEF ExactStep, Inside
<1>9. wild' = FALSE /\ f.op = Top(t).op
  BY <1>1, <1>2, <1>4 DEF Quiet, Typed, TypeOK
<1> QED BY <1>2, <1>3, <1>4, <1>6, <1>7, <1>8, <1>9, QuietBecomes

(* Nobody else calls at all while an engine is being released. *)
LEMMA AloneOnEngine ==
  ASSUME IInv, Quiet, NEW t \in Threads, Busy(t), Top(t).op = "release"
  PROVE  /\ Rest(t) = {} /\ AllCalls = {Top(t)} /\ Calls(t) = {Top(t)}
         /\ \A u \in Threads : u # t => Calls(u) = {}
<1>1. Typed
  BY DEF IInv
<1>2. Top(t) \in Calls(t) /\ Rest(t) = {} /\ Calls(t) = {Top(t)}
  BY <1>1, StackParts DEF Typed, StackOK
<1>3. ASSUME NEW u \in Threads, u # t, NEW c \in Calls(u) PROVE FALSE
  <2>1. Along(Top(t), c)
    BY <1>2, <1>3 DEF Quiet
  <2> QED BY <2>1 DEF Along
<1>4. AllCalls = {Top(t)}
  BY <1>2, <1>3 DEF AllCalls
<1> QED BY <1>2, <1>3, <1>4

LEMMA ReleaseEngineQuiet ==
  ASSUME IInv, Quiet, NEW t \in Threads, ReleaseEngine(t)
  PROVE  Quiet'
<1>1. /\ At(t, {"release"}, "body") /\ engine' = "stale" /\ Goto(t, "leave")
      /\ wild' = (\E c \in AllCalls : c.op \in VmOps /\ c.at \in {"body", "executing", "leave"})
      /\ UNCHANGED <<gen, list, holder, count, handles>>
  BY DEF ReleaseEngine
<1>2. /\ Typed /\ Sound /\ Busy(t) /\ Top(t).op \in {"release"} /\ Top(t).at = "body"
      /\ FrameOK(Top(t)) /\ FrameQuiet(Top(t))
  BY <1>1, QuietTop
<1>3. PICK f : f = To(Top(t), "leave") /\ FrameOK(f) /\ Becomes(t, f)
  <2>1. FrameOK(To(Top(t), "leave"))
    BY <1>2 DEF FrameOK, To, Frames, Labels, VmOps, EngineOps
  <2> QED BY <1>1, <1>2, <2>1, Relabels DEF Labels
<1>4. f.op = "release" /\ f.v = Top(t).v /\ f.lock = Top(t).lock /\ f.at = "leave"
  BY <1>2, <1>3 DEF To
<1>5. Rest(t) = {} /\ AllCalls = {Top(t)} /\ \A u \in Threads : u # t => Calls(u) = {}
  BY <1>2, AloneOnEngine
<1>6. \A u \in Threads : \A c \in Calls(u) : u # t \/ c \in Rest(t) => FrameQuiet(c)'
  BY <1>5
<1>7. FrameQuiet(f)'
  BY <1>4 DEF FrameQuiet, VmOps
<1>8. ExactStep(t, {Top(t)}, {f})
  BY <1>1, <1>2, <1>3, <1>4, StaysInside DEF ExactStep, Inside
<1>9. wild' = FALSE
  <2>1. \A c \in AllCalls : c.op \notin VmOps
    BY <1>2, <1>5 DEF VmOps
  <2> QED BY <1>1, <2>1
<1> QED BY <1>2, <1>3, <1>4, <1>6, <1>7, <1>8, <1>9, QuietBecomes

LEMMA DestroyEngineQuiet ==
  ASSUME IInv, Quiet, NEW t \in Threads, DestroyEngine(t)
  PROVE  Quiet'
<1>1. /\ At(t, {"release"}, "destroy") /\ Return(t) /\ wild' = (holder[EngineLock] # NULL)
      /\ UNCHANGED <<holder, count>>
  BY DEF DestroyEngine
<1>2. /\ Typed /\ Sound /\ Busy(t) /\ Top(t).op \in {"release"} /\ Top(t).at = "destroy" /\ FrameOK(Top(t))
  BY <1>1, QuietTop
<1>3. /\ Rest(t) = {} /\ AllCalls = {Top(t)} /\ Calls(t) = {Top(t)}
      /\ \A u \in Threads : u # t => Calls(u) = {}
  BY <1>2, AloneOnEngine
<1>4. \A l \in Locks : ~IsHeld(Top(t), l)
  BY <1>2 DEF IsHeld, Inside
<1>5. holder[EngineLock] = NULL
  <2>1. EngineLock \in Locks
    BY DEF EngineLock, Locks
  <2>2. ASSUME NEW u \in Threads PROVE Counted(stack[u], Held(EngineLock)) = 0
    <3>1. Calls(u) \cap Held(EngineLock) = {}
      BY <1>2, <1>3, <1>4, <2>1, HoldsHeld
    <3>2. stack[u] \in Seq(Frames) /\ Calls(u) = FramesOf(stack[u])
      BY <1>2 DEF Typed, TypeOK, Calls, FramesOf
    <3> QED BY <3>1, <3>2, CountsHeld
  <2>3. MutexSound(EngineLock) /\ MutexExact(EngineLock) /\ holder[EngineLock] \in Threads \cup {NULL}
    BY <1>2, <2>1 DEF Sound, Quiet, Typed, TypeOK
  <2> QED BY <2>2, <2>3 DEF MutexSound, MutexExact
<1>6. StackStep(t, Rest(t), {Top(t)}, {})
  BY <1>1, <1>2, Popped DEF Typed
<1>7. ExactStep(t, {Top(t)}, {})
  <2>1. \A l \in Locks : Holds({Top(t)}, Held(l)) = 0 /\ Holds({}, Held(l)) = 0
    BY <1>2, <1>4, HoldsHeld
  <2> QED BY <1>1, <2>1 DEF ExactStep, Kept
<1>8. AllCalls' = {}
  <2>1. Calls(t)' = {} /\ \A u \in Threads : u # t => Calls(u)' = Calls(u)
    BY <1>3, <1>6, CallsAfter DEF StackStep
  <2>2. \A u \in Threads : Calls(u)' = {}
    BY <1>3, <2>1
  <2> QED BY <2>2 DEF AllCalls
<1>9. PICK keep, old, fresh : StackStep(t, keep, old, fresh) /\ ExactStep(t, old, fresh) /\ fresh = {}
  BY <1>6, <1>7
<1>10. /\ wild' = FALSE /\ \A c \in AllCalls' : FrameQuiet(c)'
       /\ \A c \in fresh : \A u \in Threads : u # t => \A d \in Calls(u) : Along(c, d)
  BY <1>1, <1>5, <1>8, <1>9
<1> QED BY <1>2, <1>9, <1>10, QuietAfter

LEMMA SameCallsQuiet ==
  ASSUME Quiet, UNCHANGED <<vm, gen, live, holder, count, stack, wild>>, engine' = engine \/ AllCalls = {}
  PROVE  Quiet'
<1>1. vm' = vm /\ gen' = gen /\ live' = live /\ holder' = holder /\ count' = count /\ stack' = stack /\ wild' = wild
  OBVIOUS
<1>2. (\A t \in Threads : Calls(t)' = Calls(t)) /\ AllCalls' = AllCalls /\ Members' = Members
  <2>1. \A t \in Threads : Calls(t)' = Calls(t)
    BY <1>1 DEF Calls
  <2>2. AllCalls' = AllCalls
    BY <2>1 DEF AllCalls
  <2> QED BY <1>1, <2>1, <2>2 DEF Members
<1>3. \A l \in Locks : MutexExact(l)'
  BY <1>1 DEF Quiet, MutexExact, Held
<1>4. ASSUME NEW c \in AllCalls' PROVE FrameQuiet(c)'
  <2>1. FrameQuiet(c) /\ engine' = engine
    BY <1>2 DEF Quiet
  <2> QED BY <1>1, <1>2, <2>1, StillQuiet
<1>5. \A t, u \in Threads : t # u => \A c \in Calls(t)', d \in Calls(u)' : Along(c, d)
  BY <1>2 DEF Quiet
<1>6. ~wild'
  BY <1>1 DEF Quiet
<1> QED BY <1>3, <1>4, <1>5, <1>6 DEF Quiet, Along
----------------------------------------------------------------------------
LEMMA QuietInit ==
  ASSUME Init
  PROVE  Quiet
<1>1. Typed /\ stack = [t \in Threads |-> << >>]
  BY InvariantInit DEF IInv, Init
<1>2. ASSUME NEW t \in Threads PROVE Calls(t) = {}
  <2>1. stack[t] = << >>
    BY <1>1
  <2> QED BY <2>1 DEF Calls
<1>3. ASSUME NEW l \in Locks, NEW t \in Threads
      PROVE  Counted(stack[t], Held(l)) = (IF holder[l] = t THEN count[l] ELSE 0)
  <2>1. holder[l] = NULL /\ t # NULL
    BY EngineApiAssumption DEF Init
  <2>2. stack[t] \in Seq(Frames) /\ FramesOf(stack[t]) \cap Held(l) = {}
    BY <1>1, <1>2 DEF Typed, TypeOK, Calls, FramesOf
  <2>3. Counted(stack[t], Held(l)) = 0
    BY <2>2, CountsHeld
  <2> QED BY <2>1, <2>3
<1>4. \A l \in Locks : MutexExact(l)
  BY <1>3 DEF MutexExact
<1>5. AllCalls = {} /\ ~wild
  BY <1>2 DEF AllCalls, Init
<1> QED BY <1>2, <1>4, <1>5 DEF Quiet

LEMMA QuietStep ==
  ASSUME ~Racy, IInv, Quiet, [Next]_vars
  PROVE  Quiet'
<1>1. ASSUME NEW t \in Threads, Step(t) PROVE Quiet'
  <2>1. CASE EnterEngine(t) BY <2>1, EnterEngineQuiet
  <2>2. CASE EnterVm(t) BY <2>2, EnterVmQuiet
  <2>3. CASE Configure(t) BY <2>3, ConfigureQuiet
  <2>4. CASE StartCompile(t) BY <2>4, StartCompileQuiet
  <2>5. CASE FailCompile(t) BY <2>5, FailCompileQuiet
  <2>6. CASE FinishCompile(t) BY <2>6, FinishCompileQuiet
  <2>7. CASE StartExec(t) BY <2>7, StartExecQuiet
  <2>8. CASE FinishExec(t) BY <2>8, FinishExecQuiet
  <2>9. CASE Reset(t) BY <2>9, ResetQuiet
  <2>10. CASE ReleaseVm(t) BY <2>10, ReleaseVmQuiet
  <2>11. CASE LeaveCall(t) BY <2>11, LeaveCallQuiet
  <2>12. CASE LeaveReleasedVm(t) BY <2>12, LeaveReleasedVmQuiet
  <2>13. CASE EnterEngineOfVm(t) BY <2>13, EnterEngineOfVmQuiet
  <2>14. CASE UnlinkVm(t) BY <2>14, UnlinkVmQuiet
  <2>15. CASE LeaveEngineOfVm(t) BY <2>15, LeaveEngineOfVmQuiet
  <2>16. CASE ReleaseEngine(t) BY <2>16, ReleaseEngineQuiet
  <2>17. CASE LeaveReleasedEngine(t) BY <2>17, LeaveReleasedEngineQuiet
  <2>18. CASE DestroyEngine(t) BY <2>18, DestroyEngineQuiet
  <2> QED BY <1>1, <2>1, <2>2, <2>3, <2>4, <2>5, <2>6, <2>7, <2>8, <2>9, <2>10, <2>11, <2>12, <2>13,
             <2>14, <2>15, <2>16, <2>17, <2>18 DEF Step
<1>2. ASSUME NEW t \in Threads, NEW op \in EngineOps, CallEngine(t, op) PROVE Quiet'
  BY <1>2, CallEngineQuiet
<1>3. ASSUME NEW t \in Threads, NEW op \in VmOps, NEW v \in Vms, CallVm(t, op, v) PROVE Quiet'
  BY <1>3, CallVmQuiet
<1>4. CASE NewEngine
  BY <1>4, SameCallsQuiet DEF NewEngine
<1>5. CASE UNCHANGED vars
  BY <1>5, SameCallsQuiet DEF vars
<1> QED BY <1>1, <1>2, <1>3, <1>4, <1>5 DEF Next

LEMMA QuietAlways ==
  ASSUME ~Racy
  PROVE  Spec => []Quiet
<1>1. Init => Quiet
  BY QuietInit
<1>2. IInv /\ Quiet /\ [Next]_vars => Quiet'
  BY QuietStep
<1> QED BY <1>1, <1>2, Invariant, PTL DEF Spec

(***************************************************************************)
(* With a host that releases neither an engine nor a machine while somebody*)
(* calls on it, every mutex is held by the calls inside it and as many     *)
(* times, however calls on machines and on the engine nest: no entry point *)
(* returns with a mutex or leaves one it has not got.                      *)
(***************************************************************************)
THEOREM MutexesOfCalls ==
  ASSUME ~Racy
  PROVE  Spec => []LocksOfCalls
<1>1. ASSUME IInv, Quiet PROVE LocksOfCalls
  <2>1. Typed /\ Sound
    BY <1>1 DEF IInv, Quiet
  <2>2. ASSUME NEW l \in Locks, NEW t \in Threads PROVE Entered(t, l) = Counted(stack[t], Held(l))
    <3>1. \A i \in DOMAIN stack[t] : stack[t][i] \in Frames
      BY <2>1 DEF Typed, TypeOK
    <3>2. {i \in DOMAIN stack[t] : \/ stack[t][i].lock = l /\ stack[t][i].at \in Inside
                                   \/ l = EngineLock /\ stack[t][i].at \in {"unlink", "eng_leave"}}
            = {i \in DOMAIN stack[t] : stack[t][i] \in Held(l)}
      BY <3>1 DEF Held
    <3> QED BY <3>2 DEF Entered, Counted
  <2>3. ASSUME NEW l \in Locks
        PROVE  /\ holder[l] = NULL => count[l] = 0
               /\ \A t \in Threads : Entered(t, l) = (IF holder[l] = t THEN count[l] ELSE 0)
    BY <1>1, <2>1, <2>2 DEF Sound, MutexSound, Quiet, MutexExact
  <2> QED BY <2>3 DEF LocksOfCalls
<1>2. IInv /\ Quiet => LocksOfCalls
  BY <1>1
<1> QED BY <1>2, Invariant, QuietAlways, PTL
=============================================================================
