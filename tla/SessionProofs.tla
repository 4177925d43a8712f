--------------------------- MODULE SessionProofs ---------------------------
(***************************************************************************)
(* Theorems about Session: what includes, eval() and callbacks change is   *)
(* put back however they end, and no chunk of output is lost, given twice  *)
(* or out of order but where the code says so.                             *)
(*                                                                         *)
(* The stack of frames is read from the outermost frame on.  IInv says of  *)
(* it that the chunks' containers are stacked like the frames, that the    *)
(* files of its included files are those being executed, and how many      *)
(* callbacks of buffers it holds.  Tidy says where the chunks of output    *)
(* are, and that a callback that holds one of the script's own runs under  *)
(* no other and has nothing of the script's own in a buffer above its own. *)
(***************************************************************************)
EXTENDS Session, FiniteSetTheorems, SequenceTheorems, TLAPS

FileNames == {Main} \cup {Name(f) : f \in Files} \cup {Path(f) : f \in Files}
Kinds == {"main", "chunk", "ob", "call"}
Todos == {"run", "abort", "warn", "warnabort"}
Flags == {"WARNING"} \cup {o[1] : o \in Options}
AnyFrame ==
  [kind : Kinds, file : FileNames \cup {None}, then : Todos \cup {"assert"},
   saved : Nat, slot : Nat, base : Nat, data : Seq(Nat), set : SUBSET Flags]
FrameRecords ==
  {e \in AnyFrame : /\ e.kind # "chunk" => e.then \in Todos
                    /\ IF e.kind = "ob" THEN Len(e.data) = 1 /\ e.slot >= 1 ELSE e.data = << >>}
OfFile == {e \in FrameRecords : e.kind = "chunk" /\ e.file # None}
OfBuffer == {e \in FrameRecords : e.kind = "ob"}
----------------------------------------------------------------------------
(* Sequences.  The frames are taken from the outermost, as a stack s.      *)

LEMMA AppendFacts ==
  ASSUME NEW S, NEW s \in Seq(S), NEW e \in S
  PROVE  /\ Append(s, e) \in Seq(S) /\ Len(Append(s, e)) = Len(s) + 1
         /\ Append(s, e)[Len(s) + 1] = e
         /\ \A i \in 1 .. Len(s) : Append(s, e)[i] = s[i]
  OBVIOUS

LEMMA FrontFacts ==
  ASSUME NEW S, NEW s \in Seq(S), Len(s) > 0
  PROVE  /\ Front(s) \in Seq(S) /\ Len(Front(s)) = Len(s) - 1 /\ Len(s) - 1 \in Nat
         /\ Last(s) \in S /\ Last(s) = s[Len(s)]
         /\ \A i \in 1 .. Len(s) - 1 : Front(s)[i] = s[i]
<1> DEFINE n == Len(s) - 1
<1>1. Len(s) \in Nat /\ n \in Nat /\ n \in Int /\ 1 \in Int /\ \A i \in 1 .. n : s[i] \in S
  OBVIOUS
<1>2. Front(s) = SubSeq(s, 1, n)
  BY DEF Front
<1> HIDE DEF n
<1>3. SubSeq(s, 1, n) \in Seq(S) /\ Len(SubSeq(s, 1, n)) = IF 1 <= n THEN n - 1 + 1 ELSE 0
  BY <1>1, SubSeqProperties
<1>4. Front(s) \in Seq(S) /\ Len(Front(s)) = n
  BY <1>1, <1>2, <1>3
<1>5. \A i \in 1 .. Len(s) - 1 : Front(s)[i] = s[i]
  BY <1>1 DEF Front
<1>6. Last(s) \in S /\ Last(s) = s[Len(s)]
  BY <1>1 DEF Last
<1> QED
  BY <1>1, <1>4, <1>5, <1>6 DEF n

LEMMA ReverseFacts ==
  ASSUME NEW S, NEW s \in Seq(S)
  PROVE  /\ Reverse(s) \in Seq(S) /\ Len(Reverse(s)) = Len(s)
         /\ \A i \in 1 .. Len(s) : Reverse(s)[i] = s[Len(s) + 1 - i]
<1>1. Len(s) \in Nat
  OBVIOUS
<1>2. \A i \in 1 .. Len(s) : (Len(s) - i) + 1 \in 1 .. Len(s) /\ (Len(s) - i) + 1 = Len(s) + 1 - i
  BY <1>1
<1> QED
  BY <1>1, <1>2 DEF Reverse

(* A frame that begins goes on top of the stack, one that ends leaves it. *)
LEMMA ReversePushed ==
  ASSUME NEW S, NEW s \in Seq(S), NEW e \in S
  PROVE  /\ <<e>> \o s \in Seq(S) /\ Len(<<e>> \o s) = Len(s) + 1
         /\ Reverse(<<e>> \o s) = Append(Reverse(s), e)
<1> DEFINE t == <<e>> \o s
           r == Append(Reverse(s), e)
<1>1. t \in Seq(S) /\ Len(t) = Len(s) + 1 /\ t[1] = e /\ Len(s) \in Nat
      /\ \A i \in 1 .. Len(s) : t[i + 1] = s[i]
  OBVIOUS
<1>2. Reverse(s) \in Seq(S) /\ Len(Reverse(s)) = Len(s) /\ \A i \in 1 .. Len(s) : Reverse(s)[i] = s[Len(s) + 1 - i]
  BY ReverseFacts
<1>3. r \in Seq(S) /\ Len(r) = Len(s) + 1 /\ r[Len(s) + 1] = e /\ \A i \in 1 .. Len(s) : r[i] = Reverse(s)[i]
  BY <1>2, AppendFacts
<1> HIDE DEF t, r
<1>4. Reverse(t) \in Seq(S) /\ Len(Reverse(t)) = Len(s) + 1
      /\ \A i \in 1 .. Len(s) + 1 : Reverse(t)[i] = t[Len(s) + 2 - i]
  BY <1>1, ReverseFacts
<1>5. ASSUME NEW i \in 1 .. Len(s) + 1 PROVE Reverse(t)[i] = r[i]
  <2>1. CASE i = Len(s) + 1
    BY <1>1, <1>3, <1>4, <2>1
  <2>2. CASE i # Len(s) + 1
    <3>1. i \in 1 .. Len(s) /\ Len(s) + 1 - i \in 1 .. Len(s) /\ Len(s) + 2 - i = (Len(s) + 1 - i) + 1
      BY <1>1, <2>2
    <3>2. t[Len(s) + 2 - i] = s[Len(s) + 1 - i]
      BY <1>1, <3>1
    <3> QED
      BY <1>2, <1>3, <1>4, <3>1, <3>2
  <2> QED
    BY <2>1, <2>2
<1>6. Reverse(t) = r
  BY <1>3, <1>4, <1>5, SeqEqual
<1> QED
  BY <1>1, <1>6 DEF t, r

LEMMA ReversePopped ==
  ASSUME NEW S, NEW s \in Seq(S), s # << >>
  PROVE  /\ Tail(s) \in Seq(S) /\ Head(s) \in S /\ Len(s) > 0 /\ Len(Tail(s)) = Len(s) - 1
         /\ Reverse(Tail(s)) = Front(Reverse(s)) /\ Head(s) = Last(Reverse(s))
<1>1. /\ Len(s) \in Nat /\ Len(s) > 0 /\ Head(s) = s[1] /\ Head(s) \in S /\ Tail(s) \in Seq(S)
      /\ Len(Tail(s)) = Len(s) - 1 /\ \A i \in 1 .. Len(s) - 1 : Tail(s)[i] = s[i + 1]
  OBVIOUS
<1>2. Reverse(s) \in Seq(S) /\ Len(Reverse(s)) = Len(s) /\ \A i \in 1 .. Len(s) : Reverse(s)[i] = s[Len(s) + 1 - i]
  BY ReverseFacts
<1>3. /\ Front(Reverse(s)) \in Seq(S) /\ Len(Front(Reverse(s))) = Len(s) - 1
      /\ Last(Reverse(s)) = Reverse(s)[Len(s)]
      /\ \A i \in 1 .. Len(s) - 1 : Front(Reverse(s))[i] = Reverse(s)[i]
  <2> DEFINE r == Reverse(s)
  <2>1. r \in Seq(S) /\ Len(r) = Len(s) /\ Len(r) > 0
    BY <1>1, <1>2
  <2> HIDE DEF r
  <2>2. /\ Front(r) \in Seq(S) /\ Len(Front(r)) = Len(r) - 1 /\ Last(r) = r[Len(r)]
        /\ \A i \in 1 .. Len(r) - 1 : Front(r)[i] = r[i]
    BY <2>1, FrontFacts
  <2>3. /\ Front(r) \in Seq(S) /\ Len(Front(r)) = Len(s) - 1 /\ Last(r) = r[Len(s)]
        /\ \A i \in 1 .. Len(s) - 1 : Front(r)[i] = r[i]
    BY <2>1, <2>2
  <2> QED
    BY <2>3 DEF r
<1>4. /\ Reverse(Tail(s)) \in Seq(S) /\ Len(Reverse(Tail(s))) = Len(s) - 1
      /\ \A i \in 1 .. Len(s) - 1 : Reverse(Tail(s))[i] = Tail(s)[Len(s) - i]
  <2>1. /\ Reverse(Tail(s)) \in Seq(S) /\ Len(Reverse(Tail(s))) = Len(Tail(s))
        /\ \A i \in 1 .. Len(Tail(s)) : Reverse(Tail(s))[i] = Tail(s)[Len(Tail(s)) + 1 - i]
    BY <1>1, ReverseFacts
  <2>2. \A i \in 1 .. Len(s) - 1 : Len(s) - 1 + 1 - i = Len(s) - i
    BY <1>1
  <2> QED
    BY <1>1, <2>1, <2>2
<1>5. ASSUME NEW i \in 1 .. Len(s) - 1 PROVE Reverse(Tail(s))[i] = Front(Reverse(s))[i]
  <2>1. i \in 1 .. Len(s) /\ Len(s) - i \in 1 .. Len(s) - 1 /\ Len(s) + 1 - i = (Len(s) - i) + 1
    BY <1>1
  <2>2. Tail(s)[Len(s) - i] = s[Len(s) + 1 - i]
    BY <1>1, <2>1
  <2> QED
    BY <1>2, <1>3, <1>4, <2>1, <2>2
<1>6. Reverse(Tail(s)) = Front(Reverse(s))
  BY <1>3, <1>4, <1>5, SeqEqual
<1>7. Head(s) = Last(Reverse(s))
  <2>1. Len(s) \in 1 .. Len(s) /\ Len(s) + 1 - Len(s) = 1
    BY <1>1
  <2> QED
    BY <1>1, <1>2, <1>3, <2>1
<1> QED
  BY <1>1, <1>6, <1>7
----------------------------------------------------------------------------
(* How many of the first k entries of a stack are in E.                    *)

Num(s, k, E) == Cardinality({h \in 1 .. k : s[h] \in E})

LEMMA NumType ==
  ASSUME NEW s, NEW k \in Nat, NEW E
  PROVE  IsFiniteSet({h \in 1 .. k : s[h] \in E}) /\ Num(s, k, E) \in Nat
<1>1. IsFiniteSet(1 .. k)
  BY FS_Interval
<1>2. IsFiniteSet({h \in 1 .. k : s[h] \in E})
  BY <1>1, FS_Subset
<1> QED
  BY <1>2, FS_CardinalityType DEF Num

LEMMA NumStep ==
  ASSUME NEW s, NEW k \in Nat, NEW E
  PROVE  Num(s, k + 1, E) = Num(s, k, E) + IF s[k + 1] \in E THEN 1 ELSE 0
<1> DEFINE A == {h \in 1 .. k : s[h] \in E}
           B == {h \in 1 .. k + 1 : s[h] \in E}
<1>0. IsFiniteSet(A) /\ Num(s, k, E) \in Nat
  BY NumType
<1>1. IsFiniteSet(A) /\ Cardinality(A) \in Nat /\ k + 1 \notin A
  BY <1>0 DEF Num
<1>2. B = IF s[k + 1] \in E THEN A \cup {k + 1} ELSE A
  OBVIOUS
<1>3. Cardinality(A \cup {k + 1}) = Cardinality(A) + 1
  BY <1>1, FS_AddElement
<1>4. Num(s, k + 1, E) = Cardinality(B) /\ Num(s, k, E) = Cardinality(A)
  BY DEF Num
<1> HIDE DEF A, B
<1> QED
  BY <1>1, <1>2, <1>3, <1>4

LEMMA NumSame ==
  ASSUME NEW s, NEW t, NEW k \in Nat, \A h \in 1 .. k : s[h] = t[h], NEW E
  PROVE  Num(s, k, E) = Num(t, k, E)
<1>1. {h \in 1 .. k : s[h] \in E} = {h \in 1 .. k : t[h] \in E}
  OBVIOUS
<1> QED
  BY <1>1 DEF Num

LEMMA NumGrows ==
  ASSUME NEW s, NEW k \in Nat, NEW m \in Nat, k <= m, NEW E
  PROVE  Num(s, k, E) <= Num(s, m, E)
<1>1. {h \in 1 .. k : s[h] \in E} \in SUBSET {h \in 1 .. m : s[h] \in E}
  OBVIOUS
<1>2. IsFiniteSet({h \in 1 .. m : s[h] \in E})
  BY NumType
<1>3. Cardinality({h \in 1 .. k : s[h] \in E}) <= Cardinality({h \in 1 .. m : s[h] \in E})
  BY <1>1, <1>2, FS_Subset, Zenon
<1> QED
  BY <1>3 DEF Num
LEMMA NumBounds ==
  ASSUME NEW s, NEW k \in Nat, NEW m \in Nat, k < m, NEW E, s[m] \in E
  PROVE  Num(s, k, E) < Num(s, m, E)
<1>1. m - 1 \in Nat /\ k <= m - 1 /\ (m - 1) + 1 = m
  OBVIOUS
<1>2. Num(s, (m - 1) + 1, E) = Num(s, m - 1, E) + IF s[(m - 1) + 1] \in E THEN 1 ELSE 0
  BY <1>1, NumStep
<1>3. Num(s, m, E) = Num(s, m - 1, E) + 1
  BY <1>1, <1>2
<1>4. Num(s, k, E) <= Num(s, m - 1, E)
  BY <1>1, NumGrows
<1>5. Num(s, k, E) \in Nat /\ Num(s, m - 1, E) \in Nat
  BY <1>1, NumType
<1> QED
  BY <1>3, <1>4, <1>5

LEMMA NumPush ==
  ASSUME NEW S, NEW s \in Seq(S), NEW e \in S, NEW E
  PROVE  /\ \A k \in 0 .. Len(s) : Num(Append(s, e), k, E) = Num(s, k, E)
         /\ Num(Append(s, e), Len(s) + 1, E) = Num(s, Len(s), E) + IF e \in E THEN 1 ELSE 0
<1> DEFINE t == Append(s, e)
<1>1. Len(s) \in Nat /\ t[Len(s) + 1] = e /\ \A i \in 1 .. Len(s) : t[i] = s[i]
  BY AppendFacts
<1> HIDE DEF t
<1>2. ASSUME NEW k \in 0 .. Len(s) PROVE Num(t, k, E) = Num(s, k, E)
  <2>1. k \in Nat /\ \A h \in 1 .. k : t[h] = s[h]
    BY <1>1
  <2> QED
    BY <2>1, NumSame
<1>3. Num(t, Len(s) + 1, E) = Num(t, Len(s), E) + IF t[Len(s) + 1] \in E THEN 1 ELSE 0
  BY <1>1, NumStep
<1>4. Num(t, Len(s), E) = Num(s, Len(s), E)
  BY <1>1, <1>2
<1>5. Num(t, Len(s) + 1, E) = Num(s, Len(s), E) + IF e \in E THEN 1 ELSE 0
  BY <1>1, <1>3, <1>4
<1> QED
  BY <1>2, <1>5 DEF t

LEMMA NumPop ==
  ASSUME NEW S, NEW s \in Seq(S), Len(s) > 0, NEW E
  PROVE  /\ \A k \in 0 .. Len(s) - 1 : Num(Front(s), k, E) = Num(s, k, E)
         /\ Num(s, Len(s), E) = Num(s, Len(s) - 1, E) + IF Last(s) \in E THEN 1 ELSE 0
<1> DEFINE t == Front(s)
           n == Len(s) - 1
<1>1. Len(s) \in Nat /\ n \in Nat /\ n + 1 = Len(s) /\ Last(s) = s[n + 1] /\ \A i \in 1 .. n : t[i] = s[i]
  BY FrontFacts
<1> HIDE DEF t, n
<1>2. ASSUME NEW k \in 0 .. n PROVE Num(t, k, E) = Num(s, k, E)
  <2>1. k \in Nat /\ \A h \in 1 .. k : t[h] = s[h]
    BY <1>1
  <2> QED
    BY <2>1, NumSame
<1>3. Num(s, n + 1, E) = Num(s, n, E) + IF s[n + 1] \in E THEN 1 ELSE 0
  BY <1>1, NumStep
<1>4. Num(s, Len(s), E) = Num(s, n, E) + IF Last(s) \in E THEN 1 ELSE 0
  BY <1>1, <1>3
<1> QED
  BY <1>2, <1>4 DEF t, n
----------------------------------------------------------------------------
(* The files are those of the chunks, and the container that of the        *)
(* innermost one, which saved the container of the chunk below it.         *)

FilesExact(s, a) ==
  /\ Len(a) = 1 + Num(s, Len(s), OfFile) /\ a[1] = Main
  /\ \A h \in 1 .. Len(s) : s[h] \in OfFile => a[1 + Num(s, h, OfFile)] = s[h].file

IsTop(s, k, c) ==
  \/ c = 1 /\ \A h \in 1 .. k : s[h].kind # "chunk"
  \/ c \in 1 .. k /\ s[c].kind = "chunk" /\ \A h \in 1 .. k : s[h].kind = "chunk" => h <= c

Saves(s, c) ==
  /\ IsTop(s, Len(s), c)
  /\ \A h \in 1 .. Len(s) : s[h].kind = "chunk" => IsTop(s, h - 1, s[h].saved)

FilesFit(s, a, exact) ==
  /\ a \in Seq(FileNames) /\ Len(a) >= 1 + Num(s, Len(s), OfFile)
  /\ exact => FilesExact(s, a)

Sound(s, a, exact, c, n) ==
  FilesFit(s, a, exact) /\ Saves(s, c) /\ n = Num(s, Len(s), OfBuffer)

LEMMA TopSame ==
  ASSUME NEW s, NEW t, NEW k \in Nat, NEW c, \A h \in 1 .. k : s[h] = t[h], IsTop(s, k, c)
  PROVE  IsTop(t, k, c)
  BY DEF IsTop

LEMMA TopPush ==
  ASSUME NEW s, NEW k \in Nat, NEW c \in Nat, IsTop(s, k, c)
  PROVE  IsTop(s, k + 1, IF s[k + 1].kind = "chunk" THEN k + 1 ELSE c)
  BY DEF IsTop

LEMMA TopPop ==
  ASSUME NEW s, NEW k \in Nat, NEW c, IsTop(s, k + 1, c), s[k + 1].kind # "chunk"
  PROVE  IsTop(s, k, c)
  BY DEF IsTop

LEMMA SavesPush ==
  ASSUME NEW s \in Seq(FrameRecords), NEW e \in FrameRecords, NEW c \in Nat, Saves(s, c),
         e.kind = "chunk" => e.saved = c
  PROVE  Saves(Append(s, e), IF e.kind = "chunk" THEN Len(s) + 1 ELSE c)
<1> DEFINE t == Append(s, e)
           n == Len(s)
<1>1. n \in Nat /\ Len(t) = n + 1 /\ t[n + 1] = e /\ \A i \in 1 .. n : t[i] = s[i]
  BY AppendFacts
<1>2. IsTop(s, n, c) /\ \A h \in 1 .. n : s[h].kind = "chunk" => IsTop(s, h - 1, s[h].saved)
  BY DEF Saves
<1> HIDE DEF t, n
<1>3. IsTop(t, n, c)
  BY <1>1, <1>2, TopSame
<1>4. IsTop(t, n + 1, IF t[n + 1].kind = "chunk" THEN n + 1 ELSE c)
  BY <1>1, <1>3, TopPush
<1>5. ASSUME NEW h \in 1 .. n + 1, t[h].kind = "chunk" PROVE IsTop(t, h - 1, t[h].saved)
  <2>1. CASE h = n + 1
    <3>1. h - 1 = n /\ t[h].saved = c
      BY <1>1, <1>5, <2>1
    <3> QED
      BY <1>3, <3>1
  <2>2. CASE h # n + 1
    <3>1. h \in 1 .. n /\ h - 1 \in Nat /\ t[h] = s[h] /\ \A i \in 1 .. h - 1 : s[i] = t[i]
      BY <1>1, <2>2
    <3>2. IsTop(s, h - 1, s[h].saved)
      BY <1>2, <1>5, <3>1
    <3>3. IsTop(t, h - 1, s[h].saved)
      BY <3>1, <3>2, TopSame
    <3> QED
      BY <3>1, <3>3
  <2> QED
    BY <2>1, <2>2
<1>6. Saves(t, IF e.kind = "chunk" THEN n + 1 ELSE c)
  BY <1>1, <1>4, <1>5 DEF Saves
<1> QED
  BY <1>6 DEF t, n

LEMMA SavesPop ==
  ASSUME NEW s \in Seq(FrameRecords), Len(s) > 0, NEW c, Saves(s, c)
  PROVE  Saves(Front(s), IF Last(s).kind = "chunk" THEN Last(s).saved ELSE c)
<1> DEFINE t == Front(s)
           n == Len(s) - 1
<1>1. n \in Nat /\ n + 1 = Len(s) /\ n + 1 \in 1 .. Len(s) /\ (n + 1) - 1 = n
      /\ Len(t) = n /\ Last(s) = s[n + 1] /\ \A i \in 1 .. n : s[i] = t[i]
  BY FrontFacts
<1>2. IsTop(s, n + 1, c) /\ \A h \in 1 .. n + 1 : s[h].kind = "chunk" => IsTop(s, h - 1, s[h].saved)
  BY <1>1 DEF Saves
<1> HIDE DEF t, n
<1>3. IsTop(s, n, IF s[n + 1].kind = "chunk" THEN s[n + 1].saved ELSE c)
  <2>1. CASE s[n + 1].kind = "chunk"
    <3>1. n + 1 \in 1 .. n + 1
      BY <1>1
    <3>2. IsTop(s, (n + 1) - 1, s[n + 1].saved)
      BY <1>2, <2>1, <3>1
    <3> QED
      BY <1>1, <2>1, <3>2
  <2>2. CASE s[n + 1].kind # "chunk"
    <3>1. IsTop(s, n, c)
      BY <1>1, <1>2, <2>2, TopPop
    <3> QED
      BY <2>2, <3>1
  <2> QED
    BY <2>1, <2>2
<1>4. IsTop(t, n, IF s[n + 1].kind = "chunk" THEN s[n + 1].saved ELSE c)
  BY <1>1, <1>3, TopSame
<1>5. ASSUME NEW h \in 1 .. n, t[h].kind = "chunk" PROVE IsTop(t, h - 1, t[h].saved)
  <2>1. h \in 1 .. n + 1 /\ h - 1 \in Nat /\ t[h] = s[h] /\ \A i \in 1 .. h - 1 : s[i] = t[i]
    BY <1>1
  <2>2. IsTop(s, h - 1, s[h].saved)
    BY <1>2, <1>5, <2>1
  <2>3. IsTop(t, h - 1, s[h].saved)
    BY <2>1, <2>2, TopSame
  <2> QED
    BY <2>1, <2>3
<1>6. Saves(t, IF Last(s).kind = "chunk" THEN Last(s).saved ELSE c)
  BY <1>1, <1>4, <1>5 DEF Saves
<1> QED
  BY <1>6 DEF t

LEMMA ConcatFacts ==
  ASSUME NEW S, NEW a \in Seq(S), NEW b \in Seq(S)
  PROVE  /\ a \o b \in Seq(S) /\ Len(a \o b) = Len(a) + Len(b)
         /\ \A i \in 1 .. Len(a) : (a \o b)[i] = a[i]
         /\ \A i \in 1 .. Len(b) : (a \o b)[Len(a) + i] = b[i]
  OBVIOUS

(* A name found along the import path leaves its path behind.              *)
LEMMA FilesGrow ==
  ASSUME NEW s \in Seq(FrameRecords), NEW a, NEW exact \in BOOLEAN, FilesFit(s, a, exact),
         NEW more \in Seq(FileNames), NEW still \in BOOLEAN, still => exact /\ more = << >>
  PROVE  FilesFit(s, a \o more, still)
<1> DEFINE n == Num(s, Len(s), OfFile)
<1>1. a \in Seq(FileNames) /\ Len(a) >= 1 + n /\ n \in Nat
  <2>1. Len(s) \in Nat
    OBVIOUS
  <2> QED
    BY <2>1, NumType DEF FilesFit
<1> HIDE DEF n
<1>2. a \o more \in Seq(FileNames) /\ Len(a \o more) >= 1 + n
  BY <1>1, ConcatFacts
<1>3. ASSUME still PROVE FilesExact(s, a \o more)
  <2>1. a \o more = a
    BY <1>1, <1>3
  <2> QED
    BY <1>3, <2>1 DEF FilesFit
<1> QED
  BY <1>2, <1>3 DEF FilesFit, n

LEMMA FilesPushOther ==
  ASSUME NEW s \in Seq(FrameRecords), NEW a, NEW exact \in BOOLEAN, FilesFit(s, a, exact),
         NEW e \in FrameRecords, e \notin OfFile
  PROVE  FilesFit(Append(s, e), a, exact)
<1> DEFINE t == Append(s, e)
           n == Len(s)
<1>1. n \in Nat /\ Len(t) = n + 1 /\ t[n + 1] = e /\ \A i \in 1 .. n : t[i] = s[i]
  BY AppendFacts
<1>2. /\ \A k \in 0 .. n : Num(t, k, OfFile) = Num(s, k, OfFile)
      /\ Num(t, n + 1, OfFile) = Num(s, n, OfFile) + IF e \in OfFile THEN 1 ELSE 0
  BY NumPush
<1>3. Num(s, n, OfFile) \in Nat
  BY <1>1, NumType
<1>4. a \in Seq(FileNames) /\ Len(a) >= 1 + Num(s, n, OfFile) /\ (exact => FilesExact(s, a))
  BY DEF FilesFit
<1> HIDE DEF t
<1>5. Num(t, n + 1, OfFile) = Num(s, n, OfFile)
  BY <1>2, <1>3
<1>6. ASSUME exact PROVE FilesExact(t, a)
  <2>1. FilesExact(s, a)
    BY <1>4, <1>6
  <2>2. ASSUME NEW h \in 1 .. n + 1, t[h] \in OfFile PROVE a[1 + Num(t, h, OfFile)] = t[h].file
    <3>1. h \in 1 .. n /\ t[h] = s[h] /\ h \in 0 .. n
      BY <1>1, <2>2
    <3> QED
      BY <1>2, <2>1, <2>2, <3>1 DEF FilesExact
  <2> QED
    BY <1>1, <1>5, <2>1, <2>2 DEF FilesExact
<1> QED
  BY <1>1, <1>4, <1>5, <1>6 DEF FilesFit, t

LEMMA FilesPush ==
  ASSUME NEW s \in Seq(FrameRecords), NEW a, NEW exact \in BOOLEAN, FilesFit(s, a, exact),
         NEW e \in OfFile, NEW more \in Seq(FileNames), Len(more) >= 1,
         NEW still \in BOOLEAN, still => exact /\ more = <<e.file>>
  PROVE  FilesFit(Append(s, e), a \o more, still)
<1> DEFINE t == Append(s, e)
           n == Len(s)
           b == a \o more
           N(h) == Num(s, h, OfFile)
           M(h) == Num(t, h, OfFile)
<1>0. e \in FrameRecords
  BY DEF OfFile
<1>1. n \in Nat /\ Len(t) = n + 1 /\ t[n + 1] = e /\ \A i \in 1 .. n : t[i] = s[i]
  BY <1>0, AppendFacts
<1>2. (\A k \in 0 .. n : M(k) = N(k)) /\ M(n + 1) = N(n) + 1
  BY <1>0, NumPush
<1>3. /\ \A h \in 0 .. n : N(h) \in Nat /\ N(h) <= N(n)
  <2> SUFFICES ASSUME NEW h \in 0 .. n PROVE N(h) \in Nat /\ N(h) <= N(n)
    OBVIOUS
  <2>1. h \in Nat /\ h <= n
    BY <1>1
  <2> QED
    BY <1>1, <2>1, NumType, NumGrows
<1>4. a \in Seq(FileNames) /\ Len(a) >= 1 + N(n) /\ (exact => FilesExact(s, a))
  BY DEF FilesFit
<1>5. /\ b \in Seq(FileNames) /\ Len(b) = Len(a) + Len(more)
      /\ \A i \in 1 .. Len(a) : b[i] = a[i]
      /\ \A i \in 1 .. Len(more) : b[Len(a) + i] = more[i]
  BY <1>4, ConcatFacts
<1>6. N(n) \in Nat /\ Len(a) \in Nat /\ Len(more) \in Nat
  BY <1>1, <1>3, <1>4
<1>7. ASSUME still PROVE FilesExact(t, b)
  <2>1. /\ Len(a) = 1 + N(n) /\ a[1] = Main
        /\ \A h \in 1 .. n : s[h] \in OfFile => a[1 + N(h)] = s[h].file
    BY <1>4, <1>7 DEF FilesExact
  <2>2. Len(more) = 1 /\ more[1] = e.file
    BY <1>7
  <2> HIDE DEF t, b, N, M, n
  <2>3. Len(b) = 1 + M(n + 1) /\ b[1] = Main /\ b[Len(a) + 1] = e.file
    BY <1>2, <1>5, <1>6, <2>1, <2>2
  <2>4. ASSUME NEW h \in 1 .. n + 1, t[h] \in OfFile PROVE b[1 + M(h)] = t[h].file
    <3>1. CASE h = n + 1
      <4>1. 1 + M(h) = Len(a) + 1 /\ t[h] = e
        BY <1>1, <1>2, <1>6, <2>1, <3>1
      <4> QED
        BY <2>3, <4>1
    <3>2. CASE h # n + 1
      <4>1. h \in 1 .. n /\ h \in 0 .. n /\ t[h] = s[h]
        BY <1>1, <3>2
      <4>2. M(h) = N(h) /\ N(h) \in Nat /\ N(h) <= N(n)
        BY <1>2, <1>3, <4>1
      <4>3. 1 + N(h) \in 1 .. Len(a)
        BY <1>6, <2>1, <4>2
      <4> QED
        BY <1>5, <2>1, <2>4, <4>1, <4>2, <4>3
    <3> QED
      BY <3>1, <3>2
  <2> QED
    BY <1>1, <2>3, <2>4 DEF FilesExact, M
<1> HIDE DEF t, b, n
<1>8. Len(b) >= 1 + M(n + 1)
  BY <1>2, <1>4, <1>5, <1>6
<1>9. FilesFit(t, b, still)
  BY <1>1, <1>5, <1>7, <1>8 DEF FilesFit
<1> QED
  BY <1>9 DEF t, b

LEMMA FilesPop ==
  ASSUME NEW s \in Seq(FrameRecords), Len(s) > 0, NEW a, NEW exact \in BOOLEAN, FilesFit(s, a, exact)
  PROVE  FilesFit(Front(s), IF Last(s) \in OfFile THEN Front(a) ELSE a, exact)
<1> DEFINE t == Front(s)
           n == Len(s) - 1
           b == IF Last(s) \in OfFile THEN Front(a) ELSE a
           d == IF Last(s) \in OfFile THEN 1 ELSE 0
           N(h) == Num(s, h, OfFile)
           M(h) == Num(t, h, OfFile)
<1>1. n \in Nat /\ n + 1 = Len(s) /\ Len(t) = n /\ \A i \in 1 .. n : t[i] = s[i]
  BY FrontFacts
<1>2. (\A k \in 0 .. n : M(k) = N(k)) /\ N(Len(s)) = N(n) + d
  BY NumPop
<1>3. /\ \A h \in 0 .. n : N(h) \in Nat /\ N(h) <= N(n)
  <2> SUFFICES ASSUME NEW h \in 0 .. n PROVE N(h) \in Nat /\ N(h) <= N(n)
    OBVIOUS
  <2>1. h \in Nat /\ h <= n
    BY <1>1
  <2> QED
    BY <1>1, <2>1, NumType, NumGrows
<1>4. a \in Seq(FileNames) /\ Len(a) >= 1 + N(Len(s)) /\ (exact => FilesExact(s, a))
  BY DEF FilesFit
<1>5. N(n) \in Nat /\ Len(a) \in Nat /\ d \in {0, 1} /\ n \in 0 .. n
  BY <1>1, <1>3, <1>4
<1>6. b \in Seq(FileNames) /\ Len(b) = Len(a) - d /\ \A i \in 1 .. Len(a) - d : b[i] = a[i]
  <2>1. CASE Last(s) \in OfFile
    <3>1. Len(a) > 0
      BY <1>2, <1>4, <1>5
    <3>2. Front(a) \in Seq(FileNames) /\ Len(Front(a)) = Len(a) - 1 /\ \A i \in 1 .. Len(a) - 1 : Front(a)[i] = a[i]
      BY <1>4, <3>1, FrontFacts
    <3> QED
      BY <2>1, <3>2
  <2>2. CASE Last(s) \notin OfFile
    BY <1>4, <1>5, <2>2
  <2> QED
    BY <2>1, <2>2
<1> HIDE DEF t, b, n, d, N
<1>7. ASSUME exact PROVE FilesExact(t, b)
  <2>1. /\ Len(a) = 1 + N(n) + d /\ a[1] = Main
        /\ \A h \in 1 .. Len(s) : s[h] \in OfFile => a[1 + N(h)] = s[h].file
    BY <1>2, <1>4, <1>5, <1>7 DEF FilesExact, N
  <2> HIDE DEF M
  <2>2. Len(b) = 1 + M(n) /\ b[1] = Main
    BY <1>2, <1>5, <1>6, <2>1
  <2>3. ASSUME NEW h \in 1 .. n, t[h] \in OfFile PROVE b[1 + M(h)] = t[h].file
    <3>1. h \in 1 .. Len(s) /\ h \in 0 .. n /\ t[h] = s[h]
      BY <1>1
    <3>2. M(h) = N(h) /\ N(h) \in Nat /\ N(h) <= N(n)
      BY <1>2, <1>3, <3>1
    <3>3. 1 + N(h) \in 1 .. Len(a) - d
      BY <1>5, <2>1, <3>2
    <3> QED
      BY <1>6, <2>1, <2>3, <3>1, <3>2, <3>3
  <2> QED
    BY <1>1, <2>2, <2>3 DEF FilesExact, M
<1>8. Len(b) >= 1 + M(n)
  BY <1>2, <1>4, <1>5, <1>6
<1>9. FilesFit(t, b, exact)
  BY <1>1, <1>6, <1>7, <1>8 DEF FilesFit
<1> QED
  BY <1>9 DEF t, b

LEMMA SoundPush ==
  ASSUME NEW s \in Seq(FrameRecords), NEW e \in FrameRecords, NEW a, NEW exact \in BOOLEAN,
         NEW c \in Nat, NEW n \in Nat, Sound(s, a, exact, c, n), e.kind = "chunk" => e.saved = c,
         NEW more \in Seq(FileNames), e \in OfFile => Len(more) >= 1,
         NEW still \in BOOLEAN, still => exact /\ more = (IF e \in OfFile THEN <<e.file>> ELSE << >>)
  PROVE  Sound(Append(s, e), a \o more, still, IF e.kind = "chunk" THEN Len(s) + 1 ELSE c,
               n + IF e.kind = "ob" THEN 1 ELSE 0)
<1>1. FilesFit(Append(s, e), a \o more, still)
  <2>1. FilesFit(s, a, exact)
    BY DEF Sound
  <2>2. CASE e \in OfFile
    <3>1. still => exact /\ more = <<e.file>>
      BY <2>2
    <3> QED
      BY <2>1, <2>2, <3>1, FilesPush
  <2>3. CASE e \notin OfFile
    <3>1. still => exact /\ more = << >>
      BY <2>3
    <3>2. FilesFit(s, a \o more, still)
      BY <2>1, <3>1, FilesGrow
    <3> QED
      BY <2>3, <3>2, FilesPushOther
  <2> QED
    BY <2>2, <2>3
<1>2. Saves(Append(s, e), IF e.kind = "chunk" THEN Len(s) + 1 ELSE c)
  BY SavesPush DEF Sound
<1>3. Num(Append(s, e), Len(Append(s, e)), OfBuffer) = n + IF e.kind = "ob" THEN 1 ELSE 0
  <2>1. Num(Append(s, e), Len(s) + 1, OfBuffer) = Num(s, Len(s), OfBuffer) + IF e \in OfBuffer THEN 1 ELSE 0
    BY NumPush
  <2>2. Len(Append(s, e)) = Len(s) + 1 /\ (e \in OfBuffer <=> e.kind = "ob")
    BY AppendFacts DEF OfBuffer
  <2>3. n = Num(s, Len(s), OfBuffer)
    BY DEF Sound
  <2> QED
    BY <2>1, <2>2, <2>3
<1> QED
  BY <1>1, <1>2, <1>3 DEF Sound

LEMMA SoundPop ==
  ASSUME NEW s \in Seq(FrameRecords), Len(s) > 0, NEW a, NEW exact \in BOOLEAN,
         NEW c, NEW n \in Nat, Sound(s, a, exact, c, n)
  PROVE  /\ Sound(Front(s), IF Last(s) \in OfFile THEN Front(a) ELSE a, exact,
                  IF Last(s).kind = "chunk" THEN Last(s).saved ELSE c,
                  n - IF Last(s).kind = "ob" THEN 1 ELSE 0)
         /\ n - (IF Last(s).kind = "ob" THEN 1 ELSE 0) \in Nat
<1>1. FilesFit(Front(s), IF Last(s) \in OfFile THEN Front(a) ELSE a, exact)
  BY FilesPop DEF Sound
<1>2. Saves(Front(s), IF Last(s).kind = "chunk" THEN Last(s).saved ELSE c)
  BY SavesPop DEF Sound
<1>3. /\ Len(Front(s)) = Len(s) - 1 /\ Len(s) - 1 \in Nat /\ Last(s) \in FrameRecords
      /\ Len(s) - 1 \in 0 .. Len(s) - 1
  BY FrontFacts
<1>4. /\ \A k \in 0 .. Len(s) - 1 : Num(Front(s), k, OfBuffer) = Num(s, k, OfBuffer)
      /\ Num(s, Len(s), OfBuffer) = Num(s, Len(s) - 1, OfBuffer) + IF Last(s) \in OfBuffer THEN 1 ELSE 0
  BY NumPop
<1>5. Num(s, Len(s) - 1, OfBuffer) \in Nat
  BY <1>3, NumType
<1>6. (Last(s) \in OfBuffer <=> Last(s).kind = "ob") /\ n = Num(s, Len(s), OfBuffer)
  BY <1>3 DEF OfBuffer, Sound
<1>7. n - (IF Last(s).kind = "ob" THEN 1 ELSE 0) = Num(s, Len(s) - 1, OfBuffer)
  BY <1>4, <1>5, <1>6
<1>8. Num(Front(s), Len(Front(s)), OfBuffer) = Num(s, Len(s) - 1, OfBuffer)
  BY <1>3, <1>4
<1> QED
  BY <1>1, <1>2, <1>5, <1>7, <1>8 DEF Sound
----------------------------------------------------------------------------
(* What runs and what it shares, as one operator, so that a step that ends *)
(* a frame and begins another is two uses of the lemmas.  The outermost    *)
(* frame is the script or a shutdown callback: both are left to go on.     *)

Exact(inc) == \A n \in inc : Len(n) = 1

Ends(s, p, t) ==
  IF s = << >> THEN t = "run"
  ELSE p \in {"main", "shutdown"} /\ s[1].kind \in {"main", "call"} /\ s[1].then = "run"

Context(fr, t, a, inc, c, n, p) ==
  /\ fr \in Seq(FrameRecords) /\ t \in Todos /\ c \in Nat /\ n \in Nat /\ n <= ObLimit
  /\ Sound(Reverse(fr), a, Exact(inc), c, n)
  /\ Ends(Reverse(fr), p, t)

LEMMA ReverseEmpty ==
  ASSUME NEW S, NEW s \in Seq(S)
  PROVE  (Reverse(s) = << >>) <=> (s = << >>)
<1>1. Reverse(s) \in Seq(S) /\ Len(Reverse(s)) = Len(s)
  BY ReverseFacts
<1>2. \A t \in Seq(S) : t = << >> <=> Len(t) = 0
  OBVIOUS
<1> QED
  BY <1>1, <1>2

FileOf(e) == IF e \in OfFile THEN <<e.file>> ELSE << >>

LEMMA ContextPush ==
  ASSUME NEW fr, NEW t, NEW a, NEW inc, NEW c, NEW n, NEW p, Context(fr, t, a, inc, c, n, p),
         NEW e \in FrameRecords, e.kind = "chunk" => e.saved = c,
         NEW more \in Seq(FileNames), e \in OfFile => Len(more) >= 1,
         NEW inc2, Exact(inc2) => Exact(inc) /\ more = FileOf(e),
         NEW c2, c2 = (IF e.kind = "chunk" THEN Len(fr) + 1 ELSE c),
         NEW n2, n2 = n + (IF e.kind = "ob" THEN 1 ELSE 0), n2 <= ObLimit,
         NEW p2 \in {"main", "shutdown"}, NEW t2 \in Todos,
         fr = << >> => e.kind \in {"main", "call"} /\ e.then = "run"
  PROVE  Context(<<e>> \o fr, t2, a \o more, inc2, c2, n2, p2)
<1> DEFINE s == Reverse(fr)
<1>1. fr \in Seq(FrameRecords) /\ c \in Nat /\ n \in Nat /\ Sound(s, a, Exact(inc), c, n) /\ Ends(s, p, t)
  BY DEF Context
<1>2. s \in Seq(FrameRecords) /\ Len(s) = Len(fr) /\ (s = << >> <=> fr = << >>)
  BY <1>1, ReverseFacts, ReverseEmpty
<1>3. <<e>> \o fr \in Seq(FrameRecords) /\ Reverse(<<e>> \o fr) = Append(s, e)
  BY <1>1, ReversePushed
<1>4. Exact(inc) \in BOOLEAN /\ Exact(inc2) \in BOOLEAN
  BY DEF Exact
<1> HIDE DEF s
<1>5. Sound(Append(s, e), a \o more, Exact(inc2), IF e.kind = "chunk" THEN Len(s) + 1 ELSE c,
            n + IF e.kind = "ob" THEN 1 ELSE 0)
  BY <1>1, <1>2, <1>4, SoundPush DEF FileOf
<1>6. Sound(Append(s, e), a \o more, Exact(inc2), c2, n2) /\ c2 \in Nat /\ n2 \in Nat
  BY <1>1, <1>2, <1>5
<1>7. Ends(Append(s, e), p2, t2)
  <2>1. Append(s, e) # << >> /\ Append(s, e)[1] = IF s = << >> THEN e ELSE s[1]
    BY <1>2
  <2> QED
    BY <1>1, <1>2, <2>1 DEF Ends
<1> QED
  BY <1>3, <1>6, <1>7 DEF Context

LEMMA ContextPop ==
  ASSUME NEW fr, NEW t, NEW a, NEW inc, NEW c, NEW n, NEW p, Context(fr, t, a, inc, c, n, p), fr # << >>,
         NEW a2, a2 = (IF Head(fr) \in OfFile THEN Front(a) ELSE a),
         NEW c2, c2 = (IF Head(fr).kind = "chunk" THEN Head(fr).saved ELSE c),
         NEW n2, n2 = n - (IF Head(fr).kind = "ob" THEN 1 ELSE 0),
         NEW p2 \in {"main", "shutdown"}, NEW t2 \in Todos,
         Head(fr).kind \in {"main", "call"} => t2 \in {"run", Head(fr).then}
  PROVE  /\ Context(Tail(fr), t2, a2, inc, c2, n2, p2)
         /\ Head(fr).kind \notin {"main", "call"} => Tail(fr) # << >>
<1> DEFINE s == Reverse(fr)
<1>1. /\ fr \in Seq(FrameRecords) /\ c \in Nat /\ n \in Nat /\ n <= ObLimit
      /\ Sound(s, a, Exact(inc), c, n) /\ Ends(s, p, t)
  BY DEF Context
<1>2. s \in Seq(FrameRecords) /\ Len(s) = Len(fr) /\ s # << >>
  BY <1>1, ReverseFacts, ReverseEmpty
<1>3. /\ Tail(fr) \in Seq(FrameRecords) /\ Head(fr) \in FrameRecords /\ Len(fr) > 0
      /\ Reverse(Tail(fr)) = Front(s) /\ Head(fr) = Last(s) /\ Len(Tail(fr)) = Len(fr) - 1
  BY <1>1, ReversePopped
<1>4. Exact(inc) \in BOOLEAN
  BY DEF Exact
<1> HIDE DEF s
<1>5. Len(s) > 0
  BY <1>2, <1>3
<1>6. /\ Sound(Front(s), IF Last(s) \in OfFile THEN Front(a) ELSE a, Exact(inc),
               IF Last(s).kind = "chunk" THEN Last(s).saved ELSE c,
               n - IF Last(s).kind = "ob" THEN 1 ELSE 0)
      /\ n - (IF Last(s).kind = "ob" THEN 1 ELSE 0) \in Nat
  BY <1>1, <1>2, <1>4, <1>5, SoundPop
<1>7. c2 \in Nat /\ n2 \in Nat /\ n2 <= ObLimit /\ Sound(Front(s), a2, Exact(inc), c2, n2)
  <2>1. c2 \in Nat
    BY <1>1, <1>3 DEF FrameRecords, AnyFrame
  <2>2. n2 \in Nat /\ n2 <= n /\ ObLimit \in Nat
    BY <1>1, <1>3, <1>6, SessionAssumption
  <2> QED
    BY <1>1, <1>3, <1>6, <2>1, <2>2
<1>8. /\ Front(s) \in Seq(FrameRecords) /\ Len(Front(s)) = Len(s) - 1 /\ Last(s) = s[Len(s)]
      /\ \A i \in 1 .. Len(s) - 1 : Front(s)[i] = s[i]
  BY <1>2, <1>5, FrontFacts
<1>9. Ends(Front(s), p2, t2) /\ (Last(s).kind \notin {"main", "call"} => Front(s) # << >>)
  <2>1. s[1].kind \in {"main", "call"} /\ s[1].then = "run" /\ Len(s) \in Nat
    BY <1>1, <1>2 DEF Ends
  <2>2. CASE Len(s) = 1
    BY <1>3, <1>8, <2>1, <2>2 DEF Ends
  <2>3. CASE Len(s) # 1
    <3>1. Front(s) # << >> /\ Front(s)[1] = s[1]
      BY <1>5, <1>8, <2>1, <2>3
    <3> QED
      BY <2>1, <3>1 DEF Ends
  <2> QED
    BY <2>2, <2>3
<1>10. Front(s) # << >> => Tail(fr) # << >>
  BY <1>3, ReverseEmpty
<1> QED
  BY <1>3, <1>7, <1>9, <1>10 DEF Context

(* The frame of an included file.                                          *)
LEMMA ContextPushFile ==
  ASSUME NEW fr, NEW t, NEW a, NEW inc, NEW c, NEW n, NEW p, Context(fr, t, a, inc, c, n, p), fr # << >>,
         NEW e \in OfFile, e.saved = c, NEW more \in Seq(FileNames), Len(more) >= 1,
         NEW inc2, Exact(inc2) => Exact(inc) /\ more = <<e.file>>, NEW t2 \in Todos
  PROVE  Context(<<e>> \o fr, t2, a \o more, inc2, Len(fr) + 1, n, p)
<1> DEFINE c2 == Len(fr) + 1
<1>1. n \in Nat /\ n <= ObLimit /\ fr \in Seq(FrameRecords) /\ Ends(Reverse(fr), p, t)
  BY DEF Context
<1>2. p \in {"main", "shutdown"}
  <2>1. Reverse(fr) # << >>
    BY <1>1, ReverseEmpty
  <2> QED
    BY <1>1, <2>1 DEF Ends
<1>3. e \in FrameRecords /\ e.kind = "chunk"
  BY DEF OfFile
<1>4. /\ e \in OfFile => Len(more) >= 1
      /\ Exact(inc2) => Exact(inc) /\ more = FileOf(e)
      /\ c2 = (IF e.kind = "chunk" THEN Len(fr) + 1 ELSE c)
      /\ n = n + (IF e.kind = "ob" THEN 1 ELSE 0)
  BY <1>1, <1>3 DEF FileOf
<1> HIDE DEF c2
<1>5. Context(<<e>> \o fr, t2, a \o more, inc2, c2, n, p)
  BY <1>1, <1>2, <1>3, <1>4, ContextPush, ZenonT(60)
<1> QED
  BY <1>5 DEF c2

(* A frame that shares the files with the one below it.                    *)
LEMMA ContextPushOther ==
  ASSUME NEW fr, NEW t, NEW a, NEW inc, NEW c, NEW n, NEW p, Context(fr, t, a, inc, c, n, p),
         NEW e \in FrameRecords, e \notin OfFile, e.kind = "chunk" => e.saved = c,
         NEW c2, c2 = (IF e.kind = "chunk" THEN Len(fr) + 1 ELSE c),
         NEW n2, n2 = n + (IF e.kind = "ob" THEN 1 ELSE 0), n2 <= ObLimit,
         NEW p2 \in {"main", "shutdown"}, NEW t2 \in Todos,
         fr = << >> => e.kind \in {"main", "call"} /\ e.then = "run"
  PROVE  Context(<<e>> \o fr, t2, a, inc, c2, n2, p2)
<1> DEFINE more == << >>
<1>1. more \in Seq(FileNames) /\ a \o more = a
  BY DEF Context, Sound, FilesFit
<1>2. (e \in OfFile => Len(more) >= 1) /\ (Exact(inc) => Exact(inc) /\ more = FileOf(e))
  BY DEF FileOf
<1> HIDE DEF more
<1>3. Context(<<e>> \o fr, t2, a \o more, inc, c2, n2, p2)
  BY <1>1, <1>2, ContextPush, ZenonT(60)
<1> QED
  BY <1>1, <1>3

(* A step that neither begins nor ends a frame.                            *)
LEMMA ContextStays ==
  ASSUME NEW fr, NEW t, NEW a, NEW inc, NEW c, NEW n, NEW p, Context(fr, t, a, inc, c, n, p),
         NEW more \in Seq(FileNames), NEW inc2, Exact(inc2) => Exact(inc) /\ more = << >>,
         NEW t2 \in Todos, NEW p2, fr = << >> => t2 = "run", fr # << >> => p2 = p
  PROVE  Context(fr, t2, a \o more, inc2, c, n, p2)
<1>1. fr \in Seq(FrameRecords)
  BY DEF Context
<1>2. Reverse(fr) \in Seq(FrameRecords) /\ (Reverse(fr) = << >> <=> fr = << >>)
  BY <1>1, ReverseFacts, ReverseEmpty
<1>3. Exact(inc) \in BOOLEAN /\ Exact(inc2) \in BOOLEAN
  BY DEF Exact
<1>4. FilesFit(Reverse(fr), a \o more, Exact(inc2))
  BY <1>2, <1>3, FilesGrow DEF Context, Sound
<1>5. Ends(Reverse(fr), p2, t2)
  BY <1>2 DEF Context, Ends
<1> QED
  BY <1>4, <1>5 DEF Context, Sound

LEMMA ContextFacts ==
  ASSUME NEW fr, NEW t, NEW a, NEW inc, NEW c, NEW n, NEW p, Context(fr, t, a, inc, c, n, p)
  PROVE  /\ fr \in Seq(FrameRecords) /\ c \in Nat /\ n \in Nat /\ n <= ObLimit /\ t \in Todos
         /\ a \o << >> = a /\ << >> \in Seq(FileNames)
         /\ fr # << >> => p \in {"main", "shutdown"} /\ Head(fr) \in FrameRecords
         /\ fr = << >> => t = "run"
<1>1. fr \in Seq(FrameRecords) /\ Ends(Reverse(fr), p, t) /\ a \in Seq(FileNames)
  BY DEF Context, Sound, FilesFit
<1>2. Reverse(fr) = << >> <=> fr = << >>
  BY <1>1, ReverseEmpty
<1>3. a \o << >> = a /\ << >> \in Seq(FileNames)
  BY <1>1
<1>4. fr # << >> => Head(fr) \in FrameRecords
  BY <1>1, ReversePopped
<1>5. (fr # << >> => p \in {"main", "shutdown"}) /\ (fr = << >> => t = "run")
  BY <1>1, <1>2 DEF Ends
<1> QED
  BY <1>1, <1>3, <1>4, <1>5 DEF Context
----------------------------------------------------------------------------
(* The inductive invariant.                                                *)

BufferRecords == [cb : BOOLEAN, data : Seq(Nat)]

(* While output is buffered there is a buffer to take it, and while there  *)
(* is a buffer a device to come back to.                                   *)
Screen ==
  /\ consumer \in Devices \cup {"ob"} /\ xDef \in Devices \cup {"none"}
  /\ aOB \in Seq(BufferRecords) /\ room \in Nat /\ echoed \in Nat
  /\ out \in Seq(Devices \X Nat)
  /\ consumer = "ob" => aOB # << >>
  /\ aOB # << >> => xDef \in Devices
  /\ iAssertFlags \in SUBSET Flags

Running == Context(frames, todo, aFiles, aIncluded, container, nObDepth, phase)

IInv == Screen /\ Running

LEMMA FrameFacts ==
  ASSUME Screen, container \in Nat, NEW kind \in Kinds, NEW file \in FileNames \cup {None},
         NEW then \in Todos \cup {"assert"}, kind # "chunk" => then \in Todos,
         NEW data \in Seq(Nat), NEW set \in SUBSET Flags
  PROVE  /\ kind # "ob" => Frame(kind, file, then) \in FrameRecords
         /\ kind = "ob" /\ Len(data) = 1 /\ aOB # << >> => [Frame(kind, file, then) EXCEPT !.data = data] \in FrameRecords
         /\ kind # "ob" => [Frame(kind, file, then) EXCEPT !.set = set] \in FrameRecords
<1>1. Len(aOB) \in Nat /\ room \in Nat /\ << >> \in Seq(Nat) /\ {} \in SUBSET Flags /\ (aOB # << >> => Len(aOB) >= 1)
  BY DEF Screen
<1> DEFINE l == Len(aOB)
<1> HIDE DEF l
<1>2. ASSUME NEW d \in Seq(Nat), NEW x \in SUBSET Flags
      PROVE  [kind |-> kind, file |-> file, then |-> then, saved |-> container,
              slot |-> l, base |-> room, data |-> d, set |-> x] \in AnyFrame
  BY <1>1, <1>2 DEF AnyFrame, l
<1>3. Frame(kind, file, then) = [kind |-> kind, file |-> file, then |-> then, saved |-> container,
                                 slot |-> l, base |-> room, data |-> << >>, set |-> {}]
  BY DEF Frame, l
<1> DEFINE f == Frame(kind, file, then)
<1>5. f \in AnyFrame /\ f.kind = kind /\ f.then = then /\ f.data = << >> /\ f.slot = l
  <2>1. f \in AnyFrame
    BY <1>1, <1>2, <1>3
  <2> QED
    BY <2>1, <1>3
<1> HIDE DEF f
<1>6. kind # "ob" => f \in FrameRecords
  BY <1>5 DEF FrameRecords
<1>7. kind = "ob" /\ Len(data) = 1 /\ aOB # << >> => [f EXCEPT !.data = data] \in FrameRecords
  BY <1>1, <1>5 DEF FrameRecords, AnyFrame, l
<1>8. kind # "ob" => [f EXCEPT !.set = set] \in FrameRecords
  BY <1>5 DEF FrameRecords, AnyFrame
<1> QED
  BY <1>6, <1>7, <1>8 DEF f

LEMMA PushedFacts ==
  ASSUME NEW f \in Files, NEW inc
  PROVE  /\ Pushed(f) \in Seq(FileNames) /\ Len(Pushed(f)) >= 1 /\ Front(Pushed(f)) \in Seq(FileNames)
         /\ Name(f) \in FileNames /\ Name(f) # None
         /\ Exact(inc \cup ToSet(Pushed(f))) =>
              Exact(inc) /\ Pushed(f) = <<Name(f)>> /\ Front(Pushed(f)) = << >>
<1>1. Name(f) \in FileNames /\ Path(f) \in FileNames /\ Name(f) # None /\ Len(Path(f)) = 2
  BY DEF FileNames, Name, Path, None
<1>2. Pushed(f) \in Seq(FileNames) /\ Len(Pushed(f)) >= 1 /\ Len(Pushed(f)) > 0
  BY <1>1 DEF Pushed
<1>3. Front(Pushed(f)) \in Seq(FileNames) /\ Len(Front(Pushed(f))) = Len(Pushed(f)) - 1
  BY <1>2, FrontFacts
<1>4. ASSUME Exact(inc \cup ToSet(Pushed(f)))
      PROVE  Exact(inc) /\ Pushed(f) = <<Name(f)>> /\ Front(Pushed(f)) = << >>
  <2>1. Exact(inc)
    BY <1>4 DEF Exact
  <2>2. f \notin Bare
    <3>1. ASSUME f \in Bare PROVE FALSE
      <4>1. Path(f) \in ToSet(<<Path(f), Name(f)>>)
        BY DEF ToSet
      <4>2. Path(f) \in ToSet(Pushed(f))
        BY <3>1, <4>1 DEF Pushed
      <4> QED
        BY <1>1, <1>4, <4>2 DEF Exact
    <3> QED
      BY <3>1
  <2>3. Pushed(f) = <<Name(f)>>
    BY <2>2 DEF Pushed
  <2>4. Len(Pushed(f)) = 1
    BY <2>3
  <2>5. Front(Pushed(f)) = << >>
    BY <1>3, <2>4
  <2> QED
    BY <2>1, <2>3, <2>5
<1> QED
  BY <1>1, <1>2, <1>3, <1>4
----------------------------------------------------------------------------
(* The steps.                                                              *)

(* A step of the machine that leaves the frames alone.                     *)
LEMMA RunningStays ==
  ASSUME IInv, frames' = frames, aFiles' = aFiles, aIncluded' = aIncluded,
         container' = container, nObDepth' = nObDepth, todo' \in Todos,
         frames = << >> => todo' = "run", frames # << >> => phase' = phase
  PROVE  Running'
<1>1. Context(frames, todo, aFiles, aIncluded, container, nObDepth, phase)
  BY DEF IInv, Running
<1>2. aFiles \o << >> = aFiles /\ << >> \in Seq(FileNames)
  BY <1>1, ContextFacts
<1>3. Context(frames, todo', aFiles \o << >>, aIncluded, container, nObDepth, phase')
  BY <1>1, <1>2, ContextStays
<1> QED
  BY <1>2, <1>3 DEF Running

(* A frame that shares the files with the one below it.                    *)
LEMMA RunningPush ==
  ASSUME IInv, NEW e \in FrameRecords, e \notin OfFile, frames' = <<e>> \o frames,
         e.kind = "chunk" => e.saved = container, aFiles' = aFiles, aIncluded' = aIncluded,
         container' = (IF e.kind = "chunk" THEN Len(frames) + 1 ELSE container),
         nObDepth' = nObDepth + (IF e.kind = "ob" THEN 1 ELSE 0), nObDepth' <= ObLimit,
         phase' \in {"main", "shutdown"}, todo' \in Todos,
         frames = << >> => e.kind \in {"main", "call"} /\ e.then = "run"
  PROVE  Running'
<1>1. Context(frames, todo, aFiles, aIncluded, container, nObDepth, phase)
  BY DEF IInv, Running
<1>2. aFiles \o << >> = aFiles /\ << >> \in Seq(FileNames)
  BY <1>1, ContextFacts
<1>3. Context(<<e>> \o frames, todo', aFiles, aIncluded, container', nObDepth', phase')
  BY <1>1, ContextPushOther
<1> QED
  BY <1>3 DEF Running

LEMMA ConsumeRuns ==
  ASSUME IInv, frames # << >>, NEW then \in {"run", "abort"}, NEW heeded, Consume(then, heeded),
         UNCHANGED files, phase' = phase
  PROVE  Running'
<1>1. Screen /\ container \in Nat /\ nObDepth \in Nat /\ nObDepth <= ObLimit /\ echoed \in Nat
      /\ phase \in {"main", "shutdown"} /\ ObLimit \in Nat
  BY ContextFacts, SessionAssumption DEF IInv, Running, Screen
<1>2. aFiles' = aFiles /\ aIncluded' = aIncluded /\ container' = container /\ then \in Todos /\ "abort" \in Todos
  BY DEF files, Todos
<1>3. CASE frames' = frames /\ nObDepth' = nObDepth /\ todo' \in Todos
  BY <1>2, <1>3, RunningStays
<1>4. CASE /\ frames' = <<[Frame("ob", None, then) EXCEPT !.data = <<echoed + 1>>]>> \o frames
           /\ nObDepth' = nObDepth + 1 /\ nObDepth < ObLimit /\ todo' = "run" /\ aOB # << >>
  <2> DEFINE e == [Frame("ob", None, then) EXCEPT !.data = <<echoed + 1>>]
  <2>1. e \in FrameRecords
    <3>1. <<echoed + 1>> \in Seq(Nat) /\ Len(<<echoed + 1>>) = 1 /\ "ob" \in Kinds
      BY <1>1 DEF Kinds
    <3> QED
      BY <1>1, <1>2, <1>4, <3>1, FrameFacts
  <2>2. e.kind = "ob" /\ e \notin OfFile
    BY DEF Frame, OfFile
  <2>3. nObDepth + 1 <= ObLimit
    BY <1>1, <1>4
  <2> HIDE DEF e
  <2>4. frames' = <<e>> \o frames
    BY <1>4 DEF e
  <2> QED
    BY <1>1, <1>2, <1>4, <2>1, <2>2, <2>3, <2>4, RunningPush DEF Todos
<1> QED
  BY <1>2, <1>3, <1>4 DEF Consume, ObConsumer, Todos

(* A failed assertion calls its callback, or does what the flags say.      *)
LEMMA AssertionRuns ==
  ASSUME Screen, NEW below, NEW t, NEW a, NEW inc, NEW c, NEW n, NEW p,
         Context(below, t, a, inc, c, n, p), below # << >>, container \in Nat,
         NEW set, AssertionFailed(set, below)
  PROVE  Context(frames', todo', a, inc, c, n, p)
<1>1. /\ a \o << >> = a /\ << >> \in Seq(FileNames) /\ p \in {"main", "shutdown"}
      /\ n \in Nat /\ n <= ObLimit
  BY ContextFacts
<1> DEFINE then == IF "WARNING" \in set THEN IF "BAIL" \in set THEN "warnabort" ELSE "warn"
                   ELSE IF "BAIL" \in set THEN "abort" ELSE "run"
           e == Frame("call", None, then)
<1>2. then \in Todos
  BY DEF Todos
<1>3. \/ frames' = <<e>> \o below /\ todo' = "run"
      \/ frames' = below /\ todo' = then
  BY DEF AssertionFailed
<1>4. e \in FrameRecords
  <2>1. "call" \in Kinds /\ << >> \in Seq(Nat) /\ {} \in SUBSET Flags
    BY DEF Kinds
  <2> QED
    BY <1>2, <2>1, FrameFacts
<1>5. e.kind = "call" /\ e \notin OfFile
  BY DEF Frame, OfFile
<1> HIDE DEF e, then
<1>6. CASE frames' = <<e>> \o below /\ todo' = "run"
  <2>1. "run" \in Todos /\ c = (IF e.kind = "chunk" THEN Len(below) + 1 ELSE c)
        /\ n = n + (IF e.kind = "ob" THEN 1 ELSE 0)
    BY <1>1, <1>5 DEF Todos
  <2>2. Context(<<e>> \o below, "run", a, inc, c, n, p)
    BY <1>1, <1>4, <1>5, <2>1, ContextPushOther
  <2> QED
    BY <1>6, <2>2
<1>7. CASE frames' = below /\ todo' = then
  <2>1. Context(below, then, a \o << >>, inc, c, n, p)
    BY <1>1, <1>2, ContextStays
  <2> QED
    BY <1>1, <1>7, <2>1
<1> QED
  BY <1>3, <1>6, <1>7

(* The frames during a call are those of the script that makes it.         *)
LEMMA CallFacts ==
  ASSUME IInv
  PROVE  /\ Context(frames, todo, aFiles, aIncluded, container, nObDepth, phase) /\ Screen
         /\ frames \in Seq(FrameRecords) /\ container \in Nat /\ nObDepth \in Nat /\ nObDepth <= ObLimit
         /\ todo \in Todos /\ iAssertFlags \in SUBSET Flags
         /\ aFiles \o << >> = aFiles /\ << >> \in Seq(FileNames)
         /\ frames # << >> => phase \in {"main", "shutdown"} /\ Head(frames) \in FrameRecords
         /\ frames = << >> => todo = "run"
<1>1. Context(frames, todo, aFiles, aIncluded, container, nObDepth, phase)
  BY DEF IInv, Running
<1> QED
  BY <1>1, ContextFacts DEF IInv, Screen

LEMMA OutputRuns ==
  ASSUME IInv
  PROVE  /\ Warn => Running'
         /\ Echo => Running'
         /\ \A m \in BOOLEAN : Exit(m) => Running'
<1>1. ASSUME Warn PROVE Running'
  <2> DEFINE then == IF todo = "warn" THEN "run" ELSE "abort"
  <2>1. frames # << >> /\ then \in {"run", "abort"} /\ UNCHANGED <<files, ending>>
    BY <1>1, CallFacts DEF Warn
  <2>2. phase' = phase /\ UNCHANGED files /\ aFiles' = aFiles /\ aIncluded' = aIncluded /\ container' = container
    BY <2>1 DEF ending, files
  <2>3. CASE Consume(then, FALSE)
    BY <2>1, <2>2, <2>3, ConsumeRuns
  <2>4. CASE todo' = then /\ UNCHANGED <<screen, frames>>
    <3>1. nObDepth' = nObDepth /\ frames' = frames /\ todo' \in Todos
      BY <2>1, <2>4 DEF screen, Todos
    <3> QED
      BY <2>1, <2>2, <3>1, RunningStays
  <2> QED
    BY <1>1, <2>3, <2>4 DEF Warn
<1>2. ASSUME Echo PROVE Running'
  <2>1. frames # << >> /\ "run" \in {"run", "abort"} /\ phase' = phase /\ UNCHANGED files /\ Consume("run", TRUE)
    BY <1>2 DEF Echo, Call, ending
  <2> QED
    BY <2>1, ConsumeRuns
<1>3. ASSUME NEW m \in BOOLEAN, Exit(m) PROVE Running'
  <2>1. frames # << >> /\ "abort" \in {"run", "abort"} /\ "abort" \in Todos /\ phase' = phase /\ UNCHANGED files
        /\ aFiles' = aFiles /\ aIncluded' = aIncluded /\ container' = container
    BY <1>3 DEF Exit, Call, ending, files, Todos
  <2>2. CASE Consume("abort", FALSE)
    BY <2>1, <2>2, ConsumeRuns
  <2>3. CASE todo' = "abort" /\ UNCHANGED <<screen, frames>>
    <3>1. nObDepth' = nObDepth /\ frames' = frames
      BY <2>3 DEF screen
    <3> QED
      BY <2>1, <2>3, <3>1, RunningStays
  <2> QED
    BY <1>3, <2>2, <2>3 DEF Exit
<1> QED
  BY <1>1, <1>2, <1>3

LEMMA BufferRuns ==
  ASSUME IInv
  PROVE  /\ \A cb \in BOOLEAN : ob_start(cb) => Running'
         /\ ob_clean \/ ob_end_clean \/ ob_flush \/ ob_end_flush => Running'
<1> SUFFICES ASSUME /\ \/ \E cb \in BOOLEAN : ob_start(cb)
                       \/ ob_clean \/ ob_end_clean \/ ob_flush \/ ob_end_flush
             PROVE  Running'
  OBVIOUS
<1>1. /\ frames # << >> /\ todo = "run" /\ todo' \in {"run", "abort"} /\ phase' = phase /\ frames' = frames
      /\ UNCHANGED files /\ nObDepth' = nObDepth
  BY DEF ob_start, ob_clean, ob_end_clean, ob_flush, ob_end_flush, ObFlush, Call, ending
<1>2. aFiles' = aFiles /\ aIncluded' = aIncluded /\ container' = container /\ todo' \in Todos
  BY <1>1 DEF files, Todos
<1> QED
  BY <1>1, <1>2, RunningStays

LEMMA FlagRuns ==
  ASSUME IInv
  PROVE  /\ \A b \in BOOLEAN : error_reporting(b) \/ trigger_error(b) => Running'
         /\ \A o \in Options : assert_options(o[1], o[2]) => Running'
         /\ register_shutdown_function => Running'
<1> SUFFICES ASSUME \/ \E b \in BOOLEAN : error_reporting(b) \/ trigger_error(b)
                    \/ \E o \in Options : assert_options(o[1], o[2])
                    \/ register_shutdown_function
             PROVE  Running'
  OBVIOUS
<1>1. /\ frames # << >> /\ todo = "run" /\ todo' \in {"run", "warn", "warnabort"} /\ phase' = phase
      /\ frames' = frames /\ UNCHANGED files /\ UNCHANGED screen
  BY DEF error_reporting, trigger_error, assert_options, register_shutdown_function, Call, ending
<1>2. /\ aFiles' = aFiles /\ aIncluded' = aIncluded /\ container' = container /\ nObDepth' = nObDepth
      /\ todo' \in Todos
  BY <1>1 DEF files, screen, Todos
<1> QED
  BY <1>1, <1>2, RunningStays

LEMMA IncludeRuns ==
  ASSUME IInv, NEW f \in Files, NEW once \in BOOLEAN, NEW required \in BOOLEAN, Include(f, once, required)
  PROVE  Running'
<1>1. /\ Context(frames, todo, aFiles, aIncluded, container, nObDepth, phase) /\ Screen
      /\ container \in Nat /\ nObDepth \in Nat /\ nObDepth <= ObLimit /\ aFiles \o << >> = aFiles
  BY CallFacts
<1>2. frames # << >> /\ todo = "run" /\ phase' = phase /\ phase \in {"main", "shutdown"} /\ nObDepth' = nObDepth
  BY CallFacts DEF Include, Call, ending, screen
<1>3. /\ Pushed(f) \in Seq(FileNames) /\ Len(Pushed(f)) >= 1 /\ Front(Pushed(f)) \in Seq(FileNames)
      /\ Name(f) \in FileNames /\ Name(f) # None
      /\ Exact(aIncluded \cup ToSet(Pushed(f))) =>
           Exact(aIncluded) /\ Pushed(f) = <<Name(f)>> /\ Front(Pushed(f)) = << >>
  BY PushedFacts
<1>4. {"run", "warn", "warnabort"} \subseteq Todos
  BY DEF Todos
<1>5. CASE todo' \in {"warn", "warnabort"} /\ UNCHANGED <<frames, files>>
  <2>1. aFiles' = aFiles /\ aIncluded' = aIncluded /\ container' = container /\ todo' \in Todos /\ frames' = frames
    BY <1>4, <1>5 DEF files
  <2> QED
    BY <1>2, <2>1, RunningStays
<1>6. CASE /\ aIncluded' = aIncluded \cup ToSet(Pushed(f)) /\ aFiles' = aFiles \o Front(Pushed(f))
           /\ todo' \in {"run", "warn", "warnabort"} /\ UNCHANGED <<frames, container>>
  <2>1. todo' \in Todos /\ (Exact(aIncluded') => Exact(aIncluded) /\ Front(Pushed(f)) = << >>)
    BY <1>3, <1>4, <1>6
  <2>2. Context(frames, todo', aFiles \o Front(Pushed(f)), aIncluded', container, nObDepth, phase)
    BY <1>1, <1>2, <1>3, <2>1, ContextStays
  <2> QED
    BY <1>2, <1>6, <2>2 DEF Running
<1>7. CASE /\ aIncluded' = aIncluded \cup ToSet(Pushed(f))
           /\ VmEvalChunk(Name(f), Pushed(f)) /\ UNCHANGED todo
  <2> DEFINE e == Frame("chunk", Name(f), "run")
  <2>1. e \in FrameRecords
    <3>1. "chunk" \in Kinds /\ "run" \in Todos /\ << >> \in Seq(Nat) /\ {} \in SUBSET Flags
      BY DEF Kinds, Todos
    <3> QED
      BY <1>1, <1>3, <3>1, FrameFacts
  <2>2. e.kind = "chunk" /\ e.saved = container /\ e.file = Name(f) /\ e \in OfFile
    BY <1>3, <2>1 DEF Frame, OfFile
  <2>3. frames' = <<e>> \o frames /\ container' = Len(frames) + 1 /\ aFiles' = aFiles \o Pushed(f) /\ todo' = "run"
    BY <1>2, <1>7 DEF VmEvalChunk
  <2> HIDE DEF e
  <2> DEFINE more == Pushed(f)
             inc2 == aIncluded'
  <2>4. /\ more \in Seq(FileNames) /\ Len(more) >= 1 /\ "run" \in Todos
        /\ Exact(inc2) => Exact(aIncluded) /\ more = <<e.file>>
    BY <1>3, <1>4, <1>7, <2>2
  <2> HIDE DEF more, inc2
  <2>5. Context(<<e>> \o frames, "run", aFiles \o more, inc2, Len(frames) + 1, nObDepth, phase)
    BY <1>1, <1>2, <2>2, <2>4, ContextPushFile
  <2> QED
    BY <1>2, <2>3, <2>5 DEF Running, more, inc2
<1> QED
  BY <1>2, <1>5, <1>6, <1>7 DEF Include

LEMMA EvalRuns ==
  ASSUME IInv
  PROVE  /\ Eval => Running'
         /\ \A code \in BOOLEAN : assert(code) => Running'
<1>1. /\ Context(frames, todo, aFiles, aIncluded, container, nObDepth, phase) /\ Screen
      /\ container \in Nat /\ nObDepth \in Nat /\ nObDepth <= ObLimit /\ aFiles \o << >> = aFiles
      /\ iAssertFlags \in SUBSET Flags
  BY CallFacts
<1>2. "run" \in Todos /\ "chunk" \in Kinds /\ << >> \in Seq(Nat) /\ {} \in SUBSET Flags
  BY DEF Todos, Kinds
<1>3. ASSUME Eval PROVE Running'
  <2> DEFINE e == Frame("chunk", None, "run")
  <2>1. e \in FrameRecords
    BY <1>1, <1>2, FrameFacts
  <2>2. e.kind = "chunk" /\ e.saved = container /\ e \notin OfFile
    BY DEF Frame, OfFile
  <2>3. /\ frames # << >> /\ frames' = <<e>> \o frames /\ container' = Len(frames) + 1 /\ aFiles' = aFiles
        /\ todo' = "run" /\ phase' = phase /\ nObDepth' = nObDepth /\ aIncluded' = aIncluded
    BY <1>1, <1>3 DEF Eval, Call, VmEvalChunk, screen, ending
  <2>4. phase' \in {"main", "shutdown"}
    BY <2>3, CallFacts
  <2> HIDE DEF e
  <2> QED
    BY <1>1, <1>2, <2>1, <2>2, <2>3, <2>4, RunningPush
<1>4. ASSUME NEW code \in BOOLEAN, assert(code) PROVE Running'
  <2>1. /\ frames # << >> /\ todo = "run" /\ phase' = phase /\ nObDepth' = nObDepth
        /\ aFiles' = aFiles /\ aIncluded' = aIncluded /\ phase \in {"main", "shutdown"}
    BY <1>4, CallFacts DEF assert, Call, screen, ending
  <2>2. CASE code
    <3> DEFINE e == [Frame("chunk", None, "assert") EXCEPT !.set = iAssertFlags]
    <3>1. e \in FrameRecords
      BY <1>1, <1>2, FrameFacts
    <3>2. e.kind = "chunk" /\ e.saved = container /\ e \notin OfFile
      BY DEF Frame, OfFile
    <3>3. frames' = <<e>> \o frames /\ container' = Len(frames) + 1 /\ todo' = "run"
      BY <1>4, <2>1, <2>2 DEF assert
    <3> HIDE DEF e
    <3> QED
      BY <1>1, <1>2, <2>1, <3>1, <3>2, <3>3, RunningPush
  <2>3. CASE ~code
    <3>1. AssertionFailed(iAssertFlags, frames) /\ container' = container
      BY <1>4, <2>3 DEF assert
    <3>2. Context(frames', todo', aFiles, aIncluded, container, nObDepth, phase)
      BY <1>1, <2>1, <3>1, AssertionRuns
    <3> QED
      BY <2>1, <3>1, <3>2 DEF Running
  <2> QED
    BY <2>2, <2>3
<1> QED
  BY <1>3, <1>4

LEMMA ReturnRuns ==
  ASSUME IInv
  PROVE  /\ ReturnChunk \/ ReturnCall \/ ReturnMain => Running'
         /\ \A swallowed \in BOOLEAN : ReturnOb(swallowed) => Running'
<1>1. /\ Context(frames, todo, aFiles, aIncluded, container, nObDepth, phase) /\ Screen
      /\ container \in Nat /\ nObDepth \in Nat /\ nObDepth <= ObLimit
  BY CallFacts
<1>2. frames # << >> => phase \in {"main", "shutdown"} /\ Head(frames) \in FrameRecords
  BY CallFacts
<1>3. "run" \in Todos
  BY DEF Todos
<1>4. ASSUME ReturnChunk PROVE Running'
  <2>1. /\ frames # << >> /\ Head(frames).kind = "chunk" /\ phase' = phase /\ phase \in {"main", "shutdown"}
        /\ aIncluded' = aIncluded /\ nObDepth' = nObDepth /\ container' = Head(frames).saved
        /\ aFiles' = IF Head(frames).file = None THEN aFiles ELSE Front(aFiles)
    BY <1>2, <1>4 DEF ReturnChunk, Leaves, screen, ending
  <2>2. /\ aFiles' = (IF Head(frames) \in OfFile THEN Front(aFiles) ELSE aFiles)
        /\ container' = (IF Head(frames).kind = "chunk" THEN Head(frames).saved ELSE container)
        /\ nObDepth' = nObDepth - (IF Head(frames).kind = "ob" THEN 1 ELSE 0)
        /\ (Head(frames).kind \in {"main", "call"} => "run" \in {"run", Head(frames).then})
        /\ Head(frames).kind \notin {"main", "call"}
    BY <1>1, <1>2, <2>1 DEF OfFile
  <2>3. /\ Context(Tail(frames), "run", aFiles', aIncluded, container', nObDepth', phase)
        /\ Tail(frames) # << >>
    BY <1>1, <1>3, <2>1, <2>2, ContextPop, ZenonT(60)
  <2>4. CASE frames' = Tail(frames) /\ todo' = "run"
    BY <2>1, <2>3, <2>4 DEF Running
  <2>5. CASE AssertionFailed(Head(frames).set, Tail(frames))
    <3>1. Context(frames', todo', aFiles', aIncluded, container', nObDepth', phase)
      BY <1>1, <2>3, <2>5, AssertionRuns
    <3> QED
      BY <2>1, <3>1 DEF Running
  <2> QED
    BY <1>4, <2>4, <2>5 DEF ReturnChunk
<1>5. ASSUME frames # << >>, Head(frames).kind # "chunk", frames' = Tail(frames), UNCHANGED files,
             nObDepth' = nObDepth - (IF Head(frames).kind = "ob" THEN 1 ELSE 0),
             phase' \in {"main", "shutdown"}, todo' \in {"run", Head(frames).then}
      PROVE  Running'
  <2>1. aFiles' = aFiles /\ aIncluded' = aIncluded /\ container' = container
    BY <1>5 DEF files
  <2>2. /\ aFiles = (IF Head(frames) \in OfFile THEN Front(aFiles) ELSE aFiles)
        /\ container = (IF Head(frames).kind = "chunk" THEN Head(frames).saved ELSE container)
        /\ todo' \in Todos
    BY <1>2, <1>3, <1>5 DEF OfFile, FrameRecords
  <2>3. Context(Tail(frames), todo', aFiles, aIncluded, container, nObDepth', phase')
    BY <1>1, <1>5, <2>2, ContextPop, ZenonT(60)
  <2> QED
    BY <1>5, <2>1, <2>3 DEF Running
<1>6. ASSUME ReturnCall PROVE Running'
  <2>1. /\ frames # << >> /\ Head(frames).kind = "call" /\ frames' = Tail(frames) /\ UNCHANGED files
        /\ nObDepth' = nObDepth /\ phase' = phase /\ todo' = Head(frames).then
    BY <1>6 DEF ReturnCall, Leaves, screen, ending
  <2> QED
    BY <1>1, <1>2, <1>5, <2>1
<1>7. ASSUME ReturnMain PROVE Running'
  <2>1. /\ frames # << >> /\ Head(frames).kind = "main" /\ frames' = Tail(frames) /\ UNCHANGED files
        /\ nObDepth' = nObDepth /\ phase' = "shutdown" /\ todo' = "run"
    BY <1>7 DEF ReturnMain, Leaves, screen
  <2> QED
    BY <1>1, <1>5, <2>1
<1>8. ASSUME NEW swallowed \in BOOLEAN, ReturnOb(swallowed) PROVE Running'
  <2>1. /\ frames # << >> /\ Head(frames).kind = "ob" /\ frames' = Tail(frames) /\ UNCHANGED files
        /\ nObDepth' = nObDepth - 1 /\ phase' = phase /\ todo' = Head(frames).then
    BY <1>8 DEF ReturnOb, Leaves, ending
  <2> QED
    BY <1>2, <1>5, <2>1
<1> QED
  BY <1>4, <1>6, <1>7, <1>8

LEMMA RunRuns ==
  ASSUME IInv
  PROVE  /\ ByteCodeExec \/ InvokeShutdownCallback \/ EndShutdown => Running'
         /\ \A d \in Devices : Configure(d) => Running'
<1>1. /\ Context(frames, todo, aFiles, aIncluded, container, nObDepth, phase) /\ Screen
      /\ container \in Nat /\ nObDepth \in Nat /\ nObDepth <= ObLimit
      /\ frames \in Seq(FrameRecords) /\ todo \in Todos
  BY CallFacts
<1>2. (frames # << >> => phase \in {"main", "shutdown"}) /\ (frames = << >> => todo = "run")
  BY CallFacts
<1>3. "run" \in Todos /\ {"main", "call"} \subseteq Kinds /\ << >> \in Seq(Nat) /\ {} \in SUBSET Flags
      /\ Main \in FileNames
  BY DEF Todos, Kinds, FileNames
<1>4. ASSUME NEW e \in FrameRecords, e.kind \in {"main", "call"}, e.then = "run", frames = << >>,
             frames' = <<e>>, todo' = "run", UNCHANGED <<screen, files>>, phase' \in {"main", "shutdown"}
      PROVE  Running'
  <2>1. /\ frames' = <<e>> \o frames /\ aFiles' = aFiles /\ aIncluded' = aIncluded /\ container' = container
        /\ nObDepth' = nObDepth
    BY <1>4 DEF screen, files
  <2>2. e \notin OfFile
    BY <1>4 DEF OfFile
  <2>3. /\ container' = (IF e.kind = "chunk" THEN Len(frames) + 1 ELSE container)
        /\ nObDepth' = nObDepth + (IF e.kind = "ob" THEN 1 ELSE 0)
        /\ (e.kind = "chunk" => e.saved = container)
        /\ nObDepth' <= ObLimit /\ todo' \in Todos
    BY <1>1, <1>3, <1>4, <2>1
  <2> QED
    BY <1>4, <2>1, <2>2, <2>3, RunningPush
<1>5. ASSUME ByteCodeExec PROVE Running'
  <2>1. frames = << >> /\ phase' = "main" /\ frames' = <<Frame("main", Main, "run")>> /\ todo' = "run"
        /\ UNCHANGED <<screen, files>>
    BY <1>2, <1>5 DEF ByteCodeExec
  <2>2. Frame("main", Main, "run") \in FrameRecords
    BY <1>1, <1>3, FrameFacts
  <2>3. Frame("main", Main, "run").kind = "main" /\ Frame("main", Main, "run").then = "run"
    BY DEF Frame
  <2> QED
    BY <1>4, <2>1, <2>2, <2>3
<1>6. ASSUME InvokeShutdownCallback PROVE Running'
  <2>1. frames = << >> /\ phase' = "shutdown" /\ frames' = <<Frame("call", None, "run")>> /\ todo' = "run"
        /\ UNCHANGED <<screen, files>>
    BY <1>2, <1>6 DEF InvokeShutdownCallback
  <2>2. Frame("call", None, "run") \in FrameRecords
    BY <1>1, <1>3, FrameFacts
  <2>3. Frame("call", None, "run").kind = "call" /\ Frame("call", None, "run").then = "run"
    BY DEF Frame
  <2> QED
    BY <1>4, <2>1, <2>2, <2>3
<1>7. ASSUME frames = << >>, UNCHANGED <<frames, todo, files>>, nObDepth' = nObDepth PROVE Running'
  <2>1. /\ aFiles' = aFiles /\ aIncluded' = aIncluded /\ container' = container /\ frames' = frames
        /\ todo' = "run" /\ todo' \in Todos
    BY <1>2, <1>3, <1>7 DEF files
  <2> QED
    BY <1>7, <2>1, RunningStays
<1>8. EndShutdown => Running'
  BY <1>7 DEF EndShutdown, screen
<1>9. ASSUME NEW d \in Devices, Configure(d) PROVE Running'
  <2>1. frames = << >>
    BY <1>2, <1>9 DEF Configure
  <2> QED
    BY <1>7, <1>9, <2>1 DEF Configure
<1> QED
  BY <1>5, <1>6, <1>8, <1>9

LEMMA BufferChanged ==
  ASSUME NEW b \in Seq(BufferRecords), NEW i, NEW d, i \in 1 .. Len(b) => d \in Seq(Nat)
  PROVE  /\ [b EXCEPT ![i].data = d] \in Seq(BufferRecords)
         /\ [b EXCEPT ![i].data = d] = << >> <=> b = << >>
<1> DEFINE b2 == [b EXCEPT ![i].data = d]
<1>1. b2 = [j \in 1 .. Len(b) |-> IF j = i THEN [b[i] EXCEPT !.data = d] ELSE b[j]] /\ Len(b) \in Nat
  OBVIOUS
<1>2. \A j \in 1 .. Len(b) : b[j] \in BufferRecords
  OBVIOUS
<1>3. ASSUME i \in 1 .. Len(b) PROVE [b[i] EXCEPT !.data = d] \in BufferRecords
  BY <1>2, <1>3 DEF BufferRecords
<1>4. \A j \in 1 .. Len(b) : (IF j = i THEN [b[i] EXCEPT !.data = d] ELSE b[j]) \in BufferRecords
  BY <1>2, <1>3
<1> HIDE DEF b2
<1>5. b2 \in Seq(BufferRecords) /\ Len(b2) = Len(b)
  BY <1>1, <1>4
<1>6. (b2 = << >> <=> Len(b2) = 0) /\ (b = << >> <=> Len(b) = 0)
  BY <1>5
<1> QED
  BY <1>5, <1>6 DEF b2

LEMMA DeviceFacts ==
  ASSUME Screen, NEW d \in Devices, NEW data \in Seq(Nat), ToDevice(d, data)
  PROVE  out' \in Seq(Devices \X Nat) /\ Len(out') = Len(out) + Len(data)
<1> DEFINE given == [i \in DOMAIN data |-> <<d, data[i]>>]
<1>1. given \in Seq(Devices \X Nat) /\ Len(given) = Len(data)
  <2>1. Len(data) \in Nat /\ DOMAIN data = 1 .. Len(data) /\ \A i \in 1 .. Len(data) : data[i] \in Nat
    OBVIOUS
  <2> QED
    BY <2>1
<1>2. out \in Seq(Devices \X Nat) /\ out' = out \o given
  BY DEF Screen, ToDevice
<1> HIDE DEF given
<1>3. out \o given \in Seq(Devices \X Nat) /\ Len(out \o given) = Len(out) + Len(given)
  BY <1>1, <1>2, ConcatFacts
<1> QED
  BY <1>1, <1>2, <1>3

LEMMA LastBuffer ==
  ASSUME Screen, aOB # << >>
  PROVE  /\ Len(aOB) > 0 /\ Len(aOB) \in Nat /\ Last(aOB) = aOB[Len(aOB)] /\ Last(aOB).data \in Seq(Nat)
         /\ Front(aOB) \in Seq(BufferRecords) /\ (Front(aOB) # << >> <=> Len(aOB) # 1)
<1>1. aOB \in Seq(BufferRecords) /\ Len(aOB) > 0 /\ Len(aOB) \in Nat
  BY DEF Screen
<1>2. Front(aOB) \in Seq(BufferRecords) /\ Len(Front(aOB)) = Len(aOB) - 1 /\ Last(aOB) \in BufferRecords
      /\ Last(aOB) = aOB[Len(aOB)]
  BY <1>1, FrontFacts
<1>3. Front(aOB) # << >> <=> Len(aOB) # 1
  BY <1>1, <1>2
<1> QED
  BY <1>1, <1>2, <1>3 DEF BufferRecords

LEMMA ConsumeScreen ==
  ASSUME Screen, NEW then, NEW heeded, Consume(then, heeded), iAssertFlags' = iAssertFlags
  PROVE  Screen'
<1> DEFINE data == <<echoed + 1>>
<1>1. data \in Seq(Nat) /\ echoed + 1 \in Nat
  BY DEF Screen
<1>2. /\ echoed' = echoed + 1 /\ consumer' = consumer /\ xDef' = xDef /\ room' = room
  BY DEF Consume
<1>3. CASE aOB' = aOB /\ out' = out
  BY <1>1, <1>2, <1>3 DEF Screen
<1>4. CASE /\ aOB # << >> /\ out' = out
           /\ aOB' = [aOB EXCEPT ![Len(aOB)].data = @ \o data]
  <2>1. /\ aOB \in Seq(BufferRecords) /\ Len(aOB) \in 1 .. Len(aOB) /\ aOB[Len(aOB)].data \in Seq(Nat)
    BY <1>4, LastBuffer DEF Screen
  <2>2. aOB[Len(aOB)].data \o data \in Seq(Nat)
    BY <1>1, <2>1
  <2>3. aOB' = [aOB EXCEPT ![Len(aOB)].data = aOB[Len(aOB)].data \o data]
    BY <1>4, <2>1
  <2> DEFINE d == aOB[Len(aOB)].data \o data
             i == Len(aOB)
  <2> HIDE DEF d, i
  <2>4. [aOB EXCEPT ![i].data = d] \in Seq(BufferRecords) /\ ([aOB EXCEPT ![i].data = d] = << >> <=> aOB = << >>)
    BY <2>1, <2>2, BufferChanged DEF d
  <2>5. aOB' \in Seq(BufferRecords) /\ aOB' # << >>
    BY <1>4, <2>3, <2>4 DEF d, i
  <2> QED
    BY <1>1, <1>2, <1>4, <2>5 DEF Screen
<1>5. CASE consumer # "ob" /\ ToDevice(consumer, data) /\ aOB' = aOB
  <2>1. out' \in Seq(Devices \X Nat)
    <3>1. consumer \in Devices
      BY <1>5 DEF Screen
    <3> QED
      BY <1>1, <1>5, <3>1, DeviceFacts
  <2> QED
    BY <1>1, <1>2, <1>5, <2>1 DEF Screen
<1> QED
  BY <1>3, <1>4, <1>5 DEF Consume, ObConsumer

(* One of the script's own calls on its buffers.                           *)
LEMMA BufferScreen ==
  ASSUME Screen
  PROVE  /\ \A cb \in BOOLEAN : ob_start(cb) => Screen'
         /\ ob_clean \/ ob_end_clean \/ ob_flush \/ ob_end_flush => Screen'
<1>1. ASSUME NEW cb \in BOOLEAN, ob_start(cb) PROVE Screen'
  <2> DEFINE b == [cb |-> cb, data |-> << >>]
  <2>1. b \in BufferRecords
    BY DEF BufferRecords
  <2>2. /\ aOB' = Append(aOB, b) /\ consumer' = "ob" /\ xDef' = (IF consumer # "ob" THEN consumer ELSE xDef)
        /\ room' = (IF Len(aOB) < room THEN room ELSE IF room = 0 THEN Room ELSE 2 * room)
        /\ echoed' = echoed /\ out' = out /\ iAssertFlags' = iAssertFlags
    BY <1>1 DEF ob_start, flags
  <2> HIDE DEF b
  <2>3. aOB' \in Seq(BufferRecords) /\ aOB' # << >>
    BY <2>1, <2>2 DEF Screen
  <2>4. room' \in Nat
    <3>1. room \in Nat /\ Room \in Nat /\ 2 * room \in Nat
      BY SessionAssumption DEF Screen
    <3> QED
      BY <2>2, <3>1
  <2>5. xDef' \in Devices
    BY <2>2 DEF Screen
  <2> QED
    BY <2>2, <2>3, <2>4, <2>5 DEF Screen
<1>2. ASSUME aOB # << >>, aOB' = [aOB EXCEPT ![Len(aOB)].data = << >>], consumer' = consumer,
             out' \in Seq(Devices \X Nat),
             UNCHANGED <<xDef, room, echoed, iAssertFlags>>
      PROVE  Screen'
  <2>1. aOB' \in Seq(BufferRecords) /\ aOB' # << >>
    <3>1. aOB \in Seq(BufferRecords) /\ << >> \in Seq(Nat)
      BY DEF Screen
    <3>2. [aOB EXCEPT ![Len(aOB)].data = << >>] \in Seq(BufferRecords)
          /\ ([aOB EXCEPT ![Len(aOB)].data = << >>] = << >> <=> aOB = << >>)
      BY <3>1, BufferChanged
    <3> QED
      BY <1>2, <3>2
  <2> QED
    BY <1>2, <2>1 DEF Screen
<1>3. ASSUME aOB # << >>, aOB' = Front(aOB), ObRestore,
             out' \in Seq(Devices \X Nat),
             UNCHANGED <<xDef, room, echoed, iAssertFlags>>
      PROVE  Screen'
  <2>1. /\ Front(aOB) \in Seq(BufferRecords) /\ (Front(aOB) # << >> <=> Len(aOB) # 1)
    BY <1>3, LastBuffer
  <2>2. xDef \in Devices /\ "ob" \notin Devices
    BY <1>3, SessionAssumption DEF Screen
  <2>3. CASE Len(aOB) = 1
    BY <1>3, <2>1, <2>2, <2>3 DEF Screen, ObRestore
  <2>4. CASE Len(aOB) # 1
    BY <1>3, <2>1, <2>2, <2>4 DEF Screen, ObRestore
  <2> QED
    BY <2>3, <2>4
<1>4. out \in Seq(Devices \X Nat)
  BY DEF Screen
<1>5. ob_clean => Screen'
  BY <1>2, <1>4 DEF ob_clean, flags
<1>6. ob_end_clean => Screen'
  BY <1>3, <1>4 DEF ob_end_clean, flags
<1>7. ASSUME NEW release \in BOOLEAN, aOB # << >>, ObFlush(release), UNCHANGED <<xDef, room, echoed, iAssertFlags>>
      PROVE  Screen'
  <2>1. Last(aOB).data \in Seq(Nat) /\ xDef \in Devices
    BY <1>7, LastBuffer DEF Screen
  <2>2. out' \in Seq(Devices \X Nat)
    <3>1. CASE ToDevice(xDef, Last(aOB).data)
      BY <2>1, <3>1, DeviceFacts
    <3>2. CASE out' = out
      BY <1>4, <3>2
    <3> QED
      BY <1>7, <3>1, <3>2 DEF ObFlush
  <2>3. CASE release
    <3>1. aOB' = Front(aOB) /\ ObRestore
      BY <1>7, <2>3 DEF ObFlush
    <3> QED
      BY <1>3, <1>7, <2>2, <3>1
  <2>4. CASE ~release
    <3>1. aOB' = [aOB EXCEPT ![Len(aOB)].data = << >>] /\ consumer' = consumer
      BY <1>7, <2>4 DEF ObFlush
    <3> QED
      BY <1>2, <1>7, <2>2, <3>1
  <2> QED
    BY <2>3, <2>4
<1>8. ob_flush \/ ob_end_flush => Screen'
  BY <1>7 DEF ob_flush, ob_end_flush, flags
<1> QED
  BY <1>1, <1>5, <1>6, <1>8

LEMMA ReturnObScreen ==
  ASSUME IInv, NEW swallowed \in BOOLEAN, ReturnOb(swallowed)
  PROVE  Screen'
<1> DEFINE f == Head(frames)
           i == f.slot
           d == aOB[f.slot].data \o f.data
<1>1. frames # << >> /\ f \in FrameRecords /\ Screen
  BY CallFacts DEF ReturnOb, Leaves
<1>2. /\ consumer' = consumer /\ xDef' = xDef /\ room' = room /\ out' = out
      /\ echoed' = echoed /\ iAssertFlags' = iAssertFlags
      /\ aOB' = aOB \/ aOB' = [aOB EXCEPT ![f.slot].data = @ \o f.data]
  BY DEF ReturnOb, flags
<1>3. f.data \in Seq(Nat) /\ aOB \in Seq(BufferRecords)
  BY <1>1 DEF FrameRecords, AnyFrame, Screen
<1>4. [aOB EXCEPT ![i].data = @ \o f.data] = [aOB EXCEPT ![i].data = d]
  OBVIOUS
<1>5. i \in 1 .. Len(aOB) => d \in Seq(Nat)
  <2> HIDE DEF f
  <2>1. ASSUME i \in 1 .. Len(aOB) PROVE aOB[i].data \in Seq(Nat)
    <3> HIDE DEF i
    <3>1. aOB[i] \in BufferRecords
      BY <1>3, <2>1
    <3> QED
      BY <3>1 DEF BufferRecords
  <2>2. ASSUME i \in 1 .. Len(aOB) PROVE d \in Seq(Nat)
    BY <1>3, <2>1, <2>2
  <2> QED
    BY <2>2
<1> HIDE DEF d, i
<1>6. [aOB EXCEPT ![i].data = d] \in Seq(BufferRecords) /\ ([aOB EXCEPT ![i].data = d] = << >> <=> aOB = << >>)
  BY <1>3, <1>5, BufferChanged
<1>7. aOB' \in Seq(BufferRecords) /\ (aOB' = << >> <=> aOB = << >>)
  BY <1>2, <1>3, <1>4, <1>6 DEF i
<1> QED
  BY <1>1, <1>2, <1>7 DEF Screen

LEMMA ScreenStep ==
  ASSUME IInv, [Next]_vars
  PROVE  Screen'
<1>0. Screen
  BY DEF IInv
<1>1. ASSUME UNCHANGED screen, echoed' = echoed, iAssertFlags' \in SUBSET Flags PROVE Screen'
  BY <1>0, <1>1 DEF Screen, screen
<1>2. iAssertFlags \in SUBSET Flags
  BY <1>0 DEF Screen
<1>3. CASE Warn
  BY <1>0, <1>1, <1>2, <1>3, ConsumeScreen DEF Warn, flags
<1>4. CASE Echo
  BY <1>0, <1>4, ConsumeScreen DEF Echo, flags
<1>5. CASE \E b \in BOOLEAN : Exit(b)
  BY <1>0, <1>1, <1>2, <1>5, ConsumeScreen DEF Exit, flags
<1>6. CASE \/ \E b \in BOOLEAN : ob_start(b)
           \/ ob_clean \/ ob_end_clean \/ ob_flush \/ ob_end_flush
  BY <1>0, <1>6, BufferScreen
<1>7. CASE \E b \in BOOLEAN : ReturnOb(b)
  BY <1>7, ReturnObScreen
<1>8. CASE \/ Eval \/ ReturnChunk \/ ReturnCall \/ register_shutdown_function \/ ReturnMain
           \/ InvokeShutdownCallback \/ EndShutdown \/ ByteCodeExec
           \/ \E f \in Files, once, required \in BOOLEAN : Include(f, once, required)
           \/ \E b \in BOOLEAN : error_reporting(b) \/ trigger_error(b) \/ assert(b)
  <2>1. UNCHANGED screen /\ echoed' = echoed /\ iAssertFlags' = iAssertFlags
    BY <1>8 DEF Eval, ReturnChunk, ReturnCall, register_shutdown_function, ReturnMain,
         InvokeShutdownCallback, EndShutdown, ByteCodeExec, Include, error_reporting, trigger_error,
         assert, flags
  <2> QED
    BY <1>1, <1>2, <2>1
<1>9. CASE \E o \in Options : assert_options(o[1], o[2])
  <2>1. PICK o \in Options : assert_options(o[1], o[2])
    BY <1>9
  <2>2. UNCHANGED screen /\ echoed' = echoed
    BY <2>1 DEF assert_options
  <2>3. o[1] \in Flags
    BY DEF Flags
  <2>4. iAssertFlags' = (iAssertFlags \ {o[1]}) \cup
          (IF o[2] # << >> /\ o[2][1] # (o[1] = "DISABLE") THEN {o[1]} ELSE {})
    BY <2>1 DEF assert_options
  <2>5. iAssertFlags' \subseteq iAssertFlags \cup {o[1]}
    BY <2>4
  <2> QED
    BY <1>1, <1>2, <2>2, <2>3, <2>5
<1>10. CASE \E d \in Devices : Configure(d)
  <2>1. PICK d \in Devices : Configure(d)
    BY <1>10
  <2>2. /\ consumer' \in Devices /\ UNCHANGED <<xDef, aOB, room, out, echoed, iAssertFlags>>
    BY <2>1 DEF Configure, flags
  <2> QED
    BY <1>0, <2>2, SessionAssumption DEF Screen
<1>11. CASE UNCHANGED vars
  BY <1>1, <1>2, <1>11 DEF vars, flags
<1> QED
  BY <1>3, <1>4, <1>5, <1>6, <1>7, <1>8, <1>9, <1>10, <1>11 DEF Next, Machine

LEMMA RunningStep ==
  ASSUME IInv, [Next]_vars
  PROVE  Running'
<1>1. CASE Machine
  BY <1>1, OutputRuns, BufferRuns, FlagRuns, IncludeRuns, EvalRuns, ReturnRuns, RunRuns DEF Machine
<1>2. CASE ByteCodeExec \/ \E d \in Devices : Configure(d)
  BY <1>2, RunRuns
<1>3. CASE UNCHANGED vars
  <2>1. frames' = frames /\ aFiles' = aFiles /\ aIncluded' = aIncluded /\ container' = container
        /\ nObDepth' = nObDepth /\ todo' = todo /\ phase' = phase
    BY <1>3 DEF vars, files, screen, ending
  <2> QED
    BY <2>1 DEF IInv, Running
<1> QED
  BY <1>1, <1>2, <1>3 DEF Next

LEMMA InitInv ==
  ASSUME Init
  PROVE  IInv
<1>1. << >> \in Seq(FrameRecords) /\ << >> \in Seq(BufferRecords) /\ << >> \in Seq(Devices \X Nat) /\ Len(<< >>) = 0
  OBVIOUS
<1>2. Screen
  BY <1>1, SessionAssumption DEF Init, Screen, Flags
<1>3. Context(<< >>, "run", <<Main>>, {}, 1, 0, "ready")
  <2>1. Reverse(<< >>) = << >>
    BY <1>1, ReverseEmpty
  <2>2. \A E : Num(<< >>, 0, E) = 0
    <3> TAKE E
    <3>1. {h \in 1 .. 0 : << >>[h] \in E} = {}
      OBVIOUS
    <3> QED
      BY <3>1, FS_EmptySet DEF Num
  <2>3. <<Main>> \in Seq(FileNames) /\ Len(<<Main>>) = 1 /\ <<Main>>[1] = Main
    BY DEF FileNames
  <2>4. FilesFit(<< >>, <<Main>>, Exact({}))
    BY <1>1, <2>2, <2>3 DEF FilesFit, FilesExact
  <2>5. Saves(<< >>, 1)
    BY <1>1 DEF Saves, IsTop
  <2>6. Sound(<< >>, <<Main>>, Exact({}), 1, 0)
    BY <1>1, <2>2, <2>4, <2>5 DEF Sound
  <2>7. Ends(<< >>, "ready", "run") /\ "run" \in Todos /\ ObLimit \in Nat
    BY SessionAssumption DEF Ends, Todos
  <2> QED
    BY <1>1, <2>1, <2>6, <2>7 DEF Context
<1> QED
  BY <1>2, <1>3 DEF Init, IInv, Running

LEMMA InvRestores ==
  ASSUME IInv
  PROVE  ContextsRestored
<1> DEFINE s == Reverse(frames)
           chunks == {h \in DOMAIN s : s[h].kind = "chunk"}
           running(k) == {h \in 1 .. k : s[h].kind = "chunk" /\ s[h].file # None}
<1>1. /\ frames \in Seq(FrameRecords) /\ nObDepth <= ObLimit
      /\ Sound(s, aFiles, Exact(aIncluded), container, nObDepth)
  BY DEF IInv, Running, Context
<1>2. s \in Seq(FrameRecords)
  BY <1>1, ReverseFacts
<1> HIDE DEF s
<1>3. /\ Len(s) \in Nat /\ DOMAIN s = 1 .. Len(s)
      /\ \A h \in 1 .. Len(s) : s[h] \in FrameRecords
  BY <1>2
<1>4. ASSUME NEW k \in 0 .. Len(s) PROVE Cardinality(running(k)) = Num(s, k, OfFile)
  <2>1. \A h \in 1 .. k : s[h] \in FrameRecords
    BY <1>3
  <2>2. running(k) = {h \in 1 .. k : s[h] \in OfFile}
    BY <2>1 DEF OfFile
  <2> QED
    BY <2>2 DEF Num
<1>5. ASSUME Exact(aIncluded)
      PROVE  /\ aFiles[1] = Main /\ Len(aFiles) = 1 + Cardinality(running(Len(s)))
             /\ \A h \in running(Len(s)) : aFiles[1 + Cardinality(running(h))] = s[h].file
  <2>1. FilesExact(s, aFiles)
    BY <1>1, <1>5 DEF Sound, FilesFit
  <2>2. Len(aFiles) = 1 + Cardinality(running(Len(s)))
    <3>1. Cardinality(running(Len(s))) = Num(s, Len(s), OfFile)
      BY <1>3, <1>4
    <3> QED
      BY <2>1, <3>1 DEF FilesExact
  <2>3. ASSUME NEW h \in running(Len(s)) PROVE aFiles[1 + Cardinality(running(h))] = s[h].file
    <3>1. h \in 1 .. Len(s) /\ h \in 0 .. Len(s) /\ s[h] \in OfFile
      BY <1>3 DEF OfFile
    <3>2. Cardinality(running(h)) = Num(s, h, OfFile)
      BY <1>4, <3>1
    <3>3. aFiles[1 + Num(s, h, OfFile)] = s[h].file
      BY <2>1, <3>1 DEF FilesExact
    <3> QED
      BY <3>2, <3>3
  <2> QED
    BY <2>1, <2>2, <2>3 DEF FilesExact
<1>6. container = IF chunks = {} THEN 1 ELSE Max(chunks)
  <2>1. IsTop(s, Len(s), container)
    BY <1>1 DEF Sound, Saves
  <2>2. CASE chunks = {}
    <3>1. \A h \in 1 .. Len(s) : s[h].kind # "chunk"
      BY <1>3, <2>2
    <3> QED
      BY <2>1, <2>2, <3>1 DEF IsTop
  <2>3. CASE chunks # {}
    <3>1. container \in chunks /\ \A h \in chunks : container >= h
      BY <1>3, <2>1, <2>3 DEF IsTop
    <3>2. \A h \in chunks : h \in Nat
      BY <1>3
    <3> HIDE DEF chunks
    <3>3. Max(chunks) \in chunks /\ \A h \in chunks : Max(chunks) >= h
      BY <3>1 DEF Max
    <3>4. Max(chunks) = container
      BY <3>1, <3>2, <3>3
    <3> QED
      BY <2>3, <3>4
  <2> QED
    BY <2>2, <2>3
<1>7. nObDepth = Cardinality({h \in DOMAIN s : s[h].kind = "ob"})
  <2>1. {h \in DOMAIN s : s[h].kind = "ob"} = {h \in 1 .. Len(s) : s[h] \in OfBuffer}
    BY <1>3 DEF OfBuffer
  <2> QED
    BY <1>1, <2>1 DEF Sound, Num
<1> QED
  BY <1>1, <1>5, <1>6, <1>7 DEF ContextsRestored, Exact, Stack, s
----------------------------------------------------------------------------
(* Where the chunks are, as a set of places.  A step gives a chunk a       *)
(* place, takes some away, or moves those of one buffer or one callback.   *)

Given(o, c, i, j, n) == c = 0 /\ j = 1 /\ i \in 1 .. Len(o) /\ n = o[i][2]
Buffered(b, c, i, j, n) == c = 1 /\ i \in 1 .. Len(b) /\ j \in 1 .. Len(b[i].data) /\ n = b[i].data[j]
Aside(s, c, i, j, n) == c = 2 /\ i \in 1 .. Len(s) /\ j \in 1 .. Len(s[i].data) /\ n = s[i].data[j]
IsPlace(c, i, j, n) == c \in {0, 1, 2} /\ i \in Nat /\ j \in Nat /\ n \in Nat

LEMMA GivenType ==
  ASSUME NEW o \in Seq(Devices \X Nat), NEW c, NEW i, NEW j, NEW n, Given(o, c, i, j, n)
  PROVE  IsPlace(c, i, j, n)
<1>1. o[i] \in Devices \X Nat /\ i \in Nat
  BY DEF Given
<1> QED
  BY <1>1 DEF Given, IsPlace

LEMMA BufferedType ==
  ASSUME NEW b \in Seq(BufferRecords), NEW c, NEW i, NEW j, NEW n, Buffered(b, c, i, j, n)
  PROVE  IsPlace(c, i, j, n)
<1>1. b[i] \in BufferRecords /\ i \in Nat
  BY DEF Buffered
<1>2. b[i].data \in Seq(Nat)
  BY <1>1 DEF BufferRecords
<1>3. b[i].data[j] \in Nat /\ j \in Nat
  BY <1>2 DEF Buffered
<1> QED
  BY <1>1, <1>3 DEF Buffered, IsPlace

LEMMA AsideType ==
  ASSUME NEW s \in Seq(FrameRecords), NEW c, NEW i, NEW j, NEW n, Aside(s, c, i, j, n)
  PROVE  IsPlace(c, i, j, n) /\ s[i].kind = "ob" /\ j = 1
<1>1. s[i] \in FrameRecords /\ i \in Nat
  BY DEF Aside
<1>2. s[i].data \in Seq(Nat) /\ IF s[i].kind = "ob" THEN Len(s[i].data) = 1 ELSE s[i].data = << >>
  BY <1>1 DEF FrameRecords, AnyFrame
<1>3. s[i].data[j] \in Nat /\ j \in Nat /\ Len(s[i].data) > 0
  BY <1>2 DEF Aside
<1>4. s[i].kind = "ob" /\ Len(s[i].data) = 1
  BY <1>2, <1>3
<1> QED
  BY <1>1, <1>3, <1>4 DEF Aside, IsPlace

PlacedIn(o, b, s) ==
  {<<0, i, 1, o[i][2]>> : i \in DOMAIN o}
    \cup (UNION {{<<1, i, j, b[i].data[j]>> : j \in DOMAIN b[i].data} : i \in DOMAIN b})
    \cup (UNION {{<<2, i, j, s[i].data[j]>> : j \in DOMAIN s[i].data} : i \in DOMAIN s})

LEMMA PlacedAt ==
  ASSUME NEW o \in Seq(Devices \X Nat), NEW b \in Seq(BufferRecords), NEW s \in Seq(FrameRecords)
  PROVE  /\ \A c, i, j, n : <<c, i, j, n>> \in PlacedIn(o, b, s)
              <=> Given(o, c, i, j, n) \/ Buffered(b, c, i, j, n) \/ Aside(s, c, i, j, n)
         /\ \A p \in PlacedIn(o, b, s) : p = <<p[1], p[2], p[3], p[4]>>
<1>1. \A i \in DOMAIN b : b[i].data \in Seq(Nat)
  <2>1. \A i \in DOMAIN b : b[i] \in BufferRecords
    OBVIOUS
  <2> QED
    BY <2>1 DEF BufferRecords
<1>2. \A i \in DOMAIN s : s[i].data \in Seq(Nat)
  <2>1. \A i \in DOMAIN s : s[i] \in FrameRecords
    OBVIOUS
  <2> QED
    BY <2>1 DEF FrameRecords, AnyFrame
<1> DEFINE A == {<<0, k, 1, o[k][2]>> : k \in DOMAIN o}
           B == UNION {{<<1, k, l, b[k].data[l]>> : l \in DOMAIN b[k].data} : k \in DOMAIN b}
           C == UNION {{<<2, k, l, s[k].data[l]>> : l \in DOMAIN s[k].data} : k \in DOMAIN s}
<1>3. ASSUME NEW c, NEW i, NEW j, NEW n
      PROVE  <<c, i, j, n>> \in A <=> Given(o, c, i, j, n)
  BY DEF Given
<1>4. ASSUME NEW c, NEW i, NEW j, NEW n
      PROVE  <<c, i, j, n>> \in B <=> Buffered(b, c, i, j, n)
  <2>1. DOMAIN b = 1 .. Len(b) /\ \A k \in DOMAIN b : DOMAIN b[k].data = 1 .. Len(b[k].data)
    BY <1>1
  <2> QED
    BY <2>1 DEF Buffered
<1>5. ASSUME NEW c, NEW i, NEW j, NEW n
      PROVE  <<c, i, j, n>> \in C <=> Aside(s, c, i, j, n)
  <2>1. DOMAIN s = 1 .. Len(s) /\ \A k \in DOMAIN s : DOMAIN s[k].data = 1 .. Len(s[k].data)
    BY <1>2
  <2> QED
    BY <2>1 DEF Aside
<1>p. PlacedIn(o, b, s) = A \cup B \cup C
  BY DEF PlacedIn
<1>6. ASSUME NEW p \in PlacedIn(o, b, s) PROVE p = <<p[1], p[2], p[3], p[4]>>
  <2>1. CASE p \in A
    BY <2>1
  <2>2. CASE p \in B
    BY <2>2
  <2>3. CASE p \in C
    BY <2>3
  <2> HIDE DEF A, B, C
  <2> QED
    BY <1>p, <2>1, <2>2, <2>3
<1> HIDE DEF A, B, C
<1>7. ASSUME NEW c, NEW i, NEW j, NEW n
      PROVE  <<c, i, j, n>> \in PlacedIn(o, b, s)
               <=> Given(o, c, i, j, n) \/ Buffered(b, c, i, j, n) \/ Aside(s, c, i, j, n)
  BY <1>3, <1>4, <1>5, <1>p
<1> QED
  BY <1>6, <1>7

(* No chunk is lost or in two places, and those of the script itself are   *)
(* in order.                                                               *)
Kept(R, e, gone) ==
  /\ \A n \in 1 .. e : n \in gone \/ \E c, i, j : <<c, i, j, n>> \in R
  /\ gone \subseteq 1 .. e
  /\ \A c, i, j, n : <<c, i, j, n>> \in R => n \in 1 .. e /\ n \notin gone
  /\ \A c, i, j, d, k, l, n : <<c, i, j, n>> \in R /\ <<d, k, l, n>> \in R => c = d /\ i = k /\ j = l

Before(c, i, j, d, k, l) ==
  \/ c < d
  \/ c = d /\ i < k
  \/ c = d /\ i = k /\ j < l

Ordered(R, in) ==
  \A c, i, j, n, d, k, l, m :
    <<c, i, j, n>> \in R /\ <<d, k, l, m>> \in R /\ Before(c, i, j, d, k, l) /\ n \notin in /\ m \notin in => n < m

IsPlaces(R) == \A c, i, j, n : <<c, i, j, n>> \in R => IsPlace(c, i, j, n)

(* What a step may do to the places: chunk m gets one; the chunks lost     *)
(* have none any more; those of buffer b go behind the o that were given;  *)
(* that of callback h goes to place f of buffer b.                         *)
Gains(Q, R, a, b, f, m) ==
  \A c, i, j, n : <<c, i, j, n>> \in Q <=> <<c, i, j, n>> \in R \/ (c = a /\ i = b /\ j = f /\ n = m)
Loses(Q, R, lost) ==
  /\ \A c, i, j, n : <<c, i, j, n>> \in Q => <<c, i, j, n>> \in R /\ n \notin lost
  /\ \A c, i, j, n : <<c, i, j, n>> \in R => <<c, i, j, n>> \in Q \/ n \in lost
Flushed(Q, R, o, b) ==
  \A c, i, j, n : <<c, i, j, n>> \in Q
    <=> \/ <<c, i, j, n>> \in R /\ ~(c = 1 /\ i = b)
        \/ c = 0 /\ j = 1 /\ i \in Nat /\ i > o /\ <<1, b, i - o, n>> \in R
Moved(Q, R, h, b, f, x) ==
  \A c, i, j, n : <<c, i, j, n>> \in Q
    <=> \/ <<c, i, j, n>> \in R /\ ~(c = 2 /\ i = h)
        \/ c = 1 /\ i = b /\ j = f /\ n = x

(* Before that: o were given, and places in a buffer count from 1.  There  *)
(* is nothing but what was given and what buffer b holds.                  *)
FlushFrom(R, o, b) ==
  /\ \A c, i, j, n : <<c, i, j, n>> \in R /\ c = 0 => i <= o /\ j = 1
  /\ \A c, i, j, n : <<c, i, j, n>> \in R /\ c = 1 /\ i = b => j >= 1
AllIn(R, b) == \A c, i, j, n : <<c, i, j, n>> \in R => c = 0 \/ (c = 1 /\ i = b)

(* No chunk of the script itself is past a place.                          *)
Behind(R, in, a, b, f) == \A c, i, j, n : <<c, i, j, n>> \in R /\ n \notin in => ~Before(a, b, f, c, i, j)

LEMMA KeptSame ==
  ASSUME NEW R, NEW Q, \A c, i, j, n : <<c, i, j, n>> \in Q <=> <<c, i, j, n>> \in R,
         NEW e, NEW gone, Kept(R, e, gone), NEW in
  PROVE  Kept(Q, e, gone) /\ (Ordered(R, in) => Ordered(Q, in))
<1>1. Kept(Q, e, gone)
  <2>1. /\ \A n \in 1 .. e : n \in gone \/ \E c, i, j : <<c, i, j, n>> \in R
        /\ gone \subseteq 1 .. e
        /\ \A c, i, j, n : <<c, i, j, n>> \in R => n \in 1 .. e /\ n \notin gone
        /\ \A c, i, j, d, k, l, n : <<c, i, j, n>> \in R /\ <<d, k, l, n>> \in R => c = d /\ i = k /\ j = l
    BY DEF Kept
  <2>2. \A n \in 1 .. e : n \in gone \/ \E c, i, j : <<c, i, j, n>> \in Q
    BY <2>1
  <2>3. \A c, i, j, n : <<c, i, j, n>> \in Q => n \in 1 .. e /\ n \notin gone
    BY <2>1
  <2>4. \A c, i, j, d, k, l, n : <<c, i, j, n>> \in Q /\ <<d, k, l, n>> \in Q => c = d /\ i = k /\ j = l
    BY <2>1
  <2> QED
    BY <2>1, <2>2, <2>3, <2>4 DEF Kept
<1>2. Ordered(R, in) => Ordered(Q, in)
  BY DEF Ordered
<1> QED
  BY <1>1, <1>2

LEMMA KeptNew ==
  ASSUME NEW R, NEW Q, NEW a, NEW b, NEW f, NEW e \in Nat, NEW gone, Kept(R, e, gone),
         Gains(Q, R, a, b, f, e + 1)
  PROVE  Kept(Q, e + 1, gone)
<1>0. \A c, i, j, n : <<c, i, j, n>> \in Q <=> <<c, i, j, n>> \in R \/ (c = a /\ i = b /\ j = f /\ n = e + 1)
  BY DEF Gains
<1>1. \A n \in 1 .. e + 1 : n \in 1 .. e \/ n = e + 1
  OBVIOUS
<1>2. 1 .. e \subseteq 1 .. e + 1 /\ e + 1 \in 1 .. e + 1 /\ e + 1 \notin 1 .. e
  OBVIOUS
<1> HIDE DEF Kept
<1>3. /\ \A n \in 1 .. e : n \in gone \/ \E c, i, j : <<c, i, j, n>> \in R
      /\ gone \subseteq 1 .. e
      /\ \A c, i, j, n : <<c, i, j, n>> \in R => n \in 1 .. e /\ n \notin gone
      /\ \A c, i, j, d, k, l, n : <<c, i, j, n>> \in R /\ <<d, k, l, n>> \in R => c = d /\ i = k /\ j = l
  BY DEF Kept
<1>4. ASSUME NEW n \in 1 .. e + 1 PROVE n \in gone \/ \E c, i, j : <<c, i, j, n>> \in Q
  <2>1. CASE n \in 1 .. e
    BY <1>0, <1>3, <2>1
  <2>2. CASE n = e + 1
    <3>1. <<a, b, f, n>> \in Q
      BY <1>0, <2>2
    <3> QED
      BY <3>1
  <2> QED
    BY <1>1, <2>1, <2>2
<1>5. gone \subseteq 1 .. e + 1 /\ e + 1 \notin gone
  BY <1>2, <1>3
<1>6. \A c, i, j, n : <<c, i, j, n>> \in Q => n \in 1 .. e + 1 /\ n \notin gone
  BY <1>0, <1>2, <1>3, <1>5
<1>7. ASSUME NEW c, NEW i, NEW j, NEW d, NEW k, NEW l, NEW n, <<c, i, j, n>> \in Q, <<d, k, l, n>> \in Q
      PROVE  c = d /\ i = k /\ j = l
  BY <1>0, <1>2, <1>3, <1>7
<1> QED
  BY <1>4, <1>5, <1>6, <1>7 DEF Kept

LEMMA OrderNew ==
  ASSUME NEW R, NEW Q, NEW a \in Nat, NEW b \in Nat, NEW f \in Nat, NEW e \in Nat, NEW gone, Kept(R, e, gone),
         Gains(Q, R, a, b, f, e + 1), NEW in, Ordered(R, in), NEW in2, in \subseteq in2,
         e + 1 \in in2 \/ Behind(R, in, a, b, f)
  PROVE  Ordered(Q, in2)
<1>0. \A c, i, j, n : <<c, i, j, n>> \in Q <=> <<c, i, j, n>> \in R \/ (c = a /\ i = b /\ j = f /\ n = e + 1)
  BY DEF Gains
<1> SUFFICES ASSUME NEW c, NEW i, NEW j, NEW n, NEW d, NEW k, NEW l, NEW m,
                    <<c, i, j, n>> \in Q, <<d, k, l, m>> \in Q, Before(c, i, j, d, k, l), n \notin in2, m \notin in2
             PROVE  n < m
  BY DEF Ordered
<1>1. n \notin in /\ m \notin in
  OBVIOUS
<1>2. \A x, y, z, u : <<x, y, z, u>> \in R => u \in 1 .. e
  BY DEF Kept
<1>3. CASE <<c, i, j, n>> \in R /\ <<d, k, l, m>> \in R
  BY <1>1, <1>3 DEF Ordered
<1>4. CASE <<c, i, j, n>> \in R /\ m = e + 1
  <2>1. n \in 1 .. e
    BY <1>2, <1>4
  <2> QED
    BY <1>4, <2>1
<1>5. CASE c = a /\ i = b /\ j = f /\ n = e + 1 /\ <<d, k, l, m>> \in R
  BY <1>1, <1>5 DEF Behind
<1>6. CASE c = a /\ i = b /\ j = f /\ d = a /\ k = b /\ l = f
  BY <1>6 DEF Before
<1> QED
  BY <1>0, <1>3, <1>4, <1>5, <1>6

LEMMA KeptLess ==
  ASSUME NEW R, NEW Q, NEW e, NEW gone, Kept(R, e, gone), NEW lost, NEW in,
         Loses(Q, R, lost), lost \subseteq 1 .. e
  PROVE  Kept(Q, e, gone \cup lost) /\ (Ordered(R, in) => Ordered(Q, in))
<1>0. /\ \A c, i, j, n : <<c, i, j, n>> \in Q => <<c, i, j, n>> \in R /\ n \notin lost
      /\ \A c, i, j, n : <<c, i, j, n>> \in R => <<c, i, j, n>> \in Q \/ n \in lost
  BY DEF Loses
<1>1. Kept(Q, e, gone \cup lost)
  <2>1. /\ \A n \in 1 .. e : n \in gone \/ \E c, i, j : <<c, i, j, n>> \in R
        /\ gone \subseteq 1 .. e
        /\ \A c, i, j, n : <<c, i, j, n>> \in R => n \in 1 .. e /\ n \notin gone
        /\ \A c, i, j, d, k, l, n : <<c, i, j, n>> \in R /\ <<d, k, l, n>> \in R => c = d /\ i = k /\ j = l
    BY DEF Kept
  <2>2. \A n \in 1 .. e : n \in gone \cup lost \/ \E c, i, j : <<c, i, j, n>> \in Q
    BY <1>0, <2>1
  <2>3. \A c, i, j, n : <<c, i, j, n>> \in Q => n \in 1 .. e /\ n \notin gone \cup lost
    BY <1>0, <2>1
  <2>4. \A c, i, j, d, k, l, n : <<c, i, j, n>> \in Q /\ <<d, k, l, n>> \in Q => c = d /\ i = k /\ j = l
    BY <1>0, <2>1
  <2> QED
    BY <2>1, <2>2, <2>3, <2>4 DEF Kept
<1>2. Ordered(R, in) => Ordered(Q, in)
  BY <1>0 DEF Ordered
<1> QED
  BY <1>1, <1>2

(* The buffer on top goes behind what was given.                           *)
LEMMA KeptFlush ==
  ASSUME NEW R, NEW Q, NEW e, NEW gone, Kept(R, e, gone), IsPlaces(R), NEW o \in Nat, NEW b \in Nat, NEW in,
         FlushFrom(R, o, b), Flushed(Q, R, o, b)
  PROVE  /\ Kept(Q, e, gone)
         /\ AllIn(R, b) /\ Ordered(R, in) => Ordered(Q, in)
<1>a. /\ \A c, i, j, n : <<c, i, j, n>> \in R /\ c = 0 => i <= o /\ j = 1
      /\ \A c, i, j, n : <<c, i, j, n>> \in R /\ c = 1 /\ i = b => j >= 1
  BY DEF FlushFrom
<1>0. \A c, i, j, n : <<c, i, j, n>> \in Q
        <=> \/ <<c, i, j, n>> \in R /\ ~(c = 1 /\ i = b)
            \/ c = 0 /\ j = 1 /\ i \in Nat /\ i > o /\ <<1, b, i - o, n>> \in R
  BY DEF Flushed
<1>1. ASSUME NEW n \in 1 .. e PROVE n \in gone \/ \E c, i, j : <<c, i, j, n>> \in Q
  <2>1. CASE n \notin gone
    <3>1. PICK c, i, j : <<c, i, j, n>> \in R
      BY <2>1 DEF Kept
    <3>2. CASE c = 1 /\ i = b
      <4>1. j \in Nat /\ j >= 1
        BY <1>a, <3>1, <3>2 DEF IsPlaces, IsPlace
      <4>2. o + j \in Nat /\ o + j > o /\ (o + j) - o = j
        BY <4>1
      <4>3. <<0, o + j, 1, n>> \in Q
        BY <1>0, <3>1, <3>2, <4>2
      <4> QED
        BY <4>3
    <3>3. CASE ~(c = 1 /\ i = b)
      BY <1>0, <3>1, <3>3
    <3> QED
      BY <3>2, <3>3
  <2> QED
    BY <2>1
<1>2. \A c, i, j, n : <<c, i, j, n>> \in Q => n \in 1 .. e /\ n \notin gone
  <2>1. \A c, i, j, n : <<c, i, j, n>> \in R => n \in 1 .. e /\ n \notin gone
    BY DEF Kept
  <2> QED
    BY <1>0, <2>1
<1>3. ASSUME NEW c, NEW i, NEW j, NEW d, NEW k, NEW l, NEW n, <<c, i, j, n>> \in Q, <<d, k, l, n>> \in Q
      PROVE  c = d /\ i = k /\ j = l
  <2>1. \A a, f, g, x, y, z : <<a, f, g, n>> \in R /\ <<x, y, z, n>> \in R => a = x /\ f = y /\ g = z
    BY DEF Kept
  <2>2. CASE <<c, i, j, n>> \in R /\ ~(c = 1 /\ i = b) /\ <<d, k, l, n>> \in R
    BY <2>1, <2>2
  <2>3. CASE <<c, i, j, n>> \in R /\ ~(c = 1 /\ i = b) /\ <<1, b, k - o, n>> \in R
    BY <2>1, <2>3
  <2>4. CASE <<1, b, i - o, n>> \in R /\ <<d, k, l, n>> \in R /\ ~(d = 1 /\ k = b)
    BY <2>1, <2>4
  <2>5. CASE /\ c = 0 /\ j = 1 /\ i \in Nat /\ <<1, b, i - o, n>> \in R
             /\ d = 0 /\ l = 1 /\ k \in Nat /\ <<1, b, k - o, n>> \in R
    <3>1. i - o = k - o
      BY <2>1, <2>5
    <3> QED
      BY <2>5, <3>1
  <2> QED
    BY <1>0, <1>3, <2>2, <2>3, <2>4, <2>5
<1>4. ASSUME AllIn(R, b), Ordered(R, in)
      PROVE  Ordered(Q, in)
  <2> SUFFICES ASSUME NEW c, NEW i, NEW j, NEW n, NEW d, NEW k, NEW l, NEW m,
                      <<c, i, j, n>> \in Q, <<d, k, l, m>> \in Q, Before(c, i, j, d, k, l), n \notin in, m \notin in
               PROVE  n < m
    BY DEF Ordered
  <2>1. \/ <<c, i, j, n>> \in R /\ c = 0 /\ i <= o /\ j = 1 /\ i \in Nat
        \/ c = 0 /\ j = 1 /\ i \in Nat /\ i > o /\ <<1, b, i - o, n>> \in R
    BY <1>0, <1>4, <1>a DEF IsPlaces, IsPlace, AllIn
  <2>2. \/ <<d, k, l, m>> \in R /\ d = 0 /\ k <= o /\ l = 1 /\ k \in Nat
        \/ d = 0 /\ l = 1 /\ k \in Nat /\ k > o /\ <<1, b, k - o, m>> \in R
    BY <1>0, <1>4, <1>a DEF IsPlaces, IsPlace, AllIn
  <2>3. i < k
    BY <2>1, <2>2 DEF Before
  <2>4. CASE <<c, i, j, n>> \in R /\ <<d, k, l, m>> \in R
    BY <1>4, <2>4 DEF Ordered
  <2>5. CASE <<c, i, j, n>> \in R /\ c = 0 /\ <<1, b, k - o, m>> \in R
    <3>0. c < 1
      BY <2>5
    <3>1. Before(c, i, j, 1, b, k - o)
      BY <3>0, Zenon DEF Before
    <3> QED
      BY <1>4, <2>5, <3>1 DEF Ordered
  <2>6. CASE i \in Nat /\ k \in Nat /\ <<1, b, i - o, n>> \in R /\ <<1, b, k - o, m>> \in R
    <3>1. Before(1, b, i - o, 1, b, k - o)
      BY <2>3, <2>6 DEF Before
    <3> QED
      BY <1>4, <2>6, <3>1 DEF Ordered
  <2> QED
    BY <2>1, <2>2, <2>3, <2>4, <2>5, <2>6
<1> QED
  BY <1>1, <1>2, <1>3, <1>4 DEF Kept

(* Of the script's own chunks, none but that of callback h is past place f *)
(* of buffer b.                                                            *)
Latest(R, in, h, b, f) ==
  \A c, i, j, n : <<c, i, j, n>> \in R /\ n \notin in /\ ~(c = 2 /\ i = h) => c < 2 /\ ~Before(1, b, f, c, i, j)

(* What a callback held goes to the end of the buffer it was found for.    *)
LEMMA KeptReturn ==
  ASSUME NEW R, NEW Q, NEW e \in Nat, NEW gone, Kept(R, e, gone), IsPlaces(R), NEW in,
         NEW h \in Nat, NEW b \in Nat, NEW f \in Nat, NEW x, <<2, h, 1, x>> \in R,
         \A c, i, j, n : <<c, i, j, n>> \in R /\ c = 2 /\ i = h => j = 1 /\ n = x,
         Moved(Q, R, h, b, f, x)
  PROVE  /\ Kept(Q, e, gone)
         /\ Ordered(R, in) /\ (x \in in \/ Latest(R, in, h, b, f)) => Ordered(Q, in)
<1>0. \A c, i, j, n : <<c, i, j, n>> \in Q
        <=> \/ <<c, i, j, n>> \in R /\ ~(c = 2 /\ i = h)
            \/ c = 1 /\ i = b /\ j = f /\ n = x
  BY DEF Moved
<1>1. ASSUME NEW n \in 1 .. e PROVE n \in gone \/ \E c, i, j : <<c, i, j, n>> \in Q
  <2>1. CASE n \notin gone
    <3>1. PICK c, i, j : <<c, i, j, n>> \in R
      BY <2>1 DEF Kept
    <3>2. CASE c = 2 /\ i = h
      <4>1. <<1, b, f, n>> \in Q
        BY <1>0, <3>1, <3>2
      <4> QED
        BY <4>1
    <3>3. CASE ~(c = 2 /\ i = h)
      BY <1>0, <3>1, <3>3
    <3> QED
      BY <3>2, <3>3
  <2> QED
    BY <2>1
<1>2. \A c, i, j, n : <<c, i, j, n>> \in Q => n \in 1 .. e /\ n \notin gone
  BY <1>0 DEF Kept
<1>3. ASSUME NEW c, NEW i, NEW j, NEW d, NEW k, NEW l, NEW n, <<c, i, j, n>> \in Q, <<d, k, l, n>> \in Q
      PROVE  c = d /\ i = k /\ j = l
  <2>1. \A a, u, g, p, y, z : <<a, u, g, n>> \in R /\ <<p, y, z, n>> \in R => a = p /\ u = y /\ g = z
    BY DEF Kept
  <2>2. CASE <<c, i, j, n>> \in R /\ <<d, k, l, n>> \in R
    BY <2>1, <2>2
  <2>3. CASE n = x
    <3>1. c = 1 /\ i = b /\ j = f
      BY <1>0, <1>3, <2>1, <2>3
    <3>2. d = 1 /\ k = b /\ l = f
      BY <1>0, <1>3, <2>1, <2>3
    <3> QED
      BY <3>1, <3>2
  <2> QED
    BY <1>0, <1>3, <2>2, <2>3
<1>4. ASSUME Ordered(R, in), x \in in \/ Latest(R, in, h, b, f)
      PROVE  Ordered(Q, in)
  <2> SUFFICES ASSUME NEW c, NEW i, NEW j, NEW n, NEW d, NEW k, NEW l, NEW m,
                      <<c, i, j, n>> \in Q, <<d, k, l, m>> \in Q, Before(c, i, j, d, k, l), n \notin in, m \notin in
               PROVE  n < m
    BY DEF Ordered
  <2>1. CASE <<c, i, j, n>> \in R /\ <<d, k, l, m>> \in R
    BY <1>4, <2>1 DEF Ordered
  <2>2. CASE <<c, i, j, n>> \in R /\ ~(c = 2 /\ i = h) /\ d = 1 /\ k = b /\ l = f /\ m = x
    <3>1. c < 2 /\ c \in Nat
      BY <1>4, <2>2 DEF IsPlaces, IsPlace, Latest
    <3>2. Before(c, i, j, 2, h, 1)
      BY <3>1, Zenon DEF Before
    <3> QED
      BY <1>4, <2>2, <3>2 DEF Ordered
  <2>3. CASE c = 1 /\ i = b /\ j = f /\ n = x /\ <<d, k, l, m>> \in R /\ ~(d = 2 /\ k = h)
    BY <1>4, <2>3 DEF Latest
  <2>4. CASE c = 1 /\ i = b /\ j = f /\ d = 1 /\ k = b /\ l = f
    BY <2>4 DEF Before
  <2> QED
    BY <1>0, <2>1, <2>2, <2>3, <2>4
<1> QED
  BY <1>1, <1>2, <1>3, <1>4 DEF Kept

(* Device d is given data, after o; buffer k of b comes to hold d.         *)
Delivered(p, o, d, data) == p = o \o [k \in DOMAIN data |-> <<d, data[k]>>]
Refilled(p, b, k, d) == p = [b EXCEPT ![k].data = d]
PlacesGrow(p, o, data) ==
  \A c, i, j, n :
    Given(p, c, i, j, n)
      <=> \/ Given(o, c, i, j, n)
          \/ c = 0 /\ j = 1 /\ i \in Nat /\ i - Len(o) \in 1 .. Len(data) /\ n = data[i - Len(o)]
PlacesRefilled(p, b, h, d) ==
  \A c, i, j, n :
    Buffered(p, c, i, j, n)
      <=> \/ Buffered(b, c, i, j, n) /\ i # h
          \/ c = 1 /\ i = h /\ j \in 1 .. Len(d) /\ n = d[j]

LEMMA GivenGrows ==
  ASSUME NEW o \in Seq(Devices \X Nat), NEW d \in Devices, NEW data \in Seq(Nat),
         NEW p, Delivered(p, o, d, data)
  PROVE  PlacesGrow(p, o, data)
<1> SUFFICES ASSUME NEW c, NEW i, NEW j, NEW n
             PROVE  Given(p, c, i, j, n)
                      <=> \/ Given(o, c, i, j, n)
                          \/ c = 0 /\ j = 1 /\ i \in Nat /\ i - Len(o) \in 1 .. Len(data) /\ n = data[i - Len(o)]
  BY DEF PlacesGrow
<1> DEFINE g == [k \in DOMAIN data |-> <<d, data[k]>>]
<1>0. Len(o) \in Nat /\ Len(data) \in Nat /\ DOMAIN data = 1 .. Len(data) /\ \A k \in 1 .. Len(data) : data[k] \in Nat
  OBVIOUS
<1>1. /\ Len(o) \in Nat /\ Len(data) \in Nat
      /\ g \in Seq(Devices \X Nat) /\ Len(g) = Len(data)
      /\ \A k \in 1 .. Len(data) : g[k] = <<d, data[k]>>
  BY <1>0
<1> HIDE DEF g
<1>2. /\ Len(p) = Len(o) + Len(g)
      /\ \A k \in 1 .. Len(o) : p[k] = o[k]
      /\ \A k \in 1 .. Len(g) : p[Len(o) + k] = g[k]
  <2>1. /\ Len(o \o g) = Len(o) + Len(g)
        /\ \A k \in 1 .. Len(o) : (o \o g)[k] = o[k]
        /\ \A k \in 1 .. Len(g) : (o \o g)[Len(o) + k] = g[k]
    <3> DEFINE S == Devices \X Nat
    <3>1. o \in Seq(S) /\ g \in Seq(S)
      BY <1>1
    <3> HIDE DEF S
    <3> QED
      BY <3>1, ConcatFacts
  <2>2. p = o \o g
    BY DEF g, Delivered
  <2> QED
    BY <2>1, <2>2
<1>3. CASE i \in 1 .. Len(o)
  BY <1>1, <1>2, <1>3 DEF Given
<1>4. CASE i \in Nat /\ i - Len(o) \in 1 .. Len(data)
  <2>0. i - Len(o) \in 1 .. Len(g) /\ Len(o) + (i - Len(o)) = i
    BY <1>1, <1>4
  <2>1. p[Len(o) + (i - Len(o))] = g[i - Len(o)] /\ Len(o) + (i - Len(o)) = i
    BY <1>2, <2>0
  <2>a. i \in 1 .. Len(p) /\ i \notin 1 .. Len(o)
    BY <1>1, <1>2, <1>4
  <2>b. g[i - Len(o)] = <<d, data[i - Len(o)]>>
    BY <1>1, <1>4
  <2>2. p[i][2] = data[i - Len(o)] /\ i \in 1 .. Len(p) /\ i \notin 1 .. Len(o)
    BY <2>1, <2>a, <2>b
  <2> QED
    BY <1>4, <2>2 DEF Given
<1>5. CASE i \notin 1 .. Len(o) /\ ~(i \in Nat /\ i - Len(o) \in 1 .. Len(data))
  <2>1. i \notin 1 .. Len(p)
    BY <1>1, <1>2, <1>5
  <2> QED
    BY <1>5, <2>1 DEF Given
<1> QED
  BY <1>3, <1>4, <1>5

LEMMA BufferedPopped ==
  ASSUME NEW b \in Seq(BufferRecords), Len(b) > 0, NEW c, NEW i, NEW j, NEW n
  PROVE  Buffered(Front(b), c, i, j, n) <=> Buffered(b, c, i, j, n) /\ i # Len(b)
<1>1. /\ Len(Front(b)) = Len(b) - 1 /\ Len(b) - 1 \in Nat
      /\ \A k \in 1 .. Len(b) - 1 : Front(b)[k] = b[k]
  BY FrontFacts
<1>2. i \in 1 .. Len(b) - 1 <=> i \in 1 .. Len(b) /\ i # Len(b)
  BY <1>1
<1> QED
  BY <1>1, <1>2 DEF Buffered

LEMMA BufferedStarted ==
  ASSUME NEW b \in Seq(BufferRecords), NEW x, x.data = << >>, NEW c, NEW i, NEW j, NEW n
  PROVE  Buffered(Append(b, x), c, i, j, n) <=> Buffered(b, c, i, j, n)
<1> DEFINE p == Append(b, x)
<1>1. /\ Len(p) = Len(b) + 1 /\ Len(b) \in Nat /\ p[Len(b) + 1] = x
      /\ \A k \in 1 .. Len(b) : p[k] = b[k]
  OBVIOUS
<1> HIDE DEF p
<1> SUFFICES Buffered(p, c, i, j, n) <=> Buffered(b, c, i, j, n)
  BY DEF p
<1>2. CASE i \in 1 .. Len(b)
  BY <1>1, <1>2 DEF Buffered
<1>3. CASE i = Len(b) + 1
  <2>1. Len(p[i].data) = 0
    BY <1>1, <1>3
  <2> QED
    BY <1>1, <1>3, <2>1 DEF Buffered
<1>4. CASE i \notin 1 .. Len(b) /\ i # Len(b) + 1
  BY <1>1, <1>4 DEF Buffered
<1> QED
  BY <1>2, <1>3, <1>4

LEMMA BufferedChanged ==
  ASSUME NEW b \in Seq(BufferRecords), NEW k \in 1 .. Len(b), NEW d, NEW p, Refilled(p, b, k, d)
  PROVE  PlacesRefilled(p, b, k, d)
<1> SUFFICES ASSUME NEW c, NEW i, NEW j, NEW n
             PROVE  Buffered(p, c, i, j, n)
                      <=> \/ Buffered(b, c, i, j, n) /\ i # k
                          \/ c = 1 /\ i = k /\ j \in 1 .. Len(d) /\ n = d[j]
  BY DEF PlacesRefilled
<1>1. /\ p = [m \in 1 .. Len(b) |-> IF m = k THEN [b[k] EXCEPT !.data = d] ELSE b[m]]
      /\ Len(b) \in Nat /\ b[k] \in BufferRecords
  <2> DEFINE r == [b[k] EXCEPT !.data = d]
  <2>1. p = [b EXCEPT ![k] = r]
    BY DEF Refilled
  <2> HIDE DEF r
  <2>2. DOMAIN b = 1 .. Len(b) /\ Len(b) \in Nat /\ b[k] \in BufferRecords
    OBVIOUS
  <2>3. p = [m \in DOMAIN b |-> IF m = k THEN r ELSE b[m]]
    BY <2>1, Zenon
  <2>4. p = [m \in 1 .. Len(b) |-> IF m = k THEN r ELSE b[m]]
    BY <2>2, <2>3
  <2> QED
    BY <2>2, <2>4 DEF r
<1>2. [b[k] EXCEPT !.data = d].data = d
  BY <1>1 DEF BufferRecords
<1>3. Len(p) = Len(b) /\ p[k].data = d /\ \A m \in 1 .. Len(b) : m # k => p[m] = b[m]
  <2>1. Len(p) = Len(b)
    BY <1>1
  <2>2. p[k] = [b[k] EXCEPT !.data = d]
    BY <1>1
  <2>3. \A m \in 1 .. Len(b) : m # k => p[m] = b[m]
    BY <1>1
  <2> QED
    BY <1>2, <2>1, <2>2, <2>3
<1>4. Buffered(p, c, i, j, n)
        <=> \/ Buffered(b, c, i, j, n) /\ i # k
            \/ c = 1 /\ i = k /\ j \in 1 .. Len(d) /\ n = d[j]
  <2>1. CASE i = k
    BY <1>3, <2>1 DEF Buffered
  <2>2. CASE i # k
    BY <1>3, <2>2 DEF Buffered
  <2> QED
    BY <2>1, <2>2
<1> QED
  BY <1>4

LEMMA AsidePushed ==
  ASSUME NEW s \in Seq(FrameRecords), NEW e \in FrameRecords, NEW c, NEW i, NEW j, NEW n
  PROVE  Aside(Append(s, e), c, i, j, n)
           <=> \/ Aside(s, c, i, j, n)
               \/ c = 2 /\ i = Len(s) + 1 /\ j \in 1 .. Len(e.data) /\ n = e.data[j]
<1> DEFINE p == Append(s, e)
<1>1. /\ Len(p) = Len(s) + 1 /\ Len(s) \in Nat /\ p[Len(s) + 1] = e
      /\ \A k \in 1 .. Len(s) : p[k] = s[k]
  BY AppendFacts
<1> HIDE DEF p
<1> SUFFICES Aside(p, c, i, j, n)
               <=> Aside(s, c, i, j, n) \/ (c = 2 /\ i = Len(s) + 1 /\ j \in 1 .. Len(e.data) /\ n = e.data[j])
  BY DEF p
<1>2. CASE i \in 1 .. Len(s)
  BY <1>1, <1>2 DEF Aside
<1>3. CASE i = Len(s) + 1
  BY <1>1, <1>3 DEF Aside
<1>4. CASE i \notin 1 .. Len(s) /\ i # Len(s) + 1
  BY <1>1, <1>4 DEF Aside
<1> QED
  BY <1>2, <1>3, <1>4

LEMMA AsidePopped ==
  ASSUME NEW s \in Seq(FrameRecords), Len(s) > 0, NEW c, NEW i, NEW j, NEW n
  PROVE  Aside(Front(s), c, i, j, n) <=> Aside(s, c, i, j, n) /\ i # Len(s)
<1>1. /\ Len(Front(s)) = Len(s) - 1 /\ Len(s) - 1 \in Nat
      /\ \A k \in 1 .. Len(s) - 1 : Front(s)[k] = s[k]
  BY FrontFacts
<1>2. i \in 1 .. Len(s) - 1 <=> i \in 1 .. Len(s) /\ i # Len(s)
  BY <1>1
<1> QED
  BY <1>1, <1>2 DEF Aside
----------------------------------------------------------------------------
(* The callbacks of buffers among the frames.                              *)

(* Those of t are those of s.                                              *)
Fewer(s, t) == \A h \in 1 .. Len(t) : t[h].kind = "ob" => h \in 1 .. Len(s) /\ s[h] = t[h]
Calm(s, t) == Fewer(s, t) /\ Fewer(t, s)

LEMMA CalmPush ==
  ASSUME NEW s \in Seq(FrameRecords), NEW e \in FrameRecords, e.kind # "ob"
  PROVE  Calm(s, Append(s, e))
<1>1. /\ Len(Append(s, e)) = Len(s) + 1 /\ Len(s) \in Nat /\ Append(s, e)[Len(s) + 1] = e
      /\ \A k \in 1 .. Len(s) : Append(s, e)[k] = s[k]
  BY AppendFacts
<1> QED
  BY <1>1 DEF Calm, Fewer

LEMMA CalmPop ==
  ASSUME NEW s \in Seq(FrameRecords), Len(s) > 0
  PROVE  Fewer(s, Front(s)) /\ (Last(s).kind # "ob" => Calm(s, Front(s)))
<1>1. /\ Len(Front(s)) = Len(s) - 1 /\ Len(s) - 1 \in Nat /\ Last(s) = s[Len(s)]
      /\ \A k \in 1 .. Len(s) - 1 : Front(s)[k] = s[k]
  BY FrontFacts
<1> QED
  BY <1>1 DEF Calm, Fewer

LEMMA CalmTrans ==
  ASSUME NEW s, NEW t, NEW u, Calm(s, t), Calm(t, u)
  PROVE  Calm(s, u)
  BY DEF Calm, Fewer

LEMMA CalmAside ==
  ASSUME NEW s \in Seq(FrameRecords), NEW t \in Seq(FrameRecords), Calm(s, t), NEW c, NEW i, NEW j, NEW n
  PROVE  Aside(t, c, i, j, n) <=> Aside(s, c, i, j, n)
<1>1. ASSUME Aside(t, c, i, j, n) PROVE Aside(s, c, i, j, n)
  <2>1. t[i].kind = "ob"
    BY <1>1, AsideType
  <2> QED
    BY <1>1, <2>1 DEF Calm, Fewer, Aside
<1>2. ASSUME Aside(s, c, i, j, n) PROVE Aside(t, c, i, j, n)
  <2>1. s[i].kind = "ob"
    BY <1>2, AsideType
  <2> QED
    BY <1>2, <2>1 DEF Calm, Fewer, Aside
<1> QED
  BY <1>1, <1>2

(* What is in a buffer of d that is not in b is one of those in `in'.      *)
AddsOnly(b, d, in) == \A k, j, n : Buffered(d, 1, k, j, n) => Buffered(b, 1, k, j, n) \/ n \in in

(* A callback that holds a chunk of the script itself runs under no other, *)
(* and above the buffer it was called for there are only chunks it echoed. *)
Nest(s, b, in) ==
  \A h \in 1 .. Len(s) :
    s[h].kind = "ob" /\ s[h].data[1] \notin in =>
      /\ \A g \in 1 .. h - 1 : s[g].kind # "ob"
      /\ \A k, j, n : Buffered(b, 1, k, j, n) /\ k > s[h].slot => n \in in

LEMMA NestFewer ==
  ASSUME NEW s, NEW t, Fewer(s, t), Len(t) \in Nat, NEW b, NEW d, NEW in, NEW in2, in \subseteq in2, Nest(s, b, in),
         AddsOnly(b, d, in2)
  PROVE  Nest(t, d, in2)
<1> SUFFICES ASSUME NEW h \in 1 .. Len(t), t[h].kind = "ob", t[h].data[1] \notin in2
             PROVE  /\ \A g \in 1 .. h - 1 : t[g].kind # "ob"
                    /\ \A k, j, n : Buffered(d, 1, k, j, n) /\ k > t[h].slot => n \in in2
  BY DEF Nest
<1>1. h \in 1 .. Len(s) /\ s[h] = t[h] /\ s[h].data[1] \notin in
  BY DEF Fewer
<1>2. /\ \A g \in 1 .. h - 1 : s[g].kind # "ob"
      /\ \A k, j, n : Buffered(b, 1, k, j, n) /\ k > s[h].slot => n \in in
  BY <1>1 DEF Nest
<1>3. ASSUME NEW g \in 1 .. h - 1, t[g].kind = "ob" PROVE FALSE
  <2>1. g \in 1 .. Len(t)
    OBVIOUS
  <2>2. s[g] = t[g]
    BY <1>3, <2>1 DEF Fewer
  <2> QED
    BY <1>2, <1>3, <2>2
<1> QED
  BY <1>1, <1>2, <1>3 DEF AddsOnly

LEMMA NestPush ==
  ASSUME NEW s \in Seq(FrameRecords), NEW b \in Seq(BufferRecords), NEW in, NEW in2, in \subseteq in2, Nest(s, b, in),
         NEW e \in FrameRecords, e.kind = "ob", e.slot = Len(b),
         e.data[1] \in in2 \/ \A h \in 1 .. Len(s) : s[h].kind # "ob"
  PROVE  Nest(Append(s, e), b, in2)
<1> DEFINE t == Append(s, e)
<1>1. /\ Len(t) = Len(s) + 1 /\ Len(s) \in Nat /\ t[Len(s) + 1] = e
      /\ \A k \in 1 .. Len(s) : t[k] = s[k]
  BY AppendFacts
<1> HIDE DEF t
<1> SUFFICES ASSUME NEW h \in 1 .. Len(t), t[h].kind = "ob", t[h].data[1] \notin in2
             PROVE  /\ \A g \in 1 .. h - 1 : t[g].kind # "ob"
                    /\ \A k, j, n : Buffered(b, 1, k, j, n) /\ k > t[h].slot => n \in in2
  BY DEF Nest, t
<1>2. CASE h \in 1 .. Len(s)
  <2>1. t[h] = s[h] /\ s[h].data[1] \notin in /\ \A g \in 1 .. h - 1 : t[g] = s[g]
    BY <1>1, <1>2
  <2> QED
    BY <1>2, <2>1 DEF Nest
<1>3. CASE h = Len(s) + 1
  <2>1. \A g \in 1 .. h - 1 : t[g].kind # "ob"
    BY <1>1, <1>3
  <2>2. \A k, j, n : Buffered(b, 1, k, j, n) => ~(k > t[h].slot)
    BY <1>1, <1>3 DEF Buffered
  <2> QED
    BY <2>1, <2>2
<1> QED
  BY <1>1, <1>2, <1>3

LEMMA NestReturn ==
  ASSUME NEW s \in Seq(FrameRecords), Len(s) > 0, Last(s).kind = "ob", NEW b, NEW d, NEW in, Nest(s, b, in),
         AddsOnly(b, d, {Last(s).data[1]})
  PROVE  Nest(Front(s), d, in)
<1> DEFINE t == Front(s)
<1>1. /\ Len(t) = Len(s) - 1 /\ Len(s) - 1 \in Nat /\ Last(s) = s[Len(s)]
      /\ \A k \in 1 .. Len(s) - 1 : t[k] = s[k]
  BY FrontFacts
<1> HIDE DEF t
<1> SUFFICES ASSUME NEW h \in 1 .. Len(t), t[h].kind = "ob", t[h].data[1] \notin in
             PROVE  /\ \A g \in 1 .. h - 1 : t[g].kind # "ob"
                    /\ \A k, j, n : Buffered(d, 1, k, j, n) /\ k > t[h].slot => n \in in
  BY DEF Nest, t
<1>2. h \in 1 .. Len(s) /\ t[h] = s[h] /\ h \in 1 .. Len(s) - 1 /\ Len(s) \in 1 .. Len(s)
      /\ \A g \in 1 .. h - 1 : t[g] = s[g]
  BY <1>1
<1>3. s[Len(s)].data[1] \in in
  BY <1>1, <1>2 DEF Nest
<1> QED
  BY <1>1, <1>2, <1>3 DEF Nest, AddsOnly

----------------------------------------------------------------------------
(* The steps, for where the chunks are.                                    *)

Chunks == PlacedIn(out, aOB, Stack)

Tidy ==
  /\ Kept(Chunks, echoed, dropped \cup strays)
  /\ inner \subseteq 1 .. echoed
  /\ ~overtaken => Ordered(Chunks, inner)
  /\ Nest(Stack, aOB, inner)

LEMMA PlacesTyped ==
  ASSUME NEW o \in Seq(Devices \X Nat), NEW b \in Seq(BufferRecords), NEW s \in Seq(FrameRecords)
  PROVE  IsPlaces(PlacedIn(o, b, s))
<1> SUFFICES ASSUME NEW c, NEW i, NEW j, NEW n, <<c, i, j, n>> \in PlacedIn(o, b, s)
             PROVE  IsPlace(c, i, j, n)
  BY DEF IsPlaces
<1>1. Given(o, c, i, j, n) \/ Buffered(b, c, i, j, n) \/ Aside(s, c, i, j, n)
  BY PlacedAt
<1> QED
  BY <1>1, GivenType, BufferedType, AsideType

LEMMA TidyTypes ==
  ASSUME IInv
  PROVE  /\ out \in Seq(Devices \X Nat) /\ aOB \in Seq(BufferRecords) /\ Stack \in Seq(FrameRecords)
         /\ frames \in Seq(FrameRecords) /\ Len(Stack) = Len(frames) /\ echoed \in Nat
         /\ Len(out) \in Nat /\ Len(aOB) \in Nat /\ Len(Stack) \in Nat
         /\ IsPlaces(Chunks)
         /\ \A c, i, j, n : <<c, i, j, n>> \in Chunks
              <=> Given(out, c, i, j, n) \/ Buffered(aOB, c, i, j, n) \/ Aside(Stack, c, i, j, n)
<1>1. /\ out \in Seq(Devices \X Nat) /\ aOB \in Seq(BufferRecords) /\ frames \in Seq(FrameRecords) /\ echoed \in Nat
  BY DEF IInv, Screen, Running, Context
<1>2. Stack \in Seq(FrameRecords) /\ Len(Stack) = Len(frames)
  BY <1>1, ReverseFacts DEF Stack
<1>3. Len(out) \in Nat /\ Len(aOB) \in Nat /\ Len(Stack) \in Nat
  BY <1>1, <1>2
<1> QED
  BY <1>1, <1>2, <1>3, PlacedAt, PlacesTyped DEF Chunks

LEMMA TidyTypesNext ==
  ASSUME IInv'
  PROVE  /\ out' \in Seq(Devices \X Nat) /\ aOB' \in Seq(BufferRecords) /\ Stack' \in Seq(FrameRecords)
         /\ Len(Stack') \in Nat
         /\ \A c, i, j, n : <<c, i, j, n>> \in Chunks'
              <=> Given(out', c, i, j, n) \/ Buffered(aOB', c, i, j, n) \/ Aside(Stack', c, i, j, n)
<1>1. /\ out' \in Seq(Devices \X Nat) /\ aOB' \in Seq(BufferRecords) /\ frames' \in Seq(FrameRecords)
  BY DEF IInv, Screen, Running, Context
<1>2. Stack' \in Seq(FrameRecords)
  BY <1>1, ReverseFacts DEF Stack
<1>3. Len(Stack') \in Nat
  BY <1>2
<1>4. Chunks' = PlacedIn(out', aOB', Stack')
  BY DEF Chunks
<1> QED
  BY <1>1, <1>2, <1>3, <1>4, PlacedAt

LEMMA NoCallback ==
  ASSUME IInv, nObDepth = 0
  PROVE  /\ \A h \in 1 .. Len(Stack) : Stack[h].kind # "ob"
         /\ \A c, i, j, n : ~Aside(Stack, c, i, j, n)
<1>1. Stack \in Seq(FrameRecords) /\ Len(Stack) \in Nat
  BY TidyTypes
<1>2. Num(Stack, Len(Stack), OfBuffer) = 0
  BY DEF IInv, Running, Context, Sound, Stack
<1> DEFINE A == {h \in 1 .. Len(Stack) : Stack[h] \in OfBuffer}
<1>3. IsFiniteSet(A)
  BY <1>1, NumType
<1>4. Cardinality(A) = 0
  BY <1>2 DEF Num
<1> HIDE DEF A
<1>5. A = {}
  BY <1>3, <1>4, FS_EmptySet
<1>6. ASSUME NEW h \in 1 .. Len(Stack), Stack[h].kind = "ob" PROVE FALSE
  <2>1. Stack[h] \in FrameRecords
    BY <1>1
  <2>2. Stack[h] \in OfBuffer
    BY <1>6, <2>1 DEF OfBuffer
  <2> QED
    BY <1>5, <2>2 DEF A
<1>7. ASSUME NEW c, NEW i, NEW j, NEW n, Aside(Stack, c, i, j, n) PROVE FALSE
  <2>1. Stack[i].kind = "ob" /\ i \in 1 .. Len(Stack)
    BY <1>1, <1>7, AsideType DEF Aside
  <2> QED
    BY <1>6, <2>1
<1> QED
  BY <1>6, <1>7

(* A step that moves no chunk.                                             *)
LEMMA TidyCalm ==
  ASSUME IInv, IInv', Tidy, Calm(Stack, Stack'), UNCHANGED <<out, echoed, dropped, strays, inner>>,
         ~overtaken' => ~overtaken,
         \A c, i, j, n : Buffered(aOB', c, i, j, n) <=> Buffered(aOB, c, i, j, n)
  PROVE  Tidy'
<1> DEFINE R == Chunks
           Q == Chunks'
           s == Stack
           t == Stack'
           g == dropped \cup strays
<1>1. \A c, i, j, n : Aside(t, c, i, j, n) <=> Aside(s, c, i, j, n)
  BY TidyTypes, TidyTypesNext, CalmAside
<1>2. \A c, i, j, n : <<c, i, j, n>> \in Q <=> <<c, i, j, n>> \in R
  BY <1>1, TidyTypes, TidyTypesNext
<1>3. Fewer(s, t) /\ Len(t) \in Nat /\ Nest(s, aOB, inner)
  BY TidyTypesNext DEF Calm, Tidy
<1>4. Kept(R, echoed, g) /\ (~overtaken => Ordered(R, inner)) /\ inner \subseteq 1 .. echoed
  BY DEF Tidy
<1> HIDE DEF R, Q, s, t, g
<1>5. Kept(Q, echoed, g) /\ (Ordered(R, inner) => Ordered(Q, inner))
  BY <1>2, <1>4, KeptSame
<1>a. AddsOnly(aOB, aOB', inner)
  BY DEF AddsOnly
<1>6. Nest(t, aOB', inner)
  BY <1>3, <1>a, NestFewer
<1>7. g = dropped' \cup strays'
  BY DEF g
<1> QED
  BY <1>4, <1>5, <1>6, <1>7 DEF Tidy, Q, t

LEMMA ConsumeTidy ==
  ASSUME IInv, IInv', Tidy, frames # << >>, NEW then, NEW heeded, Consume(then, heeded)
  PROVE  Tidy'
<1> DEFINE R == Chunks
           Q == Chunks'
           s == Stack
           t == Stack'
           g == dropped \cup strays
           e == echoed + 1
           data == <<e>>
<1>1. /\ echoed \in Nat /\ out \in Seq(Devices \X Nat) /\ aOB \in Seq(BufferRecords) /\ s \in Seq(FrameRecords)
      /\ Len(out) \in Nat /\ Len(aOB) \in Nat /\ Len(s) \in Nat /\ e \in Nat /\ data \in Seq(Nat) /\ Len(data) = 1
      /\ DOMAIN data = {1} /\ data[1] = e
  BY TidyTypes
<1>2. /\ \A c, i, j, n : <<c, i, j, n>> \in R
            <=> Given(out, c, i, j, n) \/ Buffered(aOB, c, i, j, n) \/ Aside(s, c, i, j, n)
      /\ \A c, i, j, n : <<c, i, j, n>> \in Q
            <=> Given(out', c, i, j, n) \/ Buffered(aOB', c, i, j, n) \/ Aside(t, c, i, j, n)
  BY TidyTypes, TidyTypesNext
<1>3. /\ echoed' = e /\ dropped' = dropped /\ inner \subseteq inner' /\ inner' \subseteq inner \cup {e}
      /\ (e \in inner' \/ (nObDepth = 0 /\ inner' = inner))
  <2>1. nObDepth \in Nat
    BY CallFacts
  <2> QED
    BY <2>1 DEF Consume
<1>4. Kept(R, echoed, g) /\ (~overtaken => Ordered(R, inner)) /\ inner \subseteq 1 .. echoed /\ Nest(s, aOB, inner)
  BY DEF Tidy
<1>5. inner' \subseteq 1 .. echoed'
  BY <1>1, <1>3, <1>4
<1>6. nObDepth = 0 => (\A c, i, j, n : ~Aside(s, c, i, j, n)) /\ \A h \in 1 .. Len(s) : s[h].kind # "ob"
  BY NoCallback
<1> HIDE DEF R, Q, s, t, g, e, data
<1>7. ASSUME NEW a \in Nat, NEW b \in Nat, NEW f \in Nat, strays' = strays,
             Gains(Q, R, a, b, f, e), ~overtaken' => ~overtaken /\ (e \in inner' \/ Behind(R, inner, a, b, f)),
             Nest(t, aOB', inner')
      PROVE  Tidy'
  <2>0. Gains(Q, R, a, b, f, echoed + 1) /\ e = echoed + 1
    BY <1>7 DEF e
  <2>1. Kept(Q, echoed + 1, g)
    BY <1>1, <1>4, <2>0, KeptNew
  <2>2. ASSUME ~overtaken' PROVE Ordered(Q, inner')
    <3>1. echoed + 1 \in inner' \/ Behind(R, inner, a, b, f)
      BY <1>7, <2>0, <2>2
    <3>2. Ordered(R, inner)
      BY <1>4, <1>7, <2>2
    <3> QED
      BY <1>1, <1>3, <1>4, <1>7, <2>0, <3>1, <3>2, OrderNew
  <2>3. g = dropped' \cup strays'
    BY <1>3, <1>7 DEF g
  <2> QED
    BY <1>3, <1>5, <1>7, <2>0, <2>1, <2>2, <2>3 DEF Tidy, Q, t
<1>8. CASE consumer # "ob"
  <2>1. /\ consumer \in Devices /\ ToDevice(consumer, data) /\ overtaken' = (overtaken \/ Held)
        /\ aOB' = aOB /\ strays' = strays /\ t = s
    BY <1>8 DEF Consume, IInv, Screen, t, s, Stack, data, e
  <2>2. out' = out \o [k \in DOMAIN data |-> <<consumer, data[k]>>]
    BY <2>1 DEF ToDevice
  <2>3. \A c, i, j, n : Given(out', c, i, j, n) <=> Given(out, c, i, j, n) \/ (c = 0 /\ i = Len(out) + 1 /\ j = 1 /\ n = e)
    <3>0. \A c, i, j, n :
            Given(out', c, i, j, n)
              <=> \/ Given(out, c, i, j, n)
                  \/ c = 0 /\ j = 1 /\ i \in Nat /\ i - Len(out) \in 1 .. Len(data) /\ n = data[i - Len(out)]
      <4>1. Delivered(out', out, consumer, data)
        BY <2>2, Zenon DEF Delivered
      <4>2. PlacesGrow(out', out, data)
        BY <1>1, <2>1, <4>1, GivenGrows
      <4> QED
        BY <4>2 DEF PlacesGrow
    <3> TAKE c, i, j, n
    <3>1. Given(out', c, i, j, n)
            <=> \/ Given(out, c, i, j, n)
                \/ c = 0 /\ j = 1 /\ i \in Nat /\ i - Len(out) \in 1 .. Len(data) /\ n = data[i - Len(out)]
      BY <3>0
    <3>2. i \in Nat /\ i - Len(out) \in 1 .. Len(data) <=> i = Len(out) + 1
      BY <1>1
    <3>3. i = Len(out) + 1 => data[i - Len(out)] = e
      BY <1>1
    <3> QED
      BY <3>1, <3>2, <3>3
  <2>4. Gains(Q, R, 0, Len(out) + 1, 1, e)
    BY <1>2, <2>1, <2>3 DEF Gains
  <2>5. ~overtaken' => ~overtaken /\ Behind(R, inner, 0, Len(out) + 1, 1)
    <3> SUFFICES ASSUME ~overtaken', NEW c, NEW i, NEW j, NEW n, <<c, i, j, n>> \in R, Before(0, Len(out) + 1, 1, c, i, j)
                 PROVE  FALSE
      BY <2>1 DEF Behind
    <3>1. ~Held
      BY <2>1
    <3>2. ~Given(out, c, i, j, n)
      BY <1>1 DEF Given, Before
    <3>3. ASSUME Buffered(aOB, c, i, j, n) PROVE FALSE
      <4>1. i \in DOMAIN aOB /\ aOB[i].data # << >>
        BY <1>1, <3>3 DEF Buffered
      <4> QED
        BY <3>1, <4>1 DEF Held
    <3>4. ASSUME Aside(s, c, i, j, n) PROVE FALSE
      <4>1. i \in 1 .. Len(s) /\ s[i].data # << >>
        BY <1>1, <3>4 DEF Aside
      <4>2. frames \in Seq(FrameRecords) /\ Len(s) = Len(frames)
        BY TidyTypes DEF s
      <4>3. s[i] = frames[Len(frames) + 1 - i] /\ Len(frames) + 1 - i \in DOMAIN frames
        BY <1>1, <4>1, <4>2, ReverseFacts DEF s, Stack
      <4> QED
        BY <3>1, <4>1, <4>3 DEF Held
    <3> QED
      BY <1>2, <3>2, <3>3, <3>4
  <2>6. Nest(t, aOB', inner')
    <3>1. Fewer(s, t) /\ Len(t) \in Nat
      BY <1>1, <2>1 DEF Fewer
    <3>2. AddsOnly(aOB, aOB', inner')
      BY <2>1 DEF AddsOnly
    <3> QED
      BY <1>3, <1>4, <3>1, <3>2, NestFewer
  <2>7. 0 \in Nat /\ Len(out) + 1 \in Nat /\ 1 \in Nat
    BY <1>1
  <2> QED
    BY <1>7, <2>1, <2>4, <2>5, <2>6, <2>7
<1>9. CASE /\ consumer = "ob" /\ aOB # << >> /\ aOB' = [aOB EXCEPT ![Len(aOB)].data = @ \o data]
           /\ frames' = frames /\ strays' = strays /\ overtaken' = overtaken /\ out' = out
  <2> DEFINE k == Len(aOB)
             l == Len(aOB[k].data)
             d == aOB[k].data \o data
  <2>1. k \in 1 .. Len(aOB) /\ k \in Nat /\ aOB[k].data \in Seq(Nat) /\ l \in Nat
    <3>1. aOB[Len(aOB)].data \in Seq(Nat) /\ Len(aOB) > 0 /\ Len(aOB) \in Nat
      BY <1>9, LastBuffer DEF IInv
    <3> QED
      BY <3>1
  <2>2. Len(d) = l + 1 /\ d[l + 1] = e /\ \A j \in 1 .. l : d[j] = aOB[k].data[j]
    <3> DEFINE u == aOB[k].data
    <3>1. u \in Seq(Nat) /\ data \in Seq(Nat)
      BY <1>1, <2>1
    <3> HIDE DEF u
    <3>2. /\ Len(u \o data) = Len(u) + Len(data)
          /\ \A j \in 1 .. Len(u) : (u \o data)[j] = u[j]
          /\ \A j \in 1 .. Len(data) : (u \o data)[Len(u) + j] = data[j]
      BY <3>1, ConcatFacts
    <3>3. 1 \in 1 .. Len(data)
      BY <1>1
    <3> QED
      BY <1>1, <3>2, <3>3 DEF u
  <2>3. aOB' = [aOB EXCEPT ![k].data = d] /\ t = s
    BY <1>9, <2>1 DEF s, t, Stack
  <2> HIDE DEF k, d, l
  <2>4. \A c, i, j, n : Buffered(aOB', c, i, j, n) <=> Buffered(aOB, c, i, j, n) \/ (c = 1 /\ i = k /\ j = l + 1 /\ n = e)
    <3>0. \A c, i, j, n :
            Buffered(aOB', c, i, j, n)
              <=> \/ Buffered(aOB, c, i, j, n) /\ i # k
                  \/ c = 1 /\ i = k /\ j \in 1 .. Len(d) /\ n = d[j]
      <4>1. Refilled(aOB', aOB, k, d)
        BY <2>3, Zenon DEF Refilled
      <4>2. PlacesRefilled(aOB', aOB, k, d)
        BY <1>1, <2>1, <4>1, BufferedChanged
      <4> QED
        BY <4>2 DEF PlacesRefilled
    <3> TAKE c, i, j, n
    <3>1. Buffered(aOB', c, i, j, n)
            <=> (Buffered(aOB, c, i, j, n) /\ i # k) \/ (c = 1 /\ i = k /\ j \in 1 .. Len(d) /\ n = d[j])
      BY <3>0
    <3>2. CASE i = k
      <4>1. Buffered(aOB, c, i, j, n) <=> c = 1 /\ j \in 1 .. l /\ n = aOB[k].data[j]
        BY <2>1, <3>2 DEF Buffered, l
      <4>2. j \in 1 .. Len(d) <=> j \in 1 .. l \/ j = l + 1
        BY <2>1, <2>2
      <4>3. j = l + 1 => j \notin 1 .. l
        BY <2>1
      <4> QED
        BY <2>2, <3>1, <3>2, <4>1, <4>2, <4>3
    <3>3. CASE i # k
      BY <3>1, <3>3
    <3> QED
      BY <3>2, <3>3
  <2>5. Gains(Q, R, 1, k, l + 1, e)
    BY <1>2, <1>9, <2>3, <2>4 DEF Gains
  <2>6. e \in inner' \/ Behind(R, inner, 1, k, l + 1)
    <3> SUFFICES ASSUME nObDepth = 0, NEW c, NEW i, NEW j, NEW n, <<c, i, j, n>> \in R, Before(1, k, l + 1, c, i, j)
                 PROVE  FALSE
      BY <1>3 DEF Behind
    <3>1. Given(out, c, i, j, n) \/ Buffered(aOB, c, i, j, n)
      BY <1>2, <1>6
    <3>2. ~Given(out, c, i, j, n)
      BY DEF Given, Before
    <3>3. ASSUME Buffered(aOB, c, i, j, n) PROVE FALSE
      <4>1. c = 1 /\ i \in 1 .. k /\ (i = k => j \in 1 .. l)
        BY <3>3 DEF Buffered, k, l
      <4> QED
        BY <2>1, <4>1 DEF Before
    <3> QED
      BY <3>1, <3>2, <3>3
  <2>7. Nest(t, aOB', inner')
    <3>1. Fewer(s, t) /\ Len(t) \in Nat
      BY <1>1, <2>3 DEF Fewer
    <3>2. CASE e \in inner'
      <4>1. AddsOnly(aOB, aOB', inner')
        BY <2>4, <3>2 DEF AddsOnly
      <4> QED
        BY <1>3, <1>4, <3>1, <4>1, NestFewer
    <3>3. CASE nObDepth = 0
      BY <1>6, <2>3, <3>3 DEF Nest
    <3> QED
      BY <1>3, <3>2, <3>3
  <2>8. 1 \in Nat /\ l + 1 \in Nat
    BY <2>1
  <2> QED
    BY <1>7, <1>9, <2>1, <2>5, <2>6, <2>7, <2>8
<1>10. CASE /\ frames' = <<[Frame("ob", None, then) EXCEPT !.data = data]>> \o frames
            /\ aOB' = aOB /\ strays' = strays /\ overtaken' = overtaken /\ out' = out
  <2> DEFINE x == [Frame("ob", None, then) EXCEPT !.data = data]
  <2>1. x.kind = "ob" /\ x.slot = Len(aOB) /\ x.data = data
    BY DEF Frame
  <2>2. x \in FrameRecords /\ t = Append(s, x)
    <3>1. frames' \in Seq(FrameRecords) /\ frames \in Seq(FrameRecords) /\ frames' = <<x>> \o frames
      BY <1>10, TidyTypes DEF IInv, Running, Context
    <3> HIDE DEF x
    <3>2. frames'[1] = x /\ 1 \in 1 .. Len(frames')
      BY <3>1
    <3>3. x \in FrameRecords
      BY <3>1, <3>2
    <3> QED
      BY <3>1, <3>3, ReversePushed DEF s, t, Stack
  <2> HIDE DEF x
  <2>3. \A c, i, j, n : Aside(t, c, i, j, n) <=> Aside(s, c, i, j, n) \/ (c = 2 /\ i = Len(s) + 1 /\ j = 1 /\ n = e)
    <3> TAKE c, i, j, n
    <3>1. Aside(t, c, i, j, n)
            <=> Aside(s, c, i, j, n) \/ (c = 2 /\ i = Len(s) + 1 /\ j \in 1 .. Len(x.data) /\ n = x.data[j])
      BY <1>1, <2>2, AsidePushed
    <3>2. j \in 1 .. Len(x.data) <=> j = 1
      <4>1. Len(x.data) = 1
        BY <1>1, <2>1
      <4> QED
        BY <4>1
    <3> QED
      BY <1>1, <2>1, <3>1, <3>2
  <2>4. Gains(Q, R, 2, Len(s) + 1, 1, e)
    BY <1>2, <1>10, <2>3 DEF Gains
  <2>5. Behind(R, inner, 2, Len(s) + 1, 1)
    <3> SUFFICES ASSUME NEW c, NEW i, NEW j, NEW n, <<c, i, j, n>> \in R, Before(2, Len(s) + 1, 1, c, i, j)
                 PROVE  FALSE
      BY DEF Behind
    <3>1. c = 0 \/ c = 1 \/ (c = 2 /\ i \in 1 .. Len(s))
      BY <1>2 DEF Given, Buffered, Aside
    <3> QED
      BY <1>1, <3>1 DEF Before
  <2>6. Nest(t, aOB', inner')
    <3>1. x.data[1] \in inner' \/ \A h \in 1 .. Len(s) : s[h].kind # "ob"
      BY <1>1, <1>3, <1>6, <2>1
    <3> QED
      BY <1>1, <1>3, <1>4, <1>10, <2>1, <2>2, <3>1, NestPush
  <2>7. 2 \in Nat /\ Len(s) + 1 \in Nat /\ 1 \in Nat
    BY <1>1
  <2> QED
    BY <1>7, <1>10, <2>4, <2>5, <2>6, <2>7
<1>11. consumer = "ob" => aOB # << >>
  BY DEF IInv, Screen
<1> QED
  BY <1>8, <1>9, <1>10, <1>11 DEF Consume, ObConsumer, data, e

(* Frames that begin and end without a chunk.                              *)
LEMMA QuietPush ==
  ASSUME NEW fr \in Seq(FrameRecords), NEW gr \in Seq(FrameRecords), NEW e, e.kind # "ob", gr = <<e>> \o fr
  PROVE  Calm(Reverse(fr), Reverse(gr))
<1>1. gr[1] = e /\ Len(gr) >= 1
  OBVIOUS
<1>2. e \in FrameRecords
  BY <1>1
<1>3. Reverse(gr) = Append(Reverse(fr), e) /\ Reverse(fr) \in Seq(FrameRecords)
  BY <1>2, ReversePushed, ReverseFacts
<1> QED
  BY <1>2, <1>3, CalmPush

LEMMA QuietPop ==
  ASSUME NEW fr \in Seq(FrameRecords), fr # << >>
  PROVE  /\ Tail(fr) \in Seq(FrameRecords) /\ Fewer(Reverse(fr), Reverse(Tail(fr)))
         /\ Head(fr).kind # "ob" => Calm(Reverse(fr), Reverse(Tail(fr)))
<1>1. /\ Tail(fr) \in Seq(FrameRecords) /\ Len(fr) > 0 /\ Reverse(Tail(fr)) = Front(Reverse(fr))
      /\ Head(fr) = Last(Reverse(fr))
  BY ReversePopped
<1>2. Reverse(fr) \in Seq(FrameRecords) /\ Len(Reverse(fr)) = Len(fr)
  BY ReverseFacts
<1> QED
  BY <1>1, <1>2, CalmPop

LEMMA QuietAssertion ==
  ASSUME NEW fr \in Seq(FrameRecords), frames' \in Seq(FrameRecords), NEW set, AssertionFailed(set, fr)
  PROVE  Calm(Reverse(fr), Stack')
<1>1. \/ frames' = fr
      \/ \E e : e.kind # "ob" /\ frames' = <<e>> \o fr
  BY DEF AssertionFailed, Frame
<1>2. CASE frames' = fr
  BY <1>2 DEF Stack, Calm, Fewer
<1>3. CASE \E e : e.kind # "ob" /\ frames' = <<e>> \o fr
  BY <1>3, QuietPush DEF Stack
<1> QED
  BY <1>1, <1>2, <1>3

Unmoved == UNCHANGED <<out, aOB, echoed, dropped, strays, overtaken, inner>>

LEMMA UnmovedTidy ==
  ASSUME IInv, IInv', Tidy, Calm(Stack, Stack'), Unmoved
  PROVE  Tidy'
<1>1. aOB' = aOB /\ UNCHANGED <<out, echoed, dropped, strays, inner>> /\ (~overtaken' => ~overtaken)
  BY DEF Unmoved
<1>2. \A c, i, j, n : Buffered(aOB', c, i, j, n) <=> Buffered(aOB, c, i, j, n)
  BY <1>1
<1> QED
  BY <1>1, <1>2, TidyCalm

LEMMA PushedTidy ==
  ASSUME IInv, IInv', Tidy, Unmoved,
         NEW e, e.kind # "ob", frames' = <<e>> \o frames
  PROVE  Tidy'
<1>1. frames \in Seq(FrameRecords) /\ frames' \in Seq(FrameRecords)
  BY DEF IInv, Running, Context
<1>2. Calm(Stack, Stack')
  BY <1>1, QuietPush DEF Stack
<1> QED
  BY <1>2, UnmovedTidy

LEMMA PoppedTidy ==
  ASSUME IInv, IInv', Tidy, Unmoved, frames # << >>, Head(frames).kind # "ob", frames' = Tail(frames)
  PROVE  Tidy'
<1>1. frames \in Seq(FrameRecords)
  BY DEF IInv, Running, Context
<1>2. Calm(Stack, Stack')
  BY <1>1, QuietPop DEF Stack
<1> QED
  BY <1>2, UnmovedTidy

LEMMA SameTidy ==
  ASSUME IInv, IInv', Tidy, Unmoved, frames' = frames
  PROVE  Tidy'
<1>1. Calm(Stack, Stack')
  BY DEF Stack, Calm, Fewer
<1> QED
  BY <1>1, UnmovedTidy

(* What moves no chunk: files, flags, assertions and the shutdown.         *)
LEMMA QuietTidy ==
  ASSUME IInv, IInv', Tidy
  PROVE  /\ \A f \in Files, once, required \in BOOLEAN : Include(f, once, required) => Tidy'
         /\ Eval => Tidy'
         /\ \A b \in BOOLEAN : error_reporting(b) \/ trigger_error(b) \/ assert(b) => Tidy'
         /\ \A o \in Options : assert_options(o[1], o[2]) => Tidy'
         /\ ReturnChunk \/ ReturnCall \/ ReturnMain => Tidy'
         /\ register_shutdown_function \/ InvokeShutdownCallback \/ EndShutdown => Tidy'
         /\ ByteCodeExec \/ UNCHANGED vars => Tidy'
         /\ \A d \in Devices : Configure(d) => Tidy'
<1>0. frames \in Seq(FrameRecords) /\ frames' \in Seq(FrameRecords)
  BY DEF IInv, Running, Context
<1>1. ASSUME NEW f \in Files, NEW once \in BOOLEAN, NEW required \in BOOLEAN, Include(f, once, required) PROVE Tidy'
  <2>1. Unmoved
    BY <1>1 DEF Include, Unmoved, screen
  <2>2. frames' = frames \/ VmEvalChunk(Name(f), Pushed(f))
    BY <1>1 DEF Include
  <2>3. CASE VmEvalChunk(Name(f), Pushed(f))
    <3>1. frames' = <<Frame("chunk", Name(f), "run")>> \o frames /\ Frame("chunk", Name(f), "run").kind # "ob"
      BY <2>3 DEF VmEvalChunk, Frame
    <3> QED
      BY <2>1, <3>1, PushedTidy
  <2> QED
    BY <2>1, <2>2, <2>3, SameTidy
<1>2. ASSUME Eval PROVE Tidy'
  <2>1. Unmoved
    BY <1>2 DEF Eval, Unmoved, screen
  <2>2. frames' = <<Frame("chunk", None, "run")>> \o frames /\ Frame("chunk", None, "run").kind # "ob"
    BY <1>2 DEF Eval, VmEvalChunk, Frame
  <2> QED
    BY <2>1, <2>2, PushedTidy
<1>3. ASSUME NEW b \in BOOLEAN, error_reporting(b) \/ trigger_error(b) PROVE Tidy'
  <2>1. Unmoved /\ frames' = frames
    BY <1>3 DEF error_reporting, trigger_error, Unmoved, screen
  <2> QED
    BY <2>1, SameTidy
<1>4. ASSUME NEW b \in BOOLEAN, assert(b) PROVE Tidy'
  <2>1. Unmoved
    BY <1>4 DEF assert, Unmoved, screen
  <2>2. \/ frames' = <<[Frame("chunk", None, "assert") EXCEPT !.set = iAssertFlags]>> \o frames
        \/ AssertionFailed(iAssertFlags, frames)
    BY <1>4 DEF assert
  <2>3. CASE frames' = <<[Frame("chunk", None, "assert") EXCEPT !.set = iAssertFlags]>> \o frames
    <3> DEFINE e == [Frame("chunk", None, "assert") EXCEPT !.set = iAssertFlags]
    <3>1. e.kind # "ob"
      BY DEF Frame
    <3> HIDE DEF e
    <3>2. frames' = <<e>> \o frames
      BY <2>3 DEF e
    <3> QED
      BY <2>1, <3>1, <3>2, PushedTidy
  <2>4. CASE AssertionFailed(iAssertFlags, frames)
    <3>1. Calm(Stack, Stack')
      BY <1>0, <2>4, QuietAssertion DEF Stack
    <3> QED
      BY <2>1, <3>1, UnmovedTidy
  <2> QED
    BY <2>2, <2>3, <2>4
<1>5. ASSUME NEW o \in Options, assert_options(o[1], o[2]) PROVE Tidy'
  <2>1. Unmoved /\ frames' = frames
    BY <1>5 DEF assert_options, Unmoved, screen
  <2> QED
    BY <2>1, SameTidy
<1>6. ASSUME ReturnChunk PROVE Tidy'
  <2>1. Unmoved /\ frames # << >> /\ Head(frames).kind = "chunk"
    BY <1>6 DEF ReturnChunk, Leaves, Unmoved, screen
  <2>2. CASE frames' = Tail(frames)
    BY <2>1, <2>2, PoppedTidy
  <2>3. CASE AssertionFailed(Head(frames).set, Tail(frames))
    <3>1. Tail(frames) \in Seq(FrameRecords) /\ Calm(Stack, Reverse(Tail(frames)))
      BY <1>0, <2>1, QuietPop DEF Stack
    <3>2. Calm(Reverse(Tail(frames)), Stack')
      BY <1>0, <2>3, <3>1, QuietAssertion
    <3>3. Calm(Stack, Stack')
      BY <3>1, <3>2, CalmTrans
    <3> QED
      BY <2>1, <3>3, UnmovedTidy
  <2> QED
    BY <1>6, <2>2, <2>3 DEF ReturnChunk
<1>7. ASSUME ReturnCall \/ ReturnMain PROVE Tidy'
  <2>1. Unmoved /\ frames # << >> /\ Head(frames).kind # "ob" /\ frames' = Tail(frames)
    BY <1>7 DEF ReturnCall, ReturnMain, Leaves, Unmoved, screen
  <2> QED
    BY <2>1, PoppedTidy
<1>8. ASSUME register_shutdown_function \/ EndShutdown \/ UNCHANGED vars PROVE Tidy'
  <2>1. Unmoved /\ frames' = frames
    BY <1>8 DEF register_shutdown_function, EndShutdown, vars, Unmoved, screen
  <2> QED
    BY <2>1, SameTidy
<1>9. ASSUME NEW e, e.kind # "ob", frames' = <<e>>, Unmoved, frames = << >> PROVE Tidy'
  <2>1. frames' = <<e>> \o frames
    BY <1>9
  <2> QED
    BY <1>9, <2>1, PushedTidy
<1>10. ASSUME InvokeShutdownCallback PROVE Tidy'
  <2>1. Unmoved /\ frames = << >> /\ frames' = <<Frame("call", None, "run")>> /\ Frame("call", None, "run").kind # "ob"
    BY <1>10 DEF InvokeShutdownCallback, Unmoved, screen, Frame
  <2> QED
    BY <1>9, <2>1
<1>11. ASSUME ByteCodeExec PROVE Tidy'
  <2>1. frames = << >>
    BY <1>11, CallFacts DEF ByteCodeExec
  <2>2. Unmoved /\ frames' = <<Frame("main", Main, "run")>> /\ Frame("main", Main, "run").kind # "ob"
    BY <1>11 DEF ByteCodeExec, Unmoved, screen, Frame
  <2> QED
    BY <1>9, <2>1, <2>2
<1>12. ASSUME NEW d \in Devices, Configure(d) PROVE Tidy'
  <2>1. Unmoved /\ frames' = frames
    BY <1>12 DEF Configure, Unmoved
  <2> QED
    BY <2>1, SameTidy
<1> QED
  BY <1>1, <1>2, <1>3, <1>4, <1>5, <1>6, <1>7, <1>8, <1>10, <1>11, <1>12

(* The buffer on top ends, or is emptied.                                  *)
PlacesEmptied(p, b) == \A c, i, j, n : Buffered(p, c, i, j, n) <=> Buffered(b, c, i, j, n) /\ i # Len(b)

LEMMA TopGone ==
  ASSUME NEW b \in Seq(BufferRecords), b # << >>, NEW p,
         p = Front(b) \/ p = [b EXCEPT ![Len(b)].data = << >>]
  PROVE  PlacesEmptied(p, b)
<1>1. Len(b) > 0 /\ Len(b) \in 1 .. Len(b)
  OBVIOUS
<1>2. CASE p = Front(b)
  BY <1>1, <1>2, BufferedPopped DEF PlacesEmptied
<1>3. CASE p = [b EXCEPT ![Len(b)].data = << >>]
  <2> DEFINE k == Len(b)
             d == << >>
  <2>0. k \in 1 .. Len(b) /\ Len(d) = 0
    BY <1>1
  <2>1. Refilled(p, b, k, d)
    BY <1>3, Zenon DEF Refilled
  <2> HIDE DEF k, d
  <2>2. PlacesRefilled(p, b, k, d)
    BY <2>0, <2>1, BufferedChanged
  <2>3. \A j : j \notin 1 .. Len(d)
    BY <2>0
  <2> QED
    BY <2>2, <2>3 DEF PlacesRefilled, PlacesEmptied, k
<1> QED
  BY <1>2, <1>3

LEMMA CleanTidy ==
  ASSUME IInv, IInv', Tidy, aOB # << >>, UNCHANGED <<frames, out, echoed, strays, overtaken, inner>>,
         dropped' = dropped \cup ToSet(Last(aOB).data), PlacesEmptied(aOB', aOB)
  PROVE  Tidy'
<1> DEFINE R == Chunks
           Q == Chunks'
           s == Stack
           t == Stack'
           g == dropped \cup strays
           k == Len(aOB)
           lost == ToSet(Last(aOB).data)
<1>1. /\ echoed \in Nat /\ aOB \in Seq(BufferRecords) /\ s \in Seq(FrameRecords) /\ Len(s) \in Nat /\ t = s
      /\ k \in 1 .. Len(aOB) /\ Last(aOB) = aOB[k] /\ aOB[k].data \in Seq(Nat)
  BY TidyTypes, LastBuffer DEF IInv, Stack
<1>2. /\ \A c, i, j, n : <<c, i, j, n>> \in R
            <=> Given(out, c, i, j, n) \/ Buffered(aOB, c, i, j, n) \/ Aside(s, c, i, j, n)
      /\ \A c, i, j, n : <<c, i, j, n>> \in Q
            <=> Given(out', c, i, j, n) \/ Buffered(aOB', c, i, j, n) \/ Aside(t, c, i, j, n)
  BY TidyTypes, TidyTypesNext
<1>4. Kept(R, echoed, g) /\ (~overtaken => Ordered(R, inner)) /\ inner \subseteq 1 .. echoed /\ Nest(s, aOB, inner)
  BY DEF Tidy
<1>5. \A n : n \in lost <=> \E j : Buffered(aOB, 1, k, j, n)
  <2>1. lost = {aOB[k].data[j] : j \in DOMAIN aOB[k].data}
    BY <1>1 DEF ToSet
  <2>2. DOMAIN aOB[k].data = 1 .. Len(aOB[k].data)
    BY <1>1
  <2>3. \A j, n : Buffered(aOB, 1, k, j, n) <=> j \in DOMAIN aOB[k].data /\ n = aOB[k].data[j]
    BY <1>1, <2>2 DEF Buffered
  <2> HIDE DEF lost, k
  <2> QED
    BY <2>1, <2>3
<1> HIDE DEF R, Q, s, t, g, k, lost
<1>6. Loses(Q, R, lost)
  <2>1. ASSUME NEW c, NEW i, NEW j, NEW n, <<c, i, j, n>> \in Q PROVE <<c, i, j, n>> \in R /\ n \notin lost
    <3>1. <<c, i, j, n>> \in R /\ ~(c = 1 /\ i = k)
      <4>1. Buffered(aOB', c, i, j, n) => Buffered(aOB, c, i, j, n) /\ i # k
        BY DEF PlacesEmptied, k
      <4>2. Given(out, c, i, j, n) \/ Aside(s, c, i, j, n) => c # 1
        BY DEF Given, Aside
      <4> QED
        BY <1>1, <1>2, <2>1, <4>1, <4>2
    <3>2. ASSUME n \in lost PROVE FALSE
      <4>1. PICK l : Buffered(aOB, 1, k, l, n)
        BY <1>5, <3>2
      <4>2. <<1, k, l, n>> \in R
        BY <1>2, <4>1
      <4> QED
        BY <1>4, <3>1, <4>2 DEF Kept
    <3> QED
      BY <3>1, <3>2
  <2>2. ASSUME NEW c, NEW i, NEW j, NEW n, <<c, i, j, n>> \in R PROVE <<c, i, j, n>> \in Q \/ n \in lost
    <3>1. CASE Buffered(aOB, c, i, j, n) /\ i = k
      <4>1. Buffered(aOB, 1, k, j, n)
        BY <3>1 DEF Buffered
      <4> QED
        BY <1>5, <4>1
    <3> QED
      BY <1>1, <1>2, <2>2, <3>1 DEF PlacesEmptied, k
  <2> QED
    BY <2>1, <2>2 DEF Loses
<1>7. lost \subseteq 1 .. echoed
  <2> SUFFICES ASSUME NEW n \in lost PROVE n \in 1 .. echoed
    OBVIOUS
  <2>1. PICK l : Buffered(aOB, 1, k, l, n)
    BY <1>5
  <2> QED
    BY <1>2, <1>4, <2>1 DEF Kept
<1>8. Kept(Q, echoed, g \cup lost) /\ (Ordered(R, inner) => Ordered(Q, inner))
  BY <1>4, <1>6, <1>7, KeptLess
<1>9. Nest(t, aOB', inner)
  <2>1. Fewer(s, t) /\ Len(t) \in Nat /\ inner \subseteq inner
    BY <1>1 DEF Fewer
  <2>2. AddsOnly(aOB, aOB', inner)
    BY DEF PlacesEmptied, AddsOnly
  <2> QED
    BY <1>4, <2>1, <2>2, NestFewer
<1>10. g \cup lost = dropped' \cup strays'
  BY DEF g, lost
<1> QED
  BY <1>4, <1>8, <1>9, <1>10 DEF Tidy, Q, t

LEMMA FlushTidy ==
  ASSUME IInv, IInv', Tidy, aOB # << >>, UNCHANGED <<frames, echoed, dropped, strays, inner>>,
         NEW release \in BOOLEAN, ObFlush(release)
  PROVE  Tidy'
<1> DEFINE R == Chunks
           Q == Chunks'
           s == Stack
           t == Stack'
           g == dropped \cup strays
           k == Len(aOB)
           o == Len(out)
           data == aOB[k].data
<1>1. /\ echoed \in Nat /\ aOB \in Seq(BufferRecords) /\ s \in Seq(FrameRecords) /\ Len(s) \in Nat /\ t = s
      /\ out \in Seq(Devices \X Nat) /\ o \in Nat /\ k \in Nat
      /\ k \in 1 .. Len(aOB) /\ Last(aOB) = aOB[k] /\ data \in Seq(Nat)
  BY TidyTypes, LastBuffer DEF IInv, Stack
<1>2. /\ \A c, i, j, n : <<c, i, j, n>> \in R
            <=> Given(out, c, i, j, n) \/ Buffered(aOB, c, i, j, n) \/ Aside(s, c, i, j, n)
      /\ \A c, i, j, n : <<c, i, j, n>> \in Q
            <=> Given(out', c, i, j, n) \/ Buffered(aOB', c, i, j, n) \/ Aside(t, c, i, j, n)
  BY TidyTypes, TidyTypesNext
<1>3. PlacesEmptied(aOB', aOB)
  <2>1. aOB' = Front(aOB) \/ aOB' = [aOB EXCEPT ![Len(aOB)].data = << >>]
    BY DEF ObFlush
  <2> QED
    BY <1>1, <2>1, TopGone
<1>4. Kept(R, echoed, g) /\ (~overtaken => Ordered(R, inner)) /\ inner \subseteq 1 .. echoed /\ Nest(s, aOB, inner)
      /\ IsPlaces(R)
  BY TidyTypes DEF Tidy
<1>5. CASE data = << >>
  <2>1. \A c, i, j, n : Buffered(aOB', c, i, j, n) <=> Buffered(aOB, c, i, j, n)
    <3>1. Len(data) = 0
      BY <1>5
    <3>2. \A c, j, n : ~Buffered(aOB, c, k, j, n)
      BY <3>1 DEF Buffered
    <3> QED
      BY <1>3, <3>2 DEF PlacesEmptied
  <2>2. out' = out /\ (~overtaken' => ~overtaken) /\ Calm(Stack, Stack')
    BY <1>1, <1>5 DEF ObFlush, Calm, Fewer
  <2> QED
    BY <2>1, <2>2, TidyCalm
<1>6. CASE data # << >>
  <2>1. /\ Delivered(out', out, xDef, data) /\ xDef \in Devices
        /\ ~overtaken' => /\ ~overtaken
                          /\ \A i \in 1 .. k - 1 : aOB[i].data = << >>
                          /\ \A i \in DOMAIN frames : frames[i].data = << >>
    <3>1. xDef \in Devices
      BY DEF IInv, Screen
    <3>2. out' = out \o [i \in DOMAIN data |-> <<xDef, data[i]>>]
      BY <1>1, <1>6 DEF ObFlush, ToDevice
    <3>3. ~overtaken' => /\ ~overtaken
                         /\ \A i \in 1 .. k - 1 : aOB[i].data = << >>
                         /\ \A i \in DOMAIN frames : frames[i].data = << >>
      BY <1>1, <1>6 DEF ObFlush
    <3> HIDE DEF data
    <3> QED
      BY <3>1, <3>2, <3>3, Zenon DEF Delivered
  <2>z. \A j, n : (j \in 1 .. Len(data) /\ n = data[j]) <=> Buffered(aOB, 1, k, j, n)
    BY <1>1 DEF Buffered
  <2> HIDE DEF R, Q, s, t, g, k, o, data
  <2>2. PlacesGrow(out', out, data)
    BY <1>1, <2>1, GivenGrows
  <2>3. \A c, i, j, n : <<1, k, j, n>> \in R <=> Buffered(aOB, 1, k, j, n)
    BY <1>2 DEF Given, Aside
  <2>4. Flushed(Q, R, o, k)
    <3> SUFFICES ASSUME NEW c, NEW i, NEW j, NEW n
                 PROVE  <<c, i, j, n>> \in Q
                          <=> \/ <<c, i, j, n>> \in R /\ ~(c = 1 /\ i = k)
                              \/ c = 0 /\ j = 1 /\ i \in Nat /\ i > o /\ <<1, k, i - o, n>> \in R
      BY DEF Flushed
    <3>1. Given(out', c, i, j, n)
            <=> \/ Given(out, c, i, j, n)
                \/ c = 0 /\ j = 1 /\ i \in Nat /\ i - o \in 1 .. Len(data) /\ n = data[i - o]
      BY <2>2 DEF PlacesGrow, o
    <3>2. i \in Nat /\ i - o \in 1 .. Len(data) => i > o
      BY <1>1
    <3>3. i - o \in 1 .. Len(data) /\ n = data[i - o] <=> <<1, k, i - o, n>> \in R
      BY <2>3, <2>z
    <3>4. Given(out', c, i, j, n)
            <=> \/ Given(out, c, i, j, n)
                \/ c = 0 /\ j = 1 /\ i \in Nat /\ i > o /\ <<1, k, i - o, n>> \in R
      BY <3>1, <3>2, <3>3
    <3>5. Buffered(aOB', c, i, j, n) <=> Buffered(aOB, c, i, j, n) /\ ~(c = 1 /\ i = k)
      <4>1. Buffered(aOB', c, i, j, n) <=> Buffered(aOB, c, i, j, n) /\ i # k
        BY <1>3 DEF PlacesEmptied, k
      <4>2. Buffered(aOB, c, i, j, n) => c = 1
        BY DEF Buffered
      <4> QED
        BY <4>1, <4>2
    <3>6. Given(out, c, i, j, n) \/ Aside(s, c, i, j, n) => ~(c = 1 /\ i = k)
      BY DEF Given, Aside
    <3> QED
      BY <1>1, <1>2, <3>4, <3>5, <3>6
  <2>6. FlushFrom(R, o, k)
    <3>1. ASSUME NEW c, NEW i, NEW j, NEW n, <<c, i, j, n>> \in R, c = 0 PROVE i <= o /\ j = 1
      <4>1. Given(out, c, i, j, n)
        BY <1>2, <3>1 DEF Buffered, Aside
      <4> QED
        BY <1>1, <4>1 DEF Given, o
    <3>2. ASSUME NEW c, NEW i, NEW j, NEW n, <<c, i, j, n>> \in R, c = 1, i = k PROVE j >= 1
      <4>1. Buffered(aOB, c, i, j, n)
        BY <1>2, <3>2 DEF Given, Aside
      <4>2. j \in 1 .. Len(data)
        BY <2>z, <3>2, <4>1
      <4> QED
        BY <4>2
    <3> QED
      BY <3>1, <3>2 DEF FlushFrom
  <2>7. Kept(Q, echoed, g) /\ (AllIn(R, k) /\ Ordered(R, inner) => Ordered(Q, inner))
    BY <1>1, <1>4, <2>4, <2>6, KeptFlush
  <2>8. ASSUME ~overtaken' PROVE Ordered(Q, inner)
    <3>1. ASSUME NEW c, NEW i, NEW j, NEW n, <<c, i, j, n>> \in R PROVE c = 0 \/ (c = 1 /\ i = k)
      <4>1. ASSUME Buffered(aOB, c, i, j, n) PROVE c = 1 /\ i = k
        <5>1. c = 1 /\ i \in 1 .. k /\ aOB[i].data # << >>
          BY <4>1 DEF Buffered, k
        <5>2. i \notin 1 .. k - 1
          BY <2>1, <2>8, <5>1
        <5> QED
          BY <1>1, <5>1, <5>2
      <4>2. ASSUME Aside(s, c, i, j, n) PROVE FALSE
        <5>1. i \in 1 .. Len(s) /\ s[i].data # << >>
          BY <1>1, <4>2 DEF Aside
        <5>2. frames \in Seq(FrameRecords) /\ Len(s) = Len(frames)
          BY TidyTypes DEF s
        <5>3. s[i] = frames[Len(frames) + 1 - i] /\ Len(frames) + 1 - i \in DOMAIN frames
          BY <1>1, <5>1, <5>2, ReverseFacts DEF s, Stack
        <5> QED
          BY <2>1, <2>8, <5>1, <5>3
      <4> QED
        BY <1>2, <3>1, <4>1, <4>2 DEF Given
    <3>2. AllIn(R, k)
      BY <3>1 DEF AllIn
    <3> QED
      BY <1>4, <2>1, <2>7, <2>8, <3>2
  <2>9. Nest(t, aOB', inner)
    <3>1. Fewer(s, t) /\ Len(t) \in Nat /\ inner \subseteq inner
      BY <1>1 DEF Fewer
    <3>2. AddsOnly(aOB, aOB', inner)
      BY <1>3 DEF PlacesEmptied, AddsOnly
    <3> QED
      BY <1>4, <3>1, <3>2, NestFewer
  <2>10. g = dropped' \cup strays'
    BY DEF g
  <2> QED
    BY <1>4, <2>7, <2>8, <2>9, <2>10 DEF Tidy, Q, t
<1> QED
  BY <1>5, <1>6

LEMMA StartTidy ==
  ASSUME IInv, IInv', Tidy, NEW cb \in BOOLEAN, ob_start(cb)
  PROVE  Tidy'
<1>1. aOB' = Append(aOB, [cb |-> cb, data |-> << >>]) /\ UNCHANGED <<frames, out, echoed, dropped, strays, inner>>
      /\ (~overtaken' => ~overtaken)
  BY DEF ob_start
<1>2. \A c, i, j, n : Buffered(aOB', c, i, j, n) <=> Buffered(aOB, c, i, j, n)
  <2> DEFINE x == [cb |-> cb, data |-> << >>]
  <2>1. x.data = << >> /\ aOB \in Seq(BufferRecords) /\ aOB' = Append(aOB, x)
    BY <1>1, TidyTypes
  <2> HIDE DEF x
  <2> QED
    BY <2>1, BufferedStarted
<1>3. Calm(Stack, Stack')
  BY <1>1 DEF Stack, Calm, Fewer
<1> QED
  BY <1>1, <1>2, <1>3, TidyCalm

LEMMA ReturnObTidy ==
  ASSUME IInv, IInv', Tidy, NEW swallowed \in BOOLEAN, ReturnOb(swallowed)
  PROVE  Tidy'
<1> DEFINE R == Chunks
           Q == Chunks'
           s == Stack
           t == Stack'
           g == dropped \cup strays
           f == Last(s)
           h == Len(s)
           b == f.slot
           x == f.data[1]
           there == f.base = room /\ f.slot <= Len(aOB)
<1>1. /\ echoed \in Nat /\ aOB \in Seq(BufferRecords) /\ s \in Seq(FrameRecords) /\ Len(aOB) \in Nat
      /\ h \in Nat /\ h \in 1 .. h /\ f = s[h] /\ f \in FrameRecords /\ t = Front(s) /\ Head(frames) = f
      /\ t \in Seq(FrameRecords) /\ Len(t) \in Nat
  <2>1. frames \in Seq(FrameRecords) /\ frames # << >> /\ frames' = Tail(frames)
    BY TidyTypes DEF ReturnOb, Leaves
  <2>2. /\ Reverse(Tail(frames)) = Front(Reverse(frames)) /\ Head(frames) = Last(Reverse(frames))
        /\ Len(frames) > 0
    BY <2>1, ReversePopped
  <2>3. s \in Seq(FrameRecords) /\ Len(s) > 0 /\ Len(s) \in Nat
    BY <2>1, <2>2, TidyTypes
  <2>4. f \in FrameRecords /\ f = s[Len(s)]
    BY <2>3, FrontFacts
  <2> QED
    BY <2>1, <2>2, <2>3, <2>4, TidyTypes, TidyTypesNext DEF Stack
<1>2. /\ f.kind = "ob" /\ f.data \in Seq(Nat) /\ Len(f.data) = 1 /\ DOMAIN f.data = {1} /\ b \in Nat /\ b >= 1
      /\ x \in Nat
  <2>1. f.kind = "ob"
    BY <1>1 DEF ReturnOb, Leaves
  <2>2. f.data \in Seq(Nat) /\ Len(f.data) = 1 /\ b \in Nat /\ b >= 1
    BY <1>1, <2>1 DEF FrameRecords, AnyFrame
  <2>3. ASSUME NEW d \in Seq(Nat), Len(d) = 1 PROVE DOMAIN d = {1} /\ d[1] \in Nat
    <3>1. DOMAIN d = 1 .. Len(d) /\ 1 .. 1 = {1}
      OBVIOUS
    <3>2. 1 \in 1 .. Len(d)
      BY <2>3
    <3>3. d[1] \in Nat
      BY <3>2
    <3> QED
      BY <2>3, <3>1, <3>3
  <2> QED
    BY <2>1, <2>2, <2>3
<1>3. /\ out' = out /\ echoed' = echoed /\ inner' = inner /\ (~overtaken' => ~overtaken)
      /\ aOB' = (IF ~swallowed /\ there THEN [aOB EXCEPT ![b].data = @ \o f.data] ELSE aOB)
      /\ dropped' = (IF swallowed THEN dropped \cup ToSet(f.data) ELSE dropped)
      /\ strays' = (IF ~swallowed /\ ~there THEN strays \cup ToSet(f.data) ELSE strays)
  BY <1>1 DEF ReturnOb
<1>4. /\ \A c, i, j, n : <<c, i, j, n>> \in R
            <=> Given(out, c, i, j, n) \/ Buffered(aOB, c, i, j, n) \/ Aside(s, c, i, j, n)
      /\ \A c, i, j, n : <<c, i, j, n>> \in Q
            <=> Given(out, c, i, j, n) \/ Buffered(aOB', c, i, j, n) \/ Aside(t, c, i, j, n)
  BY <1>3, TidyTypes, TidyTypesNext
<1>5. Kept(R, echoed, g) /\ (~overtaken => Ordered(R, inner)) /\ inner \subseteq 1 .. echoed /\ Nest(s, aOB, inner)
      /\ IsPlaces(R)
  BY TidyTypes DEF Tidy
<1>6. \A c, i, j, n : Aside(t, c, i, j, n) <=> Aside(s, c, i, j, n) /\ i # h
  BY <1>1, AsidePopped
<1>7. \A c, j, n : Aside(s, c, h, j, n) <=> c = 2 /\ j = 1 /\ n = x
  <2>1. \A j : j \in 1 .. Len(s[h].data) <=> j = 1
    BY <1>1, <1>2
  <2> QED
    BY <1>1, <2>1 DEF Aside
<1>8. ToSet(f.data) = {x}
  BY <1>2 DEF ToSet
<1>9. <<2, h, 1, x>> \in R
  BY <1>4, <1>7
<1>b. x \in 1 .. echoed
  BY <1>5, <1>9 DEF Kept
<1> HIDE DEF R, Q, s, t, g, f, h, b, x, there
<1>10. CASE swallowed \/ ~there
  <2>1. aOB' = aOB /\ dropped' \cup strays' = g \cup {x}
    BY <1>3, <1>8, <1>10 DEF g
  <2>2. Loses(Q, R, {x})
    <3>1. ASSUME NEW c, NEW i, NEW j, NEW n, <<c, i, j, n>> \in Q PROVE <<c, i, j, n>> \in R /\ n \notin {x}
      <4>1. <<c, i, j, n>> \in R
        BY <1>4, <1>6, <2>1, <3>1
      <4>2. ASSUME c = 2, i = h PROVE FALSE
        BY <1>4, <1>6, <3>1, <4>2 DEF Given, Buffered
      <4>3. ASSUME n = x PROVE FALSE
        <5>1. <<2, h, 1, n>> \in R
          BY <1>9, <4>3
        <5>2. c = 2 /\ i = h
          BY <1>5, <4>1, <5>1 DEF Kept
        <5> QED
          BY <4>2, <5>2
      <4> QED
        BY <4>1, <4>3
    <3>2. ASSUME NEW c, NEW i, NEW j, NEW n, <<c, i, j, n>> \in R PROVE <<c, i, j, n>> \in Q \/ n \in {x}
      BY <1>4, <1>6, <1>7, <2>1, <3>2
    <3> QED
      BY <3>1, <3>2 DEF Loses
  <2>3. {x} \subseteq 1 .. echoed
    BY <1>b
  <2>4. Kept(Q, echoed, g \cup {x}) /\ (Ordered(R, inner) => Ordered(Q, inner))
    BY <1>5, <2>2, <2>3, KeptLess
  <2>5. Nest(t, aOB', inner)
    <3>1. Fewer(s, t) /\ inner \subseteq inner
      <4>1. Len(s) > 0
        BY <1>1 DEF h
      <4> QED
        BY <1>1, <4>1, CalmPop
    <3>2. AddsOnly(aOB, aOB', inner)
      BY <2>1 DEF AddsOnly
    <3> QED
      BY <1>1, <1>5, <3>1, <3>2, NestFewer
  <2> QED
    BY <1>3, <1>5, <2>1, <2>4, <2>5 DEF Tidy, Q, t
<1>11. CASE ~swallowed /\ there
  <2> DEFINE l == Len(aOB[b].data)
             d == aOB[b].data \o f.data
  <2>1. b \in 1 .. Len(aOB) /\ aOB[b] \in BufferRecords
    BY <1>1, <1>2, <1>11 DEF there, b
  <2>2. aOB[b].data \in Seq(Nat) /\ l \in Nat
    BY <2>1 DEF BufferRecords
  <2>3. Len(d) = l + 1 /\ d[l + 1] = x /\ \A j \in 1 .. l : d[j] = aOB[b].data[j]
    <3> DEFINE u == aOB[b].data
               v == f.data
    <3>0. u \in Seq(Nat) /\ v \in Seq(Nat)
      BY <1>2, <2>2
    <3>1. Len(v) = 1 /\ v[1] = x
      BY <1>2 DEF x
    <3> HIDE DEF u, v
    <3>2. /\ Len(u \o v) = Len(u) + Len(v)
          /\ \A j \in 1 .. Len(u) : (u \o v)[j] = u[j]
          /\ \A j \in 1 .. Len(v) : (u \o v)[Len(u) + j] = v[j]
      BY <3>0, ConcatFacts
    <3>3. 1 \in 1 .. Len(v)
      BY <3>1
    <3> QED
      BY <3>1, <3>2, <3>3 DEF u, v
  <2>4. aOB' = [aOB EXCEPT ![b].data = d]
    BY <1>3, <1>11
  <2> HIDE DEF l, d
  <2>5. Refilled(aOB', aOB, b, d)
    BY <2>4, Zenon DEF Refilled
  <2>6. PlacesRefilled(aOB', aOB, b, d)
    BY <1>1, <2>1, <2>5, BufferedChanged
  <2>7. \A c, i, j, n : Buffered(aOB', c, i, j, n) <=> Buffered(aOB, c, i, j, n) \/ (c = 1 /\ i = b /\ j = l + 1 /\ n = x)
    <3> TAKE c, i, j, n
    <3>1. Buffered(aOB', c, i, j, n)
            <=> (Buffered(aOB, c, i, j, n) /\ i # b) \/ (c = 1 /\ i = b /\ j \in 1 .. Len(d) /\ n = d[j])
      BY <2>6 DEF PlacesRefilled
    <3>2. CASE i = b
      <4>1. Buffered(aOB, c, i, j, n) <=> c = 1 /\ j \in 1 .. l /\ n = aOB[b].data[j]
        BY <2>1, <3>2 DEF Buffered, l
      <4>2. j \in 1 .. Len(d) <=> j \in 1 .. l \/ j = l + 1
        BY <2>2, <2>3
      <4>3. j = l + 1 => j \notin 1 .. l
        BY <2>2
      <4> QED
        BY <2>3, <3>1, <3>2, <4>1, <4>2, <4>3
    <3>3. CASE i # b
      BY <3>1, <3>3
    <3> QED
      BY <3>2, <3>3
  <2>8. Moved(Q, R, h, b, l + 1, x)
    <3> SUFFICES ASSUME NEW c, NEW i, NEW j, NEW n
                 PROVE  <<c, i, j, n>> \in Q
                          <=> \/ <<c, i, j, n>> \in R /\ ~(c = 2 /\ i = h)
                              \/ c = 1 /\ i = b /\ j = l + 1 /\ n = x
      BY DEF Moved
    <3>1. Given(out, c, i, j, n) \/ Buffered(aOB, c, i, j, n) => c # 2
      BY DEF Given, Buffered
    <3>2. Aside(s, c, i, j, n) => c = 2
      BY DEF Aside
    <3> QED
      BY <1>4, <1>6, <2>7, <3>1, <3>2
  <2>9. \A c, i, j, n : <<c, i, j, n>> \in R /\ c = 2 /\ i = h => j = 1 /\ n = x
    BY <1>4, <1>7 DEF Given, Buffered
  <2>10. ASSUME x \notin inner PROVE Latest(R, inner, h, b, l + 1)
    <3>1. /\ \A k \in 1 .. h - 1 : s[k].kind # "ob"
          /\ \A k, j, n : Buffered(aOB, 1, k, j, n) /\ k > b => n \in inner
      BY <1>1, <1>2, <1>5, <2>10 DEF Nest, h, b, x
    <3> SUFFICES ASSUME NEW c, NEW i, NEW j, NEW n, <<c, i, j, n>> \in R, n \notin inner, ~(c = 2 /\ i = h)
                 PROVE  c < 2 /\ ~Before(1, b, l + 1, c, i, j)
      BY DEF Latest
    <3>2. CASE Given(out, c, i, j, n)
      BY <3>2 DEF Given, Before
    <3>3. CASE Buffered(aOB, c, i, j, n)
      <4>1. c = 1 /\ i \in 1 .. Len(aOB) /\ ~(i > b)
        BY <3>1, <3>3 DEF Buffered
      <4>2. i = b => j \in 1 .. l
        BY <3>3 DEF Buffered, l
      <4> QED
        BY <1>1, <2>1, <2>2, <4>1, <4>2 DEF Before
    <3>4. CASE Aside(s, c, i, j, n)
      <4>1. c = 2 /\ i \in 1 .. h /\ i # h /\ s[i].kind = "ob"
        BY <1>1, <3>4, AsideType DEF Aside, h
      <4> QED
        BY <1>1, <3>1, <4>1
    <3> QED
      BY <1>4, <3>2, <3>3, <3>4
  <2>11. Kept(Q, echoed, g) /\ (Ordered(R, inner) /\ (x \in inner \/ Latest(R, inner, h, b, l + 1)) => Ordered(Q, inner))
    <3>1. l + 1 \in Nat
      BY <2>2
    <3> QED
      BY <1>1, <1>2, <1>5, <1>9, <2>8, <2>9, <3>1, KeptReturn
  <2>12. Nest(t, aOB', inner)
    <3>1. AddsOnly(aOB, aOB', {f.data[1]})
      BY <2>7 DEF AddsOnly, x
    <3>2. Len(s) > 0 /\ Last(s).kind = "ob" /\ AddsOnly(aOB, aOB', {Last(s).data[1]})
      BY <1>1, <1>2, <3>1 DEF h, f
    <3>3. Nest(Front(s), aOB', inner)
      BY <1>1, <1>5, <3>2, NestReturn
    <3> QED
      BY <1>1, <3>3
  <2>13. g = dropped' \cup strays'
    BY <1>3, <1>11 DEF g
  <2> QED
    BY <1>3, <1>5, <2>10, <2>11, <2>12, <2>13 DEF Tidy, Q, t
<1> QED
  BY <1>10, <1>11

LEMMA TidyStep ==
  ASSUME IInv, IInv', Tidy, [Next]_vars
  PROVE  Tidy'
<1>0. frames = << >> => todo = "run"
  BY CallFacts
<1>1. ASSUME UNCHANGED <<screen, frames, echoed, inner>> PROVE Tidy'
  <2>1. Unmoved /\ frames' = frames
    BY <1>1 DEF Unmoved, screen
  <2> QED
    BY <2>1, SameTidy
<1>2. CASE Warn
  <2>1. frames # << >>
    BY <1>0, <1>2 DEF Warn
  <2> QED
    BY <1>1, <1>2, <2>1, ConsumeTidy DEF Warn
<1>3. CASE Echo
  BY <1>3, ConsumeTidy DEF Echo, Call
<1>4. CASE \E m \in BOOLEAN : Exit(m)
  BY <1>1, <1>4, ConsumeTidy DEF Exit, Call
<1>5. CASE \E b \in BOOLEAN : ob_start(b)
  BY <1>5, StartTidy
<1>6. CASE ob_clean \/ ob_end_clean
  <2>1. /\ aOB # << >> /\ UNCHANGED <<frames, out, echoed, strays, overtaken, inner>>
        /\ dropped' = dropped \cup ToSet(Last(aOB).data)
        /\ aOB' = Front(aOB) \/ aOB' = [aOB EXCEPT ![Len(aOB)].data = << >>]
    BY <1>6 DEF ob_clean, ob_end_clean
  <2>2. PlacesEmptied(aOB', aOB)
    BY <2>1, TidyTypes, TopGone
  <2> QED
    BY <2>1, <2>2, CleanTidy
<1>7. CASE ob_flush \/ ob_end_flush
  BY <1>7, FlushTidy DEF ob_flush, ob_end_flush
<1>8. CASE \E b \in BOOLEAN : ReturnOb(b)
  BY <1>8, ReturnObTidy
<1>9. CASE \/ Eval \/ ReturnChunk \/ ReturnCall \/ register_shutdown_function \/ ReturnMain
           \/ InvokeShutdownCallback \/ EndShutdown \/ ByteCodeExec \/ UNCHANGED vars
           \/ \E f \in Files, once, required \in BOOLEAN : Include(f, once, required)
           \/ \E b \in BOOLEAN : error_reporting(b) \/ trigger_error(b) \/ assert(b)
           \/ \E o \in Options : assert_options(o[1], o[2])
           \/ \E d \in Devices : Configure(d)
  BY <1>9, QuietTidy
<1> QED
  BY <1>2, <1>3, <1>4, <1>5, <1>6, <1>7, <1>8, <1>9 DEF Next, Machine

LEMMA InitTidy ==
  ASSUME Init
  PROVE  Tidy
<1>1. IInv
  BY InitInv
<1>2. out = << >> /\ aOB = << >> /\ frames = << >> /\ echoed = 0 /\ dropped = {} /\ strays = {} /\ inner = {}
  BY DEF Init
<1>3. Len(out) = 0 /\ Len(aOB) = 0 /\ Len(Stack) = 0
  BY <1>1, <1>2, TidyTypes
<1>4. ASSUME NEW c, NEW i, NEW j, NEW n, <<c, i, j, n>> \in Chunks PROVE FALSE
  <2>1. ~Given(out, c, i, j, n) /\ ~Buffered(aOB, c, i, j, n) /\ ~Aside(Stack, c, i, j, n)
    BY <1>3 DEF Given, Buffered, Aside
  <2>2. Given(out, c, i, j, n) \/ Buffered(aOB, c, i, j, n) \/ Aside(Stack, c, i, j, n)
    BY <1>1, <1>4, TidyTypes
  <2> QED
    BY <2>1, <2>2
<1>5. Kept(Chunks, echoed, dropped \cup strays)
  BY <1>2, <1>4 DEF Kept
<1>6. Ordered(Chunks, inner)
  BY <1>4 DEF Ordered
<1>7. Nest(Stack, aOB, inner)
  BY <1>3 DEF Nest
<1> QED
  BY <1>2, <1>5, <1>6, <1>7 DEF Tidy

(***************************************************************************)
(* How much was counted: what devices were given, and no more than what    *)
(* was lost beside it, nothing while no callback has ended all buffers.    *)
(***************************************************************************)
Gone == dropped \cup strays

(* A callback that runs without a buffer has ended them all.               *)
Bared == nObDepth > 0 /\ consumer # "ob" => aOB = << >> /\ unbuffered

Counted ==
  /\ nOutputLen \in Nat /\ Len(out) <= nOutputLen
  /\ nOutputLen <= Len(out) + Cardinality(Gone)
  /\ ~unbuffered => nOutputLen = Len(out)
  /\ unbuffered \in BOOLEAN
  /\ Bared

LEMMA GoneFinite ==
  ASSUME IInv, Tidy
  PROVE  IsFiniteSet(Gone) /\ Cardinality(Gone) \in Nat
<1>1. Gone \subseteq 1 .. echoed /\ echoed \in Nat
  BY TidyTypes DEF Tidy, Kept, Gone
<1>2. IsFiniteSet(1 .. echoed)
  BY <1>1, FS_Interval
<1> QED
  BY <1>1, <1>2, FS_Subset, FS_CardinalityType

LEMMA GoneFiniteNext ==
  ASSUME IInv', Tidy'
  PROVE  IsFiniteSet(Gone') /\ Cardinality(Gone') \in Nat
<1>1. Gone' \subseteq 1 .. echoed' /\ echoed' \in Nat
  BY DEF Tidy, Kept, Gone, IInv, Screen
<1>2. IsFiniteSet(1 .. echoed')
  BY <1>1, FS_Interval
<1> QED
  BY <1>1, <1>2, FS_Subset, FS_CardinalityType

(* What a device is given is counted with it.                              *)
LEMMA CountGrows ==
  ASSUME IInv, IInv', Tidy, Tidy', Counted, NEW k \in Nat,
         Len(out') = Len(out) + k, nOutputLen' = nOutputLen + k, Gone \subseteq Gone',
         unbuffered' \in BOOLEAN, unbuffered => unbuffered', Bared'
  PROVE  Counted'
<1>1. Cardinality(Gone) \in Nat /\ Cardinality(Gone') \in Nat /\ Cardinality(Gone) <= Cardinality(Gone')
  BY GoneFinite, GoneFiniteNext, FS_Subset
<1>2. Len(out) \in Nat /\ nOutputLen \in Nat
  BY TidyTypes DEF Counted
<1> QED
  BY <1>1, <1>2 DEF Counted

LEMMA CountStays ==
  ASSUME IInv, IInv', Tidy, Tidy', Counted, UNCHANGED <<out, nOutputLen>>, Gone \subseteq Gone',
         unbuffered' \in BOOLEAN, unbuffered => unbuffered', Bared'
  PROVE  Counted'
<1>1. Len(out) \in Nat /\ nOutputLen \in Nat /\ 0 \in Nat
  BY TidyTypes DEF Counted
<1>2. Len(out') = Len(out) + 0 /\ nOutputLen' = nOutputLen + 0
  BY <1>1
<1> QED
  BY <1>1, <1>2, CountGrows

LEMMA ConsumeCount ==
  ASSUME IInv, IInv', Tidy, Tidy', Counted, NEW then, NEW heeded, Consume(then, heeded)
  PROVE  Counted'
<1> DEFINE data == <<echoed + 1>>
<1>1. /\ consumer' = consumer /\ unbuffered' = unbuffered /\ dropped' = dropped
      /\ unbuffered \in BOOLEAN /\ data \in Seq(Nat) /\ Len(data) \in Nat
  BY DEF Consume, Counted, IInv, Screen
<1>2. CASE consumer = "ob"
  <2>1. UNCHANGED <<out, nOutputLen>> /\ strays \subseteq strays'
    BY <1>2 DEF Consume, ObConsumer
  <2>2. Bared' /\ Gone \subseteq Gone'
    BY <1>1, <1>2, <2>1 DEF Bared, Gone
  <2> QED
    BY <1>1, <2>1, <2>2, CountStays
<1>3. CASE consumer # "ob"
  <2>1. ToDevice(consumer, data) /\ UNCHANGED <<aOB, nObDepth, strays>> /\ consumer \in Devices
    BY <1>3 DEF Consume, IInv, Screen
  <2>2. Bared' /\ Gone \subseteq Gone'
    BY <1>1, <2>1 DEF Bared, Gone, Counted
  <2>3. Len(out') = Len(out) + Len(data) /\ nOutputLen' = nOutputLen + Len(data)
    BY <1>1, <2>1, DeviceFacts DEF ToDevice, IInv
  <2> QED
    BY <1>1, <2>2, <2>3, CountGrows
<1> QED
  BY <1>2, <1>3

(* The script's own calls on its buffers.                                  *)
LEMMA BufferCount ==
  ASSUME IInv, IInv', Tidy, Tidy', Counted,
         \/ \E cb \in BOOLEAN : ob_start(cb)
         \/ ob_clean \/ ob_end_clean \/ ob_flush \/ ob_end_flush
  PROVE  Counted'
<1>0. unbuffered \in BOOLEAN /\ Bared /\ nObDepth \in Nat
  BY CallFacts DEF Counted
<1>1. ASSUME aOB # << >>, aOB' = Front(aOB), ObRestore, nObDepth' = nObDepth
      PROVE  Bared' /\ unbuffered' \in BOOLEAN /\ (unbuffered => unbuffered')
  <2>1. Front(aOB) # << >> <=> Len(aOB) # 1
    BY <1>1, LastBuffer DEF IInv
  <2>2. CASE Len(aOB) = 1
    BY <1>0, <1>1, <2>1, <2>2 DEF ObRestore, Bared
  <2>3. CASE Len(aOB) # 1
    BY <1>0, <1>1, <2>1, <2>3 DEF ObRestore, Bared
  <2> QED
    BY <2>2, <2>3
<1>2. CASE \E cb \in BOOLEAN : ob_start(cb)
  <2>1. UNCHANGED <<out, nOutputLen, dropped, strays, unbuffered>> /\ consumer' = "ob"
    BY <1>2 DEF ob_start
  <2> QED
    BY <1>0, <2>1, CountStays DEF Bared, Gone
<1>3. CASE ob_clean
  <2>1. /\ UNCHANGED <<out, nOutputLen, strays, unbuffered, consumer, nObDepth>> /\ dropped \subseteq dropped'
        /\ aOB # << >>
    BY <1>3 DEF ob_clean
  <2> QED
    BY <1>0, <2>1, CountStays DEF Bared, Gone
<1>4. CASE ob_end_clean
  <2>1. /\ UNCHANGED <<out, nOutputLen, strays, nObDepth>> /\ dropped \subseteq dropped'
        /\ aOB # << >> /\ aOB' = Front(aOB) /\ ObRestore
    BY <1>4 DEF ob_end_clean
  <2> QED
    BY <1>1, <2>1, CountStays DEF Gone
<1>5. ASSUME NEW release \in BOOLEAN, aOB # << >>, ObFlush(release), UNCHANGED <<dropped, strays, nObDepth>>
      PROVE  Counted'
  <2>1. Bared' /\ unbuffered' \in BOOLEAN /\ (unbuffered => unbuffered')
    <3>1. CASE release
      BY <1>1, <1>5, <3>1 DEF ObFlush
    <3>2. CASE ~release
      BY <1>0, <1>5, <3>2 DEF ObFlush, Bared
    <3> QED
      BY <3>1, <3>2
  <2>2. Gone \subseteq Gone'
    BY <1>5 DEF Gone
  <2>3. CASE ToDevice(xDef, Last(aOB).data)
    <3>1. Last(aOB).data \in Seq(Nat) /\ xDef \in Devices /\ Screen
      BY <1>5, LastBuffer DEF IInv, Screen
    <3> DEFINE data == Last(aOB).data
    <3>a. data \in Seq(Nat) /\ ToDevice(xDef, data)
      BY <2>3, <3>1
    <3> HIDE DEF data
    <3>b. Len(out') = Len(out) + Len(data) /\ Len(data) \in Nat
      BY <3>1, <3>a, DeviceFacts
    <3>2. Len(out') = Len(out) + Len(data) /\ nOutputLen' = nOutputLen + Len(data) /\ Len(data) \in Nat
      BY <3>a, <3>b DEF ToDevice
    <3> QED
      BY <2>1, <2>2, <3>2, CountGrows
  <2>4. CASE UNCHANGED <<out, nOutputLen>>
    BY <2>1, <2>2, <2>4, CountStays
  <2> QED
    BY <1>5, <2>3, <2>4 DEF ObFlush
<1>6. CASE ob_flush \/ ob_end_flush
  BY <1>5, <1>6 DEF ob_flush, ob_end_flush
<1> QED
  BY <1>2, <1>3, <1>4, <1>6

(* A callback that ended all buffers has its chunk counted, and the chunk  *)
(* has just been lost.                                                     *)
LEMMA ReturnObCount ==
  ASSUME IInv, IInv', Tidy, Tidy', Counted, NEW swallowed \in BOOLEAN, ReturnOb(swallowed)
  PROVE  Counted'
<1> DEFINE f == Head(frames)
           x == f.data[1]
<1>1. /\ frames \in Seq(FrameRecords) /\ frames # << >> /\ f \in FrameRecords /\ f.kind = "ob"
      /\ nObDepth \in Nat
  BY CallFacts, TidyTypes DEF ReturnOb, Leaves
<1>2. f.data \in Seq(Nat) /\ Len(f.data) = 1 /\ f.slot \in Nat /\ f.slot >= 1
  BY <1>1 DEF FrameRecords, AnyFrame
<1>3. ToSet(f.data) = {x}
  <2> DEFINE d == f.data
  <2>1. d \in Seq(Nat) /\ Len(d) = 1
    BY <1>2
  <2> HIDE DEF d
  <2>2. DOMAIN d = {1}
    BY <2>1
  <2> QED
    BY <2>2 DEF ToSet, d
<1>4. x \notin Gone
  <2>1. Stack \in Seq(FrameRecords) /\ Len(Stack) \in Nat /\ Len(Stack) > 0 /\ f = Last(Stack)
    BY <1>1, TidyTypes, ReversePopped DEF Stack
  <2>2. f = Stack[Len(Stack)]
    BY <2>1, FrontFacts
  <2>a. Len(Stack) \in 1 .. Len(Stack)
    BY <2>1
  <2>b. 1 \in 1 .. Len(Stack[Len(Stack)].data) /\ x = Stack[Len(Stack)].data[1]
    BY <1>2, <2>2
  <2>3. Aside(Stack, 2, Len(Stack), 1, x)
    BY <2>a, <2>b DEF Aside
  <2>4. <<2, Len(Stack), 1, x>> \in Chunks
    BY <2>3, TidyTypes
  <2> QED
    BY <2>4 DEF Tidy, Kept, Gone
<1>5. /\ consumer' = consumer /\ UNCHANGED <<out, unbuffered>> /\ nObDepth' = nObDepth - 1
      /\ nOutputLen' = (IF consumer # "ob" THEN nOutputLen + Len(f.data) ELSE nOutputLen)
      /\ Gone \subseteq Gone'
  BY DEF ReturnOb, Gone
<1>6. nObDepth > 0
  <2>1. CASE nObDepth = 0
    <3>1. Stack \in Seq(FrameRecords) /\ Len(Stack) \in Nat /\ Len(Stack) > 0 /\ f = Last(Stack)
      BY <1>1, TidyTypes, ReversePopped DEF Stack
    <3>a. f = Stack[Len(Stack)]
      BY <3>1, FrontFacts
    <3>b. Len(Stack) \in 1 .. Len(Stack)
      BY <3>1
    <3>2. f = Stack[Len(Stack)] /\ Len(Stack) \in 1 .. Len(Stack)
      BY <3>a, <3>b
    <3> QED
      BY <1>1, <2>1, <3>2, NoCallback
  <2> QED
    BY <1>1, <2>1
<1>7. unbuffered \in BOOLEAN /\ Bared /\ nOutputLen \in Nat /\ Len(out) \in Nat
  BY TidyTypes DEF Counted
<1> HIDE DEF x
<1>8. CASE consumer = "ob"
  <2>1. Bared'
    BY <1>5, <1>8 DEF Bared
  <2> QED
    BY <1>5, <1>7, <1>8, <2>1, CountStays
<1>9. CASE consumer # "ob"
  <2>1. aOB = << >> /\ unbuffered
    BY <1>6, <1>7, <1>9 DEF Bared
  <2>2. ~(f.slot <= Len(aOB))
    BY <1>2, <2>1
  <2>3. aOB' = aOB /\ Gone' = Gone \cup {x}
    BY <1>3, <2>2 DEF ReturnOb, Gone
  <2>4. IsFiniteSet(Gone) /\ Cardinality(Gone) \in Nat
    BY GoneFinite
  <2>5. Cardinality(Gone') = Cardinality(Gone) + 1
    BY <1>4, <2>3, <2>4, FS_AddElement
  <2>6. nOutputLen' = nOutputLen + 1
    BY <1>2, <1>5, <1>9
  <2>7. Bared'
    BY <1>5, <2>1, <2>3 DEF Bared
  <2>8. /\ nOutputLen >= Len(out) /\ nOutputLen <= Len(out) + Cardinality(Gone)
    BY DEF Counted
  <2> QED
    BY <1>5, <1>7, <2>1, <2>4, <2>5, <2>6, <2>7, <2>8 DEF Counted
<1> QED
  BY <1>8, <1>9

LEMMA CountStep ==
  ASSUME IInv, IInv', Tidy, Tidy', Counted, [Next]_vars
  PROVE  Counted'
<1>0. unbuffered \in BOOLEAN /\ Bared
  BY DEF Counted
<1>1. ASSUME UNCHANGED screen PROVE Counted'
  <2>1. UNCHANGED <<out, nOutputLen, unbuffered, consumer, aOB, nObDepth, dropped, strays>>
    BY <1>1 DEF screen
  <2>2. Bared' /\ Gone' = Gone
    BY <1>0, <2>1 DEF Bared, Gone
  <2> QED
    BY <1>0, <2>1, <2>2, CountStays
<1>2. CASE Warn
  BY <1>1, <1>2, ConsumeCount DEF Warn
<1>3. CASE Echo
  BY <1>3, ConsumeCount DEF Echo
<1>4. CASE \E m \in BOOLEAN : Exit(m)
  BY <1>1, <1>4, ConsumeCount DEF Exit
<1>5. CASE \/ \E cb \in BOOLEAN : ob_start(cb)
           \/ ob_clean \/ ob_end_clean \/ ob_flush \/ ob_end_flush
  BY <1>5, BufferCount
<1>6. CASE \E b \in BOOLEAN : ReturnOb(b)
  BY <1>6, ReturnObCount
<1>7. CASE \/ Eval \/ ReturnChunk \/ ReturnCall \/ register_shutdown_function \/ ReturnMain
           \/ InvokeShutdownCallback \/ EndShutdown \/ ByteCodeExec \/ UNCHANGED vars
           \/ \E f \in Files, once, required \in BOOLEAN : Include(f, once, required)
           \/ \E b \in BOOLEAN : error_reporting(b) \/ trigger_error(b) \/ assert(b)
           \/ \E o \in Options : assert_options(o[1], o[2])
  <2>1. UNCHANGED screen
    BY <1>7 DEF Eval, ReturnChunk, ReturnCall, register_shutdown_function, ReturnMain,
         InvokeShutdownCallback, EndShutdown, ByteCodeExec, Include, error_reporting, trigger_error,
         assert, assert_options, vars
  <2> QED
    BY <1>1, <2>1
<1>8. CASE \E d \in Devices : Configure(d)
  <2>1. UNCHANGED <<out, nOutputLen, unbuffered, aOB, nObDepth, dropped, strays>> /\ phase \in {"ready", "done"}
    BY <1>8 DEF Configure
  <2>2. frames = << >>
    BY <2>1, ContextFacts DEF IInv, Running
  <2>3. nObDepth = 0
    <3>1. nObDepth = Num(Reverse(frames), Len(Reverse(frames)), OfBuffer)
      BY DEF IInv, Running, Context, Sound
    <3>2. Reverse(frames) = << >> /\ Len(Reverse(frames)) = 0
      BY <2>2, TidyTypes, ReverseEmpty
    <3>3. {h \in 1 .. 0 : Reverse(frames)[h] \in OfBuffer} = {}
      OBVIOUS
    <3> QED
      BY <3>1, <3>2, <3>3, FS_EmptySet DEF Num
  <2>4. Bared' /\ Gone' = Gone
    BY <2>1, <2>3 DEF Bared, Gone
  <2> QED
    BY <1>0, <2>1, <2>4, CountStays
<1> QED
  BY <1>2, <1>3, <1>4, <1>5, <1>6, <1>7, <1>8 DEF Next, Machine

LEMMA InitCount ==
  ASSUME Init
  PROVE  Counted
<1>1. Gone = {}
  BY DEF Init, Gone
<1>2. Cardinality(Gone) = 0
  BY <1>1, FS_EmptySet
<1>3. out = << >> /\ Len(<< >>) = 0
  BY DEF Init
<1>4. nOutputLen = 0 /\ unbuffered = FALSE /\ nObDepth = 0
  BY DEF Init
<1>5. Bared
  BY <1>4 DEF Bared
<1>6. Len(out) = 0
  BY <1>3
<1>7. unbuffered \in BOOLEAN
  BY <1>4
<1>8. nOutputLen \in Nat /\ Len(out) <= nOutputLen /\ nOutputLen <= Len(out) + Cardinality(Gone)
      /\ nOutputLen = Len(out)
  BY <1>2, <1>4, <1>6
<1> QED
  BY <1>5, <1>7, <1>8 DEF Counted

LEMMA TidyKeeps ==
  ASSUME IInv, Tidy, Counted
  PROVE  OutputKept
<1> DEFINE placed == {p[4] : p \in Placed}
           gone == dropped \cup strays
<1>1. Placed = Chunks
  BY DEF Placed, Chunks, PlacedIn
<1>2. \A p \in Placed : p = <<p[1], p[2], p[3], p[4]>> /\ IsPlace(p[1], p[2], p[3], p[4])
  <2>1. \A p \in Placed : p = <<p[1], p[2], p[3], p[4]>>
    BY <1>1, TidyTypes, PlacedAt DEF Chunks
  <2> QED
    BY <1>1, <2>1, TidyTypes DEF IsPlaces
<1>3. /\ \A n \in 1 .. echoed : n \in gone \/ \E c, i, j : <<c, i, j, n>> \in Placed
      /\ gone \subseteq 1 .. echoed
      /\ \A c, i, j, n : <<c, i, j, n>> \in Placed => n \in 1 .. echoed /\ n \notin gone
      /\ \A c, i, j, d, k, l, n :
           <<c, i, j, n>> \in Placed /\ <<d, k, l, n>> \in Placed => c = d /\ i = k /\ j = l
  BY <1>1 DEF Tidy, Kept
<1>4. placed \cup gone = 1 .. echoed /\ placed \cap gone = {}
  <2>1. ASSUME NEW n \in placed PROVE n \in 1 .. echoed /\ n \notin gone
    <3>1. PICK p \in Placed : n = p[4]
      OBVIOUS
    <3>2. <<p[1], p[2], p[3], n>> \in Placed
      BY <1>2, <3>1
    <3> QED
      BY <1>3, <3>2
  <2>2. ASSUME NEW n \in 1 .. echoed, n \notin gone PROVE n \in placed
    <3>1. PICK c, i, j : <<c, i, j, n>> \in Placed
      BY <1>3, <2>2
    <3>2. <<c, i, j, n>>[4] = n
      OBVIOUS
    <3> QED
      BY <3>1, <3>2
  <2> HIDE DEF placed, gone
  <2> QED
    BY <1>3, <2>1, <2>2 DEF gone
<1>5. ASSUME NEW p \in Placed, NEW q \in Placed, p[4] = q[4] PROVE p = q
  <2>1. p = <<p[1], p[2], p[3], p[4]>> /\ q = <<q[1], q[2], q[3], p[4]>>
    BY <1>2, <1>5
  <2>2. p[1] = q[1] /\ p[2] = q[2] /\ p[3] = q[3]
    BY <1>3, <2>1
  <2> QED
    BY <2>1, <2>2
<1>6. ASSUME ~overtaken, NEW p \in Placed, NEW q \in Placed, Earlier(p, q), p[4] \notin inner, q[4] \notin inner
      PROVE  p[4] < q[4]
  <2>1. <<p[1], p[2], p[3], p[4]>> \in Chunks /\ <<q[1], q[2], q[3], q[4]>> \in Chunks
    BY <1>1, <1>2
  <2>2. Before(p[1], p[2], p[3], q[1], q[2], q[3])
    BY <1>6 DEF Earlier, Before
  <2> QED
    BY <1>6, <2>1, <2>2 DEF Tidy, Ordered
<1>7. consumer = "ob" => aOB # << >> /\ xDef \in Devices
  BY DEF IInv, Screen
<1>8. /\ Len(out) <= nOutputLen /\ nOutputLen <= Len(out) + Cardinality(gone)
      /\ ~unbuffered => nOutputLen = Len(out)
  BY DEF Counted, Gone
<1> QED
  BY <1>4, <1>5, <1>6, <1>7, <1>8 DEF OutputKept

(* Types, and the shape of the stack of frames, however long the script is *)
(* and however deep its calls: what the other theorems rest on (vm.c).     *)
THEOREM InvHolds == Spec => []IInv
<1>1. Init => IInv
  BY InitInv
<1>2. IInv /\ [Next]_vars => IInv'
  BY ScreenStep, RunningStep DEF IInv
<1> QED
  BY <1>1, <1>2, PTL DEF Spec

(* However includes, eval(), callbacks and the shutdown end, exit() in any *)
(* of them included, the files being executed, the container the compiler  *)
(* fills and the count of running callbacks of buffers are those of the    *)
(* frames still running, in every run of the machine (vm.c).               *)
THEOREM ContextsKept == Spec => []ContextsRestored
<1>1. IInv => ContextsRestored
  BY InvRestores
<1> QED
  BY <1>1, InvHolds, PTL

(* Every chunk a script echoes is in one place: a device was given it, one *)
(* buffer holds it, one callback of a buffer is at work on it, or it was   *)
(* cleaned, swallowed or lost behind a callback that changed the buffers.  *)
(* The script's own chunks keep their order until a device overtakes a     *)
(* buffer.  That is so for any nesting of buffers and callbacks, whatever  *)
(* the callbacks do to the buffers.  What devices were given is counted,   *)
(* and nothing else before a callback ends all buffers; after that, no     *)
(* more than was lost (VmObConsumer, VmObFlush, VmObRestore).              *)
THEOREM OutputSafe == Spec => []OutputKept
<1>1. Init => IInv /\ Tidy /\ Counted
  BY InitInv, InitTidy, InitCount
<1>2. (IInv /\ Tidy /\ Counted) /\ [Next]_vars => (IInv /\ Tidy /\ Counted)'
  <2>1. IInv /\ [Next]_vars => IInv'
    BY ScreenStep, RunningStep DEF IInv
  <2>2. IInv /\ Tidy /\ [Next]_vars => Tidy'
    BY <2>1, TidyStep
  <2> QED
    BY <2>1, <2>2, CountStep
<1>3. IInv /\ Tidy /\ Counted => OutputKept
  BY TidyKeeps
<1> QED
  BY <1>1, <1>2, <1>3, PTL DEF Spec
=============================================================================
