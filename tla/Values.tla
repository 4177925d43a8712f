------------------------------- MODULE Values -------------------------------
(***************************************************************************)
(* The values of scripts (memobj.c) and the instructions of vm.c that      *)
(* compute with them.  A value is a record as in the code: a set of type   *)
(* flags and the fields i (integer, boolean, resource), r (real), s        *)
(* (string), a (the elements of a list) and o (what the cast methods of an *)
(* object return).  A conversion changes the flags and its own field; the  *)
(* other fields keep what they held, and some instructions read them.      *)
(***************************************************************************)
EXTENDS Numbers

Value(f, i, r, s, a, o) == [f |-> f, i |-> i, r |-> r, s |-> s, a |-> a, o |-> o]
NoMethods == [m \in {} |-> {}]
Plain(flag) == Value({flag}, 0, Real(0), <<>>, <<>>, NoMethods)
MemObjInit == Plain("null")
InitFromInt(n) == [Plain("int") EXCEPT !.i = n]
InitFromBool(b) == [Plain("bool") EXCEPT !.i = IF b THEN 1 ELSE 0]
InitFromString(s) == [Plain("string") EXCEPT !.s = s]
InitFromArray(a) == [Plain("array") EXCEPT !.a = a]

Has(v, flags) == v.f \cap flags # {}

CallClassCastMethod(v, m, flags, default) ==
    IF m \in DOMAIN v.o /\ Has(v.o[m], flags) THEN v.o[m] ELSE default

Lit(s) == CASE s = "TRUE" -> <<"T", "R", "U", "E">> [] s = "true" -> <<"t", "r", "u", "e">>
            [] s = "on" -> <<"o", "n">> [] s = "yes" -> <<"y", "e", "s">>
            [] s = "false" -> <<"f", "a", "l", "s", "e">>
            [] s = "Array" -> <<"A", "r", "r", "a", "y">>
            [] s = "Object" -> <<"O", "b", "j", "e", "c", "t">>
            [] OTHER -> <<"R", "e", "s">>

AllZeros(s) == Lead(s, {"0"}) = Len(s)

(* What a value is worth as an integer, a real, a string and a truth       *)
(* value.  Of a value with several flags the real comes first.             *)
MemObjIntValue(v) ==
    CASE Has(v, {"real"}) -> RealToInt(v.r)
      [] ~ Has(v, {"real"}) /\ Has(v, {"int", "bool"}) -> v.i
      [] Has(v, {"string"}) -> PH7_TokenValueToInt64(v.s)
      [] Has(v, {"array"}) -> Len(v.a)
      [] Has(v, {"obj"}) -> CallClassCastMethod(v, "toInt", {"int"}, InitFromInt(1)).i
      [] Has(v, {"res"}) -> IF v.i # 0 THEN 1 ELSE 0
      [] OTHER -> 0

MemObjRealValue(v) ==
    CASE Has(v, {"real"}) -> v.r
      [] ~ Has(v, {"real"}) /\ Has(v, {"int", "bool"}) -> Real(v.i)
      [] Has(v, {"string"}) -> SyStrToReal(v.s).val
      [] Has(v, {"array"}) -> Real(Len(v.a))
      [] Has(v, {"obj"}) ->
           CallClassCastMethod(v, "toFloat", {"real"}, [Plain("real") EXCEPT !.r = Real(1)]).r
      [] Has(v, {"res"}) -> Real(IF v.i # 0 THEN 1 ELSE 0)
      [] OTHER -> Real(0)

MemObjStringValue(v) ==
    CASE Has(v, {"real"}) -> RealText(v.r)
      [] ~ Has(v, {"real"}) /\ Has(v, {"int"}) -> IntText(v.i)
      [] Has(v, {"bool"}) -> IF v.i # 0 THEN Lit("TRUE") ELSE <<>>
      [] Has(v, {"array"}) -> Lit("Array")
      [] Has(v, {"obj"}) ->
           LET s == CallClassCastMethod(v, "toString", {"string"}, InitFromString(<<>>)).s
           IN  IF s = <<>> THEN Lit("Object") ELSE s
      [] Has(v, {"res"}) -> Lit("Resource")
      [] OTHER -> <<>>

MemObjBooleanValue(v) ==
    LET s == Lower(v.s)
    IN  CASE Has(v, {"real"}) -> v.r[1] # 0
          [] ~ Has(v, {"real"}) /\ Has(v, {"int", "bool", "res"}) -> v.i # 0
          [] Has(v, {"string"}) ->
               s \in {Lit("true"), Lit("on"), Lit("yes")} \/ (s # Lit("false") /\ ~ AllZeros(s))
          [] Has(v, {"array"}) -> v.a # <<>>
          [] Has(v, {"obj"}) ->
               CallClassCastMethod(v, "toBool", {"int", "bool"}, InitFromInt(1)).i # 0
          [] OTHER -> FALSE

(* A real that is a whole number in range is an integer too.               *)
MemObjTryIntger(v) ==
    LET n == RealToInt(v.r)
        whole == RealCmp(v.r, Real(n)) = 0 /\ n > SMALLEST_INT64 /\ n < LARGEST_INT64
    IN  [v EXCEPT !.i = n, !.f = IF whole THEN @ \cup {"int"} ELSE @]
MemObjTryInteger(v) == IF Has(v, {"real"}) THEN MemObjTryIntger(v) ELSE v

MemObjToInteger(v) ==
    IF Has(v, {"int"}) THEN v
    ELSE [v EXCEPT !.i = MemObjIntValue(v), !.s = <<>>, !.f = {"int"}]
MemObjToReal(v) ==
    IF Has(v, {"real"}) THEN v
    ELSE MemObjTryIntger([v EXCEPT !.r = MemObjRealValue(v), !.s = <<>>, !.f = {"real"}])
MemObjToBool(v) ==
    IF Has(v, {"bool"}) THEN v
    ELSE [v EXCEPT !.i = IF MemObjBooleanValue(v) THEN 1 ELSE 0, !.s = <<>>, !.f = {"bool"}]
MemObjToString(v) ==
    IF Has(v, {"string"}) THEN v
    ELSE [v EXCEPT !.s = MemObjStringValue(v), !.f = {"string"}]
MemObjToNull(v) == [v EXCEPT !.s = <<>>, !.f = {"null"}]
MemObjToHashmap(v) ==
    IF Has(v, {"array"}) THEN v
    ELSE [v EXCEPT !.a = IF Has(v, {"null", "res"}) THEN <<>> ELSE <<v>>, !.s = <<>>, !.f = {"array"}]
MemObjToObject(v) ==
    IF Has(v, {"obj"}) THEN v ELSE [v EXCEPT !.s = <<>>, !.f = {"obj"}, !.o = NoMethods]

MemObjIsNumeric(v) ==
    \/ Has(v, {"bool", "int", "real"})
    \/ Has(v, {"string"}) /\ ~ Has(v, {"null", "array", "obj", "res"}) /\ SyStrIsNumeric(v.s).ok

MemObjIsEmpty(v) ==
    CASE Has(v, {"null"}) -> TRUE
      [] Has(v, {"int", "bool"}) -> v.i = 0
      [] ~ Has(v, {"int"}) /\ Has(v, {"real"}) -> v.r[1] = 0
      [] Has(v, {"string"}) -> AllZeros(v.s)
      [] Has(v, {"array"}) -> v.a = <<>>
      [] OTHER -> ~ Has(v, {"obj", "res"})

(* A string that starts with a number becomes that number, a real when a   *)
(* point or an exponent follows; any other string zero.                    *)
MemObjToNumeric(v) ==
    CASE Has(v, {"null"}) -> [v EXCEPT !.i = 0, !.f = {"int"}]
      [] Has(v, {"bool"}) -> [v EXCEPT !.f = {"int"}]
      [] Has(v, {"int", "real"}) -> v
      [] Has(v, {"string"}) ->
           LET Taken(n) == IF n.real THEN MemObjToReal(v)
                           ELSE [v EXCEPT !.i = IF n.ok THEN PH7_TokenValueToInt64(v.s) ELSE 0,
                                         !.f = {"int"}, !.s = <<>>]
           IN  Taken(SyStrIsNumeric(v.s))
      [] OTHER -> MemObjToInteger(v)

Sign(n) == CASE n < 0 -> -1 [] n = 0 -> 0 [] OTHER -> 1

(* Characters in the order of their codes, of those the instances use.     *)
Order == <<"NUL", " ", "-", ".", "0", "1", "2", "3", "4", "5", "6", "7", "8", "9",
           "A", "B", "X", "a", "b", "c", "d", "e", "f", "x">>
CodeOf(c) == SelectInSeq(Order, LAMBDA d : d = c)
RECURSIVE SyMemcmp(_, _)
SyMemcmp(s, t) ==
    IF s = <<>> \/ t = <<>> THEN Sign(Len(s) - Len(t))
    ELSE IF Head(s) = Head(t) THEN SyMemcmp(Tail(s), Tail(t))
    ELSE Sign(CodeOf(Head(s)) - CodeOf(Head(t)))

(* A negative length makes the strings different.                          *)
strncmp(s, t, n, nocase) ==
    LET u == IF nocase THEN Lower(s) ELSE s
        v == IF nocase THEN Lower(t) ELSE t
    IN  IF n < 0 THEN -1 ELSE SyMemcmp(Take(u, Min({n, Len(u)})), Take(v, Min({n, Len(v)})))
strcmp(s, t, nocase) == strncmp(s, t, Max({Len(s), Len(t)}), nocase)

(* is_int() and its like ask the flags, so a real may be an integer too;   *)
(* intval() and its like give the value of another type.                   *)
Scalars == {"string", "int", "real", "bool", "null"}
IsA(kind, v) == IF kind = "scalar" THEN Has(v, Scalars) ELSE Has(v, {kind})
Cast(kind, v) == CASE kind = "float" -> MemObjRealValue(v) [] kind = "int" -> MemObjIntValue(v)
                   [] kind = "string" -> MemObjStringValue(v) [] OTHER -> MemObjIsEmpty(v)

(* The absolute value of an integer is taken of its lower half.            *)
abs(v) == IF Has(v, {"real"}) THEN [v EXCEPT !.r = <<Abs(@[1]), @[2]>>]
          ELSE InitFromInt(Wrapped(Abs(Wrapped(MemObjIntValue(v), Half)), Half))

(* What MemObjToReal makes of a number.                                    *)
AsReal(n) == IF Has(n, {"real"}) THEN n.r ELSE Real(n.i)


(* Mutation: numbers are compared as integers when one of them is. *)
CmpNumericInts(v, w) ==
    IF Has(v, {"int"}) \/ Has(w, {"int"}) THEN Sign(v.i - w.i)
    ELSE Sign(RealCmp(AsReal(v), AsReal(w)))

(* As integers when both are, else as reals.                               *)
CmpNumeric(v, w) ==
    IF Has(v, {"int"}) /\ Has(w, {"int"}) THEN Sign(v.i - w.i)
    ELSE Sign(RealCmp(AsReal(v), AsReal(w)))

(* A truth value is compared with truth values, an array is greater than   *)
(* anything else, then objects; strings are compared as numbers when one   *)
(* of the two is numeric.  Lists are compared by their lengths first.      *)
RECURSIVE MemObjCmp(_, _, _)
MemObjCmp(v, w, strict) ==
    LET either == v.f \cup w.f
        Truth(x) == MemObjToBool(x).i # 0
        Kind(k) == IF k \notin v.f THEN -1 ELSE 1
        differ == {j \in DOMAIN v.a : MemObjCmp(v.a[j], w.a[j], strict) # 0}
    IN  IF strict /\ v.f # w.f THEN 1
        ELSE IF either \cap {"null", "res", "bool"} # {}
             THEN (IF Truth(v) THEN 1 ELSE 0) - (IF Truth(w) THEN 1 ELSE 0)
        ELSE IF "array" \in either
             THEN IF {v.f, w.f} # {{"array"}} THEN Kind("array")
                  ELSE IF Len(v.a) # Len(w.a) THEN Sign(Len(v.a) - Len(w.a))
                  ELSE IF differ = {} THEN 0 ELSE MemObjCmp(v.a[Min(differ)], w.a[Min(differ)], strict)
        ELSE IF "obj" \in either
             THEN IF {v.f, w.f} # {{"obj"}} THEN Kind("obj") ELSE IF v = w THEN 0 ELSE 1
        ELSE IF "string" \in either /\ (strict \/ ~ (MemObjIsNumeric(v) \/ MemObjIsNumeric(w)))
             THEN SyMemcmp(MemObjToString(v).s, MemObjToString(w).s)
        ELSE LET Compared(n) == CmpNumeric(n[1], n[2])
             IN  Compared([k \in {1, 2} |-> MemObjToNumeric(<<v, w>>[k])])

----------------------------------------------------------------------------
(* Instructions.  An operation answers what is left on the stack; the form *)
(* that stores (a op= b) puts it into the variable as well.                *)

WithInt(v, n) == [v EXCEPT !.i = Wrap(n), !.f = {"int"}]
WithReal(v, r) == MemObjTryIntger([v EXCEPT !.r = r, !.f = {"real"}])
WithBool(v, b) == [v EXCEPT !.i = IF b THEN 1 ELSE 0, !.f = {"bool"}, !.s = <<>>]

RAdd(x, y) == Frac(x[1] * y[2] + y[1] * x[2], x[2] * y[2])
RSub(x, y) == Frac(x[1] * y[2] - y[1] * x[2], x[2] * y[2])
RMul(x, y) == Frac(x[1] * y[1], x[2] * y[2])
RDiv(x, y) == Frac(x[1] * y[2] * Sign(y[1]), x[2] * Abs(y[1]))

IsReal(v, w) == "real" \in v.f \cup w.f

Plus(x, y) == IF IsReal(x, y) THEN WithReal(x, RAdd(AsReal(x), AsReal(y))) ELSE WithInt(x, x.i + y.i)
Times(x, y) == IF IsReal(x, y) THEN WithReal(x, RMul(AsReal(x), AsReal(y))) ELSE WithInt(x, x.i * y.i)
Remainder(a, b) == IF b = 0 THEN 0 ELSE Sign(a) * (Abs(a) % Abs(b))

(* Two lists are united: the second gives the elements the first lacks.    *)
Union(a, b) == a \o SubSeq(b, Len(a) + 1, Len(b))
Elems(v) == CASE Has(v, {"array"}) -> v.a [] Has(v, {"null"}) -> <<>> [] OTHER -> <<v>>

MemObjAdd(v, w) ==
    IF "array" \in v.f \cup w.f
    THEN [v EXCEPT !.f = {"array"}, !.s = IF Has(v, {"string"}) THEN <<>> ELSE @,
                   !.a = IF Has(w, {"array"}) THEN Union(Elems(v), w.a) ELSE Elems(v) \o Elems(w)]
    ELSE LET Sum(n) == Plus(n[1], n[2]) IN Sum([k \in {1, 2} |-> MemObjToNumeric(<<v, w>>[k])])

MUL(v, w) ==
    LET Product(n) == Times(n[1], n[2]) IN Product([k \in {1, 2} |-> MemObjToNumeric(<<v, w>>[k])])

(* No operand is made a number: of two that are not real the fields i are  *)
(* subtracted, whatever they hold.                                         *)
SUB(v, w) ==
    IF IsReal(v, w) THEN WithReal(v, RSub(MemObjToReal(v).r, MemObjToReal(w).r))
    ELSE WithInt(v, v.i - w.i)

(* By zero: MOD gives zero, DIV leaves the dividend, as a real.            *)
MOD(v, w) == WithInt(v, Remainder(MemObjToInteger(v).i, MemObjToInteger(w).i))
DIV(v, w) ==
    LET Ratio(a, b) == IF b.r[1] = 0 THEN a ELSE WithReal(a, RDiv(a.r, b.r))
    IN  Ratio(MemObjToReal(v), MemObjToReal(w))
(* a /= 0 stores the zero.                                                 *)
DIV_STORE(v, w) ==
    LET Ratio(a, b) == IF b.r[1] = 0 THEN b ELSE WithReal(b, RDiv(a.r, b.r))
    IN  Ratio(MemObjToReal(v), MemObjToReal(w))

BitsOf(n) == LET u == n % 2 ^ W IN {k \in 0 .. W - 1 : (u \div 2 ^ k) % 2 = 1}
FromBits(bits) == Wrap(FoldSet(LAMBDA k, sum : sum + 2 ^ k, 0, bits))
Bitwise2(v, w, op) ==
    LET a == BitsOf(MemObjToInteger(v).i)
        b == BitsOf(MemObjToInteger(w).i)
    IN  WithInt(v, FromBits(CASE op = "and" -> a \cap b [] op = "or" -> a \cup b
                              [] op = "xor" -> (a \cup b) \ (a \cap b)))
(* Shifts by less than the width.                                          *)
Shift(v, w, op) ==
    LET a == MemObjToInteger(v).i
        b == 2 ^ MemObjToInteger(w).i
    IN  WithInt(v, IF op = "left" THEN a * b ELSE a \div b)
BITNOT(v) == [MemObjToInteger(v) EXCEPT !.i = -@ - 1]
UMINUS(v) ==
    LET Negated(x) == [x EXCEPT !.r = IF Has(x, {"real"}) THEN <<-@[1], @[2]>> ELSE @,
                                !.i = IF Has(x, {"int"}) THEN Wrap(-@) ELSE @]
    IN  Negated(MemObjToNumeric(v))
UPLUS(v) == MemObjToNumeric(v)
LNOT(v) == [MemObjToBool(v) EXCEPT !.i = 1 - @]

(* ++ of a variable: what the variable holds and what is left on the       *)
(* stack.  The integer beside a real is computed of the operand on the     *)
(* stack, not of the variable; of a postfix ++ the operand, even a string, *)
(* is called an integer without being converted.                           *)
Stepped(x, n) == IF Has(x, {"real"}) THEN [x EXCEPT !.r = RAdd(@, Real(n))]
                 ELSE [x EXCEPT !.i = Wrap(@ + n)]
Operand(v, isReal) == IF isReal THEN MemObjTryInteger(v) ELSE [v EXCEPT !.f = {"int"}]
INCR(v, prefix) ==
    LET Bumped(x) ==
          [slot |-> Stepped(x, 1),
           tos |-> IF prefix THEN Stepped(x, 1) ELSE Operand(v, Has(x, {"real"}))]
    IN  IF Has(v, {"array", "obj", "res"}) THEN [slot |-> v, tos |-> v]
        ELSE Bumped(MemObjToNumeric(v))

(* -- converts the operand first, and leaves null alone.                   *)
DECR(v, prefix) ==
    LET Bumped(x) ==
          [slot |-> Stepped(x, -1),
           tos |-> IF prefix THEN Stepped(x, -1) ELSE Operand(x, Has(x, {"real"}))]
    IN  IF Has(v, {"array", "obj", "res", "null"}) THEN [slot |-> v, tos |-> v]
        ELSE Bumped(MemObjToNumeric(v))

CAT(vs) == [MemObjToString(vs[1]) EXCEPT !.s = FlattenSeq([k \in DOMAIN vs |-> MemObjToString(vs[k]).s])]

(* The logical operations by their tables; 2 stands for unknown.           *)
and_logic == <<0, 1, 2, 1, 1, 1, 2, 1, 2>>
or_logic == <<0, 0, 0, 0, 1, 2, 0, 2, 2>>
Logic(table, v, w) ==
    LET x == 1 - MemObjToBool(v).i
        y == 1 - MemObjToBool(w).i
    IN  WithBool(v, table[x * 3 + y + 1] = 0)
LXOR(v, w) == WithBool(v, MemObjToBool(v).i # MemObjToBool(w).i)

(* The comparisons.  SNE asks for PH7_OP_NEQ, so it answers what SEQ does. *)
EQ(v, w) == MemObjCmp(v, w, FALSE) = 0
TEQ(v, w) == MemObjCmp(v, w, TRUE) = 0
LT(v, w) == MemObjCmp(v, w, FALSE) < 0
LE(v, w) == MemObjCmp(v, w, FALSE) < 1
GT(v, w) == MemObjCmp(v, w, FALSE) > 0
GE(v, w) == MemObjCmp(v, w, FALSE) >= 0
SEQ(v, w) == MemObjToString(v).s = MemObjToString(w).s
SNE(v, w) == SEQ(v, w)

CVT_INT(v) == [MemObjToInteger(v) EXCEPT !.f = {"int"}]
CVT_REAL(v) == [MemObjToReal(v) EXCEPT !.f = {"real"}]

(* $s[i] of a string: a character, or null when the offset, taken as       *)
(* unsigned, is outside.                                                   *)
LOAD_IDX(v, w) ==
    LET k == MemObjToInteger(w).i
    IN  IF k < 0 \/ k >= Len(v.s) THEN MemObjToNull(v)
        ELSE [v EXCEPT !.f = {"string"}, !.s = <<v.s[k + 1]>>]
============================================================================
