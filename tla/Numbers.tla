------------------------------ MODULE Numbers ------------------------------
(***************************************************************************)
(* Numbers and their texts: the parsers of lib.c, the conversion of        *)
(* integers in the formatter, and the base conversions of builtin.c.       *)
(* Integers have W bits and wrap; the int of C has half of them.  Reals    *)
(* are exact fractions <<n, d>>; rounding of doubles is left out.  A       *)
(* parser answers the value and what it has not read.                      *)
(***************************************************************************)
EXTENDS Text

CONSTANTS W,           \* bits of an integer, a multiple of 4
          SXDBL_DIG,   \* digits of a real that are read
          SXDBL_MAX_EXP

ASSUME WAssumption == W \in Nat /\ W % 4 = 0 /\ W >= 8

LARGEST_INT64 == 2 ^ (W - 1) - 1
SMALLEST_INT64 == -(2 ^ (W - 1))
Wrapped(n, w) == ((n + 2 ^ (w - 1)) % 2 ^ w) - 2 ^ (w - 1)
Wrap(n) == Wrapped(n, W)

HexDigits == <<"0", "1", "2", "3", "4", "5", "6", "7", "8", "9", "a", "b", "c", "d", "e", "f">>
Digits(base) == {HexDigits[i] : i \in 1 .. base}
Digit == Digits(10)

(* The digits of a number that is not negative.                            *)
RECURSIVE DigitsOf(_, _)
DigitsOf(n, base) ==
    (IF n < base THEN <<>> ELSE DigitsOf(n \div base, base)) \o <<HexDigits[(n % base) + 1]>>

SyHexToint(c) == (CHOOSE i \in 1 .. 16 : HexDigits[i] = ToLower(c)) - 1

(* The wrapped value of a sequence of digits.                              *)
ValueOf(ds, base) == FoldLeft(LAMBDA v, c : Wrap(v * base + SyHexToint(c)), 0, ds)

(* Blanks, a sign, a prefix such as 0x that needs more than one character  *)
(* behind it, zeros.                                                       *)
SignOf(w) == IF w # <<>> /\ w[1] \in {"-", "+"} THEN [neg |-> w[1] = "-", s |-> Tail(w)]
             ELSE [neg |-> FALSE, s |-> w]
Signed(s) == SignOf(Drop(s, Lead(s, Space)))
NoPrefix(s, marks) ==
    IF Len(s) > 2 /\ s[1] = "0" /\ s[2] \in marks THEN Drop(s, 2) ELSE s
NoZeros(s) == Drop(s, Lead(s, {"0"}))

(* Reads the digits at the start of s, at most n of them.                  *)
Read(s, neg, base, n) ==
    LET Split(k, rest) == [val |-> Wrap((IF neg THEN -1 ELSE 1) * ValueOf(Take(s, k), base)),
                           rest |-> Drop(rest, Lead(rest, Space))]
        k == Min({n, Lead(s, Digits(base))})
    IN  Split(k, Drop(s, k))

(* How many decimal digits the greatest integer has, and whether a text of *)
(* at least as many is not above it: the texts are compared as characters. *)
MaxDigits == Len(DigitsOf(LARGEST_INT64, 10))
RECURSIVE NotAbove(_, _)
NotAbove(s, t) ==
    IF t = <<>> THEN TRUE
    ELSE IF Head(s) # Head(t)
         THEN Head(s) \notin Digit \/ SyHexToint(Head(s)) < SyHexToint(Head(t))
         ELSE NotAbove(Tail(s), Tail(t))

(* Mutation: the number may have all its digits whatever they are. *)
SyStrToInt64Unbounded(s) ==
    LET g == Signed(s) IN Read(NoZeros(g.s), g.neg, 10, MaxDigits)

(* A number out of range loses its last digits, at least one.              *)
Fits(t, limit) == Len(t) < MaxDigits \/ NotAbove(t, DigitsOf(limit, 10))
SyStrToInt64(s) ==
    LET ReadOff(t, neg) ==
          Read(t, neg, 10, IF Fits(t, IF neg THEN -SMALLEST_INT64 ELSE LARGEST_INT64)
                           THEN MaxDigits ELSE MaxDigits - 1)
        g == Signed(s)
    IN  ReadOff(NoZeros(g.s), g.neg)

ReadBased(g, marks, base, n) == Read(NoZeros(NoPrefix(g.s, marks)), g.neg, base, n)
SyHexStrToInt64(s) == ReadBased(Signed(s), {"x", "X"}, 16, W \div 4)
SyOctalStrToInt64(s) == ReadBased(Signed(s), {}, 8, (W - 1) \div 3)
SyBinaryStrToInt64(s) == ReadBased(Signed(s), {"b", "B"}, 2, W - 1)

(* The value of a number in a script and of a string that is cast.         *)
PH7_TokenValueToInt64(s) ==
    IF s = <<>> \/ s = <<"0">> THEN 0
    ELSE IF s[1] # "0" THEN SyStrToInt64(s).val
    ELSE IF s[2] \in {"x", "X"} THEN SyHexStrToInt64(s).val
    ELSE IF s[2] \in {"b", "B"} THEN SyBinaryStrToInt64(s).val
    ELSE SyOctalStrToInt64(s).val

----------------------------------------------------------------------------
(* Reals                                                                   *)

RECURSIVE Gcd(_, _)
Gcd(a, b) == IF b = 0 THEN a ELSE Gcd(b, a % b)
Abs(n) == IF n < 0 THEN -n ELSE n
Reduced(n, d, g) == <<n \div g, d \div g>>
Frac(n, d) == Reduced(n, d, Gcd(Abs(n), d))
Real(n) == <<n, 1>>
RealCmp(a, b) == a[1] * b[2] - b[1] * a[2]

(* An exponent: its digits are read while it is in range.                  *)
RECURSIVE Exponent(_, _)
Exponent(s, e) ==
    IF s = <<>> \/ s[1] \notin Digit \/ e >= SXDBL_MAX_EXP THEN [val |-> e, rest |-> s]
    ELSE Exponent(Tail(s), e * 10 + SyHexToint(s[1]))

(* The digits behind a point or a comma, of those that count after n.      *)
Fraction(t, n) ==
    IF t = <<>> \/ t[1] \notin {".", ","} THEN [ds |-> <<>>, rest |-> t]
    ELSE LET k == Min({SXDBL_DIG - n, Lead(Tail(t), Digit)})
         IN  [ds |-> SubSeq(t, 2, k + 1), rest |-> Drop(t, k + 1)]

(* Behind the last digit that counts, others are skipped up to an exponent.*)
Mantissa(s, n, f) ==
    [ds |-> Take(s, n) \o f.ds, k |-> Len(f.ds),
     rest |-> IF n + Len(f.ds) < SXDBL_DIG THEN f.rest
              ELSE Drop(f.rest, Lead(f.rest, ToSet(f.rest) \ {"e", "E"}))]

(* e or E, a sign, the exponent.                                           *)
Scale(v) ==
    LET sign == Len(v) > 1 /\ v[2] \in {"-", "+"}
        down == sign /\ v[2] = "-"
        e == Exponent(Drop(v, IF sign THEN 2 ELSE 1), 0)
    IN  IF v = <<>> \/ v[1] \notin {"e", "E"} THEN [x |-> 0, down |-> FALSE, rest |-> v]
        ELSE [x |-> Min({e.val, IF down THEN SXDBL_MAX_EXP - 1 ELSE SXDBL_MAX_EXP}),
              down |-> down, rest |-> e.rest]

Scaled(m, k, e) == IF e.down THEN Frac(m, 10 ^ (k + e.x)) ELSE Frac(m * 10 ^ e.x, 10 ^ k)

RealOf(neg, m, e) ==
    LET all == FoldLeft(LAMBDA w, c : w * 10 + SyHexToint(c), 0, m.ds)
    IN  [val |-> Scaled(IF neg THEN -all ELSE all, m.k, e),
         rest |-> Drop(e.rest, Lead(e.rest, Space))]

(* Digits, a point or a comma, digits, an exponent.                        *)
SyStrToReal(s) ==
    LET g == Signed(s)
        Unsigned(t, n) == Mantissa(t, n, Fraction(Drop(t, n), n))
        Valued(m) == RealOf(g.neg, m, Scale(m.rest))
    IN  Valued(Unsigned(g.s, Min({SXDBL_DIG, Lead(g.s, Digit)})))

(* Whether a text starts with a number: a digit after blanks and a sign;   *)
(* and whether a point or an exponent follows its digits.                  *)
SyStrIsNumeric(s) ==
    LET Behind(t, n) == [ok |-> n > 0,
                         real |-> n > 0 /\ n < Len(t) /\ t[n + 1] \in {".", "e", "E"}]
        t == Signed(s).s
    IN  Behind(t, Lead(t, Digit))

(* Out of range is the smallest integer.                                   *)
RealToInt(r) ==
    IF RealCmp(r, Real(SMALLEST_INT64)) < 0 \/ RealCmp(r, Real(LARGEST_INT64)) > 0
    THEN SMALLEST_INT64
    ELSE IF r[1] < 0 THEN -((-r[1]) \div r[2]) ELSE r[1] \div r[2]

----------------------------------------------------------------------------
(* Texts of numbers                                                        *)

(* %qd: the smallest integer is printed as the greatest with a sign.       *)
Magnitude(n) == Min({Abs(n), LARGEST_INT64})
IntText(n) == (IF n < 0 THEN <<"-">> ELSE <<>>) \o DigitsOf(Magnitude(n), 10)

(* %.15g, with one decimal instead of 15 digits.                           *)
RealText(r) ==
    LET t == (Abs(r[1]) * 20 + r[2]) \div (2 * r[2])
    IN  (IF r[1] < 0 /\ t > 0 THEN <<"-">> ELSE <<>>) \o DigitsOf(t \div 10, 10)
        \o (IF t % 10 = 0 THEN <<>> ELSE <<".", HexDigits[(t % 10) + 1]>>)

(* The int of C is converted without a sign, the 64-bit integer with its   *)
(* magnitude.                                                              *)
Half == W \div 2
dechex(n) == DigitsOf(n % 2 ^ Half, 16)
decoct(n) == DigitsOf(n % 2 ^ Half, 8)
decbin(n) == DigitsOf(n % 2 ^ Half, 2)

hexdec(s) == LET t == Drop(s, Lead(s, ToSet(s) \ Digits(16))) IN SyHexStrToInt64(t).val
bindec(s) == SyBinaryStrToInt64(s).val
octdec(s) == SyOctalStrToInt64(s).val

base_convert(s, from, to) ==
    LET n == CASE from = 16 -> SyHexStrToInt64(s).val
               [] from = 8 -> SyOctalStrToInt64(s).val
               [] from = 2 -> SyBinaryStrToInt64(s).val
               [] OTHER -> SyStrToInt64(s).val
    IN  IF s = <<>> THEN <<>>
        ELSE IF to \in {2, 8, 16} THEN DigitsOf(Magnitude(n), to) ELSE IntText(n)

(* Halves are rounded away from zero.                                      *)
round(r) ==
    LET n == (2 * Abs(r[1]) + r[2]) \div (2 * r[2]) IN Real(IF r[1] < 0 THEN -n ELSE n)
floor(r) == Real(r[1] \div r[2])
ceil(r) == Real(-((-r[1]) \div r[2]))
fmod(x, y) ==
    LET q == (Abs(x[1]) * y[2]) \div (x[2] * Abs(y[1]))
        n == Abs(x[1]) * y[2] - q * x[2] * Abs(y[1])
    IN  Frac(IF x[1] < 0 THEN -n ELSE n, x[2] * y[2])
============================================================================
