------------------------------- MODULE Format -------------------------------
(***************************************************************************)
(* Formatted output (sprintf(), printf(), vsprintf(), vprintf()) and       *)
(* size_format() of builtin.c.  The conversions of reals are left out.     *)
(***************************************************************************)
EXTENDS Values

CONSTANT Widest          \* the greatest width, 1014 in the code

(* The number at the start of a text.                                      *)
NumberAt(s) == FoldLeft(LAMBDA n, c : n * 10 + SyHexToint(c), 0, Take(s, Lead(s, Digit)))
AfterNumber(s) == Drop(s, Lead(s, Digit))

(* Flags in any order; a quote takes the next character for padding.       *)
RECURSIVE FormatFlags(_, _)
FormatFlags(s, f) ==
    IF s = <<>> THEN [f EXCEPT !.rest = s]
    ELSE IF s[1] \in {"-", "+", " ", "#", "0"}
         THEN FormatFlags(Tail(s), [f EXCEPT !.flags = @ \cup {s[1]}])
    ELSE IF s[1] = "'" THEN FormatFlags(Drop(s, 2), [f EXCEPT !.pad = IF Len(s) > 1 THEN s[2] ELSE @])
    ELSE [f EXCEPT !.rest = s]

(* A width, a precision (-1 when there is none) and the type.              *)
Precise(f, d, precision) ==
    [f EXCEPT !.precision = precision, !.type = IF d = <<>> THEN "end" ELSE d[1],
              !.rest = IF d = <<>> THEN d ELSE Tail(d)]
Pointed(f, c) == IF c # <<>> /\ c[1] = "." THEN Precise(f, AfterNumber(Tail(c)), NumberAt(Tail(c)))
                 ELSE Precise(f, c, -1)
Sized(f, b) == Pointed([f EXCEPT !.width = Min({NumberAt(b), Widest})], AfterNumber(b))

(* n$ in front of them names an argument; a zero behind it is a flag.      *)
Named(f, n, b) ==
    Sized([f EXCEPT !.arg = IF n > 0 THEN n ELSE @,
                    !.flags = IF b # <<>> /\ b[1] = "0" THEN @ \cup {"0"} ELSE @], b)
Numbered(f, a) ==
    IF a # <<>> /\ a[1] = "$" THEN Named(f, NumberAt(f.rest), Tail(a)) ELSE Sized(f, f.rest)

(* One directive, behind its percent sign.                                 *)
Directive(s, arg, pad) ==
    LET Flagged(f) == Numbered(f, AfterNumber(f.rest))
    IN  Flagged(FormatFlags(s, [flags |-> {}, pad |-> pad, arg |-> arg, width |-> 0,
                                precision |-> -1, type |-> "end", rest |-> <<>>]))

(* Mutation: zeros are put before the sign. *)
IntegerSignInside(d, n) ==
    LET sign == CASE n < 0 -> <<"-">> [] n >= 0 /\ "+" \in d.flags -> <<"+">>
                  [] n >= 0 /\ " " \in d.flags -> <<" ">> [] OTHER -> <<>>
        base == CASE d.type = "d" -> 10 [] d.type = "u" -> 10 [] d.type = "o" -> 8
                  [] d.type = "b" -> 2 [] OTHER -> 16
        digits == DigitsOf(Magnitude(n), base)
        wanted == IF "0" \in d.flags THEN Max({d.precision, d.width - Len(sign)}) ELSE d.precision
        zeros == [k \in 1 .. Max({0, wanted - Len(digits)}) |-> "0"]
    IN  zeros \o (IF d.type = "d" THEN sign ELSE <<>>) \o digits

(* The digits of a magnitude with a sign when the type is %d, zeros up to  *)
(* the precision (the width when zeros were asked for), and in alternate   *)
(* form a prefix, which is written backwards, unless it begins with it.    *)
Integer(d, n) ==
    LET sign == IF d.type # "d" THEN <<>>
                ELSE CASE n < 0 -> <<"-">> [] n >= 0 /\ "+" \in d.flags -> <<"+">>
                       [] n >= 0 /\ "+" \notin d.flags /\ " " \in d.flags -> <<" ">> [] OTHER -> <<>>
        base == CASE d.type \in {"d", "u"} -> 10 [] d.type = "o" -> 8
                  [] d.type = "b" -> 2 [] OTHER -> 16
        digits == DigitsOf(Magnitude(n), base)
        wanted == IF "0" \in d.flags THEN Max({d.precision, d.width - Len(sign)}) ELSE d.precision
        zeros == [k \in 1 .. Max({0, wanted - Len(digits)}) |-> "0"]
        text == sign \o zeros \o digits
        prefix == CASE d.type = "o" -> <<"0">> [] d.type = "x" -> <<"x", "0">>
                    [] d.type = "b" -> <<"b", "0">> [] OTHER -> <<>>
    IN  IF "#" \in d.flags /\ n # 0 /\ prefix # <<>> /\ text[1] # prefix[1]
        THEN Reverse(prefix) \o text ELSE text

(* An argument that is missing is zero or a blank; so is an empty string.  *)
Converted(d, v) ==
    CASE d.type = "%" -> <<"%">>
      [] d.type = "c" -> <<Order[(MemObjToInteger(v).i % Len(Order)) + 1]>>
      [] d.type = "s" -> LET t == MemObjToString(v).s
                             u == IF t = <<>> THEN <<" ">> ELSE t
                         IN  IF d.precision < 0 THEN u ELSE Take(u, Min({d.precision, Len(u)}))
      [] d.type \in {"d", "u", "o", "x", "b"} -> Integer(d, MemObjToInteger(v).i)
      [] OTHER -> <<"?">>

(* The character for padding is kept from one directive to the next, and   *)
(* zeros that are asked for with %s change it too.                         *)
RECURSIVE PH7_InputFormat(_, _, _, _)
Takes(d) == d.type \in {"c", "s", "d", "u", "o", "x", "b"}
Fill(d) == IF d.type = "s" /\ "0" \in d.flags THEN "0" ELSE d.pad
Padded(d, text) ==
    LET room == [k \in 1 .. Max({0, d.width - Len(text)}) |-> Fill(d)]
    IN  IF "-" \in d.flags THEN text \o room ELSE room \o text
FormatOne(before, d, args, next, pad) ==
    IF d.type = "end" THEN [out |-> before, next |-> next, pad |-> pad]
    ELSE [PH7_InputFormat(d.rest, args, IF Takes(d) /\ d.arg <= Len(args) THEN d.arg + 1 ELSE d.arg, Fill(d))
          EXCEPT !.out = before \o Padded(d, Converted(d, IF d.arg \in DOMAIN args THEN args[d.arg]
                                                          ELSE MemObjInit)) \o @]
PH7_InputFormat(s, args, next, pad) ==
    LET n == Lead(s, ToSet(s) \ {"%"})
    IN  IF n = Len(s) THEN [out |-> s, next |-> next, pad |-> pad]
        ELSE FormatOne(Take(s, n), Directive(Drop(s, n + 1), next, pad), args, next, pad)

sprintf(s, args) == PH7_InputFormat(s, args, 1, " ").out

(* Sizes in units of 1024, with a digit that is the hundreds of the rest.  *)
RECURSIVE SizeUnits(_, _)
SizeUnits(n, unit) ==
    LET size == n \div 1024
        rest == Min({(n % 1024) \div 100, 9})
    IN  IF size >= 1024 THEN SizeUnits(size, unit + 1)
        ELSE IF size > 999 THEN <<0, 9, unit + 1>> ELSE <<size, rest, unit>>
size_format(n) == IF n < 100 THEN <<0, 1, 1>> ELSE SizeUnits(n, 1)
============================================================================
