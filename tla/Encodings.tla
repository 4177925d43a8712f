----------------------------- MODULE Encodings -----------------------------
(***************************************************************************)
(* Base64, URL and UTF-8 texts, the ctype_ functions, chr() and ord(), and *)
(* the reader of ini files.  Here a string is a sequence of bytes, numbers *)
(* from 0 to 255; only the ini reader works on characters.                 *)
(***************************************************************************)
EXTENDS TextPieces

(* The bits lo .. hi - 1 of n as a number.                                 *)
Part(n, lo, hi) == (n \div 2 ^ lo) % 2 ^ (hi - lo)

zBase64(k) == CASE k < 26 -> 65 + k [] k \in 26 .. 51 -> 71 + k
                [] k \in 52 .. 61 -> k - 4 [] k = 62 -> 43 [] OTHER -> 47

(* Mutation: of a last group of two bytes the low bits are lost. *)
SyBase64EncodeShort(s) ==
    LET Group(i) == LET n == 65536 * s[i] + 256 * s[i + 1] + s[i + 2]
                    IN  [k \in 1 .. 4 |-> zBase64(Part(n, 24 - 6 * k, 30 - 6 * k))]
        full == Len(s) \div 3
        i == 3 * full + 1
        last == CASE Len(s) % 3 = 0 -> <<>>
                  [] Len(s) % 3 = 1 -> <<zBase64(s[i] \div 4), zBase64((s[i] % 4) * 16), 61, 61>>
                  [] OTHER -> <<zBase64(s[i] \div 4), zBase64((s[i] % 4) * 16),
                                zBase64((s[i + 1] % 16) * 4), 61>>
    IN  FlattenSeq([g \in 1 .. full |-> Group(3 * g - 2)]) \o last

SyBase64Encode(s) ==
    LET Group(i) == LET n == 65536 * s[i] + 256 * s[i + 1] + s[i + 2]
                    IN  [k \in 1 .. 4 |-> zBase64(Part(n, 24 - 6 * k, 30 - 6 * k))]
        full == Len(s) \div 3
        i == 3 * full + 1
        last == CASE Len(s) % 3 = 0 -> <<>>
                  [] Len(s) % 3 = 1 -> <<zBase64(s[i] \div 4), zBase64((s[i] % 4) * 16), 61, 61>>
                  [] OTHER -> <<zBase64(s[i] \div 4),
                                zBase64((s[i] % 4) * 16 + s[i + 1] \div 16),
                                zBase64((s[i + 1] % 16) * 4), 61>>
    IN  FlattenSeq([g \in 1 .. full |-> Group(3 * g - 2)]) \o last

(* A character outside of the alphabet counts as zero; of the last group   *)
(* one character gives nothing, two give a byte, three give two.           *)
aBase64Trans(c) ==
    LET k == {x \in 0 .. 63 : zBase64(x) = c % 128} IN IF k = {} THEN 0 ELSE Max(k)
SyBase64Decode(t) ==
    LET s == Take(t, Len(t) - Trailing(t, {61}))
        Group(i) == LET v(k) == IF i + k > Len(s) THEN 0 ELSE aBase64Trans(s[i + k])
                        n == 262144 * v(0) + 4096 * v(1) + 64 * v(2) + v(3)
                    IN  [k \in 1 .. Min({3, Len(s) - i}) |-> Part(n, 24 - 8 * k, 32 - 8 * k)]
    IN  FlattenSeq([g \in 1 .. (Len(s) + 3) \div 4 |-> Group(4 * g - 3)])

----------------------------------------------------------------------------
Between(lo, hi) == lo .. hi
Upper == Between(65, 90)
LowerCase == Between(97, 122)
Digit10 == Between(48, 57)
Alpha == Upper \cup LowerCase
Blanks == Between(9, 13) \cup {32}
Graph == Between(33, 126)

(* What each ctype_ function asks of every byte of a string with at least  *)
(* one, in the C locale.                                                   *)
CType == [alnum |-> Alpha \cup Digit10, alpha |-> Alpha, cntrl |-> Between(0, 31) \cup {127},
          digit |-> Digit10, xdigit |-> Digit10 \cup Between(65, 70) \cup Between(97, 102),
          graph |-> Graph, print |-> Graph \cup {32}, punct |-> Graph \ (Alpha \cup Digit10),
          space |-> Blanks, lower |-> LowerCase, upper |-> Upper]
ctype(kind, s) == s # <<>> /\ \A i \in DOMAIN s : s[i] \in CType[kind]

(* A char is signed.                                                       *)
ord(s) == IF s = <<>> THEN -1 ELSE IF s[1] > 127 THEN s[1] - 256 ELSE s[1]
chr(n) == <<n % 256>>

HexByte(k) == IF k < 10 THEN 48 + k ELSE 55 + k
SyAsciiToHex(c) == CASE c \in Between(97, 102) -> c - 87 [] c \in Digit10 -> c - 48
                     [] c \in Between(65, 70) -> c - 55 [] OTHER -> 0
HexLower(k) == IF k < 10 THEN 48 + k ELSE 87 + k
bin2hex(s) == LET F(c) == <<HexLower(c \div 16), HexLower(c % 16)>> IN EachChar(s, F)

Safe == Alpha \cup Digit10 \cup {95, 45, 36, 46}
SyUriEncode(s) ==
    LET F(c) == CASE c \in Safe -> <<c>> [] c = 32 -> <<43>>
                  [] OTHER -> <<37, HexByte(c \div 16), HexByte(c % 16)>>
    IN  EachChar(s, F)

SX_WRITE_UTF8(c) ==
    CASE c < 128 -> <<c>>
      [] c \in 128 .. 2047 -> <<192 + Part(c, 6, 11), 128 + (c % 64)>>
      [] c \in 2048 .. 65535 -> <<224 + Part(c, 12, 16), 128 + Part(c, 6, 12), 128 + (c % 64)>>
      [] OTHER -> <<240 + Part(c, 18, 21), 128 + Part(c, 12, 18), 128 + Part(c, 6, 12), 128 + (c % 64)>>

(* The payload of the first byte of a character of several bytes.          *)
UtfTrans1(c) == CASE c \in 192 .. 223 -> c - 192 [] c \in 224 .. 239 -> c - 224
                  [] c \in 240 .. 247 -> c - 240 [] c \in 248 .. 251 -> c - 248
                  [] c = 253 -> 1 [] OTHER -> 0

(* The byte of an escape; an escape that is cut off ends the text.         *)
Escaped(s) == 16 * SyAsciiToHex(s[2]) + SyAsciiToHex(s[3])
RECURSIVE Trail(_, _)
Trail(s, c) ==
    IF Len(s) < 3 \/ s[1] # 37 THEN [c |-> c, rest |-> s]
    ELSE IF Escaped(s) \notin 128 .. 191 THEN [c |-> c, rest |-> s]
    ELSE Trail(Drop(s, 3), c * 64 + (Escaped(s) % 64))

RECURSIVE SyUriDecode(_)
SyUriDecode(s) ==
    LET t == Trail(Drop(s, 3), UtfTrans1(Escaped(s)))
    IN  IF s = <<>> THEN <<>>
        ELSE IF s[1] = 43 THEN <<32>> \o SyUriDecode(Tail(s))
        ELSE IF s[1] # 37 THEN <<s[1]>> \o SyUriDecode(Tail(s))
        ELSE IF Len(s) < 3 THEN <<>>
        ELSE IF Escaped(s) < 192 THEN <<Escaped(s)>> \o SyUriDecode(Drop(s, 3))
        ELSE SX_WRITE_UTF8(t.c) \o SyUriDecode(t.rest)

utf8_encode(s) == EachChar(s, SX_WRITE_UTF8)

(* Overlong characters and surrogates are read as U+FFFD; of the code the  *)
(* low byte is kept; a NUL ends the text.                                  *)
RECURSIVE utf8_decode(_)
utf8_decode(s) ==
    LET n == Lead(Tail(s), 128 .. 191)
        code == FoldLeft(LAMBDA c, b : c * 64 + (b % 64), UtfTrans1(s[1]), SubSeq(s, 2, n + 1))
        read == IF code < 128 \/ code \div 2048 = 27 \/ code \div 2 = 32767 THEN 65533 ELSE code
    IN  IF s = <<>> \/ s[1] = 0 THEN <<>>
        ELSE IF s[1] < 192 THEN <<s[1]>> \o utf8_decode(Tail(s))
        ELSE <<read % 256>> \o utf8_decode(Drop(s, n + 1))

----------------------------------------------------------------------------
(* Ini files: a sequence of entries <<section, key, list?, value>> in the  *)
(* order they are read.  A key that is given a list in one section belongs *)
(* to that list wherever it comes again, since the table of lists is one   *)
(* for the whole file.                                                     *)
Until(s, S) == Lead(s, ToSet(s) \ S)

RECURSIVE QuoteEnd(_, _)
QuoteEnd(s, i) == IF i > Len(s) THEN Len(s)
                  ELSE IF s[i] = s[1] /\ s[i - 1] # "\\" THEN i ELSE QuoteEnd(s, i + 1)
RECURSIVE LineEnd(_, _)
LineEnd(s, i) ==
    IF i > Len(s) THEN Len(s)
    ELSE IF (s[i] = "\n" /\ (i = 1 \/ s[i - 1] # "\\")) \/ s[i] \in {";", "#"} THEN i - 1
    ELSE LineEnd(s, i + 1)

(* In lists the home of a key is the section it came in first.             *)
RECURSIVE ParseIni(_, _, _, _)
ParseIni(text, sections, cur, homes) ==
    LET s == Drop(text, Lead(text, Space))
        close == Until(Tail(s), {"]"})
        name == TrimSafe(Take(Tail(s), close))
        eq == Until(s, {"="})
        left == Take(s, eq)
        bracket == Until(left, {"["})
        list == bracket < eq
        key == TrimSafe(Take(left, bracket))
        known == {h \in homes : h[1] = key}
        home == IF list /\ key # <<>> /\ known # {} THEN (CHOOSE h \in known : TRUE)[2] ELSE cur
        right == Drop(s, eq + 1)
        v == Drop(right, Lead(right, Space))
        quoted == v # <<>> /\ v[1] \in {"\"", "'"}
        n == IF quoted THEN QuoteEnd(v, 2) ELSE LineEnd(v, 1)
        raw == TrimSafe(Take(v, n))
        value == IF quoted THEN Trimmed(raw, {v[1]}) ELSE raw
    IN  IF s = <<>> THEN <<>>
        ELSE IF s[1] \in {";", "#"} THEN ParseIni(Drop(s, Until(s, {"\n"})), sections, cur, homes)
        ELSE IF s[1] = "["
             THEN ParseIni(Drop(s, close + 2), sections,
                           IF sections /\ close > 0 /\ name # <<>> THEN name ELSE cur, homes)
        ELSE IF key = <<>>
             THEN ParseIni(Drop(Drop(s, eq), Lead(Drop(s, eq), Space \cup {"="})), sections, cur, homes)
        ELSE (IF v = <<>> THEN <<>> ELSE <<<<home, key, list, value>>>>)
             \o ParseIni(Drop(v, n), sections, cur, homes \cup (IF list /\ known = {} THEN {<<key, cur>>} ELSE {}))
PH7_ParseIniString(text, sections) == ParseIni(text, sections, <<>>, {})
============================================================================
