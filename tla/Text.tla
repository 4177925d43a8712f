-------------------------------- MODULE Text --------------------------------
(***************************************************************************)
(* The string built-ins of builtin.c: cutting, searching, escaping,        *)
(* splitting, trimming, padding and replacing.  A string is a sequence of  *)
(* characters, a character a string of one letter.  An optional argument   *)
(* that is not passed is <<>>; a call that answers FALSE or NULL instead   *)
(* of a string answers None.  Conversions of the arguments and a result    *)
(* that does not fit into memory are left out.                             *)
(***************************************************************************)
EXTENDS Integers, SequencesExt, FiniteSetsExt

None == <<"none">>
Space == {" ", "\t", "\n", "\r", "\f"}

Take(s, n) == SubSeq(s, 1, n)
Drop(s, n) == SubSeq(s, n + 1, Len(s))

(* How many characters at the start of s are in S.                         *)
Lead(s, S) == CHOOSE n \in 0 .. Len(s) : /\ \A i \in 1 .. n : s[i] \in S
                                         /\ n = Len(s) \/ s[n + 1] \notin S
Trailing(s, S) == Lead(Reverse(s), S)

EachChar(s, F(_)) == FlattenSeq([i \in DOMAIN s |-> F(s[i])])

ToLower(c) == CASE c = "A" -> "a" [] c = "B" -> "b" [] c = "X" -> "x" [] c = "P" -> "p" [] OTHER -> c
ToUpper(c) == CASE c = "a" -> "A" [] c = "b" -> "B" [] c = "x" -> "X" [] c = "p" -> "P" [] OTHER -> c

----------------------------------------------------------------------------
(* Searching                                                               *)

(* The offset of the first p in s, -1 when there is none.                  *)
SyBlobSearch(s, p) ==
    LET at == {o \in 0 .. Len(s) - Len(p) : SubSeq(s, o + 1, o + Len(p)) = p}
    IN  IF at = {} THEN -1 ELSE Min(at)

Lower(s) == [i \in DOMAIN s |-> ToLower(s[i])]
iPatternMatch(s, p) == SyBlobSearch(Lower(s), Lower(p))

Search(s, p, nocase) == IF nocase THEN iPatternMatch(s, p) ELSE SyBlobSearch(s, p)

SyByteFind(s, c) == SyBlobSearch(s, <<c>>)
SyByteFind2(s, c) ==
    IF SyByteFind(s, c) < 0 THEN -1 ELSE Len(s) - 1 - SyByteFind(Reverse(s), c)

(* An empty string or pattern is never found.                              *)
strstr(s, p, before, nocase) ==
    LET o == Search(s, p, nocase)
    IN  IF s = <<>> \/ p = <<>> \/ o < 0 THEN None
        ELSE IF before THEN Take(s, o) ELSE Drop(s, o)

(* A start at or past the end searches the whole string again.             *)
strpos(s, p, start, nocase) ==
    LET a == IF start < 0 THEN -start ELSE start
        n == IF a >= Len(s) THEN 0 ELSE a
        o == Search(Drop(s, n), p, nocase)
    IN  IF s = <<>> \/ p = <<>> \/ o < 0 THEN -1 ELSE o + n

(* The loop that goes back from the end stops before the first character.  *)
strrpos(s, p, start, nocase) ==
    LET a == IF start < 0 THEN -start ELSE start
        w == IF start < 0 THEN Take(s, Len(s) - a) ELSE s
        first == IF start > 0 THEN a + 1 ELSE 1
        at == {o \in first .. Len(w) - 1 : Search(Drop(w, o), p, nocase) >= 0}
    IN  IF a >= Len(s) \/ p = <<>> \/ at = {} THEN -1
        ELSE Max(at) + Search(Drop(w, Max(at)), p, nocase)

strrchr(s, c) == IF SyByteFind2(s, c) < 0 THEN None ELSE Drop(s, SyByteFind2(s, c))

strpbrk(s, list) ==
    LET at == {SyByteFind(s, list[i]) : i \in DOMAIN list} \ {-1}
    IN  IF at = {} THEN None ELSE Drop(s, Min(at))

(* Where a substring that is given by an offset starts, -1 when outside.   *)
Offset(s, off) ==
    LET n == IF off < 0 THEN Len(s) + off ELSE off
    IN  IF n < 0 \/ n >= Len(s) THEN -1 ELSE n

(* A negative length that leaves nothing keeps the whole rest.             *)
substr(s, off, len) ==
    LET n == Offset(s, off)
        rest == Len(s) - n
        cut == rest + len[1]
    IN  IF n < 0 THEN None
        ELSE IF len = <<>> THEN Drop(s, n)
        ELSE IF len[1] < 0 THEN Take(Drop(s, n), IF cut < 1 THEN rest ELSE cut)
        ELSE Take(Drop(s, n), Min({len[1], rest}))

(* Whether the substring and sub agree in their first n characters.        *)
substr_compare(s, sub, off, len, nocase) ==
    LET n == Offset(s, off)
        rest == Drop(s, n)
        k == IF len = <<>> THEN Len(rest) ELSE Min({len[1], Len(rest)})
        Same(a, b) == IF nocase THEN Lower(a) = Lower(b) ELSE a = b
    IN  CASE s = <<>> \/ sub = <<>> \/ Len(sub) > Len(s) \/ n < 0 -> "none"
          [] len # <<>> /\ len[1] < 1 -> "differ"
          [] OTHER -> IF Same(Take(rest, k), Take(sub, k)) THEN "equal" ELSE "differ"

RECURSIVE Occurrences(_, _)
Occurrences(s, p) ==
    LET o == SyBlobSearch(s, p)
    IN  IF o < 0 THEN 0
        ELSE 1 + (IF o + Len(p) >= Len(s) THEN 0 ELSE Occurrences(Drop(s, o + Len(p)), p))

substr_count(s, p, off, len) ==
    LET rest == Drop(s, off)
    IN  CASE p = <<>> \/ Len(p) > Len(s) \/ off < 0 \/ off > Len(s) -> 0
          [] len = <<>> -> Occurrences(rest, p)
          [] len # <<>> /\ (len[1] < 0 \/ len[1] > Len(rest)) -> 0
          [] OTHER -> Occurrences(Take(rest, len[1]), p)

(* The first word of the window, after blanks, and how far it stays inside *)
(* (strspn) or outside (strcspn) of the mask.                              *)
ExtractNonSpaceToken(s) ==
    LET w == Drop(s, Lead(s, Space))
    IN  Take(w, CHOOSE n \in 0 .. Len(w) : /\ \A i \in 1 .. n : w[i] \notin Space
                                           /\ n = Len(w) \/ w[n + 1] \in Space)

LongestStringMask(s, mask) == Lead(s, ToSet(mask))
LongestStringMask2(s, mask) == Lead(s, ToSet(s) \ ToSet(mask))

Window(s, off, len) ==
    LET n == IF off < 0 THEN Len(s) + off ELSE off
        rest == Drop(s, n)
    IN  IF n >= Len(s) \/ (off < 0 /\ n <= 0) THEN <<>>
        ELSE IF len # <<>> /\ len[1] > 0 /\ len[1] < Len(rest) THEN Take(rest, len[1])
        ELSE rest

strspn(s, mask, off, len) ==
    IF mask = <<>> THEN 0
    ELSE LongestStringMask(ExtractNonSpaceToken(Window(s, off, len)), mask)
strcspn(s, mask, off, len) ==
    IF mask = <<>> THEN Len(s)
    ELSE LongestStringMask2(ExtractNonSpaceToken(Window(s, off, len)), mask)

----------------------------------------------------------------------------
(* Escaping                                                                *)

Quotes == {"'", "\"", "\\"}
Slashed(c) == <<"\\", c>>

addslashes(s) ==
    LET F(c) == IF c \in Quotes THEN Slashed(c) ELSE <<c>> IN EachChar(s, F)

quotemeta(s) ==
    LET F(c) == IF c \in {".", "\\", "+", "*", "?", "[", "^", "]", "(", "$", ")"}
                THEN Slashed(c) ELSE <<c>>
    IN  EachChar(s, F)

(* Escapes a control character as an octal number, "o" stands for it.      *)
addcslashes(s, mask) ==
    LET F(c) == IF c \notin ToSet(mask) THEN <<c>>
                ELSE IF c \in {"NUL", "\t", "\n"} THEN <<"\\", "o">> ELSE Slashed(c)
    IN  EachChar(s, F)

(* Drops the backslash before a quote.  Before any other character the     *)
(* loop never moves on, and a second backslash is taken for a new escape.  *)
RECURSIVE stripslashes(_)
stripslashes(s) ==
    LET o == SyByteFind(s, "\\")
        next == s[o + 2]
    IN  IF o < 0 THEN s
        ELSE IF o + 2 > Len(s) THEN Take(s, o)
        ELSE IF next \notin Quotes THEN <<"hangs">>
        ELSE IF stripslashes(Drop(s, o + 1)) = <<"hangs">> THEN <<"hangs">>
        ELSE Take(s, o) \o stripslashes(Drop(s, o + 1))

(* The entities; Ent(c) stands for the characters of its text.             *)
EntQuotes == 2
EntNoQuotes == 4
Bit(flags, b) == (flags \div b) % 2 = 1

Entity(name) == <<"&">> \o name \o <<";">>
Special == << <<"&", <<"a", "m", "p">> >>, <<"<", <<"l", "t">> >>, <<">", <<"g", "t">> >>,
              <<"\"", <<"q", "u", "o", "t">> >>, <<"'", <<"#", "0", "3", "9">> >> >>

htmlspecialchars(s, flags) ==
    LET name(c) == (CHOOSE i \in DOMAIN Special : Special[i][1] = c)
        F(c) == CASE c \in {"&", "<", ">"} -> Entity(Special[name(c)][2])
                  [] c = "'" /\ Bit(flags, EntQuotes) -> Entity(Special[5][2])
                  [] c = "\"" /\ ~ Bit(flags, EntNoQuotes) -> Entity(Special[4][2])
                  [] OTHER -> <<c>>
    IN  EachChar(s, F)

RECURSIVE htmlspecialchars_decode(_, _)
htmlspecialchars_decode(s, flags) ==
    LET o == SyByteFind(s, "&")
        rest == Drop(s, o)
        at == {i \in DOMAIN Special : IsPrefix(Entity(Special[i][2]), Lower(rest))}
        i == Min(at)
        text == Entity(Special[i][2])
        kept == \/ i = 4 /\ Bit(flags, EntNoQuotes)
                \/ i = 5 /\ ~ Bit(flags, EntQuotes)
    IN  IF o < 0 THEN s
        ELSE Take(s, o) \o
             (IF at = {} THEN <<"&">> \o htmlspecialchars_decode(Drop(rest, 1), flags)
              ELSE (IF kept THEN text ELSE <<Special[i][1]>>)
                   \o htmlspecialchars_decode(Drop(rest, Len(text)), flags))

(* azHtmlEscape: the first five rows and one of the numbered ones.         *)
azHtmlEscape ==
    << <<Entity(<<"l", "t">>), "<">>, <<Entity(<<"g", "t">>), ">">>,
       <<Entity(<<"a", "m", "p">>), "&">>, <<Entity(<<"q", "u", "o", "t">>), "\"">>,
       <<Entity(<<"#", "3", "9">>), "'">>, <<Entity(<<"#", "3", "5">>), "#">> >>

get_html_translation_table == [i \in DOMAIN azHtmlEscape |-> azHtmlEscape[i][1]]

QuoteKept(c, flags) ==
    \/ c = "\"" /\ Bit(flags, EntNoQuotes)
    \/ c = "'" /\ (~ Bit(flags, EntQuotes) \/ Bit(flags, EntNoQuotes))

htmlentities(s, flags) ==
    LET F(c) == IF QuoteKept(c, flags) \/ \A i \in DOMAIN azHtmlEscape : azHtmlEscape[i][2] # c
                THEN <<c>>
                ELSE azHtmlEscape[CHOOSE i \in DOMAIN azHtmlEscape : azHtmlEscape[i][2] = c][1]
    IN  EachChar(s, F)

RECURSIVE html_entity_decode(_, _)
html_entity_decode(s, flags) ==
    LET o == SyByteFind(s, "&")
        rest == Drop(s, o)
        at == {i \in DOMAIN azHtmlEscape : IsPrefix(azHtmlEscape[i][1], Lower(rest))}
        e == azHtmlEscape[Min(at)]
    IN  IF o < 0 THEN s
        ELSE Take(s, o) \o
             (IF at = {} THEN <<"&">> \o html_entity_decode(Drop(rest, 1), flags)
              ELSE (IF QuoteKept(e[2], flags) THEN e[1] ELSE <<e[2]>>)
                   \o html_entity_decode(Drop(rest, Len(e[1])), flags))

nl2br(s, xhtml) ==
    LET br == IF xhtml THEN <<"<br>">> ELSE <<"<br/>">>
        Line == {"\n", "\r"}
        F[i \in 0 .. Len(s)] ==
            IF i = 0 THEN <<>>
            ELSE F[i - 1] \o (IF s[i] \in Line /\ (i = 1 \/ s[i - 1] \notin Line) THEN br ELSE <<>>)
                 \o <<s[i]>>
    IN  F[Len(s)]
============================================================================
