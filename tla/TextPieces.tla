----------------------------- MODULE TextPieces -----------------------------
(***************************************************************************)
(* The string built-ins of builtin.c that take a string apart or put one   *)
(* together: splitting and joining, tokens, CSV, trimming, padding,        *)
(* replacing, tags and formatted output.  See Text for how strings and     *)
(* optional arguments are written.                                         *)
(***************************************************************************)
EXTENDS Text

(* The pieces of n characters, the last one shorter.                       *)
Chunks(s, n) ==
    [i \in 1 .. (Len(s) + n - 1) \div n |-> SubSeq(s, (i - 1) * n + 1, Min({i * n, Len(s)}))]

str_split(s, n) == IF s = <<>> \/ n < 1 THEN None ELSE Chunks(s, n)

chunk_split(s, n, sep) ==
    LET size == IF n < 1 THEN 76 ELSE n
    IN  IF size > Len(s) THEN s \o sep
        ELSE FlattenSeq([i \in DOMAIN Chunks(s, size) |-> Chunks(s, size)[i] \o sep])

wordwrap(s, n, break) ==
    LET size == IF n < 1 THEN 75 ELSE n
        c == Chunks(s, size)
    IN  FlattenSeq([i \in DOMAIN c |-> IF i < Len(c) THEN c[i] \o break ELSE c[i]])

(* Mutation: a piece between two delimiters is kept although it is empty. *)
RECURSIVE PiecesEmpty(_, _, _)
PiecesEmpty(d, s, left) ==
    LET o == SyBlobSearch(s, d)
    IN  IF s = <<>> THEN <<>>
        ELSE IF o < 0 \/ left <= 0 THEN <<s>>
        ELSE <<Take(s, o)>> \o PiecesEmpty(d, Drop(s, o + Len(d)), left - 1)

(* Cuts s at every d; empty pieces are dropped.  left is how many pieces   *)
(* may still be cut off before the rest is taken as it is.                 *)
RECURSIVE Pieces(_, _, _)
Pieces(d, s, left) ==
    LET o == SyBlobSearch(s, d)
    IN  IF s = <<>> THEN <<>>
        ELSE IF o < 0 \/ left <= 0 THEN <<s>>
        ELSE IF o = 0 THEN Pieces(d, Drop(s, Len(d)), left)
        ELSE <<Take(s, o)>> \o Pieces(d, Drop(s, o + Len(d)), left - 1)

(* A limit of zero counts as one, a negative one as its absolute value.    *)
explode(d, s, limit) ==
    LET l == CASE limit = <<>> -> Len(s) + 1
               [] limit # <<>> /\ limit[1] < 0 -> -limit[1]
               [] OTHER -> Max({limit[1], 1})
    IN  IF d = <<>> \/ s = <<>> THEN None ELSE Pieces(d, s, l - 1)

(* Empty strings are left out, with their separator.                       *)
implode(sep, pieces) ==
    LET full == SelectSeq(pieces, LAMBDA p : p # <<>>)
    IN  FlattenSeq([i \in DOMAIN full |-> IF i = 1 THEN full[i] ELSE sep \o full[i]])

(* A nested array begins anew without a separator: of the flags only bFirst *)
(* is kept for all levels.  Elements are <<"s", string>> or <<"a", array>>. *)
RECURSIVE implode_recursive(_, _, _)
implode_recursive(sep, elems, first) ==
    IF elems = <<>> THEN [out |-> <<>>, first |-> first]
    ELSE LET e == Head(elems)
             lead == IF first \/ sep = <<>> THEN <<>> ELSE sep
             one == CASE e[1] = "a" ->
                           LET in == implode_recursive(sep, e[2], TRUE)
                           IN  [out |-> lead \o in.out, first |-> in.first]
                      [] e[1] = "s" /\ e[2] = <<>> -> [out |-> <<>>, first |-> first]
                      [] OTHER -> [out |-> lead \o e[2], first |-> IF sep = <<>> THEN first ELSE FALSE]
             more == implode_recursive(sep, Tail(elems), one.first)
         IN  [out |-> one.out \o more.out, first |-> more.first]

----------------------------------------------------------------------------
(* Tokens                                                                  *)

(* The next word of s that has no character of the mask, and what is left. *)
ExtractToken(s, mask) ==
    LET w == Drop(s, Lead(s, ToSet(mask)))
        n == Lead(w, ToSet(w) \ ToSet(mask))
    IN  [tok |-> IF w = <<>> THEN None ELSE Take(w, n), rest |-> Drop(w, n)]

(* strtok() keeps what is left on the stack of its private data.  A first  *)
(* call pushes only when something is left, so the next call goes on with  *)
(* the string before.                                                      *)
strtok(stack, s, mask) ==
    LET m == IF mask = <<>> THEN <<" ", "\n", "\t", "\r", "\f">> ELSE mask
        t == ExtractToken(s, m)
    IN  [tok |-> t.tok, stack |-> IF t.tok = None \/ t.rest = <<>> THEN stack
                                  ELSE Append(stack, t.rest)]

strtok_next(stack, mask) ==
    LET t == ExtractToken(Last(stack), mask)
    IN  IF stack = <<>> THEN [tok |-> None, stack |-> stack]
        ELSE IF mask = <<>> \/ t.tok = None THEN [tok |-> None, stack |-> Front(stack)]
        ELSE [tok |-> t.tok, stack |-> Append(Front(stack), t.rest)]

RECURSIVE Drain(_, _)
Drain(t, mask) ==
    IF t.tok = None THEN <<>> ELSE <<t.tok>> \o Drain(strtok_next(t.stack, mask), mask)

(* One field: up to the next delimiter outside of quotes.  A character     *)
(* after the escape is skipped, also the NUL after the end.                *)
RECURSIVE FieldEnd(_, _, _, _, _, _)
FieldEnd(s, i, delim, encl, escape, quoted) ==
    IF i > Len(s) THEN i - 1
    ELSE IF s[i] = delim /\ ~ quoted THEN i - 1
    ELSE IF s[i] = encl THEN FieldEnd(s, i + 1, delim, encl, escape, ~ quoted)
    ELSE IF s[i] = escape THEN FieldEnd(s, i + 2, delim, encl, escape, quoted)
    ELSE FieldEnd(s, i + 1, delim, encl, escape, quoted)

Trimmed(s, S) == SubSeq(s, Lead(s, S) + 1, Len(s) - Trailing(s, S))
TrimSafe(s) == Trimmed(s, Space \union {"NUL"})

(* A field that begins with the enclosure loses its first and last         *)
(* character; runs of delimiters count as one; empty fields are dropped.   *)
RECURSIVE PH7_ProcessCsv(_, _, _, _)
PH7_ProcessCsv(s, delim, encl, escape) ==
    LET n == FieldEnd(s, 1, delim, encl, escape, FALSE)
        raw == Take(s \o <<"NUL">>, n)
        field == IF raw # <<>> /\ raw[1] = encl THEN SubSeq(raw, 2, Len(raw) - 1) ELSE raw
        rest == Drop(s, n)
    IN  IF s = <<>> THEN <<>>
        ELSE (IF TrimSafe(field) = <<>> THEN <<>> ELSE <<TrimSafe(field)>>)
             \o PH7_ProcessCsv(Drop(rest, Lead(rest, {delim})), delim, encl, escape)

str_getcsv(s) == PH7_ProcessCsv(s, ",", "\"", "\\")

----------------------------------------------------------------------------
(* Trimming, padding, case                                                 *)

ltrim(s, list) == IF list = <<>> THEN Drop(s, Lead(s, Space \union {"NUL"}))
                  ELSE Drop(s, Lead(s, ToSet(list)))

(* With a list a single character that is left is lost: the test for an    *)
(* empty rest is made before the end is moved behind the last character.   *)
rtrim(s, list) ==
    LET n == Len(s) - Trailing(s, IF list = <<>> THEN Space \union {"NUL"} ELSE ToSet(list))
    IN  IF list # <<>> /\ n <= 1 THEN <<>> ELSE Take(s, n)

trim(s, list) ==
    LET rest == ltrim(s, list)
    IN  IF list = <<>> THEN TrimSafe(s) ELSE rtrim(rest, list)

ucfirst(s) == IF s = <<>> THEN s ELSE <<ToUpper(s[1])>> \o Tail(s)
lcfirst(s) == IF s = <<>> THEN s ELSE <<ToLower(s[1])>> \o Tail(s)
strtoupper(s) == [i \in DOMAIN s |-> ToUpper(s[i])]
strtolower(s) == Lower(s)
ucwords(s) ==
    [i \in DOMAIN s |-> IF i = 1 \/ s[i - 1] \in Space THEN ToUpper(s[i]) ELSE s[i]]
strrev(s) == IF s = <<>> THEN None ELSE Reverse(s)
str_repeat(s, n) == IF s = <<>> THEN None ELSE FlattenSeq([i \in 1 .. n |-> s])

(* As many whole copies of pad as leave room for one more, then the part   *)
(* of a copy that is missing.                                              *)
RECURSIVE PadLeft(_, _, _, _, _)
PadLeft(out, done, limit, room, pad) ==
    IF done >= limit \/ Len(out) + Len(pad) >= room THEN out
    ELSE PadLeft(out \o pad, done + Len(pad), limit, room, pad)

RECURSIVE PadRest(_, _, _)
PadRest(out, room, pad) ==
    IF Len(out) >= room THEN out
    ELSE PadRest(out \o Take(pad, Min({room - Len(out), Len(pad)})), room, pad)

STR_PAD_LEFT == 0
STR_PAD_RIGHT == 1
STR_PAD_BOTH == 2

str_pad(s, n, pad, type) ==
    LET p == IF pad = <<>> THEN <<" ">> ELSE pad
        half == IF type = STR_PAD_BOTH THEN (n - Len(s)) \div 2 ELSE n - Len(s)
        most == IF type = STR_PAD_RIGHT THEN <<>> ELSE PadLeft(<<>>, 0, half, n - Len(s), p)
        left == IF type = STR_PAD_LEFT THEN PadRest(most, n - Len(s), p) ELSE most
        all == IF type = STR_PAD_LEFT THEN left \o s
               ELSE PadRest(PadLeft(left \o s, 0, half, n, p), n, p)
    IN  IF n <= Len(s) THEN s ELSE all

----------------------------------------------------------------------------
(* Replacing                                                               *)

StringReplace(s, o, n, r) == Take(s, o) \o r \o Drop(s, o + n)

(* Replaces every p from at on and goes on behind what it has put in.      *)
RECURSIVE ReplaceFrom(_, _, _, _, _)
ReplaceFrom(s, at, p, r, nocase) ==
    LET o == Search(Drop(s, at), p, nocase)
    IN  IF at >= Len(s) \/ o < 0 THEN s
        ELSE ReplaceFrom(StringReplace(s, at + o, Len(p), r), at + o + Len(r), p, r, nocase)

(* The patterns one after the other; a list of replacements that is too    *)
(* short goes on with the empty string, one replacement serves for all.    *)
RECURSIVE str_replace(_, _, _, _)
str_replace(ps, rs, s, nocase) ==
    LET r == IF rs[1] = "str" THEN rs[2] ELSE IF rs[2] = <<>> THEN <<>> ELSE Head(rs[2])
        left == IF rs[1] = "str" \/ rs[2] = <<>> THEN rs ELSE <<"list", Tail(rs[2])>>
    IN  IF s = <<>> \/ ps = <<>> THEN s
        ELSE IF Head(ps) = <<>> THEN str_replace(Tail(ps), rs, s, nocase)
        ELSE str_replace(Tail(ps), left, ReplaceFrom(s, 0, Head(ps), r, nocase), nocase)

(* With a table of pairs each key is replaced once, where it is first.     *)
RECURSIVE StringReplaceWalker(_, _)
StringReplaceWalker(s, pairs) ==
    IF pairs = <<>> THEN s
    ELSE LET p == Head(pairs)
             o == SyBlobSearch(s, p[1])
         IN  StringReplaceWalker(IF p[1] = <<>> \/ o < 0 THEN s
                                 ELSE StringReplace(s, o, Len(p[1]), p[2]), Tail(pairs))

strtr(s, from, to) ==
    [i \in DOMAIN s |->
        LET o == SyByteFind(from, s[i])
        IN  IF o >= 0 /\ o < Len(to) /\ to # <<>> THEN to[o + 1] ELSE s[i]]

----------------------------------------------------------------------------
(* Tags                                                                    *)

NotTag == {"<", "/", "?"} \union Space
Word(s) == Take(s, Lead(s, ToSet(s) \ (NotTag \union {">", "!", "-"})))

RECURSIVE AddTag(_)
AddTag(s) ==
    LET w == Drop(s, Lead(s, NotTag \union {"!", "-"}))
    IN  IF w = <<>> THEN {}
        ELSE (IF Word(w) = <<>> THEN {} ELSE {Word(w)}) \union AddTag(Drop(w, Len(Word(w)) + 1))

FindTag(tags, tag) == Lower(Word(Drop(tag, Lead(tag, NotTag)))) \in {Lower(t) : t \in tags}

RECURSIVE StripTags(_, _)
StripTags(s, tags) ==
    LET o == SyByteFind(s, "<")
        e == SyByteFind(Drop(s, o), ">")
        tag == IF e < 0 THEN Drop(s, o) ELSE SubSeq(s, o + 1, o + e + 1)
    IN  IF o < 0 THEN s
        ELSE Take(s, o) \o (IF FindTag(tags, tag) THEN tag ELSE <<>>)
             \o StripTags(Drop(s, o + Len(tag)), tags)

strip_tags(s, list) == StripTags(s, AddTag(list))
============================================================================
