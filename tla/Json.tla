-------------------------------- MODULE Json --------------------------------
(***************************************************************************)
(* json_encode() and json_decode() of vm.c.  A document is                 *)
(* <<"scalar", value>>, <<"array", entries>> or <<"object", entries>>,     *)
(* entries being a sequence of <<key, document>>; a text is a sequence of  *)
(* characters.  Arrays come out of the decoder only.                       *)
(***************************************************************************)
EXTENDS Values

CONSTANT JsonDepth       \* nesting that is encoded and decoded, 32 in the code

JSON_HEX_TAG == 1
JSON_HEX_AMP == 2
JSON_HEX_APOS == 4
JSON_HEX_QUOT == 8
JSON_FORCE_OBJECT == 16
JSON_NUMERIC_CHECK == 32
JSON_UNESCAPED_SLASHES == 256

Words == [null |-> <<"n", "u", "l", "l">>, true |-> <<"t", "r", "u", "e">>,
          false |-> <<"f", "a", "l", "s", "e">>]

Hex(c) == <<"\\", "u", "0", "0">> \o (CASE c = "<" -> <<"3", "C">> [] c = ">" -> <<"3", "E">>
                                        [] c = "&" -> <<"2", "6">> [] c = "'" -> <<"2", "7">>
                                        [] c = "\"" -> <<"2", "2">>)
InHex(c, flags) ==
    \/ c \in {"<", ">"} /\ Bit(flags, JSON_HEX_TAG)
    \/ c = "&" /\ Bit(flags, JSON_HEX_AMP)
    \/ c = "'" /\ Bit(flags, JSON_HEX_APOS)
    \/ c = "\"" /\ Bit(flags, JSON_HEX_QUOT)

JsonQuote(s, flags) ==
    LET F(c) == IF InHex(c, flags) THEN Hex(c)
                ELSE IF c = "\"" \/ (c = "\\" /\ ~ Bit(flags, JSON_UNESCAPED_SLASHES))
                     THEN <<"\\", c>> ELSE <<c>>
    IN  <<"\"">> \o EachChar(s, F) \o <<"\"">>

JsonScalar(v, flags) ==
    CASE Has(v, {"null", "res"}) -> Words.null
      [] Has(v, {"bool"}) -> IF v.i # 0 THEN Words.true ELSE Words.false
      [] Has(v, {"int", "real"}) -> MemObjToString(v).s
      [] OTHER -> IF Bit(flags, JSON_NUMERIC_CHECK) /\ MemObjIsNumeric(v)
                  THEN MemObjToString(MemObjToReal(v)).s ELSE JsonQuote(v.s, flags)

(* An array is a list unless an object is asked for: its keys are left     *)
(* out.  Elements that are nested too deep are left out silently.          *)
RECURSIVE VmJsonEncode(_, _, _)
VmJsonEncode(doc, flags, depth) ==
    LET keyed == doc[1] = "object" \/ Bit(flags, JSON_FORCE_OBJECT)
        Entry(e) == (IF keyed THEN <<"\"">> \o e[1] \o <<"\"", ":">> ELSE <<>>)
                    \o VmJsonEncode(e[2], flags, depth + 1)
        entries == [k \in DOMAIN doc[2] |->
                       IF k = 1 THEN Entry(doc[2][k]) ELSE <<",">> \o Entry(doc[2][k])]
    IN  IF doc[1] = "scalar" THEN JsonScalar(doc[2], flags)
        ELSE <<IF keyed THEN "{" ELSE "[">>
             \o (IF depth >= JsonDepth THEN <<>> ELSE FlattenSeq(entries))
             \o <<IF keyed THEN "}" ELSE "]">>

----------------------------------------------------------------------------
(* Tokens are <<type, text>>.  The end of a string is a quote that has no  *)
(* backslash before it, even one that is itself escaped.                   *)
StringEnd(s) == CHOOSE n \in 1 .. Len(s) : /\ n = Len(s) \/ (s[n + 1] = "\"" /\ s[n] # "\\")
                                           /\ \A k \in 1 .. n - 1 : s[k + 1] # "\"" \/ s[k] = "\\"

(* Digits, then a point and digits, then an exponent.                      *)
NumberEnd(s) ==
    LET n == Lead(s, Digit)
        p == IF n < Len(s) /\ s[n + 1] = "." THEN n + 1 + Lead(Drop(s, n + 1), Digit) ELSE n
        signed == p + 1 < Len(s) /\ s[p + 2] \in {"+", "-"}
        q == IF signed THEN p + 2 ELSE p + 1
    IN  IF p < Len(s) /\ s[p + 1] \in {"e", "E"} THEN q + Lead(Drop(s, q), Digit) ELSE p

(* The tokens up to the first that is none.                                *)
RECURSIVE VmJsonTokenize(_)
VmJsonTokenize(text) ==
    LET s == Drop(text, Lead(text, Space))
        word == {w \in DOMAIN Words : IsPrefix(Words[w], Lower(s))}
        w == CHOOSE x \in word : TRUE
    IN  IF s = <<>> THEN <<>>
        ELSE IF s[1] \in {"{", "[", "}", "]", ":", ","}
             THEN <<<<s[1], <<>>>>>> \o VmJsonTokenize(Tail(s))
        ELSE IF s[1] = "\""
             THEN IF StringEnd(s) = Len(s) THEN <<<<"invalid", <<>>>>>>
                  ELSE <<<<"str", SubSeq(s, 2, StringEnd(s))>>>>
                       \o VmJsonTokenize(Drop(s, StringEnd(s) + 1))
        ELSE IF s[1] \in Digit
             THEN <<<<"num", Take(s, NumberEnd(s))>>>> \o VmJsonTokenize(Drop(s, NumberEnd(s)))
        ELSE IF word # {} THEN <<<<w, <<>>>>>> \o VmJsonTokenize(Drop(s, Len(Words[w])))
        ELSE <<<<"invalid", <<>>>>>>

(* Mutation: a backslash is dropped and the next character looked at anew. *)
RECURSIVE VmJsonDequoteDrop(_)
VmJsonDequoteDrop(s) == SelectSeq(s, LAMBDA c : c # "\\")

(* A code point is not decoded: \u0022 gives u0022.                        *)
RECURSIVE VmJsonDequoteString(_)
VmJsonDequoteString(s) ==
    LET o == SyByteFind(s, "\\")
        c == s[o + 2]
        meant == CASE c = "n" -> "\n" [] c = "r" -> "\r" [] c = "t" -> "\t"
                   [] c = "f" -> "\f" [] OTHER -> c
    IN  IF o < 0 THEN s
        ELSE Take(s, o) \o (IF o + 2 > Len(s) THEN <<>>
                            ELSE <<meant>> \o VmJsonDequoteString(Drop(s, o + 2)))

JsonValue(token) ==
    CASE token[1] = "null" -> MemObjInit
      [] token[1] \in {"true", "false"} -> InitFromBool(token[1] = "true")
      [] token[1] = "num" -> MemObjToNumeric(InitFromString(token[2]))
      [] OTHER -> InitFromString(VmJsonDequoteString(token[2]))

(* A key that is there already gets the new element.                       *)
PutEntry(entries, key, doc) ==
    LET at == {k \in DOMAIN entries : entries[k][1] = key}
    IN  IF at = {} THEN Append(entries, <<key, doc>>)
        ELSE [entries EXCEPT ![CHOOSE k \in at : TRUE] = <<key, doc>>]

Failed(err) == [ok |-> FALSE, doc |-> <<"scalar", MemObjInit>>, rest |-> <<>>, err |-> err]
Decoded(doc, rest) == [ok |-> TRUE, doc |-> doc, rest |-> rest, err |-> "none"]
SkipCommas(toks) == LET n == {k \in 1 .. Len(toks) : toks[k][1] # ","}
                    IN  IF n = {} THEN <<>> ELSE Drop(toks, Min(n) - 1)

(* Elements up to the closing bracket or the end of the text; commas may   *)
(* be left out before the end and repeated.  Behind a member of an object  *)
(* nothing is asked for.  A member without a value is read beyond the      *)
(* tokens, "beyond".                                                       *)
RECURSIVE VmJsonDecode(_, _)
RECURSIVE JsonElements(_, _, _, _)
VmJsonDecode(toks, depth) ==
    LET t == Head(toks)
    IN  IF depth >= JsonDepth THEN Failed("depth")
        ELSE IF toks = <<>> THEN Failed("beyond")
        ELSE CASE t[1] \in {"str", "true", "false", "null", "num"} ->
                    Decoded(<<"scalar", JsonValue(t)>>, Tail(toks))
               [] t[1] \in {"[", "{"} -> JsonElements(Tail(toks), t[1], depth, <<>>)
               [] OTHER -> Failed("none")
JsonElements(toks, open, depth, entries) ==
    LET left == SkipCommas(toks)
        named == Len(left) > 1 /\ left[1][1] = "str" /\ left[2][1] = ":"
        key == IF open = "{" THEN VmJsonDequoteString(left[1][2])
               ELSE DigitsOf(Len(entries), 10)
        one == VmJsonDecode(IF open = "{" THEN Drop(left, 2) ELSE left, depth + 1)
        sep == IF one.rest = <<>> THEN "," ELSE one.rest[1][1]
    IN  IF left = <<>> \/ left[1][1] = (IF open = "{" THEN "}" ELSE "]")
             THEN Decoded(<<"array", entries>>, IF left = <<>> THEN left ELSE Tail(left))
        ELSE IF open = "{" /\ ~ named THEN Failed("syntax")
        ELSE IF ~ one.ok THEN one
        ELSE IF open = "[" /\ sep \notin {"]", ","} THEN Failed("syntax")
        ELSE JsonElements(one.rest, open, depth, PutEntry(entries, key, one.doc))

(* What follows the value is not looked at.                                *)
json_decode(text) ==
    LET toks == VmJsonTokenize(text)
    IN  IF text = <<>> THEN Failed("none")
        ELSE IF \E k \in DOMAIN toks : toks[k][1] = "invalid" THEN Failed("syntax")
        ELSE VmJsonDecode(toks, 0)
json_encode(doc, flags) == VmJsonEncode(doc, flags, 0)
============================================================================
