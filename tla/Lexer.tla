-------------------------------- MODULE Lexer --------------------------------
(***************************************************************************)
(* lex.c: a page is cut into raw text and PHP chunks, a chunk into tokens. *)
(*                                                                         *)
(* A text is a sequence of characters.  A token is [z, ty, op, at, line]:  *)
(* its text, the set of its PH7_TK_ flags, the operator it denotes ("" for *)
(* none), the offset where it begins, and its line.  Characters of several *)
(* bytes are left out, and what is read behind the end of a text is NUL.   *)
(***************************************************************************)
EXTENDS Text

(* The operators by precedence.  "u-" and "u+" are the unary ones, "call"  *)
(* the parenthesis behind a function.                                      *)
Levels == << {"new", "clone"}, {"->", "::", "[", "call"}, {"++", "--"},
    {"u-", "u+", "~", "!", "@", "(int)", "(bool)", "(string)", "(float)", "(array)", "(object)", "(unset)"},
    {}, {}, {"instanceof", "*", "/", "%"}, {"+", "-", "."}, {"<<", ">>"}, {"<", ">", "<=", ">=", "<>"},
    {"==", "!=", "eq", "ne", "===", "!=="}, {"&", "=&"}, {"^"}, {"|"}, {"&&"}, {"||"}, {"?"},
    {"=", "+=", "-=", ".=", "*=", "/=", "%=", "&=", "|=", "^=", "<<=", ">>="},
    {"and"}, {"xor"}, {"or"}, {","} >>
Prec(op) == CHOOSE p \in DOMAIN Levels : op \in Levels[p]
TableOperators == UNION ToSet(Levels) \ {"u-", "u+", "call"}

(* + and - are unary at the start, behind an opening bracket, a colon, a   *)
(* comma, or an operator that is no ++ or --.                              *)
PH7_ExprExtractOperator(z, last) ==
    IF z \in {"-", "+"} /\ (last = <<>> \/ last[1].ty \cap {"LPAREN", "OCB", "OSB", "COLON", "COMMA"} # {}
                            \/ ("OP" \in last[1].ty /\ last[1].op \notin {"++", "--"}))
    THEN IF z = "-" THEN "u-" ELSE "u+"
    ELSE CASE z = "AND" -> "and" [] z = "OR" -> "or" [] z = "XOR" -> "xor"
           [] z \in TableOperators -> z [] OTHER -> ""

----------------------------------------------------------------------------
Joined(s) == FoldLeft(LAMBDA z, c : z \o c, "", s)
Peek(s, o) == IF o < Len(s) THEN s[o + 1] ELSE "NUL"
Ahead(s, o, n) == SubSeq(s, o + 1, Min({o + n, Len(s)}))
NewLines(s) == Len(SelectSeq(s, LAMBDA c : c = "\n"))
OneLine == Space \ {"\n"}
Digits10 == {"0", "1", "2", "3", "4", "5", "6", "7", "8", "9"}
Letter == {"a", "b", "c", "d", "e", "f", "g", "h", "i", "j", "k", "l", "m", "n", "o", "p", "q", "r", "s",
           "t", "u", "v", "w", "x", "y", "z", "A", "B", "E", "N", "X", "_"}
Wordy == Letter \cup Digits10

KeywordCode(z) ==
    CASE z \in {"new", "clone", "and", "AND", "xor", "XOR", "or", "OR", "instanceof", "eq", "ne"} -> "operator"
      [] z = "integer" -> "int" [] z = "boolean" -> "bool"
      [] z \in {"ARRAY", "Array"} -> "array" [] z = "UNSET" -> "unset" [] z \in {"ECHO", "Echo"} -> "echo"
      [] z = "AS" -> "as" [] z = "DIE" -> "die" [] z = "EXIT" -> "exit" [] z = "USE" -> "use"
      [] z \in {"extends", "switch", "print", "int", "require", "require_once", "declare", "return",
                "namespace", "echo", "object", "throw", "bool", "default", "try", "case", "self", "final",
                "list", "static", "const", "string", "global", "use", "elseif", "else", "if", "float", "var",
                "array", "die", "abstract", "class", "as", "continue", "function", "while", "eval", "do",
                "exit", "goto", "implements", "include", "include_once", "empty", "interface", "for",
                "foreach", "isset", "parent", "private", "protected", "public", "catch", "unset", "break",
                "enddeclare", "endfor", "endforeach", "endif", "endswitch", "endwhile"} -> z
      [] OTHER -> "identifier"

(* The length of a number at the start of s: digits, then a fraction, an   *)
(* exponent, or the digits behind 0x or 0b (the first digit is not looked  *)
(* at).                                                                    *)
ExponentLen(s) ==
    IF Peek(s, 0) \notin {"e", "E"} THEN 0
    ELSE LET sign == IF Peek(s, 1) \in {"+", "-"} /\ Peek(s, 2) \in Digits10 THEN 1 ELSE 0
         IN  1 + sign + Lead(Drop(s, 1 + sign), Digits10)
NumberToken(s) ==
    LET n == Lead(s, Digits10)
        c == Peek(s, n)
        f == n + 1 + Lead(Drop(s, n + 1), Digits10)
    IN  CASE c = "." -> [len |-> f + ExponentLen(Drop(s, f)), ty |-> "REAL"]
          [] c \in {"e", "E"} -> [len |-> n + ExponentLen(Drop(s, n)), ty |-> "REAL"]
          [] c \in {"x", "X"} -> [len |-> n + 1 + Lead(Drop(s, n + 1), Digits10 \cup {"a", "b", "c", "d", "e", "f", "A", "B", "E"}),
                                  ty |-> "INTEGER"]
          [] c \in {"b", "B"} -> [len |-> n + 1 + Lead(Drop(s, n + 1), {"0", "1"}), ty |-> "INTEGER"]
          [] OTHER -> [len |-> n, ty |-> "INTEGER"]

(* Where a quoted string that begins at offset o ends: at its quote, or at *)
(* the end of the text.  A quote is escaped by an odd number of            *)
(* backslashes; behind a backtick only the last of them counts.  The       *)
(* braces of one {$...} are skipped at a time: in the character after them *)
(* only a quote is seen.                                                   *)
(* Mutation: any backslash in front of a quote escapes it.                 *)
EscapedAtOnce(s, o) == o > 0 /\ s[o] = "\\"
EscapedAt(s, o) == Trailing(Take(s, o), {"\\"}) % 2 = 1
PlainEnd(s, o, quote) ==
    LET ends == {i \in o .. Len(s) - 1 : s[i + 1] = quote /\
                   IF quote = "BT" THEN s[i] # "\\" ELSE ~ EscapedAt(s, i)}
    IN  IF ends = {} THEN Len(s) ELSE Min(ends)
BracesEnd(s, o) ==
    LET depth(i) == 1 + Len(SelectSeq(SubSeq(s, o + 1, i), LAMBDA c : c = "{"))
                      - Len(SelectSeq(SubSeq(s, o + 1, i), LAMBDA c : c = "}"))
        ends == {i \in o + 1 .. Len(s) : depth(i) = 0}
    IN  IF ends = {} THEN Len(s) ELSE Min(ends)
RECURSIVE DoubleEnd(_, _)
DoubleEnd(s, o) ==
    LET p == IF Peek(s, o) = "{" /\ Peek(s, o + 1) = "$" THEN BracesEnd(s, o + 1) ELSE o
    IN  IF p >= Len(s) THEN Len(s)
        ELSE IF s[p + 1] = "\"" /\ ~ EscapedAt(s, p) THEN p ELSE DoubleEnd(s, p + 1)
QuoteEnd1(s, o) == IF Peek(s, o) = "\"" THEN DoubleEnd(s, o + 1) ELSE PlainEnd(s, o + 1, Peek(s, o))
Quoted == [c \in {"'", "\"", "BT"} |-> CASE c = "'" -> "SSTR" [] c = "\"" -> "DSTR" [] OTHER -> "BSTR"]

(* The text of a heredoc whose <<< ends at offset o, <<>> when there is    *)
(* none.  It ends in front of a line that is its delimiter and perhaps a   *)
(* semicolon, but its first line is never looked at, and at the end of the *)
(* text when there is no such line.                                        *)
LexExtractHeredoc(s, o) ==
    LET a == o + Lead(Drop(s, o), OneLine)
        d == IF Peek(s, a) \in {"'", "\""} THEN a + 1 ELSE a
        n == Lead(Drop(s, d), Wordy)
        delim == Take(Drop(s, d), n)
        closed == Peek(s, d + n) = "\"" \/ (Peek(s, a) = "'" /\ Peek(s, d + n) = "'")
        q == IF closed THEN d + n + 1 ELSE d + n
        body == q + Lead(Drop(s, q), OneLine) + 1
        after(i) == i + n + Lead(Drop(s, i + n), OneLine)
        semi(i) == after(i) + 1 + Lead(Drop(s, after(i) + 1), OneLine)
        ends == {i \in body + 1 .. Len(s) :
                   /\ s[i] = "\n" /\ IsPrefix(delim, Drop(s, i))
                   /\ \/ Peek(s, after(i)) \in {"NUL", "\n"}
                      \/ Peek(s, after(i)) = ";" /\ Peek(s, semi(i)) \in {"NUL", "\n"}}
        i == Min(ends)
        text == SubSeq(s, body + 1, IF ends = {} THEN Len(s) ELSE i)
    IN  IF n = 0 \/ Peek(s, body - 1) # "\n" THEN <<>>
        ELSE <<[z |-> Joined(Take(text, Len(text) - Trailing(text, Space))),
                ty |-> {IF Peek(s, a) = "'" THEN "NOWDOC" ELSE "HEREDOC"},
                end |-> IF ends = {} THEN Len(s) ELSE after(i)]>>

(* The end of a comment at offset o, o when there is none.                 *)
CommentEnd(s, o) ==
    LET line == {i \in o .. Len(s) - 1 : s[i + 1] = "\n"}
        block == {i \in o + 4 .. Len(s) : s[i - 1] = "*" /\ s[i] = "/"}
    IN  IF Peek(s, o) = "#" \/ Ahead(s, o, 2) = <<"/", "/">>
        THEN IF line = {} THEN Len(s) ELSE Min(line)
        ELSE IF Ahead(s, o, 2) = <<"/", "*">>
        THEN IF block = {} THEN Len(s) ELSE Min(block)
        ELSE o

Combined == {"::", "==", "===", "=>", "!=", "!==", "&&", "&=", "||", "|=", "++", "+=", "--", "-=", "->", "*=",
             "/=", "%=", "^=", ".=", "<<", "<<=", "<<<", "<>", "<=", ">>", ">>=", ">="}
Flags(z) ==
    CASE z = "$" -> {"DOLLAR"} [] z = "{" -> {"OCB"} [] z = "}" -> {"CCB"} [] z = "(" -> {"LPAREN"}
      [] z = ")" -> {"RPAREN"} [] z = "[" -> {"OP", "OSB"} [] z = "]" -> {"CSB"} [] z = "\\" -> {"NSSEP"}
      [] z = ":" -> {"COLON"} [] z = "," -> {"OP", "COMMA"} [] z = ";" -> {"SEMI"} [] z = "=" -> {"OP", "EQUAL"}
      [] z = "&" -> {"OP", "AMPER"} [] z = "=>" -> {"ARRAY_OP"} [] OTHER -> {"OP"}

(* The longest symbol at offset o; "=" and "&" with blanks between them    *)
(* are one.                                                                *)
SymbolAt(s, o) ==
    LET n == Max({k \in 1 .. 3 : k = 1 \/ (o + k <= Len(s) /\ Joined(Take(Drop(s, o), k)) \in Combined)})
        amp == o + 1 + Lead(Drop(s, o + 1), Space)
    IN  IF n = 1 /\ Peek(s, o) = "=" /\ Peek(s, amp) = "&" THEN [z |-> "=&", end |-> amp + 1]
        ELSE [z |-> Joined(Take(Drop(s, o), n)), end |-> o + n]

(* The token at offset o, not a blank nor a comment.                       *)
WordAt(s, o) ==
    LET n == Lead(Drop(s, o), Wordy)
        z == Joined(Take(Drop(s, o), n))
        code == KeywordCode(z)
    IN  [z |-> z, end |-> o + n, op |-> IF code = "operator" THEN PH7_ExprExtractOperator(z, <<>>) ELSE "",
         ty |-> CASE code = "operator" -> {"ID", "OP"} [] code = "identifier" -> {"ID"} [] OTHER -> {"KEYWORD"}]
NumberAt10(s, o) ==
    LET r == NumberToken(Drop(s, o))
    IN  [z |-> Joined(Take(Drop(s, o), r.len)), end |-> o + r.len, op |-> "", ty |-> {r.ty}]
StringAt(s, o) ==
    [z |-> Joined(SubSeq(s, o + 2, QuoteEnd1(s, o))), end |-> QuoteEnd1(s, o) + 1, op |-> "", ty |-> {Quoted[s[o + 1]]}]
OperatorAt(s, o, last) ==
    LET Known(ty, op) == IF "OP" \notin ty \/ op # "" THEN ty ELSE IF ty = {"OP"} THEN {"OTHER"} ELSE ty \ {"OP"}
        Sign(sym, ty, op) ==
            [z |-> sym.z, end |-> sym.end, op |-> IF "OP" \in ty THEN op ELSE "", ty |-> Known(ty, op)]
        Doc(doc, sym) ==
            IF doc # <<>> THEN [z |-> doc[1].z, end |-> doc[1].end, op |-> "", ty |-> doc[1].ty]
            ELSE Sign(sym, Flags(sym.z), PH7_ExprExtractOperator(sym.z, last))
        Go(sym) == Doc(IF sym.z = "<<<" THEN LexExtractHeredoc(s, o + 3) ELSE <<>>, sym)
    IN  Go(SymbolAt(s, o))

(* A parenthesis behind "(" and the name of a type makes the three tokens  *)
(* one.                                                                    *)
CastTypes == {"array", "int", "float", "string", "object", "bool", "unset"}
Merged(toks, t) ==
    LET n == Len(toks)
        kind == KeywordCode(toks[n].z)
        z == "(" \o kind \o ")"
    IN  IF /\ t.ty = {"RPAREN"} /\ n >= 2 /\ "KEYWORD" \in toks[n].ty /\ kind \in CastTypes
           /\ "LPAREN" \in toks[n - 1].ty
        THEN Append(Take(toks, n - 2), [t EXCEPT !.z = z, !.op = z, !.ty = {"OP"}])
        ELSE Append(toks, t)

TokenizePHP(s, o, toks) ==
    LET last == IF toks = <<>> THEN <<>> ELSE <<Last(toks)>>
        c == s[o + 1]
    IN  CASE c \in Letter -> WordAt(s, o) [] c \in Digits10 -> NumberAt10(s, o)
          [] c \in DOMAIN Quoted -> StringAt(s, o) [] OTHER -> OperatorAt(s, o, last)

RECURSIVE LexFrom(_, _, _, _)
LexFrom(s, o, line, toks) ==
    IF o >= Len(s) THEN toks
    ELSE IF s[o + 1] \in Space THEN LexFrom(s, o + 1, IF s[o + 1] = "\n" THEN line + 1 ELSE line, toks)
    ELSE IF CommentEnd(s, o) > o
         THEN LexFrom(s, CommentEnd(s, o), line + NewLines(SubSeq(s, o + 1, CommentEnd(s, o))), toks)
    ELSE LET Go(t) == LexFrom(s, t.end, line + NewLines(Ahead(s, o, t.end - o)),
                              Merged(toks, [z |-> t.z, ty |-> t.ty, op |-> t.op, at |-> o, line |-> line]))
         IN  Go(TokenizePHP(s, o, toks))
PH7_TokenizePHP(s, line) == LexFrom(s, 0, line, <<>>)

----------------------------------------------------------------------------
(* A page: raw text up to <? or <?php, PHP up to ?>.  What is in quotes is *)
(* not known here: only a comment and a heredoc hide a closing tag.        *)
OpeningTag(s, o) ==
    LET at == {i \in o .. Len(s) - 2 : s[i + 1] = "<" /\ s[i + 2] = "?"}
        i == Min(at)
    IN  IF at = {} THEN [from |-> Len(s), to |-> Len(s)]
        ELSE [from |-> i, to |-> IF Lower(Ahead(s, i + 2, 3)) = <<"p", "h", "p">> THEN i + 5 ELSE i + 2]

(* Behind a comment in one line a character is left for the end of the     *)
(* text, behind a block none is.                                           *)
RECURSIVE PassComments(_, _)
PassComments(s, c) ==
    LET o == c.at
        line == {i \in o + 2 .. Len(s) - 1 : s[i + 1] = "\n"}
        block == {i \in o + 4 .. Len(s) : s[i - 1] = "*" /\ s[i] = "/"}
        end == IF Peek(s, o + 1) = "/" THEN (IF line = {} THEN Len(s) - 1 ELSE Min(line))
               ELSE IF block # {} THEN Min(block) ELSE Max({o + 2, Len(s) - 1})
    IN  IF Peek(s, o) # "/" \/ Peek(s, o + 1) \notin {"/", "*"} THEN c
        ELSE PassComments(s, [c EXCEPT !.at = end, !.line = c.line + NewLines(SubSeq(s, o + 3, end))])

(* From "<<<" and a name on a closing tag is none, up to a line that       *)
(* begins with the name.                                                   *)
WordFrom(s, o) == Take(Drop(s, o), Lead(Drop(s, o), Wordy))
RECURSIVE ChunkEnd(_, _)
ChunkEnd(s, c) ==
    LET p == PassComments(s, c)
        here == Peek(s, p.at)
        blanks(o) == o + Lead(Drop(s, o), OneLine)
        o == IF here = "\n" THEN blanks(p.at + 1)
             ELSE LET q == blanks(p.at + 3) IN IF Peek(s, q) \in {"\"", "'"} THEN q + 1 ELSE q
        word == WordFrom(s, o)
        next == [p EXCEPT !.at = p.at + 1, !.line = IF here = "\n" THEN p.line + 1 ELSE p.line]
    IN  IF Len(s) - c.at < 2 THEN [c EXCEPT !.at = Len(s)]
        ELSE IF c.doc = <<>> /\ Ahead(s, c.at, 2) = <<"?", ">">> THEN c
        ELSE IF here = "\n" /\ p.doc # <<>>
        THEN ChunkEnd(s, [next EXCEPT !.at = o + Len(word), !.doc = IF word = p.doc THEN <<>> ELSE p.doc])
        ELSE IF Len(s) - p.at >= 4 /\ Ahead(s, p.at, 3) = <<"<", "<", "<">> /\ p.doc = <<>>
        THEN ChunkEnd(s, [p EXCEPT !.at = o + Len(word), !.doc = word])
        ELSE IF next.at > Len(s) THEN next ELSE ChunkEnd(s, next)

RECURSIVE Pages(_, _)
Pages(s, c) ==
    LET PhpText(at, end) == LET text == SubSeq(s \o <<"NUL">>, at + 1, end) IN Take(text, Len(text) - Trailing(text, Space))
        PhpChunk(at, line, end) == IF at >= end THEN <<>> ELSE <<[type |-> "PHP", text |-> PhpText(at, end), line |-> line]>>
        Closed2(end) == Pages(s, [end EXCEPT !.at = IF end.at < Len(s) THEN end.at + 2 ELSE end.at])
        Php(at, line, end) == PhpChunk(at, line, end.at) \o Closed2(end)
        Opened(at, line) == Php(at, line, ChunkEnd(s, [c EXCEPT !.at = at, !.line = line]))
        Behind2(at) == Opened(at, c.line + NewLines(SubSeq(s, c.at + 1, at)))
        Raw(tag) == <<[type |-> "RAW", text |-> SubSeq(s, c.at + 1, tag.from), line |-> c.line]>>
                    \o IF tag.to >= Len(s) THEN <<>> ELSE Behind2(tag.to + Lead(Drop(s, tag.to), Space))
    IN  IF c.at >= Len(s) THEN <<>> ELSE Raw(OpeningTag(s, c.at))
PH7_TokenizeRawText(s) == Pages(s, [at |-> 0, line |-> 1, doc |-> <<>>])
=============================================================================
