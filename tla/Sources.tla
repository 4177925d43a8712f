------------------------------- MODULE Sources -------------------------------
(***************************************************************************)
(* What the text of a program means: tokens and trees are written down as  *)
(* a programmer would, and must be read back as what they were.            *)
(***************************************************************************)
EXTENDS Expressions

Characters(z) == [i \in 1 .. Len(z) |-> SubSeq(z, i, i)]

(* Two texts that would be read as one when nothing is between them.       *)
OpChar == {"+", "-", "*", "/", "%", "=", "<", ">", "!", "&", "|", "^", ".", ":", "?"}
Merge(a, b) ==
    \/ a \in Wordy /\ b \in Wordy
    \/ a \in OpChar /\ b \in OpChar
    \/ a \in Digits10 /\ b = "."
RECURSIVE Spell(_)
Spell(words) ==
    IF Len(words) < 2 THEN FlattenSeq(words)
    ELSE words[1] \o (IF Merge(Last(words[1]), words[2][1]) THEN <<" ">> ELSE <<>>) \o Spell(Tail(words))

----------------------------------------------------------------------------
(* A lexeme is [text, toks], its text and the tokens that it is.           *)
Lexeme(text, toks) == [text |-> Characters(text), toks |-> toks]
One(text, ty) == Lexeme(text, <<<<text, ty>>>>)
Lexemes == {
    One("if", {"KEYWORD"}), One("a1", {"ID"}), One("and", {"ID", "OP"}), One("0x1f", {"INTEGER"}), One("1.5e-3", {"REAL"}),
    One("++", {"OP"}), One("=", {"OP", "EQUAL"}), One("===", {"OP"}), One("<<", {"OP"}), One("{", {"OCB"}), One(":", {"COLON"}),
    One("(int)", {"OP"}), Lexeme("$a", <<<<"$", {"DOLLAR"}>>, <<"a", {"ID"}>>>>), Lexeme("=\n&", <<<<"=&", {"OP"}>>>>),
    Lexeme("'x\\'\n\\\\'", <<<<"x\\'\n\\\\", {"SSTR"}>>>>), Lexeme("\"a{$b[\"c\"]}\\\"\"", <<<<"a{$b[\"c\"]}\\\"", {"DSTR"}>>>>),
    Lexeme("<<<E\nx\nE2\n E\nE", <<<<"x\nE2\n E", {"HEREDOC"}>>>>), Lexeme("<<<'E'\nx\nE", <<<<"x", {"NOWDOC"}>>>>)}
Separators == {<<>>, <<" ">>, <<"\n">>, <<"#", "c", "\n">>, <<"/", "*", "\n", "*", "/">>}

(* A source is a sequence of <<separator, lexeme>>.                        *)
SourceText(src) == FlattenSeq([i \in DOMAIN src |-> src[i][1] \o src[i][2].text])
Follows(src, sep, lex) ==
    IF src = <<>> THEN TRUE
    ELSE /\ Last(src)[2].toks[1][2] \cap {"HEREDOC", "NOWDOC"} # {} => sep = <<"\n">>
         /\ sep = <<>> => ~ Merge(Last(Last(src)[2].text), lex.text[1])

(* A source is read as the tokens of its lexemes, each with the line it    *)
(* begins in, and what is read first does not change what follows.         *)
TokensRead(src) ==
    \A toks \in {PH7_TokenizePHP(SourceText(src), 1)} :
        /\ [i \in DOMAIN toks |-> <<toks[i].z, toks[i].ty>>] = FlattenSeq([i \in DOMAIN src |-> src[i][2].toks])
        /\ \A i \in DOMAIN toks : toks[i].z # "a" => \E k \in DOMAIN src :
              toks[i].line = 1 + NewLines(SourceText(Take(src, k - 1)) \o src[k][1])

----------------------------------------------------------------------------
(* A page is a sequence of <<raw text, tag, PHP>>, closed or not.          *)
Tags == {<<"<", "?">>, <<"<", "?", "P", "h", "p", "\n">>}
Raws == {<<>>, Characters("a\n<"), Characters("?>\"")}
Chunks2 == {<<>>, Characters("b;\n "), Characters("/*?>\n*/b;"), Characters("//?>\n b"), Characters("<<<E\n?>\n  E;")}
PageText(page, k) ==
    FlattenSeq([i \in 1 .. k |-> page[i][1] \o page[i][2] \o page[i][3] \o <<"?", ">">>])
Stripped(s) == Drop(Take(s, Len(s) - Trailing(s, Space)), Lead(Take(s, Len(s) - Trailing(s, Space)), Space))

(* A page is read as its raw texts and its PHP between them, in order and  *)
(* with their lines; a tag in a comment or in a heredoc closes nothing.    *)
PagesSplit(page) ==
    LET line(i, n) == 1 + NewLines(PageText(page, i - 1) \o n)
        Pieces2(i) == <<[type |-> "RAW", text |-> page[i][1], line |-> line(i, <<>>)]>>
            \o (IF Stripped(page[i][3]) = <<>> THEN <<>>
                ELSE <<[type |-> "PHP", text |-> Stripped(page[i][3]), line |-> line(i, page[i][1] \o page[i][2])]>>)
        all == FlattenSeq([i \in DOMAIN page |-> Pieces2(i)])
    IN  \A s \in {PageText(page, Len(page))} : \A n \in {0, 2} :
            page # <<>> /\ (n = 2 => Stripped(Last(page)[3]) # <<>>) => PH7_TokenizeRawText(Take(s, Len(s) - n)) = all

----------------------------------------------------------------------------
(* An expression is a node without flags and without the text of operators. *)
Leaf2(text, z, code) == [text |-> Characters(text), node |-> Node(z, {}, "", code)]
Leaves2 == {Leaf2("$a", "$a", "variable"), Leaf2("$and", "$and", "variable"), Leaf2("${b}", "${b}", "variable"),
            Leaf2("f", "f", "literal"), Leaf2("a\\b", "a\\b", "literal"), Leaf2("1", "1", "number"), Leaf2("'s'", "s", "simplestring"),
            Leaf2("\"s\"", "s", "string"), Leaf2("array(1,2)", "array(1,2)", "array"), Leaf2("print 1", "print1", "construct"),
            Leaf2("list($a)", "list($a)", "list"), Leaf2("function(){;}", "function(){;}", "annon")}
LeafOf(z, code) == (CHOOSE x \in Leaves2 : x.node.z = z /\ x.node.code = code).node
TextOf(n) == (CHOOSE x \in Leaves2 : x.node = n).text
Va == LeafOf("$a", "variable")
Fn == LeafOf("f", "literal")
Nr == LeafOf("1", "number")
Apply(op, kids, args) == [Node("", {}, op, "") EXCEPT !.kids = kids, !.args = args]

RECURSIVE Bare(_)
Bare(n) == [n EXCEPT !.ty = {}, !.z = IF n.op = "" THEN n.z ELSE "",
                     !.kids = [k \in DOMAIN n.kids |-> Bare(n.kids[k])], !.args = [k \in DOMAIN n.args |-> Bare(n.args[k])]]

(* How tight an expression binds, and how it is written where no more than *)
(* lim is allowed: with the parentheses it needs, or with all it may have. *)
(* ?: takes all that follows; a call or an index in parentheses is not     *)
(* read well inside the arguments of another call.                         *)
Rank(t) == CASE t.code = "construct" -> 23 [] t.op = "" -> 0 [] t.op \in {"new", "clone"} -> 3 [] OTHER -> Prec(t.op)
Signs == [op \in {"u-", "u+"} |-> IF op = "u-" THEN <<"-">> ELSE <<"+">>]
Symbol(op) == IF op \in DOMAIN Signs THEN Signs[op] ELSE Characters(op)
RECURSIVE WriteTree(_, _, _, _, _)
WriteTree(t, lim, last, inargs, style) ==
    LET paren == \/ Rank(t) > lim \/ (t.op = "?" /\ ~ last)
                 \/ style = "more" /\ t.op # "" /\ ~ (inargs /\ t.op \in {"call", "["})
        Kid(k, p, end) == WriteTree(t.kids[k], p, end, inargs, style)
        braced == style = "brace" /\ (t.kids[1].code = "variable" \/ t.kids[1].op = "[")
        Arg(i) == (IF i > 1 THEN <<<<",">>>> ELSE <<>>) \o WriteTree(t.args[i], 21, TRUE, TRUE, style)
        end == last \/ paren
        sym == <<Symbol(t.op)>>
        body ==
            CASE t.op = "" -> <<TextOf(t)>>
              [] t.op \in {"new", "clone"} -> sym \o Kid(1, 2, end)
              [] t.op = "call" -> Kid(1, 2, FALSE) \o <<<<"(">>>> \o FlattenSeq([i \in DOMAIN t.args |-> Arg(i)]) \o <<<<")">>>>
              [] t.op = "[" -> Kid(1, 2, FALSE) \o <<<<IF braced THEN "{" ELSE "[">>>>
                    \o FlattenSeq([i \in DOMAIN t.args |-> WriteTree(t.args[i], 22, TRUE, inargs, style)])
                    \o <<<<IF braced THEN "}" ELSE "]">>>>
              [] t.op \in {"++", "--"} -> IF t.pre THEN sym \o Kid(1, 2, end) ELSE Kid(1, 2, FALSE) \o sym
              [] t.op \in Levels[4] -> sym \o Kid(1, 4, end)
              [] t.op = "?" -> Kid(3, 16, FALSE) \o sym \o Kid(1, 22, TRUE) \o <<<<":">>>> \o Kid(2, 22, TRUE)
              [] t.op = "=&" -> Kid(2, 12, FALSE) \o sym \o Kid(1, 11, end)
              [] t.op \in Levels[18] -> Kid(2, 2, FALSE) \o sym \o Kid(1, 18, end)
              [] OTHER -> Kid(1, Prec(t.op), FALSE) \o sym \o Kid(2, Prec(t.op) - 1, end)
    IN  IF paren THEN <<<<"(">>>> \o body \o <<<<")">>>> ELSE body

(* The expressions with t in one place of theirs.                          *)
Around(t, twosided, prefixes, assigns) ==
    LET isOp == t.op # ""
        base == t.op \in Levels[2]
        Kept(cond, trees) == IF cond THEN trees ELSE {}
        Named2 == {"variable", "literal", "simplestring"}
    IN  {Apply(op, <<t, Va>>, <<>>) : op \in twosided} \cup {Apply(op, <<Nr, t>>, <<>>) : op \in twosided}
        \cup {Apply(op, <<t>>, <<>>) : op \in prefixes}
        \cup {Apply("call", <<Fn>>, a) : a \in {<<t>>, <<t, Nr>>, <<Va, t>>}} \cup {Apply("[", <<Va>>, <<t>>), Apply("::", <<t, Va>>, <<>>)}
        \cup {Apply("?", <<t, Nr, Va>>, <<>>), Apply("?", <<Nr, t, Va>>, <<>>), Apply("?", <<Va, Nr, t>>, <<>>)}
        \cup {Apply(op, <<t, Va>>, <<>>) : op \in assigns} \cup {Apply("=", <<t, LeafOf("list($a)", "list")>>, <<>>)}
        \cup Kept(isOp \/ t.code = "variable", {Apply("clone", <<t>>, <<>>), Apply("->", <<t, Fn>>, <<>>)})
        \cup Kept(isOp \/ t.code \in Named2, {Apply("new", <<t>>, <<>>)})
        \cup Kept(t.code # "number", {Apply("call", <<t>>, <<>>), Apply("call", <<t>>, <<Nr>>)})
        \cup Kept(base \/ t.code \in {"variable", "simplestring", "string"}, {Apply("[", <<t>>, a) : a \in {<<>>, <<Nr>>}})
        \cup Kept(base \/ t.code = "variable",
                  {Apply("++", <<t>>, <<>>), [Apply("--", <<t>>, <<>>) EXCEPT !.pre = TRUE]})
        \cup Kept(ExprIsModifiableValue(t, FALSE), {Apply(op, <<Va, t>>, <<>>) : op \in assigns})
        \cup Kept(ExprIsModifiableValue(t, TRUE) \/ t.op \in {"new", "clone"}, {Apply("=&", <<t, Va>>, <<>>)})

(* An expression that is written is read as the tree it was, however many  *)
(* parentheses it has.                                                     *)
ExpressionsRead(t) ==
    \A style \in {"least", "more", "brace"} :
        \A r \in {PH7_ExprMakeTree(PH7_TokenizePHP(Spell(WriteTree(t, 23, TRUE, FALSE, style)), 1))} :
            r.ok /\ Bare(r.root) = t
=============================================================================
