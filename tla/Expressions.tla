----------------------------- MODULE Expressions -----------------------------
(***************************************************************************)
(* parse.c: the tokens of an expression become nodes, the nodes a tree.    *)
(*                                                                         *)
(* A node is [z, ty, op, code, kids, args, pre]: the text of its tokens,   *)
(* the flags of the first of them, its operator ("" for none), what        *)
(* compiles it ("" for an operator or a bracket), its left and its right   *)
(* node and its condition, its arguments, and whether ++ stands in front.  *)
(* The tree is built in the array of the nodes: a node that is linked to   *)
(* another leaves Null in its place.  After an error ok is FALSE; what is  *)
(* freed then, and the texts of the errors, are left out.                  *)
(***************************************************************************)
EXTENDS Lexer

Node(z, ty, op, code) == [z |-> z, ty |-> ty, op |-> op, code |-> code, kids |-> <<>>, args |-> <<>>, pre |-> FALSE]
Null == Node("", {}, "", "")
Linked(n) == n.kids # <<>> /\ n.kids[1] # Null
IsTerm(n) == n # Null /\ (n.op = "" \/ Linked(n))
At2(n, p) == n.op \in Levels[p] /\ ~ Linked(n)

Clear(ns, I) == [i \in DOMAIN ns |-> IF i \in I THEN Null ELSE ns[i]]
After(ns, i) == LET at == {j \in i + 1 .. Len(ns) : ns[j] # Null} IN IF at = {} THEN 0 ELSE Min(at)

(* Where what begins at i ends, behind the last when it does not.          *)
Closing(ns, i, Opens(_), Closes(_)) ==
    LET depth(j) == Cardinality({k \in i + 1 .. j : Closes(ns[k])}) - Cardinality({k \in i + 1 .. j : Opens(ns[k])})
        ends == {j \in i + 1 .. Len(ns) : depth(j) = 1}
    IN  IF ends = {} THEN Len(ns) + 1 ELSE Min(ends)
ClosingOf(ns, i, open, close) ==
    LET Opens(n) == n.ty \cap open # {}
        Closes(n) == n.ty \cap close # {} /\ n.ty \cap open = {}
    IN  Closing(ns, i, Opens, Closes)
PH7_DelimitNestedTokens(toks, i, open, close) == ClosingOf(toks, i, open, close)

----------------------------------------------------------------------------
(* Nodes                                                                   *)

(* A name goes on behind each separator.                                   *)
RECURSIVE AssembleLiteral(_, _)
AssembleLiteral(toks, i) ==
    IF i > Len(toks) \/ "NSSEP" \notin toks[i].ty THEN i
    ELSE AssembleLiteral(toks, IF i < Len(toks) /\ toks[i + 1].ty \cap {"ID", "KEYWORD"} # {} THEN i + 2 ELSE i + 1)
ExprAssembleLiteral(toks, i) == AssembleLiteral(toks, IF "NSSEP" \in toks[i].ty THEN i ELSE i + 1)

(* The token behind a function without name, 0 for an error; one without a *)
(* body is reported but goes on.                                           *)
Behind(toks, i, open, close) ==
    IF i > Len(toks) \/ open \notin toks[i].ty THEN 0
    ELSE LET j == PH7_DelimitNestedTokens(toks, i, {open}, {close}) IN IF j >= Len(toks) THEN 0 ELSE j + 1
ExprAssembleAnnon(toks, i) ==
    LET name == IF i < Len(toks) /\ toks[i + 1].ty \cap {"ID", "KEYWORD"} # {} THEN i + 2 ELSE i + 1
        a == Behind(toks, name, "LPAREN", "RPAREN")
        uses == a # 0 /\ "KEYWORD" \in toks[a].ty
        b == IF ~ uses THEN a ELSE IF KeywordCode(toks[a].z) = "use" THEN Behind(toks, a + 1, "LPAREN", "RPAREN") ELSE 0
        end == PH7_DelimitNestedTokens(toks, b, {"OCB"}, {"CCB"})
    IN  IF b = 0 \/ "OCB" \notin toks[b].ty THEN 0 ELSE Min({end, Len(toks)}) + 1

IsLangConstruct(kw) == kw \in {"echo", "print", "include", "include_once", "require", "require_once"}

PH7_GetNodeHandler(ty) ==
    CASE ty \cap {"INTEGER", "REAL"} # {} -> "number" [] "DSTR" \in ty -> "string" [] "SSTR" \in ty -> "simplestring"
      [] "HEREDOC" \in ty -> "heredoc" [] "NOWDOC" \in ty -> "nowdoc" [] "BSTR" \in ty -> "backtic" [] OTHER -> ""

(* The node that begins at token i: the token behind it (0 for an error)   *)
(* and what compiles it.                                                   *)
VariableEnd(toks, i) ==
    LET n == i + Lead([k \in 1 .. Len(toks) - i + 1 |-> "DOLLAR" \in toks[i + k - 1].ty], {TRUE})
        end == PH7_DelimitNestedTokens(toks, n, {"OCB"}, {"CCB"})
    IN  IF n > Len(toks) THEN n
        ELSE IF toks[n].ty \cap {"ID", "KEYWORD"} # {} THEN n + 1
        ELSE IF "OCB" \notin toks[n].ty THEN n
        ELSE IF end > Len(toks) THEN 0 ELSE end + 1
KeywordNode(toks, i) ==
    LET kw == KeywordCode(toks[i].z)
        literal == [next |-> ExprAssembleLiteral(toks, i), code |-> "literal"]
        end == PH7_DelimitNestedTokens(toks, i + 1, {"LPAREN"}, {"RPAREN"})
        brackets == PH7_DelimitNestedTokens(toks, i - 1, {"LPAREN", "OCB", "OSB"}, {"RPAREN", "CCB", "CSB"})
    IN  IF i = Len(toks) THEN literal
        ELSE IF kw \in {"array", "list"}
        THEN IF "LPAREN" \notin toks[i + 1].ty THEN literal
             ELSE IF end > Len(toks) THEN [next |-> 0, code |-> ""]
             ELSE IF kw = "array" THEN [next |-> end + 1, code |-> "array"]
             ELSE [next |-> IF end < Len(toks) /\ toks[end + 1].op = "=" THEN end + 1 ELSE 0, code |-> "list"]
        ELSE IF kw = "function" THEN [next |-> ExprAssembleAnnon(toks, i), code |-> "annon"]
        ELSE IF IsLangConstruct(kw) THEN [next |-> brackets, code |-> "construct"]
        ELSE literal
Brackets == {"LPAREN", "RPAREN", "COMMA", "COLON", "CSB", "OCB", "CCB"}
ExtractNode(toks, i) ==
    LET ty == toks[i].ty
    IN  IF "OP" \in ty THEN [next |-> i + 1, code |-> ""]
        ELSE IF "DOLLAR" \in ty THEN [next |-> VariableEnd(toks, i), code |-> "variable"]
        ELSE IF "KEYWORD" \in ty THEN KeywordNode(toks, i)
        ELSE IF ty \cap {"NSSEP", "ID"} # {} THEN [next |-> ExprAssembleLiteral(toks, i), code |-> "literal"]
        ELSE IF ty \cap Brackets # {} THEN [next |-> i + 1, code |-> ""]
        ELSE [next |-> IF PH7_GetNodeHandler(ty) = "" THEN 0 ELSE i + 1, code |-> PH7_GetNodeHandler(ty)]
RECURSIVE ExtractFrom(_, _)
ExtractFrom(toks, i) ==
    LET First2(x) == Node(Joined([k \in 1 .. x.next - i |-> toks[i + k - 1].z]), toks[i].ty, toks[i].op, x.code)
        Before(n, rest) == [ok |-> rest.ok, ns |-> <<n>> \o rest.ns]
        Go(x) == IF x.next = 0 THEN [ok |-> FALSE, ns |-> <<>>] ELSE Before(First2(x), ExtractFrom(toks, x.next))
    IN  IF i > Len(toks) THEN [ok |-> TRUE, ns |-> <<>>] ELSE Go(ExtractNode(toks, i))
ExprExtractNode(toks) == ExtractFrom(toks, 1)

----------------------------------------------------------------------------
(* Checks before the tree is built                                         *)

CountWhere(ns, i, T(_)) == Cardinality({j \in 1 .. i : T(ns[j])})

(* A parenthesis behind a name, a value or a closing bracket is a call.    *)
Callable(n) ==
    /\ "OP" \notin n.ty
    /\ \/ n.code \in {"variable", "literal"}
       \/ n.ty \cap {"ID", "KEYWORD", "SSTR", "DSTR", "RPAREN", "CSB", "CCB"} # {}
MarkCalls(ns) ==
    [i \in DOMAIN ns |-> IF "LPAREN" \in ns[i].ty /\ i > 1 /\ Callable(ns[i - 1])
                         THEN [ns[i] EXCEPT !.ty = @ \cup {"OP"}, !.op = "call"] ELSE ns[i]]

(* $a{x} is $a[x].                                                         *)
MarkBraces(ns, i) ==
    LET j == ClosingOf(ns, i, {"OCB"}, {"CCB"})
    IN  IF "OCB" \notin ns[i].ty \/ i = 1 \/ ~ (ns[i - 1].code = "variable" \/ "CSB" \in ns[i - 1].ty) THEN ns
        ELSE [k \in DOMAIN ns |->
                CASE k = i -> [ns[k] EXCEPT !.ty = (@ \ {"OCB"}) \cup {"OSB", "OP"}, !.op = "["]
                  [] k = j -> [ns[k] EXCEPT !.ty = (@ \ {"CCB"}) \cup {"CSB"}] [] OTHER -> ns[k]]

(* Mutation: a sign behind a variable that is named like an operator stays *)
(* unary.                                                                  *)
MarkSignsFirst(ns) ==
    [i \in DOMAIN ns |-> IF i = 1 /\ ns[i].op \in {"+", "-"} THEN [ns[i] EXCEPT !.op = "u" \o @] ELSE ns[i]]
(* A sign in front is unary, one behind a variable or a name is not.       *)
MarkSigns(ns) ==
    [i \in DOMAIN ns |->
        IF i = 1 /\ ns[i].op \in {"+", "-"} THEN [ns[i] EXCEPT !.op = "u" \o @]
        ELSE IF i > 1 /\ ns[i].op \in {"u+", "u-"} /\ ns[i - 1].code \in {"variable", "literal"}
        THEN [ns[i] EXCEPT !.op = IF @ = "u+" THEN "+" ELSE "-"] ELSE ns[i]]

(* Each kind of bracket is counted for itself: none closes before it opens *)
(* and all are closed at the end.                                          *)
Pairs2 == {<<"LPAREN", "RPAREN">>, <<"OSB", "CSB">>, <<"OCB", "CCB">>}
Counted(ns) ==
    LET Question(n) == n.op = "?"
        Colon(n) == "COLON" \in n.ty
        Balance(i, T(_), U(_)) == CountWhere(ns, i, T) - CountWhere(ns, i, U)
        Kind(p, i) == LET T(n) == p[1] \in n.ty
                          U(n) == p[2] \in n.ty
                      IN  Balance(i, T, U)
    IN  /\ \A i \in DOMAIN ns : Balance(i, Question, Colon) >= 0 /\ \A p \in Pairs2 : Kind(p, i) >= 0
        /\ Balance(Len(ns), Question, Colon) = 0 /\ \A p \in Pairs2 : Kind(p, Len(ns)) = 0

ExprVerifyNodes(ns) ==
    LET marked == MarkCalls(MarkSigns(FoldLeft(MarkBraces, ns, [i \in DOMAIN ns |-> i])))
    IN  [ok |-> Counted(marked), ns |-> marked]

ExprIsModifiableValue(n, func) ==
    \/ n.op = "" /\ n.code = "variable"
    \/ n.op \in {"->", "::"}
    \/ n.op = "[" /\ (n.kids[1].op \in {"[", "->", "::"} \/ n.kids[1].code = "variable")
    \/ n.op = "call" /\ func

----------------------------------------------------------------------------
(* The passes over the nodes.  A pass goes through the array in one        *)
(* direction and knows the last place it has seen that holds a node.       *)

Result(ns, ok) == [ns |-> ns, ok |-> ok]
Pass(r, direction, Step3(_, _, _)) ==
    LET One(st, i) ==
            IF ~ st.ok \/ st.ns[i] = Null THEN st
            ELSE LET x == Step3(st.ns, i, st.seen) IN [ns |-> x.ns, ok |-> x.ok, seen |-> i]
        forth == [i \in DOMAIN r.ns |-> i]
    IN  IF r.ok THEN FoldLeft(One, [ns |-> r.ns, ok |-> TRUE, seen |-> 0], IF direction = "back" THEN Reverse(forth) ELSE forth)
        ELSE r
Placed(ns, i, n, gone) == LET c == Clear(ns, gone) IN Take(c, i - 1) \o <<n>> \o Drop(c, i)
WithKids(ns, i, kids) == [ns[i] EXCEPT !.kids = <<>> \o [k \in DOMAIN kids |-> ns[kids[k]]]]
Link(ns, i, kids) == Result(Placed(ns, i, WithKids(ns, i, kids), ToSet(kids)), TRUE)

NewClone(ns, i, seen) ==
    LET j == After(ns, i)
        operand == ns[j]
    IN  IF ~ At2(ns[i], 1) THEN Result(ns, TRUE)
        ELSE IF j = 0 \/ ~ IsTerm(operand) THEN Result(ns, FALSE)
        ELSE IF operand.op = "" /\ operand.code \notin
                  IF ns[i].op = "clone" THEN {"variable"} ELSE {"variable", "literal", "simplestring"}
        THEN Result(ns, FALSE) ELSE Link(ns, i, <<j>>)

Steppable(n) == n.op \in Levels[2] \/ (n.op = "" /\ n.code = "variable")
PostStep(ns, i, seen) ==
    IF At2(ns[i], 3) /\ seen # 0 /\ Steppable(ns[seen]) THEN Link(ns, i, <<seen>>) ELSE Result(ns, TRUE)
PreStep(ns, i, seen) ==
    IF ~ At2(ns[i], 3) THEN Result(ns, TRUE)
    ELSE IF seen = 0 \/ ~ Steppable(ns[seen]) THEN Result(ns, FALSE)
    ELSE Result(Placed(ns, i, [WithKids(ns, i, <<seen>>) EXCEPT !.pre = TRUE], {seen}), TRUE)

Unary(ns, i, seen) ==
    IF ~ At2(ns[i], 4) THEN Result(ns, TRUE)
    ELSE [Link(ns, i, IF seen = 0 THEN <<>> ELSE <<seen>>) EXCEPT !.ok =
            seen # 0 /\ (ns[seen].op = "" \/ Prec(ns[seen].op) <= 4 \/ (Linked(ns[seen]) /\ Len(ns[seen].kids) > 1))]

(* The kids of =& are swapped, as those of an assignment are.              *)
RefAllowed(left, right) ==
    /\ ExprIsModifiableValue(left, FALSE) /\ left.op \notin {"->", "::"}
    /\ left.op = "[" \/ ExprIsModifiableValue(right, TRUE) \/ right.op \in {"new", "clone"}
Binary(p, ns, i, seen) ==
    LET j == After(ns, i)
    IN  IF ~ At2(ns[i], p) THEN Result(ns, TRUE)
        ELSE IF j = 0 \/ seen = 0 THEN Result(ns, FALSE)
        ELSE IF ~ IsTerm(ns[j]) \/ ~ IsTerm(ns[seen]) THEN Result(ns, FALSE)
        ELSE IF ns[i].op = "=&" THEN [Link(ns, i, <<j, seen>>) EXCEPT !.ok = RefAllowed(ns[seen], ns[j])]
        ELSE Link(ns, i, <<seen, j>>)
BinaryPasses(r, levels) ==
    LET One(st, p) == LET Step3(ns, i, seen) == Binary(p, ns, i, seen) IN Pass(st, "forth", Step3)
    IN  IF r.ok THEN FoldLeft(One, r, levels) ELSE r

Assignment(ns, i, seen) ==
    LET before == {j \in 1 .. i - 1 : ns[j] # Null}
        j == Max(before)
    IN  IF ~ At2(ns[i], 18) THEN Result(ns, TRUE)
        ELSE IF before = {} \/ seen = 0 THEN Result(ns, FALSE)
        ELSE IF ~ IsTerm(ns[j]) \/ ~ IsTerm(ns[seen]) THEN Result(ns, FALSE)
        ELSE [Link(ns, i, <<seen, j>>) EXCEPT !.ok =
                ExprIsModifiableValue(ns[j], FALSE) \/ (ns[i].op = "=" /\ ns[j].code = "list")]

(* What is left moves to the first place; there must be one node.          *)
ToRoot(r) ==
    LET One(st, i) ==
            IF ~ st.ok \/ st.ns[i] = Null THEN st
            ELSE Result(Placed(st.ns, 1, st.ns[i], {i}),
                        ~ ((st.ns[i].op # "" \/ st.ns[i].code # "") /\ st.ns[1] # Null))
    IN  IF r.ok THEN FoldLeft(One, r, [i \in 1 .. Len(r.ns) - 1 |-> i + 1]) ELSE r

----------------------------------------------------------------------------
(* The passes that build a part of the tree first: inside brackets, an     *)
(* index, the arguments of a call, and behind ? and :.                     *)
RECURSIVE ExprMakeTree(_)

(* Brackets that are neither a call nor an index go away.                  *)
RECURSIVE Enclosed(_, _, _)
Enclosed(r, open, close) ==
    LET at == {i \in DOMAIN r.ns : r.ns[i].ty = {open}}
        i == Min(at)
        j == ClosingOf(r.ns, i, {open}, {close})
        inner == ExprMakeTree(SubSeq(r.ns, i + 1, j - 1))
    IN  IF ~ r.ok \/ at = {} THEN r
        ELSE IF j > Len(r.ns) THEN Result(r.ns, FALSE)
        ELSE Enclosed(Result(SubSeq(r.ns, 1, i - 1) \o <<Null>> \o inner.ns \o <<Null>> \o Drop(r.ns, j), inner.ok),
                      open, close)

(* The arguments of a call, from place k on.  A comma is between two       *)
(* arguments when no bracket is open, the linked ones counted.             *)
RECURSIVE ExprProcessFuncArguments(_, _)
ExprProcessFuncArguments(ns, k) ==
    LET Opens(n) == n.ty \cap {"LPAREN", "OSB", "OCB"} # {}
        Closes(n) == n.ty \cap {"RPAREN", "CSB", "CCB"} # {}
        nest(j) == Cardinality({m \in k .. j - 1 : Opens(ns[m])}) - Cardinality({m \in k .. j - 1 : Closes(ns[m])})
        commas == {j \in k .. Len(ns) : "COMMA" \in ns[j].ty /\ ~ Linked(ns[j]) /\ nest(j) <= 0}
        end == IF commas = {} THEN Len(ns) + 1 ELSE Min(commas)
        piece == SubSeq(ns, k, end - 1)
        byref == Len(piece) = 2 /\ "AMPER" \in piece[1].ty /\ piece[2].code = "variable"
        tree == ExprMakeTree(IF byref THEN Clear(piece, {1}) ELSE piece)
        rest == IF end < Len(ns) THEN ExprProcessFuncArguments(ns, end + 1) ELSE [ok |-> end > Len(ns), args |-> <<>>]
    IN  IF piece = <<>> THEN [ok |-> FALSE, args |-> <<>>]
        ELSE [ok |-> tree.ok /\ tree.ns[1] # Null /\ rest.ok, args |-> <<tree.ns[1]>> \o rest.args]

WithArgs(ns, i, seen, j, args, ok) ==
    Result(Placed(ns, i, [WithKids(ns, i, <<seen>>) EXCEPT !.args = args], {seen} \cup (i + 1 .. j)), ok)
Call(ns, i, seen) ==
    LET Arguments(j) == IF j = i + 1 THEN [ok |-> TRUE, args |-> <<>>]
                        ELSE ExprProcessFuncArguments(SubSeq(ns, i + 1, j - 1), 1)
        Upto(j, a) == IF j > Len(ns) THEN Result(ns, FALSE) ELSE WithArgs(ns, i, seen, j, a.args, a.ok)
        To(j) == Upto(j, Arguments(j))
    IN  IF seen = 0 \/ ~ IsTerm(ns[seen]) THEN Result(ns, FALSE)
        ELSE To(ClosingOf(ns, i, {"LPAREN"}, {"RPAREN"}))
Subscript(ns, i, seen) ==
    LET Opens(n) == n.op = "[" /\ ~ Linked(n)
        Closes(n) == "CSB" \in n.ty
        To(j, index) == WithArgs(ns, i, seen, j, IF j > i + 1 THEN <<index.ns[1]>> ELSE <<>>, index.ok)
        Upto(j) == To(j, ExprMakeTree(SubSeq(ns, i + 1, j - 1)))
    IN  IF seen = 0 \/ ~ (ns[seen].op \in Levels[2] \/
              (ns[seen].op = "" /\ ns[seen].code \in {"variable", "simplestring", "string"})) THEN Result(ns, FALSE)
        ELSE Upto(Closing(ns, i, Opens, Closes))
Member(ns, i, seen) ==
    LET j == After(ns, i)
    IN  IF j = 0 \/ seen = 0 THEN Result(ns, FALSE)
        ELSE IF ~ IsTerm(ns[j]) \/ ~ IsTerm(ns[seen]) THEN Result(ns, FALSE)
        ELSE [Link(ns, i, <<seen, j>>) EXCEPT !.ok =
                ns[i].op = "::" \/ ns[seen].op # "" \/ ns[seen].code = "variable"]
Postfix(ns, i, seen) ==
    CASE ~ At2(ns[i], 2) -> Result(ns, TRUE)
      [] ns[i].op = "call" -> Call(ns, i, seen)
      [] ns[i].op = "[" -> Subscript(ns, i, seen)
      [] OTHER -> Member(ns, i, seen)

(* Only the first ? of the array is taken; what is behind its colon is all *)
(* that is left.                                                           *)
Ternary(r) ==
    LET at == {i \in DOMAIN r.ns : At2(r.ns[i], 17)}
        i == Min(at)
        seen == {k \in 1 .. i - 1 : r.ns[k] # Null}
        Opens(n) == n.op = "?" /\ Len(n.kids) < 3
        Closes(n) == "COLON" \in n.ty
        j == Closing(r.ns, i, Opens, Closes)
        yes == ExprMakeTree(SubSeq(r.ns, i + 1, j - 1))
        no == ExprMakeTree(Drop(r.ns, j))
        cond == r.ns[Max(seen)]
    IN  IF ~ r.ok \/ at = {} THEN r
        ELSE IF seen = {} \/ j = i + 1 \/ j >= Len(r.ns) THEN Result(r.ns, FALSE)
        ELSE Result(Placed(r.ns, i, [r.ns[i] EXCEPT !.kids = <<yes.ns[1], no.ns[1], cond>>],
                           (i + 1 .. Len(r.ns)) \cup {Max(seen)}),
                    IsTerm(cond) /\ yes.ok /\ no.ok)

ExprMakeTree(ns) ==
    IF ns = <<>> \/ (Len(ns) = 1 /\ ns[1].code # "") THEN Result(ns, TRUE)
    ELSE LET parens == Enclosed(Enclosed(Result(ns, TRUE), "LPAREN", "RPAREN"), "OCB", "CCB")
             postfix == Pass(Pass(parens, "forth", Postfix), "forth", NewClone)
             unary == Pass(Pass(Pass(postfix, "forth", PostStep), "back", PreStep), "back", Unary)
             binary == Ternary(BinaryPasses(unary, [k \in 1 .. 10 |-> k + 6]))
         IN  ToRoot(BinaryPasses(Pass(binary, "back", Assignment), [k \in 1 .. 4 |-> k + 18]))

(* The root is Null for an empty expression.                               *)
PH7_ExprMakeTree(toks) ==
    LET Root(tree) == [ok |-> tree.ok, root |-> tree.ns[1]]
        Checked(v) == IF v.ok THEN Root(ExprMakeTree(v.ns)) ELSE [ok |-> FALSE, root |-> Null]
        Read(x) == IF x.ok /\ x.ns # <<>> THEN Checked(ExprVerifyNodes(x.ns)) ELSE [ok |-> x.ok, root |-> Null]
    IN  Read(ExprExtractNode(toks))
=============================================================================
