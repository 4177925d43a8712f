------------------------------ MODULE Compiler ------------------------------
(***************************************************************************)
(* The code generator of compile.c: how the statements and expressions of  *)
(* a script become byte-code containers, with the stack of blocks          *)
(* (GenBlock) on which break, continue, throw and the loops record the     *)
(* forward jumps that are fixed once their destination is known.           *)
(*                                                                         *)
(* The tokens of a script are abstracted to the tree they denote: a        *)
(* statement is a record [k |-> "while", c |-> ..., body |-> ...], an      *)
(* expression a record [e |-> "lt", l |-> ..., r |-> ...].  An instruction *)
(* is [op, p1, p2, p3] as VmInstr: iOp, iP1, iP2 (a jump destination,      *)
(* counted from 0) and p3 (a name, or the index of a foreach, try or       *)
(* switch descriptor).                                                     *)
(***************************************************************************)
EXTENDS Integers, Sequences, FiniteSets, SequencesExt

AnyJump == "any"

(* The generator: code[i] is the byte-code container number i and cur the  *)
(* one PH7_VmEmitInstr appends to; blocks is the stack of GenBlock, the    *)
(* global block at the bottom.                                             *)
NewGenState ==
    [code |-> << <<>> >>, cur |-> 1,
     blocks |-> << [fl |-> {"GLOBAL"}, first |-> 0, fix |-> <<>>, cont |-> <<>>,
                    post |-> FALSE, func |-> 0] >>,
     gotos |-> <<>>, labels |-> <<>>, errs |-> 0,
     funcs |-> <<>>, tries |-> <<>>, switches |-> <<>>, loops |-> <<>>]

CompileError(g) == [g EXCEPT !.errs = @ + 1]

----------------------------------------------------------------------------
(* Instructions                                                            *)

Here(g) == Len(g.code[g.cur])

Emit(g, op, p1, p2, p3) ==
    [g EXCEPT !.code[g.cur] = Append(@, [op |-> op, p1 |-> p1, p2 |-> p2, p3 |-> p3])]

LastInstr(g) == Last(g.code[g.cur])

PopInstr(g) == [g EXCEPT !.code[g.cur] = Front(@)]

(* PH7_VmGetInstr looks the index up in the container that is current, and *)
(* answers NULL when it is not there.                                      *)
SetDest(g, at, dest) ==
    IF at < Here(g) THEN [g EXCEPT !.code[g.cur][at + 1].p2 = dest] ELSE g

(* An expression or a body compiled into a container of its own.           *)
NewContainer(g) == [g EXCEPT !.code = Append(@, <<>>), !.cur = Len(g.code) + 1]

SwapContainer(g, c) == [g EXCEPT !.cur = c]

----------------------------------------------------------------------------
(* Blocks and jumps                                                        *)

Top(g) == Len(g.blocks)

EnterBlock(g, flags, func) ==
    [g EXCEPT !.blocks = Append(@, [fl |-> flags, first |-> Here(g), fix |-> <<>>,
                                    cont |-> <<>>, post |-> FALSE, func |-> func])]

LeaveBlock(g) == [g EXCEPT !.blocks = Front(@)]

FetchBlockUnprotected(g, types, count) ==   (* Mutation: the walk does not stop at a function. *)
    LET Matches == {d \in 1 .. Top(g) : g.blocks[d].fl \cap types # {}}
        nth == IF count < 1 THEN 1 ELSE count
        found == {d \in Matches : Cardinality({e \in Matches : e >= d}) = nth}
    IN  IF found = {} THEN 0 ELSE CHOOSE d \in found : TRUE

(* The count-th block of one of the types, from the innermost block out;   *)
(* the search ends below a function: 0 when there is none.                 *)
FetchBlock(g, types, count) ==
    LET Reached(d) == \A e \in d .. Top(g) - 1 :
                         g.blocks[e].fl \cap {"PROTECTED", "FUNC"} = {}
        Matches == {d \in 1 .. Top(g) : g.blocks[d].fl \cap types # {} /\ Reached(d)}
        nth == IF count < 1 THEN 1 ELSE count
        found == {d \in Matches : Cardinality({e \in Matches : e >= d}) = nth}
    IN  IF found = {} THEN 0 ELSE CHOOSE d \in found : TRUE

(* The innermost block of one of the types, whatever is in between; the    *)
(* global block when there is none.                                        *)
Enclosing(g, types) ==
    LET found == {d \in 1 .. Top(g) : g.blocks[d].fl \cap types # {}}
    IN  IF found = {} THEN 1 ELSE CHOOSE d \in found : \A e \in found : e <= d

NewJumpFixup(g, d, op, at) ==
    [g EXCEPT !.blocks[d].fix = Append(@, [op |-> op, at |-> at])]

(* Emit a jump whose destination block d will know later.                  *)
EmitJump(g, d, op, p1, p3) == NewJumpFixup(Emit(g, op, p1, 0, p3), d, op, Here(g))

(* Fix the pending jumps of one type of block d (or all), in whatever      *)
(* container is current; a fixed jump leaves the table.                    *)
FixJumps(g, d, op, dest) ==
    LET Wanted(f) == op \in {AnyJump, f.op} /\ f.at < Here(g)
        fix == g.blocks[d].fix
        Patch(h, f) == IF Wanted(f) THEN SetDest(h, f.at, dest) ELSE h
        patched == FoldLeft(Patch, g, fix)
    IN  [patched EXCEPT !.blocks[d].fix = SelectSeq(fix, LAMBDA f : ~ Wanted(f))]

(* The jumps of continue in a loop whose test or step follows the body.    *)
FixPostContinue(g, d) ==
    LET Patch(h, at) == SetDest(h, at, Here(g))
    IN  FoldLeft(Patch, g, g.blocks[d].cont)

(* The first label of that name, wherever it was defined.                  *)
FixGoto(g, offset) ==
    LET Resolve(h, j) ==
          LET found == {i \in DOMAIN h.labels : h.labels[i].name = j.name}
              l == h.labels[CHOOSE i \in found : \A m \in found : i <= m]
              h1 == IF l.func # j.func THEN CompileError(h) ELSE h
          IN  IF found = {} THEN CompileError(h) ELSE SetDest(h1, j.at, l.dest)
    IN  FoldLeft(Resolve, g, SubSeq(g.gotos, offset + 1, Len(g.gotos)))

----------------------------------------------------------------------------
(* Expressions: GenStateEmitExprCode.  ro is EXPR_FLAG_RDONLY_LOAD.        *)

RECURSIVE Expr(_, _, _)

ExprList(g, es, ro) == FoldLeft(LAMBDA h, e : Expr(h, e, ro), g, es)

CompileTernary(g, e, ro) ==
    LET g1 == Expr(g, e.c, ro)
        g2 == Expr(Emit(g1, "JZ", 0, 0, ""), e.l, ro)
        g3 == SetDest(Emit(g2, "JMP", 0, 0, ""), Here(g1), Here(g2) + 1)
        g4 == Expr(g3, e.r, ro)
    IN  SetDest(g4, Here(g2), Here(g4))

(* && and || jump over their right operand and keep the left value.        *)
CompileLogical(g, e, ro) ==
    LET g1 == Expr(g, e.l, ro)
        g2 == Emit(g1, IF e.e = "and" THEN "JZ" ELSE "JNZ", 1, 0, "")
        g3 == Emit(Expr(g2, e.r, ro), IF e.e = "and" THEN "LAND" ELSE "LOR", 0, 0, "")
    IN  SetDest(g3, Here(g1), Here(g3))

(* The arguments, then the name of the function as a constant, then CALL.  *)
CompileCall(g, e) ==
    LET g1 == Emit(ExprList(g, e.args, TRUE), "LOADC", 0, 0, <<"fn", e.f>>)
    IN  Emit(g1, "CALL", Len(e.args), 0, "")

(* The value, the variable as a LOAD that STORE replaces.                  *)
CompileAssign(g, e, ro) ==
    LET g1 == Emit(Expr(g, e.r, ro), "LOAD", IF ro THEN 1 ELSE 0, 0, e.x)
    IN  Emit(PopInstr(g1), "STORE", 0, 0, LastInstr(g1).p3)

CompileArray(g, es, ro) ==
    LET Pair(h, e) == Expr(Emit(h, "LOADC", 0, 0, <<"null", 0>>), e, ro)
    IN  Emit(FoldLeft(Pair, g, es), "LOAD_MAP", 2 * Len(es), 0, "")

Expr(g, e, ro) ==
    CASE e.e = "const"        -> Emit(g, "LOADC", 0, 0, e.v)
      [] e.e = "var"          -> Emit(g, "LOAD", IF ro THEN 1 ELSE 0, 0, e.x)
      [] e.e = "set"          -> CompileAssign(g, e, ro)
      [] e.e = "incr"         -> Emit(Emit(g, "LOAD", IF ro THEN 1 ELSE 0, 0, e.x), "INCR", 0, 0, "")
      [] e.e \in {"add", "lt"} -> Emit(Expr(Expr(g, e.l, ro), e.r, ro),
                                       IF e.e = "add" THEN "ADD" ELSE "LT", 0, 0, "")
      [] e.e \in {"and", "or"} -> CompileLogical(g, e, ro)
      [] e.e = "cond"         -> CompileTernary(g, e, ro)
      [] e.e = "comma"        -> Expr(Emit(Expr(g, e.l, ro), "POP", 1, 0, ""), e.r, ro)
      [] e.e = "array"        -> CompileArray(g, e.es, ro)
      [] e.e = "call"         -> CompileCall(g, e)
      [] e.e = "new"          -> Emit(Emit(g, "LOADC", 0, 0, <<"class", e.class>>), "NEW", 0, 0, "")

(* An expression in a container of its own that answers its value; the     *)
(* result is the generator back in the container it came from.             *)
ExprContainer(g, e) ==
    SwapContainer(Emit(Expr(NewContainer(g), e, FALSE), "DONE", 1, 0, ""), g.cur)

----------------------------------------------------------------------------
(* Statements                                                              *)

RECURSIVE Stmt(_, _)

Stmts(g, ss) == FoldLeft(Stmt, g, ss)

(* A { } block, or a body between ':' and its end keyword.                 *)
CompileBlock(g, ss) == LeaveBlock(Stmts(EnterBlock(g, {"STD"}, 0), ss))

CompileEcho(g, s) ==
    FoldLeft(LAMBDA h, e : Emit(Expr(h, e, TRUE), "CONSUME", 1, 0, ""), g, s.es)

(* The text outside <?php ... ?>: every chunk, then one CONSUME.           *)
CompileRaw(g, s) ==
    Emit(FoldLeft(LAMBDA h, v : Emit(h, "LOADC", 0, 0, v), g, s.vs),
         "CONSUME", Len(s.vs), 0, "")

CompileExprStmtKeeps(g, s) == Expr(g, s.x, FALSE)   (* Mutation: the value is not popped. *)

CompileExprStmt(g, s) == Emit(Expr(g, s.x, FALSE), "POP", 1, 0, "")

CompileWhile(g, s) ==
    LET g1 == EnterBlock(g, {"LOOP"}, 0)
        d  == Top(g1)
        g2 == CompileBlock(EmitJump(Expr(g1, s.c, FALSE), d, "JZ", 0, ""), s.body)
        g3 == Emit(g2, "JMP", 0, g2.blocks[d].first, "")
    IN  LeaveBlock(FixJumps(g3, d, AnyJump, Here(g3)))

PostContinueLoop(g) ==
    LET g1 == EnterBlock(g, {"LOOP"}, 0)
    IN  [g1 EXCEPT !.blocks[Top(g1)].post = TRUE]

CompileDoWhile(g, s) ==
    LET g1 == PostContinueLoop(g)
        d  == Top(g1)
        g2 == CompileBlock(g1, s.body)
        g3 == Expr(FixPostContinue(g2, d), s.c, FALSE)
        g4 == Emit(g3, "JNZ", 0, g3.blocks[d].first, "")
    IN  LeaveBlock(FixJumps(g4, d, AnyJump, Here(g4)))

CompileForNoPost(g, s) ==    (* Mutation: continue goes back to the test without the step. *)
    LET Optional(h, es) == IF es = <<>> THEN h ELSE Emit(Expr(h, es[1], FALSE), "POP", 1, 0, "")
        g1 == PostContinueLoop(Optional(g, s.init))
        d  == Top(g1)
        g2 == IF s.c = <<>> THEN g1
              ELSE EmitJump(Expr(g1, s.c[1], FALSE), d, "JZ", 0, "")
        g4 == Optional(CompileBlock(g2, s.body), s.step)
        g5 == Emit(g4, "JMP", 0, g4.blocks[d].first, "")
    IN  LeaveBlock(FixJumps(g5, d, AnyJump, Here(g5)))

(* for (init; c; step): each of the three may be absent (<<>>).            *)
CompileFor(g, s) ==
    LET Optional(h, es) == IF es = <<>> THEN h ELSE Emit(Expr(h, es[1], FALSE), "POP", 1, 0, "")
        g1 == PostContinueLoop(Optional(g, s.init))
        d  == Top(g1)
        g2 == IF s.c = <<>> THEN g1
              ELSE EmitJump(Expr(g1, s.c[1], FALSE), d, "JZ", 0, "")
        g3 == CompileBlock(g2, s.body)
        g4 == Optional(FixPostContinue(g3, d), s.step)
        g5 == Emit(g4, "JMP", 0, g4.blocks[d].first, "")
    IN  LeaveBlock(FixJumps(g5, d, AnyJump, Here(g5)))

(* The array expression lies inside the loop block; key "" when absent.    *)
CompileForeach(g, s) ==
    LET g1 == EnterBlock(g, {"LOOP"}, 0)
        d  == Top(g1)
        g2 == Expr(g1, s.arr, FALSE)
        n  == Len(g2.loops) + 1
        g3 == EmitJump([g2 EXCEPT !.loops = Append(@, [key |-> s.key, val |-> s.val])],
                       d, "FOREACH_INIT", 0, n)
        g4 == EmitJump([g3 EXCEPT !.blocks[d].first = Here(g3)], d, "FOREACH_STEP", 0, n)
        g5 == CompileBlock(g4, s.body)
        g6 == Emit(g5, "JMP", 0, g5.blocks[d].first, "")
    IN  LeaveBlock(FixJumps(g6, d, AnyJump, Here(g6)))

(* The branches of if/elseif are [c, body]; alt is the body of else, or    *)
(* <<>> when there is none.                                                *)
CompileIf(g, s) ==
    LET g1 == EnterBlock(g, {"COND"}, 0)
        d  == Top(g1)
        More(i) == i < Len(s.brs) \/ s.alt # <<>>
        Branch(h, i) ==
          LET h1 == EmitJump(Expr(h, s.brs[i].c, FALSE), d, "JZ", 0, "")
              h2 == CompileBlock(h1, s.brs[i].body)
              h3 == IF More(i) THEN EmitJump(h2, d, "JMP", 0, "") ELSE h2
          IN  FixJumps(h3, d, "JZ", Here(h3))
        g2 == FoldLeft(Branch, g1, [i \in DOMAIN s.brs |-> i])
        g3 == IF s.alt = <<>> THEN g2 ELSE CompileBlock(g2, s.alt)
    IN  LeaveBlock(FixJumps(g3, d, "JMP", Here(g3)))

(* Every case expression is a container of its own; dft tells the default  *)
(* block.                                                                  *)
CompileSwitch(g, s) ==
    LET g1 == EnterBlock(g, {"LOOP", "SWITCH"}, 0)
        d  == Top(g1)
        n  == Len(g1.switches) + 1
        g2 == Emit([Expr(g1, s.x, FALSE) EXCEPT
                       !.switches = Append(@, [cases |-> <<>>, dft |-> 0, out |-> 0])],
                   "SWITCH", 0, 0, n)
        Default(h, c) == Stmts([h EXCEPT !.switches[n].dft = Here(h)], c.body)
        Case(h, c) ==
          LET h1 == ExprContainer(h, c.v)
              h2 == Stmts(h1, c.body)
          IN  [h2 EXCEPT !.switches[n].cases =
                    Append(@, [cont |-> Len(h.code) + 1, start |-> Here(h1)])]
        g3 == FoldLeft(LAMBDA h, c : IF c.dft THEN Default(h, c) ELSE Case(h, c), g2, s.cases)
    IN  LeaveBlock(FixJumps([g3 EXCEPT !.switches[n].out = Here(g3)], d, AnyJump, Here(g3)))

(* break and continue: level n, 0 when it is not written or below 2.       *)
Level(s) == IF s.n < 2 THEN 0 ELSE s.n

CompileBreak(g, s) ==
    LET d == FetchBlock(g, {"LOOP"}, Level(s))
    IN  IF d = 0 THEN CompileError(g) ELSE EmitJump(g, d, "JMP", 0, "")

CompileContinue(g, s) ==
    LET d == FetchBlock(g, {"LOOP"}, Level(s))
        jump == Emit(g, "JMP", 0, g.blocks[d].first, "")
    IN  IF d = 0 THEN CompileError(g)
        ELSE IF "SWITCH" \in g.blocks[d].fl THEN EmitJump(g, d, "JMP", 0, "")
        ELSE IF g.blocks[d].post
             THEN [jump EXCEPT !.blocks[d].cont = Append(@, Here(g))]
             ELSE jump

CompileLabel(g, s) ==
    IF FetchBlock(g, {"LOOP", "EXCEPTION"}, 0) # 0 THEN CompileError(g)
    ELSE [g EXCEPT !.labels =
            Append(@, [name |-> s.name, dest |-> Here(g),
                       func |-> g.blocks[Enclosing(g, {"FUNC", "EXCEPTION"})].func])]

CompileGoto(g, s) ==
    LET d == Enclosing(g, {"FUNC", "EXCEPTION"})
        g1 == IF "EXCEPTION" \in g.blocks[d].fl THEN CompileError(g) ELSE g
        jump == [name |-> s.name, at |-> Here(g), func |-> g.blocks[d].func]
    IN  [Emit(g1, "JMP", 0, 0, "") EXCEPT !.gotos = Append(@, jump)]

CompileReturn(g, s) ==
    IF s.x = <<>> THEN Emit(g, "DONE", 0, 0, "")
    ELSE Emit(Expr(g, s.x[1], FALSE), "DONE", 1, 0, "")

CompileHalt(g, s) ==
    IF s.x = <<>> THEN Emit(g, "HALT", 0, 0, "")
    ELSE Emit(Expr(g, s.x[1], FALSE), "HALT", 1, 0, "")

(* global $a, $b: the names, then one UPLINK.                              *)
CompileGlobal(g, s) ==
    Emit(FoldLeft(LAMBDA h, x : Emit(h, "LOADC", 0, 0, <<"name", x>>), g, s.xs),
         "UPLINK", Len(s.xs), 0, "")

(* static in a function is recorded with the function, and installed when  *)
(* it is called; outside it is a plain variable.                           *)
CompileStatic(g, s) ==
    LET d == Enclosing(g, {"FUNC"})
        g1 == ExprContainer(g, s.init)
    IN  IF d = 1 THEN CompileExprStmt(g, [x |-> [e |-> "set", x |-> s.name, r |-> s.init]])
        ELSE [g1 EXCEPT !.funcs[g1.blocks[d].func].statics =
                Append(@, [name |-> s.name, cont |-> Len(g.code) + 1])]

CompileThrow(g, s) ==
    EmitJump(Expr(g, s.x, FALSE), Enclosing(g, {"EXCEPTION", "FUNC"}), "THROW", 0, "")

CompileCatch(n, g, c) ==
    LET g1 == NewContainer(EnterBlock(g, {"EXCEPTION"}, 0))
        d  == Top(g1)
        g2 == CompileBlock(g1, c.body)
        g3 == Emit(FixJumps(g2, d, AnyJump, Here(g2)), "DONE", 0, 0, "")
    IN  [SwapContainer(LeaveBlock(g3), g.cur) EXCEPT
            !.tries[n] = Append(@, [class |-> c.class, var |-> c.var, cont |-> g1.cur])]

(* The exceptions thrown in the block land on POP_EXCEPTION.               *)
CompileTry(g, s) ==
    LET n  == Len(g.tries) + 1
        g1 == EnterBlock([g EXCEPT !.tries = Append(@, <<>>)], {"EXCEPTION"}, 0)
        d  == Top(g1)
        g2 == CompileBlock(EmitJump(g1, d, "LOAD_EXCEPTION", 0, n), s.body)
        g3 == LeaveBlock(Emit(FixJumps(g2, d, AnyJump, Here(g2)), "POP_EXCEPTION", 0, 0, n))
    IN  IF s.catches = <<>> THEN CompileError(g3)
        ELSE FoldLeft(LAMBDA h, c : CompileCatch(n, h, c), g3, s.catches)

(* A formal argument and its default value, compiled apart; def is <<>>    *)
(* when there is none.                                                     *)
CollectArg(n, g, a) ==
    LET arg(c) == [name |-> a.name, cont |-> c]
    IN  IF a.def = <<>> THEN [g EXCEPT !.funcs[n].args = Append(@, arg(0))]
        ELSE [ExprContainer(g, a.def[1]) EXCEPT
                !.funcs[n].args = Append(@, arg(Len(g.code) + 1))]

CompileFuncBody(n, g, body) ==
    LET g1 == NewContainer(EnterBlock(g, {"PROTECTED", "FUNC"}, n))
        d  == Top(g1)
        g2 == CompileBlock(g1, body)
        g3 == Emit(FixJumps(g2, d, "THROW", Here(g2)), "DONE", 0, 0, "")
        g4 == FixGoto(g3, Len(g.gotos))
        g5 == [g4 EXCEPT !.gotos = SubSeq(@, 1, Len(g.gotos)),
                         !.funcs[n].cont = g1.cur]
    IN  LeaveBlock(SwapContainer(g5, g.cur))

CompileFunction(g, s) ==
    LET n  == Len(g.funcs) + 1
        g1 == [g EXCEPT !.funcs = Append(@, [name |-> s.name, args |-> <<>>,
                                             statics |-> <<>>, cont |-> 0])]
        g2 == FoldLeft(LAMBDA h, a : CollectArg(n, h, a), g1, s.args)
    IN  CompileFuncBody(n, g2, s.body)

(* The table of statement handlers (aLangConstruct).                       *)
Stmt(g, s) ==
    CASE s.k = "echo"     -> CompileEcho(g, s)
      [] s.k = "raw"      -> CompileRaw(g, s)
      [] s.k = "expr"     -> CompileExprStmt(g, s)
      [] s.k = "block"    -> CompileBlock(g, s.body)
      [] s.k = "while"    -> CompileWhile(g, s)
      [] s.k = "do"       -> CompileDoWhile(g, s)
      [] s.k = "for"      -> CompileFor(g, s)
      [] s.k = "foreach"  -> CompileForeach(g, s)
      [] s.k = "if"       -> CompileIf(g, s)
      [] s.k = "switch"   -> CompileSwitch(g, s)
      [] s.k = "break"    -> CompileBreak(g, s)
      [] s.k = "continue" -> CompileContinue(g, s)
      [] s.k = "label"    -> CompileLabel(g, s)
      [] s.k = "goto"     -> CompileGoto(g, s)
      [] s.k = "return"   -> CompileReturn(g, s)
      [] s.k = "halt"     -> CompileHalt(g, s)
      [] s.k = "global"   -> CompileGlobal(g, s)
      [] s.k = "static"   -> CompileStatic(g, s)
      [] s.k = "throw"    -> CompileThrow(g, s)
      [] s.k = "try"      -> CompileTry(g, s)
      [] s.k = "function" -> CompileFunction(g, s)

(* A whole script: the statements, the pending throws and gotos of the     *)
(* global block, and the DONE of PH7_VmMakeReady.                          *)
CompileScript(ss) ==
    LET g1 == Stmts(NewGenState, ss)
        g2 == FixJumps(g1, 1, "THROW", Here(g1))
    IN  Emit(FixGoto(g2, 0), "DONE", 0, 0, "")
=============================================================================
