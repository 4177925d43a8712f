----------------------------- MODULE MCPrograms -----------------------------
(* The scripts VmExec runs: families that combine every kind of loop with   *)
(* every jump out of it, switches, calls, and exceptions.                   *)
EXTENDS VmExec, Compiler, ScriptMeaning

N(k) == [e |-> "const", v |-> <<"int", k>>]
V(x) == [e |-> "var", x |-> x]
Set(x, r) == [e |-> "set", x |-> x, r |-> r]
Inc(x) == [e |-> "incr", x |-> x]
Op(op, l, r) == [e |-> op, l |-> l, r |-> r]
Cond(c, l, r) == [e |-> "cond", c |-> c, l |-> l, r |-> r]
Arr(es) == [e |-> "array", es |-> es]
Fun(f, args) == [e |-> "call", f |-> f, args |-> args]
Obj(class) == [e |-> "new", class |-> class]

Do(x) == [k |-> "expr", x |-> x]
Echo(x) == [k |-> "echo", es |-> <<x>>]
Say(n) == Echo(N(n))
While(c, body) == [k |-> "while", c |-> c, body |-> body]
DoWhile(body, c) == [k |-> "do", c |-> c, body |-> body]
For(x, from, to, body) ==
    [k |-> "for", init |-> <<Set(x, N(from))>>, c |-> <<Op("lt", V(x), N(to))>>,
     step |-> <<Inc(x)>>, body |-> body]
Foreach(a, x, body) == [k |-> "foreach", arr |-> a, key |-> "", val |-> x, body |-> body]
If(c, body) == [k |-> "if", brs |-> <<[c |-> c, body |-> body]>>, alt |-> <<>>]
Switch(x, cases) == [k |-> "switch", x |-> x, cases |-> cases]
Case(n, body) == [dft |-> FALSE, v |-> N(n), body |-> body]
Default(body) == [dft |-> TRUE, body |-> body]
Brk(n) == [k |-> "break", n |-> n]
Cnt(n) == [k |-> "continue", n |-> n]
Ret(x) == [k |-> "return", x |-> <<x>>]
Exit == [k |-> "halt", x |-> <<>>]
Thr(class) == [k |-> "throw", x |-> Obj(class)]
Try(body, catches) == [k |-> "try", body |-> body, catches |-> catches]
Catch(class, body) == [class |-> class, var |-> "e", body |-> body]
Func(f, args, body) == [k |-> "function", name |-> f, args |-> args, body |-> body]
Arg(x) == [name |-> x, def |-> <<>>]
ArgDef(x, d) == [name |-> x, def |-> <<d>>]
Label(l) == [k |-> "label", name |-> l]
Goto(l) == [k |-> "goto", name |-> l]

(* Three rounds of a loop of some kind; the variable counts them.           *)
LoopOf(kind, x, body) ==
    CASE kind = "while"   -> <<Do(Set(x, N(0))), While(Op("lt", Inc(x), N(2)), body)>>
      [] kind = "do"      -> <<Do(Set(x, N(0))), DoWhile(body, Op("lt", Inc(x), N(2)))>>
      [] kind = "for"     -> <<For(x, 1, 3, body)>>
      [] kind = "foreach" -> <<Foreach(Arr(<<N(1), N(3)>>), x, body)>>

Kinds == <<"while", "do", "for", "foreach">>
Jumps == << <<>>, <<Brk(1)>>, <<Brk(2)>>, <<Cnt(1)>>, <<Cnt(2)>> >>
Pairs(S, T) == FlattenSeq([i \in DOMAIN S |-> [j \in DOMAIN T |-> <<S[i], T[j]>>]])
Plain(body) == [body |-> body, handler |-> ""]

(* A loop in a loop, and a jump in the inner one.                           *)
Nested(outer, inner, jump) ==
    LoopOf(outer, "i",
           <<Echo(V("i"))>> \o
           LoopOf(inner, "j", <<If(Op("lt", V("j"), V("i")), jump), Say(7)>>) \o <<Say(8)>>)
    \o <<Say(9)>>

NestedLoops ==
    [p \in DOMAIN Pairs(Pairs(Kinds, Kinds), Jumps) |->
        LET q == Pairs(Pairs(Kinds, Kinds), Jumps)[p]
        IN  Plain(Nested(q[1][1], q[1][2], q[2]))]

(* A switch in a loop: the default first, in the middle, last or absent,    *)
(* and the first case with each jump or none (fall through).                *)
Cases(at, jump) ==
    LET c == <<Case(1, <<Say(1)>> \o jump), Case(2, <<Say(2)>>)>>
        d == <<Default(<<Say(3)>>)>>
    IN  SubSeq(c, 1, at) \o d \o SubSeq(c, at + 1, 2)
Switches ==
    [p \in DOMAIN Pairs(<<0, 1, 2>>, Jumps) |->
        LET q == Pairs(<<0, 1, 2>>, Jumps)[p]
        IN  Plain(LoopOf("for", "i", <<Switch(V("i"), Cases(q[1], q[2])), Say(8)>>)
                  \o LoopOf("for", "i", <<Switch(V("i"), <<Case(1, <<Say(4), Brk(1)>>)>>)>>))]

(* Calls: defaults, an argument left out in front of one given, statics,    *)
(* recursion up to the limit, a function that is not there, a callback.     *)
CallScripts == <<
    Plain(<<Func("f", <<Arg("a"), ArgDef("b", N(4))>>, <<Ret(Op("add", V("a"), V("b")))>>),
            Echo(Fun("f", <<N(1)>>)), Echo(Fun("f", <<N(1), N(2)>>)),
            Echo(Op("add", N(1), Fun("f", <<Fun("f", <<N(1), N(1)>>), V("none")>>))),
            Echo(Fun("f", <<N(1), N(2), N(3)>>)), Echo(Fun("nothing", <<N(1)>>))>>),
    Plain(<<Func("s", <<>>, <<[k |-> "static", name |-> "n", init |-> N(5)],
                              Do(Inc("n")), Ret(V("n"))>>),
            Do(Fun("s", <<>>)), Do(Fun("s", <<>>)), Echo(Fun("s", <<>>)),
            Echo(Fun("call_user_func", <<[e |-> "const", v |-> <<"fn", "s">>]>>))>>),
    Plain(<<Func("r", <<Arg("n")>>,
                 <<If(Op("lt", N(0), V("n")),
                      <<Echo(V("n")), Do(Fun("r", <<Op("add", V("n"), N(-1))>>)), Say(0)>>)>>),
            Do(Fun("r", <<N(2)>>)), Do(Fun("r", <<N(6)>>))>>),
    Plain(<<Func("g", <<ArgDef("a", Cond(Op("lt", N(1), N(2)), N(3), N(4)))>>,
                 <<[k |-> "global", xs |-> <<"x">>], Do(Set("x", V("a")))>>),
            Do(Set("x", N(1))), Do(Fun("g", <<>>)), Echo(V("x"))>>),
    Plain(<<Func("h", <<Arg("a")>>,
                 <<Foreach(Arr(<<N(1), N(2)>>), "v", <<Do(Set("a", Op("add", V("a"), V("v"))))>>),
                   [k |-> "block", body |-> <<Ret(V("a"))>>]>>),
            [k |-> "foreach", arr |-> Arr(<<N(5), N(6)>>), key |-> "k", val |-> "v",
             body |-> <<Echo(V("k")), Echo(Fun("h", <<V("v")>>))>>],
            Foreach(N(1), "v", <<Say(1)>>)>>)
  >>

(* Loops over one array value, whose one cursor they share: one loop after  *)
(* another that was broken out of, and a loop inside that is left where the *)
(* outer one is.  One that runs to its end would begin the outer one anew.  *)
CursorScripts == <<
    Plain(<<Do(Set("a", Arr(<<N(1), N(2), N(3)>>))), Do(Set("b", V("a"))),
            Foreach(V("a"), "i", <<Echo(V("i")), If(Op("lt", N(1), V("i")), <<Brk(1)>>)>>),
            Foreach(V("b"), "i", <<Echo(V("i"))>>), Foreach(V("a"), "i", <<Echo(V("i"))>>)>>),
    Plain(<<Do(Set("a", Arr(<<N(1), N(2), N(3)>>))),
            Foreach(V("a"), "i", <<Foreach(V("a"), "j", <<Echo(V("j")), If(Op("lt", V("j"), V("i")), <<Cnt(1)>>),
                                                         Brk(1)>>),
                                   Say(8)>>)>>)
  >>

(* Loops that run long and print nothing, and scripts to refuse.            *)
LongScripts == <<
    Plain(<<For("i", 0, 30, <<Do(V("i"))>>)>>),
    Plain(<<For("i", 0, 3, <<If(Op("lt", V("i"), N(2)), <<Cnt(1)>>)>>)>>),
    Plain(<<Brk(1)>>), Plain(LoopOf("while", "i", <<Brk(2)>>)),
    Plain(LoopOf("for", "i", <<Func("z", <<>>, <<Cnt(1)>>)>>)),
    Plain(LoopOf("do", "i", <<Label("l")>>)),
    Plain(<<Goto("l"), Say(1)>>), Plain(<<Func("z", <<>>, <<Label("l")>>), Goto("l")>>)
  >>

(* Jumps that no loop makes: gotos, && and ||, ?: and exits.                *)
JumpScripts == <<
    Plain(<<Do(Set("i", N(0))), Label("again"), Echo(V("i")), Do(Inc("i")),
            If(Op("lt", V("i"), N(3)), <<Goto("again")>>), Goto("end"), Say(8), Label("end"), Say(9)>>),
    Plain(<<Func("t", <<Arg("n")>>, <<Echo(V("n")), Ret(V("n"))>>),
            Echo(Op("and", Fun("t", <<N(1)>>), Fun("t", <<N(0)>>))),
            Echo(Op("and", Fun("t", <<N(0)>>), Fun("t", <<N(1)>>))),
            Echo(Op("or", Fun("t", <<N(1)>>), Fun("t", <<N(0)>>))),
            Echo(Op("or", Fun("t", <<N(0)>>), Op("and", Fun("t", <<N(2)>>), Fun("t", <<N(3)>>)))),
            Echo(Cond(Fun("t", <<N(0)>>), Fun("t", <<N(4)>>), Fun("t", <<N(5)>>))),
            Echo(Op("comma", Fun("t", <<N(6)>>), N(7)))>>),
    Plain(<<[k |-> "raw", vs |-> <<<<"int", 1>>, <<"int", 2>> >>],
            [k |-> "if", alt |-> <<Say(6)>>,
             brs |-> <<[c |-> N(0), body |-> <<Say(3)>>], [c |-> N(0), body |-> <<Say(4)>>]>>],
            [k |-> "if", alt |-> <<Say(6)>>,
             brs |-> <<[c |-> N(0), body |-> <<Say(3)>>], [c |-> N(1), body |-> <<Say(4)>>]>>],
            Func("q", <<>>, <<Say(5), Exit, Say(6)>>), Func("w", <<>>, <<Do(Fun("q", <<>>)), Say(7)>>),
            Do(Fun("w", <<>>)), Say(8)>>)
  >>

(* Exceptions: caught where they are thrown or below, by class or parent,   *)
(* by the second catch, in a loop, rethrown, and not caught.                *)
Thrower == Func("f", <<>>, <<Say(1), Thr("B"), Say(2)>>)
Through == Func("g", <<>>, <<Do(Fun("f", <<>>)), Say(3)>>)
ThrowScripts == <<
    Plain(<<Thrower,
            Try(<<Thr("A"), Say(4)>>, <<Catch("B", <<Say(5)>>), Catch("A", <<Say(6)>>)>>),
            Try(<<Do(Fun("f", <<>>)), Say(4)>>, <<Catch("A", <<Say(7)>>)>>), Say(9)>>),
    Plain(<<Thrower, Through,
            Try(<<Thr("A"), Say(4)>>, <<Catch("A", <<Say(7)>>)>>),
            Try(<<Do(Fun("g", <<>>)), Say(4)>>, <<Catch("A", <<Say(8)>>)>>), Say(9)>>),
    Plain(<<Thrower, For("i", 0, 3, <<Try(<<If(V("i"), <<Thr("A")>>), Say(4), Do(Fun("f", <<>>))>>,
                                          <<Catch("A", <<Say(5)>>)>>), Say(6)>>)>>),
    Plain(<<Func("c", <<>>, <<Try(<<Do(Fun("f", <<>>)), Say(2)>>, <<Catch("B", <<Say(3)>>)>>), Ret(N(4))>>),
            Thrower, Echo(Op("add", N(1), Fun("c", <<>>)))>>),
    Plain(<<Try(<<Try(<<Thr("A")>>, <<Catch("A", <<Say(1), Thr("B"), Say(2)>>)>>)>>,
                <<Catch("B", <<Say(3)>>)>>), Say(4)>>),
    Plain(<<Thrower, Try(<<Thr("A")>>, <<Catch("B", <<Say(5)>>)>>), Say(6)>>),
    Plain(<<Thrower, Try(<<Thr("X"), Say(2)>>, <<Catch("X", <<Say(5)>>)>>), Say(6)>>),
    [body |-> <<Func("k", <<Arg("e")>>, <<Say(7)>>), Say(1), Thr("A"), Say(2)>>, handler |-> "k"]
  >>

MCScripts == NestedLoops \o Switches \o CallScripts \o CursorScripts \o LongScripts \o JumpScripts \o ThrowScripts

MCThrowable == {"A", "B"}

MCMaxDepth == 4

MCAncestors == [A |-> {"A"}, B |-> {"A", "B"}, X |-> {"X"}]

(* Compiled and evaluated once, before the run starts.                     *)
MCCompiled == [i \in DOMAIN MCScripts |-> CompileScript(MCScripts[i].body)]
MCCode == LET code == MCCompiled IN code

MCEvaluated ==
    [i \in DOMAIN MCScripts |-> Meaning(MCScripts[i], MCAncestors, MCThrowable, MCMaxDepth)]
MCMeant == LET meant == MCEvaluated IN meant
=============================================================================
