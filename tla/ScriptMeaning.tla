---------------------------- MODULE ScriptMeaning ----------------------------
(***************************************************************************)
(* What a script means, independently of byte-code: a big-step evaluation  *)
(* of the same trees Compiler translates.  VmExec is checked against it.   *)
(*                                                                         *)
(* A state is [envs, store, stat, out]: the environments (name -> place)   *)
(* of the global scope and of every active call, the values of the places, *)
(* the places of the statics and the text printed so far.  A statement     *)
(* ends with a signal: <<"go", 0>>, <<"brk", levels>>, <<"cnt", levels>>,  *)
(* <<"ret", value>>, <<"thr", object>>, <<"exit", 0>> or <<"goto", label>> *)
(***************************************************************************)
EXTENDS Integers, Sequences, FiniteSets, SequencesExt

LOCAL Nil == <<"null", 0>>
LOCAL Go == <<"go", 0>>
LOCAL Ans(s, v, sig) == [s |-> s, v |-> v, sig |-> sig]
LOCAL Truth(v) == v[1] # "null" /\ v[2] # 0
LOCAL AsBool(b) == <<"bool", IF b THEN 1 ELSE 0>>
LOCAL Text(v) == IF v[1] = "int" \/ (v[1] = "bool" /\ v[2] = 1) THEN <<v[2]>> ELSE <<>>

LOCAL Env(s) == Last(s.envs)
LOCAL Get(s, x) == IF x \in DOMAIN Env(s) THEN s.store[Env(s)[x]] ELSE Nil
LOCAL Put(s, x, v) ==
    IF x \in DOMAIN Env(s) THEN [s EXCEPT !.store[Env(s)[x]] = v]
    ELSE [s EXCEPT !.store = Append(@, v),
                   !.envs[Len(s.envs)] = (x :> Len(s.store) + 1) @@ @]

(* The functions of a script, wherever they are declared.                  *)
RECURSIVE Declared(_)
LOCAL Bodies(t) ==
    CASE t.k \in {"block", "while", "do", "for", "foreach"} -> t.body
      [] t.k = "if"     -> FlattenSeq([i \in DOMAIN t.brs |-> t.brs[i].body]) \o t.alt
      [] t.k = "switch" -> FlattenSeq([i \in DOMAIN t.cases |-> t.cases[i].body])
      [] t.k = "try"    -> t.body
      [] OTHER          -> <<>>
Declared(ss) ==
    FlattenSeq([i \in DOMAIN ss |-> IF ss[i].k = "function" THEN <<ss[i]>>
                                    ELSE Declared(Bodies(ss[i]))])

RECURSIVE Ev(_, _, _), Ex(_, _, _), ExList(_, _, _, _), Loop(_, _, _, _), Each(_, _, _, _)

(* Two operands from left to right, then their operator.                   *)
LOCAL Both(fns, s, e, F(_, _)) ==
    LET l == Ev(fns, s, e.l)
        r == Ev(fns, l.s, e.r)
    IN  IF l.sig # Go THEN l ELSE IF r.sig # Go THEN r
        ELSE Ans(r.s, F(l.v, r.v), Go)

(* The values of several expressions, until one of them signals.           *)
LOCAL EvList(fns, s, es) ==
    FoldLeft(LAMBDA a, e : IF a.sig # Go THEN a
                           ELSE LET b == Ev(fns, a.s, e) IN Ans(b.s, Append(a.v, b.v), b.sig),
             Ans(s, <<>>, Go), es)

LOCAL FuncOf(fns, f) ==
    LET found == {i \in DOMAIN fns : fns[i].name = f}
    IN  IF found = {} THEN 0 ELSE CHOOSE i \in found : TRUE

(* The environment of a call: statics, then arguments or their defaults.   *)
LOCAL Bound(fns, s, n, vals) ==
    LET f == fns[n]
        statics == SelectSeq(f.body, LAMBDA t : t.k = "static")
        s0 == [s EXCEPT !.envs = Append(@, <<>>)]
        Static(a, t) ==
          LET key == <<n, t.name>>
              v == Ev(fns, a, t.init)
              known == key \in DOMAIN a.stat
              place == IF known THEN a.stat[key] ELSE Len(v.s.store) + 1
              fresh == [v.s EXCEPT !.store = Append(@, v.v), !.stat = (key :> place) @@ @]
          IN  [(IF known THEN a ELSE fresh) EXCEPT !.envs[Len(a.envs)] = (t.name :> place) @@ @]
        Arg(a, k) ==
          LET given == k <= Len(vals) /\ (vals[k] # Nil \/ f.args[k].def = <<>>)
              d == Ev(fns, a, f.args[k].def[1])
          IN  IF given THEN Put(a, f.args[k].name, vals[k])
              ELSE IF f.args[k].def = <<>> THEN a ELSE Put(d.s, f.args[k].name, d.v)
    IN  FoldLeft(Arg, FoldLeft(Static, s0, statics), [k \in DOMAIN f.args |-> k])

LOCAL Invoke(fns, s, f, vals) ==
    LET n == FuncOf(fns, f)
        r == Ex(fns, Bound(fns, s, n, vals), fns[n].body)
        back == [r.s EXCEPT !.envs = Front(@)]
    IN  IF n = 0 \/ Len(s.envs) - 1 > fns[1].max THEN Ans(s, Nil, Go)
        ELSE IF r.sig[1] = "ret" THEN Ans(back, r.sig[2], Go)
        ELSE IF r.sig[1] \in {"thr", "exit"} THEN Ans(back, Nil, r.sig)
        ELSE Ans(back, Nil, Go)

Ev(fns, s, e) ==
    CASE e.e = "const" -> Ans(s, e.v, Go)
      [] e.e = "var"   -> Ans(s, Get(s, e.x), Go)
      [] e.e = "set"   -> LET r == Ev(fns, s, e.r)
                          IN  IF r.sig # Go THEN r ELSE Ans(Put(r.s, e.x, r.v), r.v, Go)
      [] e.e = "incr"  -> Ans(Put(s, e.x, <<"int", Get(s, e.x)[2] + 1>>), Get(s, e.x), Go)
      [] e.e = "add"   -> Both(fns, s, e, LAMBDA a, b : <<"int", a[2] + b[2]>>)
      [] e.e = "lt"    -> Both(fns, s, e, LAMBDA a, b : AsBool(a[2] < b[2]))
      [] e.e = "new"   -> Ans(s, <<"obj", e.class>>, Go)
      [] e.e = "array" -> LET r == EvList(fns, s, e.es) IN Ans(r.s, <<"map", r.v>>, r.sig)
      [] e.e = "comma" -> LET l == Ev(fns, s, e.l)
                          IN  IF l.sig # Go THEN l ELSE Ev(fns, l.s, e.r)
      [] e.e \in {"and", "or"} ->
           LET l == Ev(fns, s, e.l)
               r == Ev(fns, l.s, e.r)
           IN  IF l.sig # Go THEN l
               ELSE IF Truth(l.v) = (e.e = "or") THEN Ans(l.s, AsBool(Truth(l.v)), Go)
               ELSE Ans(r.s, AsBool(Truth(r.v)), r.sig)
      [] e.e = "cond"  -> LET c == Ev(fns, s, e.c)
                          IN  IF c.sig # Go THEN c
                              ELSE Ev(fns, c.s, IF Truth(c.v) THEN e.l ELSE e.r)
      [] e.e = "call"  ->
           LET r == EvList(fns, s, e.args)
           IN  IF r.sig # Go THEN r
               ELSE IF e.f = "call_user_func"
                    THEN LET c == Invoke(fns, r.s, r.v[1][2], Tail(r.v)) IN c
                    ELSE Invoke(fns, r.s, e.f, r.v)

----------------------------------------------------------------------------

LOCAL St(s, sig) == [s |-> s, sig |-> sig]

(* How the loop goes on after its body: one level of break or continue is  *)
(* used up by this loop.                                                   *)
LOCAL Leaves(sig) == sig[1] \notin {"go", "cnt"} \/ (sig[1] = "cnt" /\ sig[2] > 1)
LOCAL AfterLoop(sig) ==
    IF sig[1] \in {"brk", "cnt"} /\ sig[2] > 1 THEN <<sig[1], sig[2] - 1>>
    ELSE IF sig[1] = "brk" THEN Go ELSE sig

(* while, for and do-while from their test on; step is run after the body. *)
Loop(fns, s, t, tested) ==
    LET c == IF tested /\ t.c # <<>> THEN Ev(fns, s, t.c[1]) ELSE Ans(s, AsBool(TRUE), Go)
        b == Ex(fns, c.s, t.body)
        n == IF t.step = <<>> THEN Ans(b.s, Nil, Go) ELSE Ev(fns, b.s, t.step[1])
    IN  IF c.sig # Go THEN St(c.s, c.sig)
        ELSE IF ~ Truth(c.v) THEN St(c.s, Go)
        ELSE IF Leaves(b.sig) THEN St(b.s, AfterLoop(b.sig))
        ELSE Loop(fns, n.s, t, TRUE)

(* foreach over the values the array has when the loop begins: of its own, *)
(* where the code moves the one cursor that the array value has.            *)
Each(fns, s, t, rest) ==
    LET n == rest.at
        s1 == IF t.key = "" THEN s ELSE Put(s, t.key, <<"int", n - 1>>)
        b == Ex(fns, Put(s1, t.val, rest.items[n]), t.body)
    IN  IF n > Len(rest.items) THEN St(s, Go)
        ELSE IF Leaves(b.sig) THEN St(b.s, AfterLoop(b.sig))
        ELSE Each(fns, b.s, t, [rest EXCEPT !.at = @ + 1])

LOCAL Cases(fns, s, t) ==
    LET x == Ev(fns, s, t.x)
        Try(a, i) ==          \* [s, hit, dft]: the first case equal, in order
          IF a.hit > 0 \/ t.cases[i].dft THEN a
          ELSE LET v == Ev(fns, a.s, t.cases[i].v)
               IN  [s |-> v.s, hit |-> IF v.v[2] = x.v[2] THEN i ELSE 0]
        m == FoldLeft(Try, [s |-> x.s, hit |-> 0], [i \in DOMAIN t.cases |-> i])
        dfts == {i \in DOMAIN t.cases : t.cases[i].dft}
        from == IF m.hit > 0 THEN m.hit
                ELSE IF dfts # {} THEN CHOOSE i \in dfts : TRUE ELSE Len(t.cases) + 1
        r == Ex(fns, m.s, FlattenSeq([i \in 1 .. Len(t.cases) - from + 1 |->
                                         t.cases[from + i - 1].body]))
    IN  IF x.sig # Go THEN St(x.s, x.sig)
        ELSE IF Leaves(r.sig) THEN St(r.s, AfterLoop(r.sig)) ELSE St(r.s, Go)

LOCAL Branch(fns, s, t) ==
    LET Test(a, i) == IF a.hit # -1 THEN a
                      ELSE LET c == Ev(fns, a.s, t.brs[i].c)
                           IN  [s |-> c.s, sig |-> c.sig,
                                hit |-> IF c.sig # Go THEN 0 ELSE IF Truth(c.v) THEN i ELSE -1]
        b == FoldLeft(Test, [s |-> s, sig |-> Go, hit |-> -1], [i \in DOMAIN t.brs |-> i])
    IN  IF b.hit = 0 THEN St(b.s, b.sig)
        ELSE Ex(fns, b.s, IF b.hit = -1 THEN t.alt ELSE t.brs[b.hit].body)

(* isa: class -> the classes it is an instance of, carried in fns.         *)
LOCAL Guarded(fns, s, t) ==
    LET b == Ex(fns, s, t.body)
        c == SelectSeq(t.catches, LAMBDA k : k.class \in fns[1].isa[b.sig[2][2]])[1]
        some == \E k \in ToSet(t.catches) : k.class \in fns[1].isa[b.sig[2][2]]
    IN  IF b.sig[1] # "thr" THEN b
        ELSE IF ~ some THEN b
        ELSE Ex(fns, Put(b.s, c.var, b.sig[2]), c.body)

LOCAL Globals(s, xs) ==
    FoldLeft(LAMBDA a, x :
               LET p == IF x \in DOMAIN a.envs[1] THEN a.envs[1][x] ELSE Len(a.store) + 1
                   a1 == IF x \in DOMAIN a.envs[1] THEN a
                         ELSE [a EXCEPT !.store = Append(@, Nil), !.envs[1] = (x :> p) @@ @]
               IN  [a1 EXCEPT !.envs[Len(a.envs)] = (x :> p) @@ @],
             s, xs)

LOCAL One(fns, s, t) ==
    LET Then(r, sig) == St(r.s, IF r.sig # Go THEN r.sig ELSE sig)
        Give(xs, sig) == IF xs = <<>> THEN St(s, <<sig, Nil>>)
                         ELSE LET r == Ev(fns, s, xs[1]) IN Then(r, <<sig, r.v>>)
    IN
    CASE t.k = "echo" -> FoldLeft(LAMBDA a, e : IF a.sig # Go THEN a
                            ELSE LET r == Ev(fns, a.s, e)
                                 IN  IF r.sig # Go THEN St(r.s, r.sig)
                                     ELSE St([r.s EXCEPT !.out = @ \o Text(r.v)], Go),
                            St(s, Go), t.es)
      [] t.k = "raw"   -> St([s EXCEPT !.out = @ \o FlattenSeq([i \in DOMAIN t.vs |-> Text(t.vs[i])])], Go)
      [] t.k = "expr"  -> LET r == Ev(fns, s, t.x) IN St(r.s, r.sig)
      [] t.k = "block" -> Ex(fns, s, t.body)
      [] t.k = "while" -> Loop(fns, s, [c |-> <<t.c>>, body |-> t.body, step |-> <<>>], TRUE)
      [] t.k = "do"    -> Loop(fns, s, [c |-> <<t.c>>, body |-> t.body, step |-> <<>>], FALSE)
      [] t.k = "for"   -> LET i == IF t.init = <<>> THEN Ans(s, Nil, Go) ELSE Ev(fns, s, t.init[1])
                          IN  Loop(fns, i.s, t, TRUE)
      [] t.k = "foreach" -> LET a == Ev(fns, s, t.arr)
                            IN  IF a.sig # Go THEN St(a.s, a.sig)
                                ELSE IF a.v[1] # "map" THEN St(a.s, Go)
                                ELSE Each(fns, a.s, t, [items |-> a.v[2], at |-> 1])
      [] t.k = "if"     -> Branch(fns, s, t)
      [] t.k = "switch" -> Cases(fns, s, t)
      [] t.k = "break"    -> St(s, <<"brk", IF t.n < 2 THEN 1 ELSE t.n>>)
      [] t.k = "continue" -> St(s, <<"cnt", IF t.n < 2 THEN 1 ELSE t.n>>)
      [] t.k = "goto"   -> St(s, <<"goto", t.name>>)
      [] t.k = "return" -> Give(t.x, "ret")
      [] t.k = "halt"   -> LET r == Give(t.x, "exit") IN St(r.s, IF r.sig[1] = "exit" THEN <<"exit", 0>> ELSE r.sig)
      [] t.k = "throw"  -> LET r == Give(<<t.x>>, "thr")
                           IN  IF r.sig[1] = "thr" /\ r.sig[2][2] \notin fns[1].throwable
                               THEN St(r.s, <<"exit", 0>>) ELSE r
      [] t.k = "global" -> St(IF Len(s.envs) = 1 THEN s ELSE Globals(s, t.xs), Go)
      [] t.k = "static" -> IF Len(s.envs) > 1 THEN St(s, Go)
                           ELSE LET r == Ev(fns, s, t.init) IN Then([r EXCEPT !.s = Put(r.s, t.name, r.v)], Go)
      [] t.k = "try"    -> Guarded(fns, s, t)
      [] t.k \in {"label", "function"} -> St(s, Go)

(* A list of statements from number i on; a goto is taken here when its    *)
(* label is one of the list.                                               *)
ExList(fns, s, ss, i) ==
    LET r == One(fns, s, ss[i])
        labels == {j \in DOMAIN ss : ss[j].k = "label" /\ ss[j].name = r.sig[2]}
    IN  IF i > Len(ss) THEN St(s, Go)
        ELSE IF r.sig = Go THEN ExList(fns, r.s, ss, i + 1)
        ELSE IF r.sig[1] = "goto" /\ labels # {} THEN ExList(fns, r.s, ss, CHOOSE j \in labels : TRUE)
        ELSE r

Ex(fns, s, ss) == ExList(fns, s, ss, 1)

(* Scripts that must be refused: a break or continue out of more loops     *)
(* than there are in its function, a label in a loop, a goto to a label    *)
(* that its function does not have.                                        *)
RECURSIVE Bad(_, _, _)
LOCAL LoopKinds == {"while", "do", "for", "foreach", "switch"}
LOCAL Labels(ss) == {ss[i].name : i \in {j \in DOMAIN ss : ss[j].k = "label"}}
Bad(ss, loops, labels) ==
    \E i \in DOMAIN ss :
        LET t == ss[i] IN
        \/ t.k \in {"break", "continue"} /\ (IF t.n < 2 THEN 1 ELSE t.n) > loops
        \/ t.k = "label" /\ loops > 0
        \/ t.k = "goto" /\ t.name \notin labels
        \/ t.k = "function" /\ Bad(t.body, 0, Labels(t.body))
        \/ Bad(Bodies(t), IF t.k \in LoopKinds THEN loops + 1 ELSE loops, labels)

(* The text a script prints and how it ends: "error" when it is refused,   *)
(* "ok", or "abort" for an exit or an exception nothing handles.  isa has  *)
(* the classes of an object, throwable those a throw accepts; a call       *)
(* nested deeper than max is NULL.                                         *)
Meaning(script, isa, throwable, max) ==
    LET base == <<[name |-> "", args |-> <<>>, body |-> <<>>, isa |-> isa,
                   throwable |-> throwable, max |-> max]>>
        fns == base \o Declared(script.body)
        r == Ex(fns, [envs |-> << <<>> >>, store |-> <<>>, stat |-> <<>>, out |-> <<>>],
                script.body)
        h == Invoke(fns, r.s, script.handler, <<r.sig[2]>>)
    IN  IF Bad(script.body, 0, Labels(script.body)) THEN [out |-> <<>>, end |-> "error"]
        ELSE IF r.sig[1] = "thr" /\ script.handler # ""
        THEN [out |-> h.s.out, end |-> IF h.sig[1] = "exit" THEN "abort" ELSE "ok"]
        ELSE [out |-> r.s.out, end |-> IF r.sig[1] \in {"thr", "exit"} THEN "abort" ELSE "ok"]
=============================================================================
