-------------------------------- MODULE VmExec --------------------------------
(***************************************************************************)
(* The byte-code interpreter of vm.c (VmByteCodeExec) on the programs      *)
(* Compiler builds: the operand stack of every activation, the frames of   *)
(* the machine with the special frames of try and catch, calls with their  *)
(* default arguments and static variables, foreach steps, switch and       *)
(* exceptions.                                                             *)
(*                                                                         *)
(* VmByteCodeExec calls itself - for a function body, a catch block, a     *)
(* case expression, a default value or a callback - and acts is that C     *)
(* call stack.  One step is one instruction, or one return of an           *)
(* activation to the one below.  Slots are not given back (see VmRefs for  *)
(* that) and memory does not run out (MemBackend).                         *)
(***************************************************************************)
EXTENDS Integers, Sequences, FiniteSets, SequencesExt

CONSTANTS
    Programs,     \* the scripts: a sequence of [body, handler], see Compiler
    Code,         \* the byte-code Compiler makes of each of them
    Meant,        \* what each of them prints and how it ends, see ScriptMeaning
    Ancestors,    \* class -> the classes it is an instance of
    Throwable,    \* the classes that may be thrown
    MaxDepth,     \* nMaxDepth, the limit on nested calls
    Guard         \* VM_STACK_GUARD

VARIABLES
    prog,         \* the script that runs
    acts,         \* the activations of VmByteCodeExec, the innermost last
    frames,       \* the VmFrame list, the global frame first
    mem,          \* aMemObj: the values of the slots
    maps,         \* the arrays: their values and their loop cursor
    excs,         \* aException, the stack of loaded exceptions
    owner,        \* pException->pFrame of every try, 0 for NULL
    steps,        \* aStep of every foreach
    statics,      \* the slot of every static variable, 0 until initialised
    depth,        \* nRecursionDepth
    excDepth,     \* nExceptDepth
    out,          \* what the output consumer got
    result        \* "run", or how VmByteCodeExec of the script ended

vars == <<prog, acts, frames, mem, maps, excs, owner, steps, statics, depth,
          excDepth, out, result>>

P == Code[prog]

Null == <<"null", 0>>

(* An operand: its value and the slot it was loaded from, 0 for SXU32_HIGH *)
Operand(v) == [v |-> v, i |-> 0]

----------------------------------------------------------------------------
(* Activations                                                             *)

(* kind says who waits for the activation and x what it has to remember;   *)
(* fr is the frame a call has entered, cb is is_callback.                  *)
Activation(kind, cont, st, fr, x) ==
    [kind |-> kind, cont |-> cont, pc |-> 0, st |-> st, fr |-> fr, x |-> x,
     cb |-> FALSE, rc |-> "run", val |-> Null, todo |-> <<>>, args |-> <<>>]

A == Last(acts)
Below == acts[Len(acts) - 1]

(* PH7_VmCallUserFunction executes a CALL and a DONE of its own.           *)
CallbackCode(n) == << [op |-> "CALL", p1 |-> n, p2 |-> 0, p3 |-> ""],
                      [op |-> "DONE", p1 |-> 1, p2 |-> 0, p3 |-> ""] >>

CodeOf(a) == IF a.cb THEN CallbackCode(a.x.n) ELSE P.code[a.cont]

Callback(kind, f, operands, x) ==
    [Activation(kind, 0, operands \o <<Operand(<<"fn", f>>)>>, 0,
                [n |-> Len(operands), x |-> x]) EXCEPT !.cb = TRUE]

Instr == CodeOf(A)[A.pc + 1]

Replace(a) == acts' = [acts EXCEPT ![Len(acts)] = a]
At(n, a) == [a EXCEPT !.pc = n]
Next1(a) == [a EXCEPT !.pc = @ + 1]
Enter(a) == acts' = Append(acts, a)
Return(b) == acts' = Append(SubSeq(acts, 1, Len(acts) - 2), b)
Finish(rc, v) == Replace([A EXCEPT !.rc = rc, !.val = v, !.st = <<>>])

TopVal == Last(A.st).v
Pop(st, n) == SubSeq(st, 1, Len(st) - n)      \* VmPopOperand
PopPush(n, o) == [A EXCEPT !.st = Append(Pop(@, n), o)]
Running(op) == result = "run" /\ A.rc = "run" /\ A.kind # "enter" /\ Instr.op = op

True(v) == v[1] \notin {"null"} /\ v[2] # 0
Bool(b) == Operand(<<"bool", IF b THEN 1 ELSE 0>>)

----------------------------------------------------------------------------
(* Frames and variables                                                    *)

NewFrame == [exc |-> FALSE, thr |-> FALSE, cat |-> FALSE, jump |-> 0, names |-> <<>>]

(* Exception frames are transparent: names live in the frame below them.   *)
VarFrame(fs) == CHOOSE d \in DOMAIN fs : ~ fs[d].exc /\ \A e \in d + 1 .. Len(fs) : fs[e].exc

Known(x) == x \in DOMAIN frames[VarFrame(frames)].names
SlotOf(x) == frames[VarFrame(frames)].names[x]
Bind(fs, x, slot) == [fs EXCEPT ![VarFrame(fs)].names = (x :> slot) @@ @]

(* VmExtractMemObj with bCreate: store v in variable x, created at need.   *)
StoreVar(x, v) ==
    IF Known(x) THEN /\ mem' = [mem EXCEPT ![SlotOf(x)] = v]
                     /\ UNCHANGED frames
    ELSE /\ mem' = Append(mem, v)
         /\ frames' = Bind(frames, x, Len(mem) + 1)

----------------------------------------------------------------------------
(* Loads, stores and operators                                             *)

LoadC ==
    /\ Running("LOADC")
    /\ Replace(Next1([A EXCEPT !.st = Append(@, Operand(Instr.p3))]))
    /\ UNCHANGED <<prog, frames, mem, maps, excs, owner, steps, statics, depth, excDepth, out, result>>

(* P1 tells a read-only load: a missing variable is NULL and stays missing *)
Load ==
    /\ Running("LOAD")
    /\ LET x == Instr.p3
           Loaded(v, i) == Replace(Next1([A EXCEPT !.st = Append(@, [v |-> v, i |-> i])]))
       IN  IF Known(x) THEN /\ Loaded(mem[SlotOf(x)], SlotOf(x))
                            /\ UNCHANGED <<frames, mem>>
           ELSE IF Instr.p1 = 1 THEN Loaded(Null, 0) /\ UNCHANGED <<frames, mem>>
           ELSE Loaded(Null, Len(mem) + 1) /\ StoreVar(x, Null)
    /\ UNCHANGED <<prog, maps, excs, owner, steps, statics, depth, excDepth, out, result>>

Store ==
    /\ Running("STORE")
    /\ StoreVar(Instr.p3, TopVal)
    /\ Replace(Next1(A))
    /\ UNCHANGED <<prog, maps, excs, owner, steps, statics, depth, excDepth, out, result>>

(* The post-increment: the variable changes, the loaded value stays.       *)
Incr ==
    /\ Running("INCR")
    /\ LET i == Last(A.st).i
       IN  mem' = IF i = 0 THEN mem ELSE [mem EXCEPT ![i] = <<"int", @[2] + 1>>]
    /\ Replace(Next1(A))
    /\ UNCHANGED <<prog, frames, maps, excs, owner, steps, statics, depth, excDepth, out, result>>

(* The two operands on top give way to their result.                       *)
Binary(op, o) ==
    /\ Running(op)
    /\ Replace(Next1(PopPush(2, o)))
    /\ UNCHANGED <<prog, frames, mem, maps, excs, owner, steps, statics, depth, excDepth, out, result>>

Left == A.st[Len(A.st) - 1].v

Add == Binary("ADD", Operand(<<"int", Left[2] + TopVal[2]>>))
Less == Binary("LT", Bool(Left[2] < TopVal[2]))
LogicalAnd == Binary("LAND", Bool(True(Left) /\ True(TopVal)))
LogicalOr == Binary("LOR", Bool(True(Left) \/ True(TopVal)))

LoadMap ==
    /\ Running("LOAD_MAP")
    /\ LET n == Instr.p1
           pairs == SubSeq(A.st, Len(A.st) - n + 1, Len(A.st))
           items == [k \in 1 .. n \div 2 |-> pairs[2 * k].v]
       IN  /\ maps' = Append(maps, [items |-> items, cur |-> 1])
           /\ Replace(Next1(PopPush(n, Operand(<<"map", Len(maps) + 1>>))))
    /\ UNCHANGED <<prog, frames, mem, excs, owner, steps, statics, depth, excDepth, out, result>>

NewObject ==
    /\ Running("NEW")
    /\ Replace(Next1(PopPush(1, Operand(<<"obj", TopVal[2]>>))))
    /\ UNCHANGED <<prog, frames, mem, maps, excs, owner, steps, statics, depth, excDepth, out, result>>

(* POP leaves the last operand rather than run below the stack.            *)
PopOperands ==
    /\ Running("POP")
    /\ LET n == IF Len(A.st) < Instr.p1 THEN Len(A.st) - 1 ELSE Instr.p1
       IN  Replace(Next1([A EXCEPT !.st = Pop(@, n)]))
    /\ UNCHANGED <<prog, frames, mem, maps, excs, owner, steps, statics, depth, excDepth, out, result>>

(* What a value prints as: NULL and FALSE are the empty string.            *)
Printed(v) == IF v[1] = "int" \/ (v[1] = "bool" /\ v[2] = 1) THEN <<v[2]>> ELSE <<>>

Consume ==
    /\ Running("CONSUME")
    /\ LET n == Instr.p1
           texts == [k \in 1 .. n |-> Printed(A.st[Len(A.st) - n + k].v)]
       IN  /\ out' = out \o FlattenSeq(texts)
           /\ Replace(Next1([A EXCEPT !.st = Pop(@, n)]))
    /\ UNCHANGED <<prog, frames, mem, maps, excs, owner, steps, statics, depth, excDepth, result>>

(* global: a name is linked to the nearest frame outside that knows it,    *)
(* and to nothing when none does.                                          *)
UpLink ==
    /\ Running("UPLINK")
    /\ LET n == Instr.p1
           names == [k \in 1 .. n |-> A.st[Len(A.st) - n + k].v[2]]
           Link(fs, x) ==
             LET outer == {d \in 1 .. VarFrame(fs) - 1 :
                             ~ fs[d].exc /\ x \in DOMAIN fs[d].names}
                 near == CHOOSE d \in outer : \A e \in outer : e <= d
             IN  IF outer = {} THEN fs ELSE Bind(fs, x, fs[near].names[x])
       IN  /\ frames' = IF Len(frames) = 1 THEN frames ELSE FoldLeft(Link, frames, names)
           /\ Replace(Next1([A EXCEPT !.st = Pop(@, n)]))
    /\ UNCHANGED <<prog, mem, maps, excs, owner, steps, statics, depth, excDepth, out, result>>

----------------------------------------------------------------------------
(* Jumps                                                                   *)

Jump ==
    /\ Running("JMP")
    /\ Replace(At(Instr.p2, A))
    /\ UNCHANGED <<prog, frames, mem, maps, excs, owner, steps, statics, depth, excDepth, out, result>>

(* JZ and JNZ make a boolean of their operand, and pop it unless P1 says   *)
(* to keep it.                                                             *)
JumpIf ==
    /\ \E op \in {"JZ", "JNZ"} : Running(op)
    /\ LET taken == True(TopVal) <=> Instr.op = "JNZ"
           rest == IF Instr.p1 = 1 THEN PopPush(1, Bool(True(TopVal)))
                   ELSE [A EXCEPT !.st = Pop(@, 1)]
       IN  Replace(IF taken THEN At(Instr.p2, rest) ELSE Next1(rest))
    /\ UNCHANGED <<prog, frames, mem, maps, excs, owner, steps, statics, depth, excDepth, out, result>>

(* SWITCH runs the case expressions in order, each as a program of its own *)
StartSwitch ==
    /\ Running("SWITCH")
    /\ LET s == P.switches[Instr.p3]
           none == IF s.dft > 0 THEN s.dft ELSE s.out
       IN  IF s.cases = <<>> THEN Replace(At(none, [A EXCEPT !.st = Pop(@, 1)]))
           ELSE Enter(Activation("case", s.cases[1].cont, <<>>, 0, 1))
    /\ UNCHANGED <<prog, frames, mem, maps, excs, owner, steps, statics, depth, excDepth, out, result>>

(* The return code of the case expression is not looked at.                *)
EndCase ==
    /\ result = "run" /\ A.kind = "case" /\ A.rc # "run"
    /\ LET b == Below
           s == P.switches[P.code[b.cont][b.pc + 1].p3]
           popped == [b EXCEPT !.st = Pop(@, 1)]
           none == IF s.dft > 0 THEN s.dft ELSE s.out
       IN  IF A.val[2] = Last(b.st).v[2] THEN Return(At(s.cases[A.x].start, popped))
           ELSE IF A.x < Len(s.cases)
                THEN Replace(Activation("case", s.cases[A.x + 1].cont, <<>>, 0, A.x + 1))
                ELSE Return(At(none, popped))
    /\ UNCHANGED <<prog, frames, mem, maps, excs, owner, steps, statics, depth, excDepth, out, result>>

----------------------------------------------------------------------------
(* foreach                                                                 *)

ForeachInitKeeps ==   (* Mutation: the cursor of the array stays where a loop left it. *)
    /\ Running("FOREACH_INIT")
    /\ LET popped == [A EXCEPT !.st = Pop(@, 1)]
       IN  IF TopVal[1] # "map"
           THEN Replace(At(Instr.p2, popped)) /\ UNCHANGED steps
           ELSE /\ steps' = [steps EXCEPT ![Instr.p3] = Append(@, TopVal[2])]
                /\ Replace(Next1(popped))
    /\ UNCHANGED <<prog, frames, mem, maps, excs, owner, statics, depth, excDepth, out, result>>

ForeachInit ==
    /\ Running("FOREACH_INIT")
    /\ LET popped == [A EXCEPT !.st = Pop(@, 1)]
           m == TopVal[2]
       IN  IF TopVal[1] # "map"
           THEN Replace(At(Instr.p2, popped)) /\ UNCHANGED <<maps, steps>>
           ELSE /\ maps' = [maps EXCEPT ![m].cur = 1]
                /\ steps' = [steps EXCEPT ![Instr.p3] = Append(@, m)]
                /\ Replace(Next1(popped))
    /\ UNCHANGED <<prog, frames, mem, excs, owner, statics, depth, excDepth, out, result>>

(* The step that was pushed last is the one that is taken; the cursor is   *)
(* the one of the array.                                                   *)
ForeachStep ==
    /\ Running("FOREACH_STEP")
    /\ LET loop == P.loops[Instr.p3]
           m == Last(steps[Instr.p3])
           cur == maps[m].cur
           KeyStored(fs, ms) ==
             IF loop.key = "" THEN [fs |-> fs, mem |-> ms]
             ELSE IF loop.key \in DOMAIN fs[VarFrame(fs)].names
                  THEN [fs |-> fs, mem |-> [ms EXCEPT
                          ![fs[VarFrame(fs)].names[loop.key]] = <<"int", cur - 1>>]]
                  ELSE [fs |-> Bind(fs, loop.key, Len(ms) + 1),
                        mem |-> Append(ms, <<"int", cur - 1>>)]
           k == KeyStored(frames, mem)
           v == maps[m].items[cur]
           known == loop.val \in DOMAIN k.fs[VarFrame(k.fs)].names
       IN  IF cur > Len(maps[m].items)
           THEN /\ maps' = [maps EXCEPT ![m].cur = 1]
                /\ steps' = [steps EXCEPT ![Instr.p3] = Front(@)]
                /\ Replace(At(Instr.p2, A))
                /\ UNCHANGED <<frames, mem>>
           ELSE /\ maps' = [maps EXCEPT ![m].cur = @ + 1]
                /\ frames' = IF known THEN k.fs ELSE Bind(k.fs, loop.val, Len(k.mem) + 1)
                /\ mem' = IF known
                          THEN [k.mem EXCEPT ![k.fs[VarFrame(k.fs)].names[loop.val]] = v]
                          ELSE Append(k.mem, v)
                /\ Replace(Next1(A))
                /\ UNCHANGED steps
    /\ UNCHANGED <<prog, excs, owner, statics, depth, excDepth, out, result>>

----------------------------------------------------------------------------
(* Calls                                                                   *)

FuncNamed(f) ==
    LET found == {n \in DOMAIN P.funcs : P.funcs[n].name = f}
    IN  IF found = {} THEN 0 ELSE CHOOSE n \in found : \A m \in found : m <= n

(* What a call sets up in the new frame before the body: the statics, the  *)
(* arguments given, then the defaults of the missing ones.                 *)
SetUp(n, operands) ==
    LET f == P.funcs[n]
        given == Len(operands)
        Missing == SelectSeq([k \in DOMAIN f.args |-> k],
                             LAMBDA k : k > given /\ f.args[k].cont # 0)
    IN  [k \in DOMAIN f.statics |-> <<"static", k, Null>>]
        \o [k \in 1 .. given |-> <<"arg", k, operands[k].v>>]
        \o [k \in DOMAIN Missing |-> <<"default", Missing[k], Null>>]

(* The callee's frame is entered at once; the slot below the arguments     *)
(* will hold the result.  A call too deep, or of no function, is NULL.     *)
Call ==
    /\ Running("CALL")
    /\ LET n == Instr.p1
           f == TopVal[2]
           args == SubSeq(A.st, Len(A.st) - n, Len(A.st) - 1)
           slot == PopPush(n + 1, Operand(Null))
           func == FuncNamed(f)
           entering == [Activation("enter", 0, <<>>, Len(frames) + 1, func)
                            EXCEPT !.todo = SetUp(func, args)]
       IN  IF f = "call_user_func"
           THEN /\ acts' = Append(acts, Callback("cuf", args[1].v[2], Tail(args), 0))
                /\ UNCHANGED frames
           ELSE IF func = 0 \/ depth > MaxDepth
           THEN Replace(Next1(slot)) /\ UNCHANGED frames
           ELSE /\ acts' = Append(Front(acts), slot) \o <<entering>>
                /\ frames' = Append(frames, NewFrame)
    /\ UNCHANGED <<prog, mem, maps, excs, owner, steps, statics, depth, excDepth, out, result>>

Entering(what) ==
    /\ result = "run" /\ A.kind = "enter" /\ A.rc = "run"
    /\ A.todo # <<>> /\ A.todo[1][1] = what

Local(cont, x) == Activation("local", cont, <<>>, 0, x)
Done1(a) == [a EXCEPT !.todo = Tail(@)]

(* A static is initialised by the first call of its function only.         *)
InstallStatic ==
    /\ Entering("static")
    /\ LET k == <<A.x, A.todo[1][2]>>
           var == P.funcs[A.x].statics[k[2]]
       IN  IF statics[k] = 0
           THEN /\ mem' = Append(mem, Null)
                /\ statics' = [statics EXCEPT ![k] = Len(mem) + 1]
                /\ Enter(Local(var.cont, <<"static", Len(mem) + 1>>))
                /\ UNCHANGED frames
           ELSE /\ frames' = Bind(frames, var.name, statics[k])
                /\ Replace(Done1(A))
                /\ UNCHANGED <<mem, statics>>
    /\ UNCHANGED <<prog, maps, excs, owner, steps, depth, excDepth, out, result>>

(* Extra arguments get a dummy name; a NULL for an argument that has a     *)
(* default is replaced by the default.                                     *)
PassArgument ==
    /\ Entering("arg")
    /\ LET k == A.todo[1][2]
           args == P.funcs[A.x].args
           name == IF k <= Len(args) THEN args[k].name ELSE "[" \o ToString(k - 1) \o "]apArg"
       IN  IF A.todo[1][3] = Null /\ k <= Len(args) /\ args[k].cont # 0
           THEN /\ acts' = Append(Front(acts), [A EXCEPT !.todo[1] = <<"bind", k, Null>>])
                             \o <<Local(args[k].cont, <<"arg", k>>)>>
                /\ UNCHANGED <<frames, mem>>
           ELSE StoreVar(name, A.todo[1][3]) /\ Replace(Done1(A))
    /\ UNCHANGED <<prog, maps, excs, owner, steps, statics, depth, excDepth, out, result>>

BindArgument ==
    /\ Entering("bind")
    /\ StoreVar(P.funcs[A.x].args[A.todo[1][2]].name, A.todo[1][3])
    /\ Replace(Done1(A))
    /\ UNCHANGED <<prog, maps, excs, owner, steps, statics, depth, excDepth, out, result>>

DefaultArgument ==
    /\ Entering("default")
    /\ LET arg == P.funcs[A.x].args[A.todo[1][2]]
       IN  /\ frames' = IF Known(arg.name) THEN frames ELSE Bind(frames, arg.name, Len(mem) + 1)
           /\ mem' = IF Known(arg.name) THEN mem ELSE Append(mem, Null)
           /\ acts' = Append(Front(acts), Done1(A)) \o
                      <<Local(arg.cont, <<"default",
                          IF Known(arg.name) THEN SlotOf(arg.name) ELSE Len(mem) + 1>>)>>
    /\ UNCHANGED <<prog, maps, excs, owner, steps, statics, depth, excDepth, out, result>>

(* The end of VmLocalExec for a static, an argument or a default value:    *)
(* an exit in the last two ends the caller, an exit in a static is lost.   *)
EndLocal ==
    /\ result = "run" /\ A.kind = "local" /\ A.rc # "run"
    /\ LET what == A.x[1]
           caller == acts[Len(acts) - 2]
           aborted == A.rc = "abort" /\ what # "static"
       IN  /\ mem' = IF A.rc = "ok" /\ what # "arg" THEN [mem EXCEPT ![A.x[2]] = A.val] ELSE mem
           /\ acts' = IF aborted
                      THEN Append(SubSeq(acts, 1, Len(acts) - 3),
                                  [caller EXCEPT !.rc = "abort", !.st = <<>>])
                      ELSE IF what = "arg" /\ A.rc = "ok"
                      THEN Append(SubSeq(acts, 1, Len(acts) - 2),
                                  [Below EXCEPT !.todo[1][3] = A.val])
                      ELSE Front(acts)
    /\ UNCHANGED <<prog, frames, maps, excs, owner, steps, statics, depth, excDepth, out, result>>

StartBody ==
    /\ result = "run" /\ A.kind = "enter" /\ A.rc = "run" /\ A.todo = <<>>
    /\ Replace(Activation("call", P.funcs[A.x].cont, <<>>, A.fr, A.x))
    /\ depth' = depth + 1
    /\ UNCHANGED <<prog, frames, mem, maps, excs, owner, steps, statics, excDepth, out, result>>

(* The end of a function body.  VmLeaveFrame leaves the innermost frame,   *)
(* whichever it is.  When the function has thrown, the caller goes on at   *)
(* the end of its try, or ends with PH7_EXCEPTION itself, unless it runs   *)
(* in the global frame.                                                    *)
EndCall ==
    /\ result = "run" /\ A.kind = "call" /\ A.rc # "run"
    /\ LET b == Below
           up == frames[A.fr - 1]
           threw == A.rc # "abort" /\ (frames[A.fr].thr \/ A.rc = "exception")
           lands == threw /\ ~ b.cb /\ A.fr > 2 /\ up.exc /\ up.jump > 0
           rc == IF ~ threw THEN A.rc
                 ELSE IF lands \/ A.fr = 2 THEN "ok" ELSE "exception"
       IN  Return(IF lands THEN At(up.jump, [b EXCEPT !.st = Pop(@, 1)])
                  ELSE IF rc # "ok" THEN [b EXCEPT !.rc = rc, !.st = <<>>]
                  ELSE Next1([b EXCEPT !.st = Append(Pop(@, 1), Operand(A.val))]))
    /\ frames' = Front(frames)
    /\ depth' = depth - 1
    /\ UNCHANGED <<prog, mem, maps, excs, owner, steps, statics, excDepth, out, result>>

(* call_user_func ignores how its callback ended.                          *)
EndCallback ==
    /\ result = "run" /\ A.kind = "cuf" /\ A.rc # "run"
    /\ LET n == CodeOf(Below)[Below.pc + 1].p1
       IN  Return(Next1([Below EXCEPT !.st = Append(Pop(@, n + 1), Operand(A.val))]))
    /\ UNCHANGED <<prog, frames, mem, maps, excs, owner, steps, statics, depth, excDepth, out, result>>

(* The end of a program, function body or expression; PH7_OP_HALT ends the *)
(* activation below as well, where its return code is looked at.           *)
DoneOp ==
    /\ Running("DONE")
    /\ Finish("ok", IF Instr.p1 = 1 THEN TopVal ELSE Null)
    /\ UNCHANGED <<prog, frames, mem, maps, excs, owner, steps, statics, depth, excDepth, out, result>>

HaltOp ==
    /\ Running("HALT")
    /\ Finish("abort", Null)
    /\ UNCHANGED <<prog, frames, mem, maps, excs, owner, steps, statics, depth, excDepth, out, result>>

EndScript ==
    /\ result = "run" /\ A.kind = "main" /\ A.rc # "run"
    /\ result' = A.rc
    /\ UNCHANGED <<prog, acts, frames, mem, maps, excs, owner, steps, statics, depth, excDepth, out>>

----------------------------------------------------------------------------
(* Exceptions                                                              *)

LoadException ==
    /\ Running("LOAD_EXCEPTION")
    /\ excs' = Append(excs, Instr.p3)
    /\ owner' = [owner EXCEPT ![Instr.p3] = VarFrame(frames)]
    /\ frames' = Append(frames, [NewFrame EXCEPT !.exc = TRUE, !.jump = Instr.p2])
    /\ Replace(Next1(A))
    /\ UNCHANGED <<prog, mem, maps, steps, statics, depth, excDepth, out, result>>

PopExceptionKeeps ==        (* Mutation: the exception frame is not left. *)
    /\ Running("POP_EXCEPTION")
    /\ excs' = IF excs # <<>> /\ Last(excs) = Instr.p3 THEN Front(excs) ELSE excs
    /\ owner' = [owner EXCEPT ![Instr.p3] = 0]
    /\ Replace(Next1(A))
    /\ UNCHANGED <<prog, frames, mem, maps, steps, statics, depth, excDepth, out, result>>

PopException ==
    /\ Running("POP_EXCEPTION")
    /\ excs' = IF excs # <<>> /\ Last(excs) = Instr.p3 THEN Front(excs) ELSE excs
    /\ owner' = [owner EXCEPT ![Instr.p3] = 0]
    /\ frames' = Front(frames)
    /\ Replace(Next1(A))
    /\ UNCHANGED <<prog, mem, maps, steps, statics, depth, excDepth, out, result>>

(* VmThrowException tries the try that was loaded last, and no other.      *)
Catcher(class) ==
    LET blocks == IF excs = <<>> THEN <<>> ELSE P.tries[Last(excs)]
    IN  SelectSeq(blocks, LAMBDA c : c.class \in Ancestors[class])

(* The frame that threw forgets it when the try was loaded in that frame.  *)
Caught(fs) ==
    IF excs # <<>> /\ owner[Last(excs)] = VarFrame(fs)
    THEN [fs EXCEPT ![VarFrame(fs)].thr = FALSE] ELSE fs

Landed(a) == At(CodeOf(a)[a.pc + 1].p2, [a EXCEPT !.st = Pop(@, 1)])

(* The catch block runs in a frame of its own, inside the THROW.           *)
Throw ==
    /\ Running("THROW")
    /\ LET class == TopVal[2]
           fs == [frames EXCEPT ![VarFrame(frames)].thr = TRUE]
           catcher == Catcher(class)
           c == catcher[1]
           tried == class \in Throwable /\ excs # <<>>
           last == IF tried THEN Last(excs) ELSE 0
           handler == Programs[prog].handler
       IN  /\ excs' = IF tried THEN Front(excs) ELSE excs
           /\ IF class \in Throwable /\ catcher # <<>>
              THEN /\ mem' = Append(mem, TopVal)
                   /\ frames' = Append(Caught(fs),
                                  [NewFrame EXCEPT !.cat = TRUE, !.names = c.var :> Len(mem) + 1])
                   /\ Enter(Activation("catch", c.cont, <<>>, 0, 0))
                   /\ UNCHANGED excDepth
              ELSE /\ UNCHANGED mem
                   /\ IF excDepth > 15
                      THEN /\ frames' = IF tried THEN Caught(fs) ELSE fs
                           /\ Replace(Landed(A))
                           /\ UNCHANGED excDepth
                      ELSE /\ frames' = fs
                           /\ IF handler = ""
                              THEN Finish("abort", Null) /\ UNCHANGED excDepth
                              ELSE /\ Enter(Callback("handler", handler,
                                                     <<Operand(TopVal)>>, last))
                                   /\ excDepth' = excDepth + 1
    /\ UNCHANGED <<prog, maps, owner, steps, statics, depth, out, result>>

(* Neither the catch block's nor the handler's return code is looked at.   *)
EndCatch ==
    /\ result = "run" /\ A.kind = "catch" /\ A.rc # "run"
    /\ frames' = Front(frames)
    /\ Return(Landed(Below))
    /\ UNCHANGED <<prog, mem, maps, excs, owner, steps, statics, depth, excDepth, out, result>>

EndHandler ==
    /\ result = "run" /\ A.kind = "handler" /\ A.rc # "run"
    /\ LET try == A.x.x
       IN  frames' = IF try # 0 /\ owner[try] = VarFrame(frames)
                     THEN [frames EXCEPT ![VarFrame(frames)].thr = FALSE] ELSE frames
    /\ excDepth' = excDepth - 1
    /\ Return(Landed(Below))
    /\ UNCHANGED <<prog, mem, maps, excs, owner, steps, statics, depth, out, result>>

----------------------------------------------------------------------------

Init ==
    /\ prog \in DOMAIN Programs
    /\ acts = << Activation("main", 1, <<>>, 0, 0) >>
    /\ frames = <<NewFrame>>
    /\ mem = <<>> /\ maps = <<>> /\ excs = <<>>
    /\ owner = [t \in DOMAIN P.tries |-> 0]
    /\ steps = [n \in DOMAIN P.loops |-> <<>>]
    /\ statics = [k \in UNION {{f} \X DOMAIN P.funcs[f].statics : f \in DOMAIN P.funcs} |-> 0]
    /\ depth = 0 /\ excDepth = 0 /\ out = <<>>
    /\ result = IF P.errs = 0 THEN "run" ELSE "error"

Next ==
    \/ LoadC \/ Load \/ Store \/ Incr \/ Add \/ Less \/ LogicalAnd \/ LogicalOr
    \/ LoadMap \/ NewObject
    \/ PopOperands \/ Consume \/ UpLink
    \/ Jump \/ JumpIf \/ StartSwitch \/ EndCase \/ ForeachInit \/ ForeachStep
    \/ Call \/ InstallStatic \/ PassArgument \/ BindArgument \/ DefaultArgument
    \/ EndLocal \/ StartBody \/ EndCall \/ EndCallback
    \/ DoneOp \/ HaltOp \/ EndScript
    \/ LoadException \/ PopException \/ Throw \/ EndCatch \/ EndHandler

(* The interpreter goes on as long as it can.                              *)
Spec == Init /\ [][Next]_vars /\ WF_vars(Next)

----------------------------------------------------------------------------
(* Properties                                                              *)

(* The byte-code prints what the script means, in that order and no more,  *)
(* and has printed all of it, and ends the way the script does, when it    *)
(* ends: no jump of compile.c lands on a wrong instruction, and calls,     *)
(* loops and catch blocks go on where the script says.  A script is        *)
(* refused by the compiler exactly when its jumps have no place to go.     *)
RunsAsWritten ==
    /\ IsPrefix(out, Meant[prog].out)
    /\ result # "run" => out = Meant[prog].out /\ result = Meant[prog].end

(* An activation that ends has used up all its operands but its result:    *)
(* whatever way the code has taken - a jump out of loops, a switch, an     *)
(* exception - every push of it was popped.  And its stack never outgrows  *)
(* the number of its instructions, "an upper bound" (VmNewOperandStack,    *)
(* vm.c 1521-1524), with VM_STACK_GUARD spare.  A script that has ended    *)
(* has left every frame it entered, every try it loaded and every level of *)
(* nested calls, so that the machine can be reset and run again (an exit   *)
(* may leave from any depth).                                              *)
NothingLeft ==
    /\ Running("DONE") => Len(A.st) = Instr.p1
    /\ \A n \in DOMAIN acts :
         acts[n].kind # "enter" => Len(acts[n].st) <= Len(CodeOf(acts[n])) + Guard
    /\ result = "ok" => Len(frames) = 1 /\ excs = <<>> /\ depth = 0 /\ excDepth = 0

(* Every script of the run ends.                                           *)
Terminates == <>(result # "run")
=============================================================================
