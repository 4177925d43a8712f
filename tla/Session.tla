------------------------------ MODULE Session ------------------------------
(***************************************************************************)
(* What the pieces of one running script share: the output consumer and    *)
(* the stack of output buffers, the files being executed, the container    *)
(* the compiler fills, assertions and shutdown callbacks (vm.c), through   *)
(* includes, eval(), callbacks that the machine itself calls, exit() in    *)
(* any of them, and a second run of the same machine.                      *)
(*                                                                         *)
(* The script is any sequence of calls.  Output is a sequence of chunks,   *)
(* numbered as they are echoed.  Frames are what runs, innermost first:    *)
(* the main script, included files and eval() ("chunk"), the callback of   *)
(* a buffer ("ob"), callbacks of assert() and of the shutdown ("call").    *)
(***************************************************************************)
EXTENDS Integers, SequencesExt, FiniteSetsExt

CONSTANTS
  Direct, Bare,      \* names opened as they are, and along the import path
  Missing,           \* names no file has
  Broken, Empty,     \* opened, but refused by the compiler; without a byte
  Devices,           \* output consumers: "blob", the machine's own, and the host's
  Options,           \* calls of assert_options(): a flag and << >> or <<its value>>
  ObLimit,           \* nested calls of buffer callbacks, 15 in the code
  Room,              \* entries of a set when it is first allocated, 8 in the code
  MaxFrames,         \* bound: depth of frames
  MaxOps,            \* bound: calls a script makes
  MaxRuns            \* bound: executions of the machine

ASSUME SessionAssumption ==
  /\ "blob" \in Devices /\ "ob" \notin Devices
  /\ ObLimit \in Nat /\ Room \in Nat \ {0}
  /\ MaxFrames \in Nat /\ MaxOps \in Nat /\ MaxRuns \in Nat

VARIABLES
  frames, todo,          \* what runs, and what it does next: "run", "abort", "warn", "warnabort"
  consumer, xDef,        \* sVmConsumer: a device or "ob" (VmObConsumer), and the one to restore
  aOB, room, nObDepth,   \* the buffers, the allocated size of aOB, callbacks of buffers running
  out, nOutputLen,       \* what the devices were given, and how much was counted
  aFiles, aIncluded,     \* files being executed, and the set of those ever included
  container,             \* pVm->pByteContainer
  aShutdown, next, nEntry,   \* callbacks, the one to call and the last to be called
  bErrReport, iAssertFlags,
  phase, runs,           \* "ready", "main", "shutdown", "done"
  ops,
  echoed, dropped, strays, \* history: chunks so far, cleaned or swallowed, and written nowhere
  inner, overtaken,      \* history: echoed under a callback; has the device overtaken a buffer?
  unbuffered,            \* history: has a callback of a buffer ended every buffer?
  regs, late, ran        \* history: callbacks registered, those while callbacks run, callbacks run

screen == <<consumer, xDef, aOB, room, nObDepth, out, nOutputLen, dropped, strays, overtaken, unbuffered>>
files == <<aFiles, aIncluded, container>>
ending == <<aShutdown, next, nEntry, phase, runs, regs, late, ran>>
flags == <<bErrReport, iAssertFlags>>
vars == <<frames, todo, screen, files, ending, flags, ops, echoed, inner>>

None == << >>
Name(f) == <<f>>
Path(f) == <<"path", f>>
Main == <<"main">>
Frame(kind, file, then) ==
  [kind |-> kind, file |-> file, then |-> then, saved |-> container,
   slot |-> Len(aOB), base |-> room, data |-> << >>, set |-> {}]
Held == (\E i \in DOMAIN aOB : aOB[i].data # << >>) \/ (\E i \in DOMAIN frames : frames[i].data # << >>)

Init ==
  /\ frames = << >> /\ todo = "run"
  /\ consumer = "blob" /\ xDef = "none" /\ aOB = << >> /\ room = 0 /\ nObDepth = 0
  /\ out = << >> /\ nOutputLen = 0
  /\ aFiles = <<Main>> /\ aIncluded = {} /\ container = 1
  /\ aShutdown = << >> /\ next = 1 /\ nEntry = 0
  /\ bErrReport = FALSE /\ iAssertFlags = {"WARNING"}
  /\ phase = "ready" /\ runs = 0 /\ ops = 0
  /\ echoed = 0 /\ dropped = {} /\ strays = {} /\ inner = {} /\ overtaken = FALSE /\ unbuffered = FALSE
  /\ regs = 0 /\ late = {} /\ ran = << >>
----------------------------------------------------------------------------
(* What the host does between runs.                                        *)
Configure(d) ==
  /\ phase \in {"ready", "done"} /\ runs < MaxRuns
  /\ consumer' = d
  /\ UNCHANGED <<frames, todo, xDef, aOB, room, nObDepth, out, nOutputLen, dropped, strays, overtaken, unbuffered,
                 files, ending, flags, ops, echoed, inner>>

ByteCodeExec ==
  /\ phase \in {"ready", "done"} /\ runs < MaxRuns
  /\ phase' = "main" /\ runs' = runs + 1
  /\ frames' = <<Frame("main", Main, "run")>> /\ todo' = "run"
  /\ UNCHANGED <<screen, files, aShutdown, next, nEntry, regs, late, ran, flags, ops, echoed, inner>>
----------------------------------------------------------------------------
(* Output.                                                                 *)
ToDevice(d, data) ==
  /\ out' = out \o [i \in DOMAIN data |-> <<d, data[i]>>]
  /\ nOutputLen' = nOutputLen + Len(data)

(* VmObConsumer: the buffer on top, through its callback if it has one.    *)
ObConsumer(data, then) ==
  LET entry == Last(aOB) IN
    IF aOB = << >>
    THEN strays' = strays \cup ToSet(data) /\ todo' = then /\ UNCHANGED <<aOB, nObDepth, frames>>
    ELSE IF entry.cb /\ nObDepth < ObLimit
    THEN /\ Len(frames) < MaxFrames
         /\ frames' = <<[Frame("ob", None, then) EXCEPT !.data = data]>> \o frames
         /\ nObDepth' = nObDepth + 1 /\ todo' = "run" /\ UNCHANGED <<aOB, strays>>
    ELSE /\ aOB' = [aOB EXCEPT ![Len(aOB)].data = @ \o data]
         /\ todo' = then /\ UNCHANGED <<nObDepth, frames, strays>>

(* A new chunk goes to the consumer; a device may answer PH7_ABORT.        *)
Consume(then, heeded) ==
  LET data == <<echoed + 1>> IN
    /\ echoed' = echoed + 1
    /\ inner' = IF nObDepth > 0 THEN inner \cup {echoed + 1} ELSE inner
    /\ IF consumer = "ob"
       THEN ObConsumer(data, then) /\ UNCHANGED <<out, nOutputLen, overtaken>>
       ELSE /\ ToDevice(consumer, data) /\ overtaken' = (overtaken \/ Held)
            /\ todo' \in (IF heeded THEN {then, "abort"} ELSE {then})
            /\ UNCHANGED <<aOB, nObDepth, frames, strays>>
    /\ UNCHANGED <<consumer, xDef, room, dropped, unbuffered>>

(* PH7_VmThrowError of a warning or of an error that ends the frame.       *)
Warn ==
  LET then == IF todo = "warn" THEN "run" ELSE "abort" IN
    /\ todo \in {"warn", "warnabort"}
    /\ IF bErrReport THEN Consume(then, FALSE)
       ELSE todo' = then /\ UNCHANGED <<screen, frames, echoed, inner>>
    /\ UNCHANGED <<files, ending, flags, ops>>
----------------------------------------------------------------------------
(* The calls of a script.                                                  *)
Call == /\ todo = "run" /\ frames # << >> /\ ops < MaxOps
        /\ ops' = ops + 1

Echo == Call /\ Consume("run", TRUE) /\ UNCHANGED <<files, ending, flags>>

Exit(message) ==
  /\ Call
  /\ IF message THEN Consume("abort", FALSE) ELSE todo' = "abort" /\ UNCHANGED <<screen, frames, echoed, inner>>
  /\ UNCHANGED <<files, ending, flags>>

(* Mutation: the consumer is saved even when it is that of the buffers.    *)
ob_startNested(cb) ==
  /\ Call /\ Len(aOB) < MaxFrames
  /\ aOB' = Append(aOB, [cb |-> cb, data |-> << >>])
  /\ room' = IF Len(aOB) < room THEN room ELSE IF room = 0 THEN Room ELSE 2 * room
  /\ xDef' = consumer /\ consumer' = "ob"
  /\ UNCHANGED <<frames, todo, nObDepth, out, nOutputLen, dropped, strays, overtaken, unbuffered,
                 files, ending, flags, echoed, inner>>

ob_start(cb) ==
  /\ Call /\ Len(aOB) < MaxFrames
  /\ aOB' = Append(aOB, [cb |-> cb, data |-> << >>])
  /\ room' = IF Len(aOB) < room THEN room ELSE IF room = 0 THEN Room ELSE 2 * room
  /\ xDef' = IF consumer # "ob" THEN consumer ELSE xDef
  /\ consumer' = "ob"
  /\ UNCHANGED <<frames, todo, nObDepth, out, nOutputLen, dropped, strays, overtaken, unbuffered,
                 files, ending, flags, echoed, inner>>

(* VmObRestore, after a pop.                                               *)
ObRestore ==
  /\ consumer' = IF Len(aOB) = 1 THEN xDef ELSE consumer
  /\ unbuffered' = (unbuffered \/ (Len(aOB) = 1 /\ nObDepth > 0))

ob_clean ==
  /\ Call /\ aOB # << >>
  /\ dropped' = dropped \cup ToSet(Last(aOB).data)
  /\ aOB' = [aOB EXCEPT ![Len(aOB)].data = << >>]
  /\ UNCHANGED <<frames, todo, consumer, xDef, room, nObDepth, out, nOutputLen, strays, overtaken, unbuffered,
                 files, ending, flags, echoed, inner>>

ob_end_clean ==        \* and ob_get_clean()
  /\ Call /\ aOB # << >>
  /\ dropped' = dropped \cup ToSet(Last(aOB).data)
  /\ aOB' = Front(aOB) /\ ObRestore
  /\ UNCHANGED <<frames, todo, xDef, room, nObDepth, out, nOutputLen, strays, overtaken,
                 files, ending, flags, echoed, inner>>

(* VmObFlush: the contents go to the device below all buffers.             *)
ObFlush(release) ==
  LET data == Last(aOB).data IN
    /\ IF data # << >> THEN ToDevice(xDef, data) /\ todo' \in {"run", "abort"}
       ELSE todo' = "run" /\ UNCHANGED <<out, nOutputLen>>
    /\ overtaken' = (overtaken \/ (data # << >> /\
                       ((\E i \in 1..(Len(aOB) - 1) : aOB[i].data # << >>)
                        \/ (\E i \in DOMAIN frames : frames[i].data # << >>))))
    /\ IF release THEN aOB' = Front(aOB) /\ ObRestore
       ELSE aOB' = [aOB EXCEPT ![Len(aOB)].data = << >>] /\ UNCHANGED <<consumer, unbuffered>>

ob_flush == /\ Call /\ aOB # << >> /\ ObFlush(FALSE)
            /\ UNCHANGED <<frames, xDef, room, nObDepth, dropped, strays, files, ending, flags, echoed, inner>>
ob_end_flush == /\ Call /\ aOB # << >> /\ ObFlush(TRUE)
                /\ UNCHANGED <<frames, xDef, room, nObDepth, dropped, strays, files, ending, flags, echoed, inner>>
----------------------------------------------------------------------------
(* Files: PH7_StreamOpenHandle pushes what it opened, a name found along   *)
(* the import path twice; VmExecIncludedFile pops one of them.             *)
Pushed(f) == IF f \in Bare THEN <<Path(f), Name(f)>> ELSE <<Name(f)>>
VmIsIncludedFile(f) == Name(f) \in aIncluded

VmEvalChunk(file, opened) ==
  /\ Len(frames) < MaxFrames
  /\ frames' = <<Frame("chunk", file, "run")>> \o frames
  /\ container' = Len(frames) + 1
  /\ aFiles' = aFiles \o opened

Include(f, once, required) ==
  LET failed == IF required THEN "warnabort" ELSE "warn"
      known == once /\ VmIsIncludedFile(f)
  IN
    /\ Call
    /\ IF f \in Missing
       THEN todo' = failed /\ UNCHANGED <<frames, files>>
       ELSE /\ aIncluded' = aIncluded \cup ToSet(Pushed(f))
            /\ IF known \/ f \in Broken \cup Empty
               THEN /\ aFiles' = aFiles \o Front(Pushed(f))
                    /\ todo' = IF f \in Empty /\ ~known THEN failed ELSE "run"
                    /\ UNCHANGED <<frames, container>>
               ELSE VmEvalChunk(Name(f), Pushed(f)) /\ UNCHANGED todo
    /\ UNCHANGED <<screen, ending, flags, echoed, inner>>

Eval == /\ Call /\ VmEvalChunk(None, << >>)
        /\ UNCHANGED <<todo, screen, aIncluded, ending, flags, echoed, inner>>
----------------------------------------------------------------------------
(* Errors and assertions.                                                  *)
error_reporting(on) ==
  /\ Call /\ bErrReport' = on
  /\ UNCHANGED <<frames, todo, screen, files, ending, iAssertFlags, echoed, inner>>

trigger_error(fatal) ==
  /\ Call /\ todo' = IF fatal THEN "warnabort" ELSE "warn"
  /\ UNCHANGED <<frames, screen, files, ending, flags, echoed, inner>>

(* The flag is cleared first, also when only its setting is asked for.     *)
assert_options(flag, value) ==
  /\ Call
  /\ iAssertFlags' = (iAssertFlags \ {flag}) \cup
       (IF value # << >> /\ value[1] # (flag = "DISABLE") THEN {flag} ELSE {})
  /\ UNCHANGED <<frames, todo, screen, files, ending, bErrReport, echoed, inner>>

(* A failed assertion: the flags are those of before what was called.      *)
AssertionFailed(set, below) ==
  LET bail == "BAIL" \in set
      then == IF "WARNING" \in set THEN IF bail THEN "warnabort" ELSE "warn"
              ELSE IF bail THEN "abort" ELSE "run"
  IN IF "CALLBACK" \in set /\ Len(below) < MaxFrames
     THEN frames' = <<Frame("call", None, then)>> \o below /\ todo' = "run"
     ELSE todo' = then /\ frames' = below

(* assert() of a value that is false, or of code to evaluate.              *)
assert(code) ==
  /\ Call /\ "DISABLE" \notin iAssertFlags
  /\ IF code
     THEN /\ Len(frames) < MaxFrames
          /\ frames' = <<[Frame("chunk", None, "assert") EXCEPT !.set = iAssertFlags]>> \o frames
          /\ container' = Len(frames) + 1 /\ UNCHANGED todo
     ELSE AssertionFailed(iAssertFlags, frames) /\ UNCHANGED container
  /\ UNCHANGED <<screen, aFiles, aIncluded, ending, flags, echoed, inner>>
----------------------------------------------------------------------------
(* The end of a frame: by its last statement, or by PH7_ABORT, which only  *)
(* a function passes on to its caller: eval(), an included file and a      *)
(* callback end, and what called them goes on.                             *)
Leaves(kind) == /\ frames # << >> /\ Head(frames).kind = kind /\ todo \in {"run", "abort"}
                /\ UNCHANGED ops

(* Mutation: exit() in an included file skips the clean-up.                *)
ReturnChunkAborted ==
  /\ Leaves("chunk")
  /\ \/ /\ Head(frames).then = "assert" /\ AssertionFailed(Head(frames).set, Tail(frames))
     \/ /\ Head(frames).then = "assert" => todo = "run"
        /\ frames' = Tail(frames) /\ todo' = "run"
  /\ container' = Head(frames).saved
  /\ aFiles' = IF Head(frames).file = None \/ todo = "abort" THEN aFiles ELSE Front(aFiles)
  /\ UNCHANGED <<screen, aIncluded, ending, flags, echoed, inner>>

ReturnChunk ==
  /\ Leaves("chunk")
  /\ \/ /\ Head(frames).then = "assert" /\ AssertionFailed(Head(frames).set, Tail(frames))
     \/ /\ Head(frames).then = "assert" => todo = "run"
        /\ frames' = Tail(frames) /\ todo' = "run"
  /\ container' = Head(frames).saved
  /\ aFiles' = IF Head(frames).file = None THEN aFiles ELSE Front(aFiles)
  /\ UNCHANGED <<screen, aIncluded, ending, flags, echoed, inner>>

ReturnCall ==
  /\ Leaves("call") /\ frames' = Tail(frames) /\ todo' = Head(frames).then
  /\ UNCHANGED <<screen, files, ending, flags, echoed, inner>>

(* The consumer appends to the entry it found before the callback ran: by  *)
(* then it may hold another buffer, or none, or be freed memory.  A string *)
(* the callback returned, here an empty one, replaces the data.  Whoever   *)
(* called the consumer tests it only now, and counts what it had handed    *)
(* over when the callback has put a device back.                           *)
ReturnOb(swallowed) ==
  LET f == Head(frames)
      there == f.base = room /\ f.slot <= Len(aOB)
  IN /\ Leaves("ob") /\ frames' = Tail(frames) /\ todo' = f.then
     /\ swallowed => todo = "run"
     /\ nObDepth' = nObDepth - 1
     /\ aOB' = IF ~swallowed /\ there THEN [aOB EXCEPT ![f.slot].data = @ \o f.data] ELSE aOB
     /\ dropped' = IF swallowed THEN dropped \cup ToSet(f.data) ELSE dropped
     /\ strays' = IF ~swallowed /\ ~there THEN strays \cup ToSet(f.data) ELSE strays
     /\ nOutputLen' = IF consumer # "ob" THEN nOutputLen + Len(f.data) ELSE nOutputLen
     /\ UNCHANGED <<consumer, xDef, room, out, overtaken, unbuffered, files, ending, flags, echoed, inner>>
----------------------------------------------------------------------------
(* The shutdown: callbacks registered so far, in order, each to its end.   *)
register_shutdown_function ==
  /\ Call /\ regs' = regs + 1 /\ aShutdown' = Append(aShutdown, regs + 1)
  /\ late' = IF phase = "shutdown" THEN late \cup {regs + 1} ELSE late
  /\ UNCHANGED <<frames, todo, screen, files, next, nEntry, phase, runs, ran, flags, echoed, inner>>

ReturnMain ==
  /\ Leaves("main") /\ frames' = Tail(frames) /\ todo' = "run"
  /\ phase' = "shutdown" /\ next' = 1 /\ nEntry' = Len(aShutdown)
  /\ UNCHANGED <<screen, files, aShutdown, runs, regs, late, ran, flags, echoed, inner>>

(* Mutation: what a callback registers takes the place of the others.      *)
InvokeShutdownCallbackLast ==
  /\ phase = "shutdown" /\ frames = << >> /\ next <= nEntry
  /\ next' = next + 1 /\ ran' = Append(ran, Last(aShutdown))
  /\ frames' = <<Frame("call", None, "run")>>
  /\ UNCHANGED <<todo, screen, files, aShutdown, nEntry, phase, runs, regs, late, flags, ops, echoed, inner>>

InvokeShutdownCallback ==
  /\ phase = "shutdown" /\ frames = << >> /\ next <= nEntry
  /\ next' = next + 1 /\ ran' = Append(ran, aShutdown[next])
  /\ frames' = <<Frame("call", None, "run")>>
  /\ UNCHANGED <<todo, screen, files, aShutdown, nEntry, phase, runs, regs, late, flags, ops, echoed, inner>>

EndShutdown ==
  /\ phase = "shutdown" /\ frames = << >> /\ next > nEntry
  /\ aShutdown' = << >> /\ phase' = "done"
  /\ UNCHANGED <<frames, todo, screen, files, next, nEntry, runs, regs, late, ran, flags, ops, echoed, inner>>
----------------------------------------------------------------------------
Files == Direct \cup Bare \cup Missing \cup Broken \cup Empty

Machine ==
  \/ Warn \/ Echo \/ Eval
  \/ \E b \in BOOLEAN : Exit(b) \/ ob_start(b) \/ error_reporting(b) \/ trigger_error(b) \/ assert(b) \/ ReturnOb(b)
  \/ ob_clean \/ ob_end_clean \/ ob_flush \/ ob_end_flush
  \/ \E f \in Files, once, required \in BOOLEAN : Include(f, once, required)
  \/ \E o \in Options : assert_options(o[1], o[2])
  \/ ReturnChunk \/ ReturnCall
  \/ register_shutdown_function \/ ReturnMain \/ InvokeShutdownCallback \/ EndShutdown

Next == Machine \/ ByteCodeExec \/ \E d \in Devices : Configure(d)
Spec == Init /\ [][Next]_vars
FairSpec == Spec /\ WF_vars(Machine)
----------------------------------------------------------------------------
Stack == Reverse(frames)    \* the outermost frame first

(* The chunks that are somewhere, each with its place: what devices were   *)
(* given, then the buffers, then what callbacks of buffers hold.           *)
Placed ==
  {<<0, i, 1, out[i][2]>> : i \in DOMAIN out}
    \cup (UNION {{<<1, i, j, aOB[i].data[j]>> : j \in DOMAIN aOB[i].data} : i \in DOMAIN aOB})
    \cup (UNION {{<<2, i, j, Stack[i].data[j]>> : j \in DOMAIN Stack[i].data} : i \in DOMAIN Stack})
Earlier(p, q) ==
  \/ p[1] < q[1]
  \/ p[1] = q[1] /\ p[2] < q[2]
  \/ p[1] = q[1] /\ p[2] = q[2] /\ p[3] < q[3]

(* Every chunk is in one place: given to a device, in one buffer, held by  *)
(* a callback, cleaned, or lost behind a callback that ended or started    *)
(* buffers; devices and buffers keep the order of the script unless a      *)
(* device was given output over a buffer that held some, but for what      *)
(* callbacks of buffers echo; what was given was counted, and nothing else *)
(* but, once a callback has ended all buffers, chunks that were lost by    *)
(* it; and while output is buffered there is a buffer to take it and a     *)
(* device to come back to (VmObConsumer, VmObFlush, VmObRestore).          *)
OutputKept ==
  LET placed == {p[4] : p \in Placed}
      gone == dropped \cup strays
  IN
    /\ placed \cup gone = 1..echoed /\ placed \cap gone = {}
    /\ \A p, q \in Placed : p[4] = q[4] => p = q
    /\ ~overtaken =>
         \A p, q \in Placed : Earlier(p, q) /\ p[4] \notin inner /\ q[4] \notin inner => p[4] < q[4]
    /\ Len(out) <= nOutputLen /\ nOutputLen <= Len(out) + Cardinality(gone)
    /\ ~unbuffered => nOutputLen = Len(out)
    /\ consumer = "ob" => aOB # << >> /\ xDef \in Devices

(* What includes, eval() and callbacks change is put back however they     *)
(* end: the files being executed are those of the frames, until a name     *)
(* is looked up along the import path and leaves its path behind; the      *)
(* compiler fills the container of the innermost chunk, and the callbacks  *)
(* of buffers are counted (vm.c:12355, 12400, 12583, 9544).                *)
ContextsRestored ==
  LET chunks == {h \in DOMAIN Stack : Stack[h].kind = "chunk"}
      running(k) == {h \in 1..k : Stack[h].kind = "chunk" /\ Stack[h].file # None}
  IN /\ (\A n \in aIncluded : Len(n) = 1) =>
          /\ aFiles[1] = Main /\ Len(aFiles) = 1 + Cardinality(running(Len(Stack)))
          /\ \A h \in running(Len(Stack)) : aFiles[1 + Cardinality(running(h))] = Stack[h].file
     /\ container = IF chunks = {} THEN 1 ELSE Max(chunks)
     /\ nObDepth = Cardinality({h \in DOMAIN Stack : Stack[h].kind = "ob"}) /\ nObDepth <= ObLimit

(* A script ends, and when it has, every callback it registered, before    *)
(* callbacks ran, has been called once, in the order of registration,      *)
(* whatever scripts and callbacks did, exit() included (vm.c:6927-6957).   *)
PromisedRuns ==
  phase = "main" ~> /\ phase = "done"
                    /\ ran = SelectSeq([k \in 1..regs |-> k], LAMBDA k : k \notin late)
============================================================================
