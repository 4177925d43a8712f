----------------------------- MODULE EngineApi -----------------------------
(***************************************************************************)
(* An engine and its virtual machines shared by threads (api.c built with  *)
(* PH7_ENABLE_THREADS), and the life of a virtual machine (vm.c).          *)
(*                                                                         *)
(* Every entry point has the same frame: an unlocked test of the magic     *)
(* number, the recursive mutex of the object, the test again, the work,    *)
(* the mutex left.  A thread has a stack of calls, because a script calls  *)
(* the functions of the host while the machine runs, and the compiler      *)
(* calls its error consumer, and both may call the library again.          *)
(***************************************************************************)
EXTENDS DList, FiniteSets, Sequences

CONSTANTS
  Threads,
  Vms,           \* chunks the engine's allocator hands out for a ph7_vm
  MaxGen,        \* bound: how often one chunk is used for a new machine
  Rank,          \* an order of the machines, to say which nested calls keep to it
  MaxDepth,      \* bound: nested calls of a thread
  Racy           \* may the host release what other threads are using?

ASSUME EngineApiAssumption ==
  /\ NULL \notin Threads \cup Vms
  /\ MaxGen \in Nat /\ MaxDepth \in Nat
  /\ Rank \in [Vms -> Nat] /\ \A v, w \in Vms : Rank[v] = Rank[w] => v = w
  /\ Racy \in BOOLEAN

VARIABLES
  engine,    \* pEngine->nMagic: "engine", "stale"; "freed" when its chunk is
  vm,        \* pVm->nMagic of each chunk
  gen,       \* how many machines lived in each chunk: names pVm->pMutex
  live,      \* the chunks that are allocated
  list, iVm, \* pEngine->pVms with the links of every chunk, and pEngine->iVm
  holder, count,   \* owner and recursion count of each mutex
  stack,     \* the calls of each thread, the innermost first
  handles,   \* the machines the host has got and not released
  wild       \* has freed memory been used as an object or a mutex?

vars == <<engine, vm, gen, live, list, iVm, holder, count, stack, handles, wild>>

EngineOps == {"config", "compile", "release"}
VmOps == {"vm_config", "exec", "reset", "vm_release"}
Locks == {<<"engine", 0>>} \cup (Vms \X (0..MaxGen))
EngineLock == <<"engine", 0>>
Labels == {"enter", "body", "compiling", "executing", "leave", "eng_enter",
           "unlink", "eng_leave", "destroy"}
Frames == [op : EngineOps \cup VmOps, v : Vms \cup {NULL}, lock : Locks, at : Labels]

Busy(t) == stack[t] # << >>
Top(t) == Head(stack[t])
At(t, ops, label) == ~wild /\ Busy(t) /\ Top(t).op \in ops /\ Top(t).at = label
Goto(t, label) == stack' = [stack EXCEPT ![t][1].at = label]
Return(t) == stack' = [stack EXCEPT ![t] = Tail(@)]

Calls(t) == {stack[t][i] : i \in DOMAIN stack[t]}
AllCalls == UNION {Calls(t) : t \in Threads}

Init ==
  /\ engine = "engine"
  /\ vm = [v \in Vms |-> "none"]
  /\ gen = [v \in Vms |-> 0]
  /\ live = {} /\ list = EmptyList(Vms) /\ iVm = 0
  /\ holder = [l \in Locks |-> NULL]
  /\ count = [l \in Locks |-> 0]
  /\ stack = [t \in Threads |-> << >>]
  /\ handles = {} /\ wild = FALSE

(***************************************************************************)
(* The host calls from outside of any call, from a function its script     *)
(* called, or from the consumer of compile errors.  A nested call works on *)
(* the engine or on any machine, in whatever order that enters the mutexes;*)
(* nobody releases an object from inside a call on it.                     *)
(***************************************************************************)
MayCall(t) ==
  /\ ~wild
  /\ Len(stack[t]) < MaxDepth
  /\ Busy(t) => Top(t).at \in {"executing", "compiling"}

Push(t, op, v, lock) ==
  stack' = [stack EXCEPT ![t] = <<[op |-> op, v |-> v, lock |-> lock, at |-> "enter"]>> \o @]

CallEngine(t, op) ==
  /\ MayCall(t)
  /\ engine = "engine"
  /\ op = "release" => ~Busy(t) /\ (Racy \/ AllCalls = {})
  /\ ~Racy => \A c \in AllCalls : c.op # "release"
  /\ Push(t, op, NULL, EngineLock)
  /\ UNCHANGED <<engine, vm, gen, live, list, iVm, holder, count, handles, wild>>

CallVm(t, op, v) ==
  /\ MayCall(t)
  /\ engine = "engine"
  /\ v \in handles /\ vm[v] # "STALE"
  /\ op = "vm_release" => \A c \in Calls(t) : c.v # v
  /\ op = "vm_release" => Racy \/ \A c \in AllCalls : c.v # v
  /\ ~Racy => \A c \in AllCalls : ~(c.op = "vm_release" /\ c.v = v)
  /\ ~Racy => \A c \in AllCalls : c.op # "release"
  /\ Push(t, op, v, <<v, gen[v]>>)
  /\ UNCHANGED <<engine, vm, gen, live, list, iVm, holder, count, handles, wild>>

(* SyMutexEnter and SyMutexLeave on a recursive mutex. *)
Free(l, t) == holder[l] \in {NULL, t}
Acquire(l, t) ==
  /\ Free(l, t)
  /\ holder' = [holder EXCEPT ![l] = t]
  /\ count' = [count EXCEPT ![l] = @ + 1]
Leave(l) ==
  /\ count' = [count EXCEPT ![l] = @ - 1]
  /\ holder' = [holder EXCEPT ![l] = IF count[l] = 1 THEN NULL ELSE @]

(***************************************************************************)
(* The prologue of the engine's entry points: enter the mutex and test the *)
(* magic number.  A stale engine returns PH7_ABORT as it is.  The mutex of *)
(* a released engine is destroyed and its chunk freed.                     *)
(***************************************************************************)
EnterEngine(t) ==
  /\ At(t, EngineOps, "enter")
  /\ \/ /\ engine = "freed"
        /\ wild' = TRUE
        /\ UNCHANGED <<holder, count, stack>>
     \/ /\ engine # "freed"
        /\ Acquire(EngineLock, t)
        /\ IF engine = "engine" THEN Goto(t, "body") ELSE Return(t)
        /\ UNCHANGED wild
  /\ UNCHANGED <<engine, vm, gen, live, list, iVm, handles>>

(* Mutation: the magic number is not tested again with the mutex. *)
EnterVmUntested(t) ==
  /\ At(t, VmOps, "enter")
  /\ engine = "engine"
  /\ Acquire(Top(t).lock, t)
  /\ Goto(t, "body")
  /\ UNCHANGED <<engine, vm, gen, live, list, iVm, handles, wild>>

(* Mutation: the mutex of the machine is not entered. *)
EnterVmUnlocked(t) ==
  /\ At(t, VmOps, "enter")
  /\ engine = "engine"
  /\ Goto(t, IF vm[Top(t).v] # "STALE" THEN "body" ELSE "enter")
  /\ UNCHANGED <<engine, vm, gen, live, list, iVm, holder, count, handles, wild>>

(* The prologue of the entry points of a machine, whose chunk goes with its *)
(* engine and may be the chunk of another machine by now.                   *)
EnterVm(t) ==
  /\ At(t, VmOps, "enter")
  /\ \/ /\ engine # "engine" \/ gen[Top(t).v] # Top(t).lock[2]
        /\ wild' = TRUE
        /\ UNCHANGED <<holder, count, stack>>
     \/ /\ engine = "engine" /\ gen[Top(t).v] = Top(t).lock[2]
        /\ Acquire(Top(t).lock, t)
        /\ IF vm[Top(t).v] # "STALE" THEN Goto(t, "body") ELSE Return(t)
        /\ UNCHANGED wild
  /\ UNCHANGED <<engine, vm, gen, live, list, iVm, handles>>

(* EngineConfig and PH7_VmConfigure leave the life of the objects alone. *)
Configure(t) ==
  /\ At(t, {"config", "vm_config"}, "body")
  /\ Goto(t, "leave")
  /\ UNCHANGED <<engine, vm, gen, live, list, iVm, holder, count, handles, wild>>

(***************************************************************************)
(* ProcessScript: allocate the machine, PH7_VmInit ...                     *)
(***************************************************************************)
StartCompile(t) ==
  /\ At(t, {"compile"}, "body")
  /\ \/ \E v \in Vms \ live :
          /\ gen[v] < MaxGen
          /\ live' = live \cup {v}
          /\ gen' = [gen EXCEPT ![v] = @ + 1]
          /\ vm' = [vm EXCEPT ![v] = "INIT"]
          /\ list' = ZeroLinks(list, v)
          /\ stack' = [stack EXCEPT ![t][1].at = "compiling", ![t][1].v = v]
     \/ /\ Goto(t, "leave")
        /\ UNCHANGED <<live, gen, vm, list>>
  /\ UNCHANGED <<engine, iVm, holder, count, handles, wild>>

(* ... the script does not compile, or the machine cannot be made ready ... *)
FailCompile(t) ==
  /\ At(t, {"compile"}, "compiling")
  /\ live' = live \ {Top(t).v}
  /\ stack' = [stack EXCEPT ![t][1].at = "leave", ![t][1].v = NULL]
  /\ UNCHANGED <<engine, vm, gen, list, iVm, holder, count, handles, wild>>

(* ... or PH7_VmMakeReady, and the machine joins the list of its engine. *)
FinishCompile(t) ==
  /\ At(t, {"compile"}, "compiling")
  /\ vm' = [vm EXCEPT ![Top(t).v] = "RUN"]
  /\ list' = LdPush(list, Top(t).v)
  /\ iVm' = iVm + 1
  /\ Goto(t, "leave")
  /\ UNCHANGED <<engine, gen, live, holder, count, handles, wild>>

(* PH7_VmByteCodeExec: a machine runs once, until it is reset. *)
StartExec(t) ==
  /\ At(t, {"exec"}, "body")
  /\ IF vm[Top(t).v] = "RUN"
     THEN vm' = [vm EXCEPT ![Top(t).v] = "EXEC"] /\ Goto(t, "executing")
     ELSE Goto(t, "leave") /\ UNCHANGED vm
  /\ UNCHANGED <<engine, gen, live, list, iVm, holder, count, handles, wild>>

(* The program and its shutdown callbacks are done; the machine stays EXEC. *)
FinishExec(t) ==
  /\ At(t, {"exec"}, "executing")
  /\ Goto(t, "leave")
  /\ UNCHANGED <<engine, vm, gen, live, list, iVm, holder, count, handles, wild>>

(* PH7_VmReset *)
Reset(t) ==
  /\ At(t, {"reset"}, "body")
  /\ vm' = IF vm[Top(t).v] \in {"RUN", "EXEC"} THEN [vm EXCEPT ![Top(t).v] = "RUN"] ELSE vm
  /\ Goto(t, "leave")
  /\ UNCHANGED <<engine, gen, live, list, iVm, holder, count, handles, wild>>

(* PH7_VmRelease: the mark and the machine's own memory. *)
ReleaseVm(t) ==
  /\ At(t, {"vm_release"}, "body")
  /\ vm' = [vm EXCEPT ![Top(t).v] = "STALE"]
  /\ Goto(t, "leave")
  /\ UNCHANGED <<engine, gen, live, list, iVm, holder, count, handles, wild>>

(* Mutation: ph7_config returns without leaving the mutex. *)
LeaveCallLocked(t) ==
  /\ At(t, {"config", "compile", "vm_config", "exec", "reset"}, "leave")
  /\ IF Top(t).op = "config" THEN UNCHANGED <<holder, count>> ELSE Leave(Top(t).lock)
  /\ handles' = IF Top(t).op = "compile" /\ Top(t).v # NULL
                THEN handles \cup {Top(t).v} ELSE handles
  /\ Return(t)
  /\ UNCHANGED <<engine, vm, gen, live, list, iVm, wild>>

(* The end of a call that changed nothing but its object ... *)
LeaveCall(t) ==
  /\ At(t, {"config", "compile", "vm_config", "exec", "reset"}, "leave")
  /\ Leave(Top(t).lock)
  /\ handles' = IF Top(t).op = "compile" /\ Top(t).v # NULL
                THEN handles \cup {Top(t).v} ELSE handles
  /\ Return(t)
  /\ UNCHANGED <<engine, vm, gen, live, list, iVm, wild>>

(* Mutation: ph7_vm_release keeps the machine's mutex. *)
LeaveReleasedVmLocked(t) ==
  /\ At(t, {"vm_release"}, "leave")
  /\ Goto(t, "eng_enter")
  /\ UNCHANGED <<engine, vm, gen, live, list, iVm, holder, count, handles, wild>>

(* ... and of ph7_vm_release, which goes on with the engine. *)
LeaveReleasedVm(t) ==
  /\ At(t, {"vm_release"}, "leave")
  /\ Leave(Top(t).lock)
  /\ Goto(t, "eng_enter")
  /\ UNCHANGED <<engine, vm, gen, live, list, iVm, handles, wild>>

EnterEngineOfVm(t) ==
  /\ At(t, {"vm_release"}, "eng_enter")
  /\ \/ /\ engine = "freed"
        /\ wild' = TRUE
        /\ UNCHANGED <<holder, count, stack, handles>>
     \/ /\ engine # "freed"
        /\ Acquire(EngineLock, t)
        /\ IF engine = "engine" THEN Goto(t, "unlink") /\ UNCHANGED handles
           ELSE Return(t) /\ handles' = handles \ {Top(t).v}
        /\ UNCHANGED wild
  /\ UNCHANGED <<engine, vm, gen, live, list, iVm>>

UnlinkVm(t) ==
  /\ At(t, {"vm_release"}, "unlink")
  /\ list' = LdRemove(list, Top(t).v)
  /\ iVm' = iVm - 1
  /\ live' = live \ {Top(t).v}
  /\ Goto(t, "eng_leave")
  /\ UNCHANGED <<engine, vm, gen, holder, count, handles, wild>>

LeaveEngineOfVm(t) ==
  /\ At(t, {"vm_release"}, "eng_leave")
  /\ Leave(EngineLock)
  /\ handles' = handles \ {Top(t).v}
  /\ Return(t)
  /\ UNCHANGED <<engine, vm, gen, live, list, iVm, wild>>

(* Mutation: the machines get the dummy magic number of an engine. *)
ReleaseEngineDummy(t) ==
  /\ At(t, {"release"}, "body")
  /\ vm' = [v \in Vms |-> IF v \in FirstItems(list, iVm) THEN "stale" ELSE vm[v]]
  /\ iVm' = 0
  /\ live' = {}
  /\ engine' = "stale"
  /\ Goto(t, "leave")
  /\ UNCHANGED <<gen, list, holder, count, handles, wild>>

(***************************************************************************)
(* EngineRelease: the first iVm machines of the list, without their        *)
(* mutexes, then the private allocator and every chunk of it.              *)
(***************************************************************************)
ReleaseEngine(t) ==
  /\ At(t, {"release"}, "body")
  /\ vm' = [v \in Vms |-> IF v \in FirstItems(list, iVm) THEN "STALE" ELSE vm[v]]
  /\ iVm' = 0
  /\ live' = {}
  /\ engine' = "stale"
  /\ wild' = \E c \in AllCalls : c.op \in VmOps /\ c.at \in {"body", "executing", "leave"}
  /\ Goto(t, "leave")
  /\ UNCHANGED <<gen, list, holder, count, handles>>

LeaveReleasedEngine(t) ==
  /\ At(t, {"release"}, "leave")
  /\ Leave(EngineLock)
  /\ Goto(t, "destroy")
  /\ UNCHANGED <<engine, vm, gen, live, list, iVm, handles, wild>>

(* SyMutexRelease of the engine's mutex, and its chunk: a thread that waits *)
(* for the mutex or has just got it is left with freed memory.              *)
DestroyEngine(t) ==
  /\ At(t, {"release"}, "destroy")
  /\ engine' = "freed"
  /\ handles' = {}
  /\ wild' = (holder[EngineLock] # NULL)
  /\ Return(t)
  /\ UNCHANGED <<vm, gen, live, list, iVm, holder, count>>

(* ph7_init of the next engine, in the same chunk (see LibInit). *)
NewEngine ==
  /\ engine = "freed" /\ ~wild
  /\ AllCalls = {}
  /\ engine' = "engine"
  /\ list' = EmptyList(Vms)
  /\ UNCHANGED <<vm, gen, live, iVm, holder, count, stack, handles, wild>>

Step(t) ==
  \/ EnterEngine(t) \/ EnterVm(t) \/ Configure(t)
  \/ StartCompile(t) \/ FailCompile(t) \/ FinishCompile(t)
  \/ StartExec(t) \/ FinishExec(t) \/ Reset(t) \/ ReleaseVm(t)
  \/ LeaveCall(t) \/ LeaveReleasedVm(t) \/ EnterEngineOfVm(t) \/ UnlinkVm(t)
  \/ LeaveEngineOfVm(t) \/ ReleaseEngine(t) \/ LeaveReleasedEngine(t) \/ DestroyEngine(t)

Next ==
  \/ \E t \in Threads :
        \/ Step(t)
        \/ \E op \in EngineOps : CallEngine(t, op)
        \/ \E op \in VmOps, v \in Vms : CallVm(t, op, v)
  \/ NewEngine

Spec == Init /\ [][Next]_vars

(***************************************************************************)
(* A call that can go on does, every script and every compilation ends     *)
(* after finitely many calls of the host, and a mutex that is free again   *)
(* and again in the end admits each of its waiters.                        *)
(***************************************************************************)
FairSpec ==
  /\ Spec
  /\ \A t \in Threads :
       /\ WF_vars(Step(t))
       /\ SF_vars(EnterEngine(t) \/ EnterVm(t) \/ EnterEngineOfVm(t))
       /\ \A d \in 1..MaxDepth :
            SF_vars(Len(stack[t]) = d /\ (FinishExec(t) \/ FinishCompile(t)))
----------------------------------------------------------------------------
TypeOK ==
  /\ engine \in {"engine", "stale", "freed"}
  /\ vm \in [Vms -> {"none", "INIT", "RUN", "EXEC", "STALE"}]
  /\ gen \in [Vms -> 0..MaxGen]
  /\ live \subseteq Vms
  /\ list \in Lists(Vms)
  /\ iVm \in Int
  /\ holder \in [Locks -> Threads \cup {NULL}]
  /\ count \in [Locks -> Int]
  /\ stack \in [Threads -> Seq(Frames)]
  /\ handles \subseteq Vms
  /\ wild \in BOOLEAN

(***************************************************************************)
(* A machine runs in one thread at a time, also when two threads execute   *)
(* it, reset it and execute it again.                                      *)
(***************************************************************************)
Executing(t, v) == \E c \in Calls(t) : c.op = "exec" /\ c.v = v /\ c.at = "executing"
ExecExclusive ==
  \A t, u \in Threads, v \in Vms : Executing(t, v) /\ Executing(u, v) => t = u

(***************************************************************************)
(* The list of an engine links exactly its finished machines and iVm counts*)
(* them, so EngineRelease (api.c:434-445) releases each once: also when    *)
(* two threads release the same machine.                                   *)
(***************************************************************************)
Members == live \ {c.v : c \in {d \in AllCalls : d.at = "compiling"}}
VmListExact ==
  engine = "engine" => Linked(list, Members) /\ iVm = Cardinality(Members)

(***************************************************************************)
(* Every mutex is held by calls in progress, as many times as they entered *)
(* it: no path of any entry point returns with a mutex.                    *)
(***************************************************************************)
Inside == {"body", "compiling", "executing", "leave"}
Entered(t, l) ==
  Cardinality({i \in DOMAIN stack[t] :
     \/ stack[t][i].lock = l /\ stack[t][i].at \in Inside
     \/ l = EngineLock /\ stack[t][i].at \in {"unlink", "eng_leave"}})
LocksOfCalls ==
  \A l \in Locks :
     /\ holder[l] = NULL => count[l] = 0
     /\ \A t \in Threads : Entered(t, l) = (IF holder[l] = t THEN count[l] ELSE 0)

(***************************************************************************)
(* Threads that wait for each other's mutexes.  The order that avoids it:  *)
(* machines by their rank, the engine last.                                *)
(***************************************************************************)
Before(l, m) == l # EngineLock /\ (m = EngineLock \/ Rank[l[1]] < Rank[m[1]])
Wanted(t) == IF Top(t).at = "enter" THEN Top(t).lock ELSE EngineLock
Waits(t, u) == /\ t # u /\ Busy(t) /\ Top(t).at \in {"enter", "eng_enter"}
               /\ holder[Wanted(t)] = u
OutOfOrder(t) == \E c \in Calls(t) : holder[c.lock] = t /\ ~Before(c.lock, Wanted(t))
Deadlocked ==
  \E S \in SUBSET Threads \ {{}} :
     /\ \A t \in S : \E u \in S : Waits(t, u)
     /\ \E t \in S : OutOfOrder(t)

(***************************************************************************)
(* Every call returns, although calls nest and ph7_vm_release takes two    *)
(* mutexes one after the other: but for threads that wait for each other   *)
(* in a circle, which takes a host that, from inside a call, calls on a    *)
(* machine of a lower rank or, while it compiles, on any (api.c enters     *)
(* whatever mutex is asked for, and holds the outer one meanwhile).        *)
(***************************************************************************)
CallsReturn == \A t \in Threads : Busy(t) ~> ~Busy(t) \/ Deadlocked
============================================================================
