------------------------------ MODULE LibInit ------------------------------
(***************************************************************************)
(* The life of the library and its list of engines (api.c), as the build   *)
(* with PH7_ENABLE_THREADS runs it: ph7_lib_config, ph7_lib_init, ph7_init,*)
(* ph7_release and ph7_lib_shutdown over the one global record sMPGlobal.  *)
(* Every thread runs one call at a time; pc[t] is the statement it is at,  *)
(* one step per access to the shared record.  What a call does to a single *)
(* engine under the engine's own mutex is in EngineApi.                    *)
(***************************************************************************)
EXTENDS DList, FiniteSets

CONSTANTS
  Threads,         \* threads of the host application
  Mutexes,         \* mutexes the mutex subsystem can create
  Engines,         \* chunks the global allocator can hand out for a ph7
  Master,          \* the static mutex SXMUTEX_TYPE_STATIC_1
  Reuses           \* may an engine get a chunk that a list of before a shutdown leads to?

ASSUME LibInitAssumption ==
  /\ NULL \notin Threads \cup Mutexes \cup Engines \cup {Master}
  /\ Master \notin Mutexes
  /\ Reuses \in BOOLEAN

VARIABLES
  host,      \* "orderly", or "racing": its first calls may run concurrently; "lost"
             \* after a race for the list lost a change (bound: no call is made then)
  magic,     \* sMPGlobal.nMagic: "none", "lib" (PH7_LIB_MAGIC) or "shut"
  level,     \* sMPGlobal.nThreadingLevel: 0 unset, 1 single, 2 multi
  methods,   \* is sMPGlobal.pMutexMethods set
  gmutex,    \* sMPGlobal.pMutex
  created,   \* the mutexes created and not yet released
  owner,     \* the thread holding each mutex
  alloc,     \* sMPGlobal.sAllocator: is it initialized, and its mutex
  list,      \* sMPGlobal.pEngines and the links of every engine chunk
  nEngine,   \* sMPGlobal.nEngine
  live,      \* the engines that are allocated and not released
  past,      \* history: the engines that a shutdown released
  pc, rc,    \* statement and return code of each thread's call
  eng,       \* the engine each call works on
  lock       \* the mutex a thread is about to enter

vars == <<host, magic, level, methods, gmutex, created, owner, alloc, list, nEngine,
          live, past, pc, rc, eng, lock>>

lib == <<magic, level, methods, gmutex, created>>
heap == <<list, nEngine, live, past>>

InitPcs == {"I_check", "I_methods", "I_cfg", "I_drop", "I_new", "I_use",
            "I_master", "I_recheck", "I_alloc", "I_safe", "I_magic", "I_leave"}
MasterPcs == {"I_recheck", "I_alloc", "I_safe", "I_magic", "I_leave"}
ListPcs == {"E_push", "E_leave", "R_unlink", "R_leave"}
Pcs == InitPcs \cup ListPcs \cup
       {"idle", "E_alloc", "E_enter", "E_lock", "R_enter", "R_lock", "R_free"}
Codes == {"OK", "LOOKED", "CORRUPT", "NOMEM", "OS"}

AllIdle == \A t \in Threads : pc[t] = "idle"
Goto(t, label) == pc' = [pc EXCEPT ![t] = label]
Return(t, code) == Goto(t, "idle") /\ rc' = [rc EXCEPT ![t] = code]

Init ==
  /\ host \in {"orderly", "racing"}
  /\ magic = "none" /\ level = 0 /\ methods = FALSE
  /\ gmutex = NULL /\ created = {}
  /\ owner = [m \in Mutexes \cup {Master} |-> NULL]
  /\ alloc = [ready |-> FALSE, mutex |-> NULL]
  /\ list = EmptyList(Engines) /\ nEngine = 0 /\ live = {} /\ past = {}
  /\ pc = [t \in Threads |-> "idle"]
  /\ rc = [t \in Threads |-> "OK"]
  /\ eng = [t \in Threads |-> NULL]
  /\ lock = [t \in Threads |-> NULL]

(***************************************************************************)
(* ph7_lib_config(PH7_LIB_CONFIG_THREAD_LEVEL_xxx), a call of the host's   *)
(* start-up code.  It is refused once the library is initialized.          *)
(***************************************************************************)
ConfigLevel(l) ==
  /\ AllIdle
  /\ magic # "lib"
  /\ level' = l
  /\ UNCHANGED <<magic, methods, gmutex, created, owner, alloc, heap, pc, rc, eng, lock>>

(***************************************************************************)
(* ph7_init.  In single-threaded mode only one thread may use the library. *)
(***************************************************************************)
CallInit(t) ==
  /\ pc[t] = "idle"
  /\ host # "lost"
  /\ AllIdle \/ (level # 1 /\ (host = "racing" \/ magic = "lib"))
  /\ Goto(t, "I_check")
  /\ eng' = [eng EXCEPT ![t] = NULL]
  /\ UNCHANGED <<lib, owner, alloc, heap, rc, lock>>

(* The unlocked test of PH7CoreInitialize. *)
Check(t) ==
  /\ pc[t] = "I_check"
  /\ Goto(t, IF magic = "lib" THEN "E_alloc" ELSE "I_methods")
  /\ UNCHANGED <<lib, owner, alloc, heap, rc, eng, lock>>

(* Is a mutex subsystem wanted, and is one installed. *)
ChooseMethods(t) ==
  /\ pc[t] = "I_methods"
  /\ Goto(t, IF level = 1 THEN "I_recheck" ELSE IF methods THEN "I_master" ELSE "I_cfg")
  /\ UNCHANGED <<lib, owner, alloc, heap, rc, eng, lock>>

(* ph7_lib_config(PH7_LIB_CONFIG_USER_MUTEX, ...) tests the magic number again. *)
ConfigMutex(t) ==
  /\ pc[t] = "I_cfg"
  /\ IF magic = "lib" THEN Return(t, "LOOKED") ELSE Goto(t, "I_drop") /\ UNCHANGED rc
  /\ UNCHANGED <<lib, owner, alloc, heap, eng, lock>>

(* PH7CoreConfigure: overwrite the previous mutex subsystem. *)
DropMutex(t) ==
  /\ pc[t] = "I_drop"
  /\ created' = IF methods THEN created \ {gmutex} ELSE created
  /\ gmutex' = IF methods THEN NULL ELSE gmutex
  /\ Goto(t, "I_new")
  /\ UNCHANGED <<magic, level, methods, owner, alloc, heap, rc, eng, lock>>

(* ... create the global mutex, which may fail ... *)
NewMutex(t) ==
  /\ pc[t] = "I_new"
  /\ \/ \E m \in Mutexes \ created :
          /\ gmutex' = m
          /\ created' = created \cup {m}
          /\ owner' = [owner EXCEPT ![m] = NULL]
          /\ Goto(t, "I_use")
          /\ UNCHANGED rc
     \/ /\ gmutex' = NULL
        /\ Return(t, "CORRUPT")
        /\ UNCHANGED <<created, owner>>
  /\ UNCHANGED <<magic, level, methods, alloc, heap, eng, lock>>

(* ... and install the methods. *)
UseMethods(t) ==
  /\ pc[t] = "I_use"
  /\ methods' = TRUE
  /\ level' = IF level = 0 THEN 2 ELSE level
  /\ Goto(t, "I_master")
  /\ UNCHANGED <<magic, gmutex, created, owner, alloc, heap, rc, eng, lock>>

(* Mutation: the wait for the master mutex is forgotten *)
EnterMasterUnlocked(t) ==
  /\ pc[t] = "I_master"
  /\ Goto(t, "I_recheck")
  /\ UNCHANGED <<lib, owner, alloc, heap, rc, eng, lock>>

EnterMaster(t) ==
  /\ pc[t] = "I_master"
  /\ owner[Master] = NULL
  /\ owner' = [owner EXCEPT ![Master] = t]
  /\ Goto(t, "I_recheck")
  /\ UNCHANGED <<lib, alloc, heap, rc, eng, lock>>

(* Mutation: the magic number is not tested again under the master mutex *)
RecheckSkipped(t) ==
  /\ pc[t] = "I_recheck"
  /\ Goto(t, "I_alloc")
  /\ rc' = [rc EXCEPT ![t] = "OK"]
  /\ UNCHANGED <<lib, owner, alloc, heap, eng, lock>>

(* The test of the magic number under the master mutex. *)
Recheck(t) ==
  /\ pc[t] = "I_recheck"
  /\ Goto(t, IF magic = "lib" THEN "I_leave" ELSE "I_alloc")
  /\ rc' = [rc EXCEPT ![t] = "OK"]
  /\ UNCHANGED <<lib, owner, alloc, heap, eng, lock>>

(* ph7_lib_config(PH7_LIB_CONFIG_USER_MALLOC, 0): SyMemBackendInit zeroes the allocator. *)
InitAllocator(t) ==
  /\ pc[t] = "I_alloc"
  /\ alloc' = IF alloc.ready THEN alloc ELSE [ready |-> TRUE, mutex |-> NULL]
  /\ Goto(t, "I_safe")
  /\ UNCHANGED <<lib, owner, heap, rc, eng, lock>>

(* SyMemBackendMakeThreadSafe *)
ProtectAllocator(t) ==
  /\ pc[t] = "I_safe"
  /\ \/ /\ level <= 1
        /\ Goto(t, "I_magic")
        /\ UNCHANGED <<created, owner, alloc, rc>>
     \/ /\ level > 1
        /\ \E m \in Mutexes \ created :
             /\ created' = created \cup {m}
             /\ owner' = [owner EXCEPT ![m] = NULL]
             /\ alloc' = [alloc EXCEPT !.mutex = m]
        /\ Goto(t, "I_magic")
        /\ UNCHANGED rc
     \/ /\ level > 1
        /\ Goto(t, "I_leave")
        /\ rc' = [rc EXCEPT ![t] = "OS"]
        /\ UNCHANGED <<created, owner, alloc>>
  /\ UNCHANGED <<magic, level, methods, gmutex, heap, eng, lock>>

SetMagic(t) ==
  /\ pc[t] = "I_magic"
  /\ magic' = "lib"
  /\ rc' = [rc EXCEPT ![t] = "OK"]
  /\ Goto(t, "I_leave")
  /\ UNCHANGED <<level, methods, gmutex, created, owner, alloc, heap, eng, lock>>

(* Mutation: the error path returns without leaving the master mutex *)
LeaveMasterLeak(t) ==
  /\ pc[t] = "I_leave"
  /\ owner' = IF owner[Master] = t /\ rc[t] = "OK" THEN [owner EXCEPT ![Master] = NULL] ELSE owner
  /\ Goto(t, IF rc[t] = "OK" THEN "E_alloc" ELSE "idle")
  /\ UNCHANGED <<lib, alloc, heap, rc, eng, lock>>

(* The label End: leave the master mutex on every path. *)
LeaveMaster(t) ==
  /\ pc[t] = "I_leave"
  /\ owner' = IF owner[Master] = t THEN [owner EXCEPT ![Master] = NULL] ELSE owner
  /\ Goto(t, IF rc[t] = "OK" THEN "E_alloc" ELSE "idle")
  /\ UNCHANGED <<lib, alloc, heap, rc, eng, lock>>

(* Allocate and zero the engine; its private allocator and mutex may fail (Release:). *)
AllocEngine(t) ==
  /\ pc[t] = "E_alloc"
  /\ \/ \E e \in Engines \ live :
          /\ Reuses \/ e \notin past
          /\ live' = live \cup {e}
          /\ list' = ZeroLinks(list, e)
          /\ eng' = [eng EXCEPT ![t] = e]
          /\ Goto(t, "E_enter")
          /\ UNCHANGED rc
     \/ Return(t, "NOMEM") /\ UNCHANGED <<live, list, eng>>
  /\ UNCHANGED <<lib, owner, alloc, nEngine, past, lock>>

(* SyMutexEnter(..., sMPGlobal.pMutex) evaluates the global first and is a  *)
(* no-op on a null mutex.                                                   *)
ReadGlobalMutex(t, here, wait, inside) ==
  /\ pc[t] = here
  /\ lock' = [lock EXCEPT ![t] = gmutex]
  /\ Goto(t, IF gmutex = NULL THEN inside ELSE wait)
  /\ UNCHANGED <<lib, owner, alloc, heap, rc, eng>>

(* Mutation: the global mutex is entered while another thread holds it *)
EnterGlobalMutexHeld(t, here, inside) ==
  /\ pc[t] = here
  /\ owner' = [owner EXCEPT ![lock[t]] = t]
  /\ Goto(t, inside)
  /\ UNCHANGED <<lib, alloc, heap, rc, eng, lock>>

EnterGlobalMutex(t, here, inside) ==
  /\ pc[t] = here
  /\ owner[lock[t]] = NULL
  /\ owner' = [owner EXCEPT ![lock[t]] = t]
  /\ Goto(t, inside)
  /\ UNCHANGED <<lib, alloc, heap, rc, eng, lock>>

LeaveGlobalMutex ==
  owner' = IF gmutex = NULL THEN owner ELSE [owner EXCEPT ![gmutex] = NULL]

(* The list and its count after a change under the global mutex.  The mutex *)
(* is another one for a thread that a late installation has overtaken: what *)
(* a thread writes while another one is at the same may then be lost.       *)
Change(t, newList, newCount) ==
  \/ list' = newList /\ nEngine' = newCount /\ UNCHANGED host
  \/ /\ \E u \in Threads \ {t} : pc[u] \in {"E_push", "R_unlink"}
     /\ list' \in {list, newList}
     /\ nEngine' \in {nEngine, newCount}
     /\ host' = "lost"

PushEngine(t) ==
  /\ pc[t] = "E_push"
  /\ Change(t, LdPush(list, eng[t]), nEngine + 1)
  /\ Goto(t, "E_leave")
  /\ UNCHANGED <<lib, owner, alloc, live, past, rc, eng, lock>>

ReturnEngine(t) ==
  /\ pc[t] = "E_leave"
  /\ LeaveGlobalMutex
  /\ Return(t, "OK")
  /\ UNCHANGED <<lib, alloc, heap, eng, lock>>

(***************************************************************************)
(* ph7_release of an engine no call is working on.                         *)
(***************************************************************************)
InCall == {eng[t] : t \in {u \in Threads : pc[u] # "idle"}}

CallRelease(t, e) ==
  /\ pc[t] = "idle"
  /\ magic = "lib" /\ host # "lost"
  /\ AllIdle \/ level # 1
  /\ e \in live \ InCall
  /\ eng' = [eng EXCEPT ![t] = e]
  /\ Goto(t, "R_enter")
  /\ UNCHANGED <<lib, owner, alloc, heap, rc, lock>>

(* Mutation: the count is decremented but the engine is not unlinked *)
UnlinkEngineForgotten(t) ==
  /\ pc[t] = "R_unlink"
  /\ nEngine' = nEngine - 1
  /\ Goto(t, "R_leave")
  /\ UNCHANGED <<host, lib, owner, alloc, list, live, past, rc, eng, lock>>

UnlinkEngine(t) ==
  /\ pc[t] = "R_unlink"
  /\ Change(t, LdRemove(list, eng[t]), nEngine - 1)
  /\ Goto(t, "R_leave")
  /\ UNCHANGED <<lib, owner, alloc, live, past, rc, eng, lock>>

LeaveUnlinked(t) ==
  /\ pc[t] = "R_leave"
  /\ LeaveGlobalMutex
  /\ Goto(t, "R_free")
  /\ UNCHANGED <<lib, alloc, heap, rc, eng, lock>>

FreeEngine(t) ==
  /\ pc[t] = "R_free"
  /\ live' = live \ {eng[t]}
  /\ Return(t, "OK")
  /\ UNCHANGED <<lib, owner, alloc, list, nEngine, past, eng, lock>>

(***************************************************************************)
(* ph7_lib_shutdown, documented as not thread safe: the counted loop       *)
(* releases the first nEngine engines of the list, the two mutexes and the *)
(* allocator.  The head of the list keeps its value.                       *)
(***************************************************************************)
Shutdown ==
  /\ AllIdle
  /\ magic = "lib"
  /\ nEngine' = 0
  /\ live' = live \ FirstItems(list, nEngine)
  /\ past' = past \cup live
  /\ created' = created \ ((IF methods THEN {gmutex} ELSE {}) \cup {alloc.mutex})
  /\ gmutex' = IF methods THEN NULL ELSE gmutex
  /\ methods' = FALSE
  /\ level' = 0
  /\ alloc' = [ready |-> FALSE, mutex |-> NULL]
  /\ magic' = "shut"
  /\ UNCHANGED <<owner, list, pc, rc, eng, lock>>

Initialize(t) ==
  \/ Check(t) \/ ChooseMethods(t) \/ ConfigMutex(t) \/ DropMutex(t) \/ NewMutex(t)
  \/ UseMethods(t) \/ EnterMaster(t) \/ Recheck(t) \/ InitAllocator(t)
  \/ ProtectAllocator(t) \/ SetMagic(t) \/ LeaveMaster(t)

Create(t) ==
  \/ AllocEngine(t)
  \/ ReadGlobalMutex(t, "E_enter", "E_lock", "E_push")
  \/ EnterGlobalMutex(t, "E_lock", "E_push")
  \/ ReturnEngine(t)

Release(t) ==
  \/ ReadGlobalMutex(t, "R_enter", "R_lock", "R_unlink")
  \/ EnterGlobalMutex(t, "R_lock", "R_unlink")
  \/ LeaveUnlinked(t) \/ FreeEngine(t)

Next ==
  \/ \E t \in Threads : PushEngine(t) \/ UnlinkEngine(t)
  \/ /\ UNCHANGED host
     /\ \/ \E l \in {1, 2} : ConfigLevel(l)
        \/ \E t \in Threads : CallInit(t) \/ Initialize(t) \/ Create(t) \/ Release(t)
        \/ \E t \in Threads, e \in Engines : CallRelease(t, e)
        \/ Shutdown

Spec == Init /\ [][Next]_vars
----------------------------------------------------------------------------
TypeOK ==
  /\ host \in {"orderly", "racing", "lost"}
  /\ magic \in {"none", "lib", "shut"}
  /\ level \in 0..2
  /\ methods \in BOOLEAN
  /\ gmutex \in Mutexes \cup {NULL}
  /\ created \subseteq Mutexes
  /\ owner \in [Mutexes \cup {Master} -> Threads \cup {NULL}]
  /\ alloc \in [ready : BOOLEAN, mutex : Mutexes \cup {NULL}]
  /\ list \in Lists(Engines)
  /\ nEngine \in Int
  /\ live \subseteq Engines
  /\ past \subseteq Engines
  /\ pc \in [Threads -> Pcs]
  /\ rc \in [Threads -> Codes]
  /\ eng \in [Threads -> Engines \cup {NULL}]
  /\ lock \in [Threads -> Mutexes \cup {NULL}]

(***************************************************************************)
(* Only one thread at a time is between the entry and the exit of the      *)
(* master mutex (api.c:377-411), whatever the threads raced through before.*)
(***************************************************************************)
MasterExclusive ==
  \A t, u \in Threads :
    (pc[t] \in MasterPcs /\ pc[u] \in MasterPcs) => (t = u)

(***************************************************************************)
(* Only one thread at a time changes the list of engines (api.c:669-677,   *)
(* 721-729), although each reads the global mutex from the shared record   *)
(* again: as long as the host does not let its first calls race, no thread *)
(* that is still installing a mutex overlaps with one that uses it.        *)
(***************************************************************************)
ListExclusive ==
  host = "orderly" => \A t, u \in Threads : (pc[t] \in ListPcs /\ pc[u] \in ListPcs) => (t = u)

(***************************************************************************)
(* The global allocator is never set up again under a working library: no  *)
(* initialization that was overtaken by another one replaces the allocator *)
(* or its mutex once the magic number is set, nor, where no update of the  *)
(* list was lost, while an engine lives in it.                             *)
(***************************************************************************)
AllocatorInitOnce ==
  [][(alloc' # alloc /\ alloc'.ready) => (magic # "lib" /\ (host # "orderly" \/ live = {}))]_vars

(***************************************************************************)
(* What PH7CoreShutdown relies on (api.c:463-475): the first nEngine       *)
(* engines reached from the head are exactly the engines that are linked,  *)
(* each once, whatever stale links follow the last.                        *)
(***************************************************************************)
Linkable == {eng[t] : t \in {u \in Threads :
                pc[u] \in {"E_enter", "E_lock", "E_push", "R_leave", "R_free"}}}
CountedEngines ==
  host = "orderly" =>
     /\ FirstItems(list, nEngine) = live \ Linkable
     /\ Cardinality(live \ Linkable) = nEngine

(***************************************************************************)
(* A call that has returned, with whatever code, holds no mutex another    *)
(* call waits for or is going to enter: every failure of PH7CoreInitialize *)
(* runs through the label End (api.c:408-414), and the mutex a call leaves *)
(* (api.c:677, 729), which it reads from the shared record again, is the   *)
(* one it has entered.  Where first calls race only the master mutex is    *)
(* safe: a late installation may drop the mutex that others wait for.      *)
(***************************************************************************)
Awaited ==
  {Master} \cup
  IF host = "orderly"
  THEN {gmutex, alloc.mutex} \cup {lock[t] : t \in {u \in Threads : pc[u] \in {"E_lock", "R_lock"}}}
  ELSE {}
MutexesLeft ==
  \A m \in Awaited \ {NULL} : owner[m] # NULL => pc[owner[m]] # "idle"
============================================================================
