--------------------------- MODULE LibInitProofs ---------------------------
(***************************************************************************)
(* Mutual exclusion inside PH7CoreInitialize, for every number of threads, *)
(* mutexes and engines.  MasterExclusive is not inductive: a thread is     *)
(* under the master mutex either because it holds it, or because the       *)
(* threading level is single and then it is the only thread in the library.*)
(***************************************************************************)
EXTENDS LibInit, DListTheorems

(* In single-threaded mode at most one thread is inside the library. *)
SingleAlone ==
  (level = 1) => \A t, u \in Threads : (pc[t] # "idle" /\ pc[u] # "idle") => (t = u)

(* Otherwise what follows the entry of the master mutex runs with it. *)
MasterHeld ==
  (level # 1) => \A t \in Threads : (pc[t] \in MasterPcs) => (owner[Master] = t)

(* A call sets up the allocator only before the magic number is set, and   *)
(* works on engines only after.                                            *)
Installing == \A t \in Threads : (pc[t] \in {"I_alloc", "I_safe", "I_magic"}) => (magic # "lib")

HoldPcs == ListPcs \cup {"E_enter", "E_lock", "R_enter", "R_lock", "R_free"}
Installed ==
  \A t \in Threads : (\/ pc[t] \in HoldPcs \cup {"E_alloc"}
                      \/ pc[t] = "I_leave" /\ rc[t] = "OK") => (magic = "lib")

(* Every call has an engine of its own. *)
Owned == \A t \in Threads : (pc[t] \in HoldPcs) => (eng[t] \in live)
Distinct ==
  \A t, u \in Threads : (pc[t] \in HoldPcs /\ pc[u] \in HoldPcs /\ eng[t] = eng[u]) => (t = u)

(* Only a call that is inside PH7CoreInitialize holds the master mutex. *)
MasterInside == owner[Master] # NULL => pc[owner[Master]] \in MasterPcs

Small ==
  SingleAlone /\ MasterHeld /\ MasterInside /\ Installing /\ Installed /\ Owned /\ Distinct

IInv == TypeOK /\ Small

LEMMA InitIInv == Init => IInv
<1> SUFFICES ASSUME Init PROVE IInv
  OBVIOUS
<1>1. list \in Lists(Engines)
  BY DEF Init, EmptyList, Lists
<1>2. TypeOK
  <2>1. FALSE \in BOOLEAN
    OBVIOUS
  <2>2. alloc \in [ready : BOOLEAN, mutex : Mutexes \cup {NULL}]
    BY <2>1 DEF Init
  <2>3. methods \in BOOLEAN
    BY <2>1, Zenon DEF Init
  <2>4. /\ pc \in [Threads -> Pcs] /\ rc \in [Threads -> Codes]
        /\ eng \in [Threads -> Engines \cup {NULL}]
        /\ lock \in [Threads -> Mutexes \cup {NULL}]
        /\ owner \in [Mutexes \cup {Master} -> Threads \cup {NULL}]
    BY DEF Init, Pcs, Codes
  <2> QED BY <1>1, <2>2, <2>3, <2>4 DEF Init, TypeOK
<1>3. Small
  BY DEF Init, Small, SingleAlone, MasterHeld, MasterInside, Installing, Installed, Owned, Distinct,
         MasterPcs, HoldPcs, ListPcs
<1> QED BY <1>2, <1>3 DEF IInv

(* Every step keeps the types: the list operations are lemmas of DListTheorems. *)
LEMMA TypeStep == IInv /\ [Next]_vars => TypeOK'
<1> SUFFICES ASSUME IInv, [Next]_vars PROVE TypeOK'
  OBVIOUS
<1> USE DEF IInv, TypeOK, Goto, Return, Pcs, InitPcs, ListPcs, Codes, lib, heap
<1>1. CASE UNCHANGED vars
  BY <1>1 DEF vars
<1>2. ASSUME NEW t \in Threads, PushEngine(t) PROVE TypeOK'
  <2>1. eng[t] \in Engines
    BY <1>2 DEF PushEngine, Small, Owned, HoldPcs
  <2>2. LdPush(list, eng[t]) \in Lists(Engines) /\ nEngine + 1 \in Int
    BY <2>1, LdPushType
  <2>3. /\ list' \in Lists(Engines) /\ nEngine' \in Int
        /\ host' \in {"orderly", "racing", "lost"}
    BY <1>2, <2>2 DEF PushEngine, Change
  <2> QED BY <1>2, <2>3 DEF PushEngine
<1>3. ASSUME NEW t \in Threads, UnlinkEngine(t) PROVE TypeOK'
  <2>1. eng[t] \in Engines
    BY <1>3 DEF UnlinkEngine, Small, Owned, HoldPcs
  <2>2. LdRemove(list, eng[t]) \in Lists(Engines) /\ nEngine - 1 \in Int
    BY <2>1, LdRemoveType
  <2>3. /\ list' \in Lists(Engines) /\ nEngine' \in Int
        /\ host' \in {"orderly", "racing", "lost"}
    BY <1>3, <2>2 DEF UnlinkEngine, Change
  <2> QED BY <1>3, <2>3 DEF UnlinkEngine
<1>4. ASSUME UNCHANGED host, NEW l \in {1, 2}, ConfigLevel(l) PROVE TypeOK'
  BY <1>4 DEF ConfigLevel
<1>5. ASSUME UNCHANGED host, NEW t \in Threads, CallInit(t) PROVE TypeOK'
  BY <1>5 DEF CallInit
<1>6. ASSUME UNCHANGED host, NEW t \in Threads, Initialize(t) PROVE TypeOK'
  <2>1. CASE Check(t) \/ ChooseMethods(t) \/ ConfigMutex(t) \/ Recheck(t) \/ SetMagic(t)
    BY <1>6, <2>1 DEF Check, ChooseMethods, ConfigMutex, Recheck, SetMagic
  <2>2. CASE DropMutex(t)
    BY <1>6, <2>2 DEF DropMutex
  <2>3. CASE NewMutex(t)
    BY <1>6, <2>3 DEF NewMutex
  <2>4. CASE UseMethods(t)
    BY <1>6, <2>4 DEF UseMethods
  <2>5. CASE EnterMaster(t) \/ LeaveMaster(t)
    BY <1>6, <2>5 DEF EnterMaster, LeaveMaster
  <2>6. CASE InitAllocator(t)
    BY <1>6, <2>6 DEF InitAllocator
  <2>7. CASE ProtectAllocator(t)
    BY <1>6, <2>7 DEF ProtectAllocator
  <2> QED BY <1>6, <2>1, <2>2, <2>3, <2>4, <2>5, <2>6, <2>7 DEF Initialize
<1>7. ASSUME UNCHANGED host, NEW t \in Threads, Create(t) PROVE TypeOK'
  <2>1. CASE AllocEngine(t)
    <3>1. list' \in Lists(Engines)
      BY <2>1, ZeroLinksType DEF AllocEngine
    <3>2. live' \subseteq Engines /\ eng' \in [Threads -> Engines \cup {NULL}]
      BY <2>1 DEF AllocEngine
    <3>3. pc' \in [Threads -> Pcs] /\ rc' \in [Threads -> Codes]
      BY <2>1 DEF AllocEngine
    <3> QED BY <1>7, <2>1, <3>1, <3>2, <3>3 DEF AllocEngine
  <2>2. CASE ReadGlobalMutex(t, "E_enter", "E_lock", "E_push")
    BY <1>7, <2>2 DEF ReadGlobalMutex
  <2>3. CASE EnterGlobalMutex(t, "E_lock", "E_push")
    BY <1>7, <2>3 DEF EnterGlobalMutex
  <2>4. CASE ReturnEngine(t)
    BY <1>7, <2>4 DEF ReturnEngine, LeaveGlobalMutex
  <2> QED BY <1>7, <2>1, <2>2, <2>3, <2>4 DEF Create
<1>8. ASSUME UNCHANGED host, NEW t \in Threads, Release(t) PROVE TypeOK'
  <2>1. CASE ReadGlobalMutex(t, "R_enter", "R_lock", "R_unlink")
    BY <1>8, <2>1 DEF ReadGlobalMutex
  <2>2. CASE EnterGlobalMutex(t, "R_lock", "R_unlink")
    BY <1>8, <2>2 DEF EnterGlobalMutex
  <2>3. CASE LeaveUnlinked(t) \/ FreeEngine(t)
    BY <1>8, <2>3 DEF LeaveUnlinked, LeaveGlobalMutex, FreeEngine
  <2> QED BY <1>8, <2>1, <2>2, <2>3 DEF Release
<1>9. ASSUME UNCHANGED host, NEW t \in Threads, NEW e \in Engines, CallRelease(t, e) PROVE TypeOK'
  BY <1>9 DEF CallRelease, InCall
<1>10. CASE UNCHANGED host /\ Shutdown
  <2>1. live' \subseteq Engines /\ past' \subseteq Engines /\ created' \subseteq Mutexes
    BY <1>10 DEF Shutdown
  <2>2. alloc' \in [ready : BOOLEAN, mutex : Mutexes \cup {NULL}]
    <3>1. FALSE \in BOOLEAN
      OBVIOUS
    <3> QED BY <3>1, <1>10 DEF Shutdown
  <2>3. gmutex' \in Mutexes \cup {NULL}
    BY <1>10 DEF Shutdown
  <2>4. UNCHANGED <<host, owner, list, pc, rc, eng, lock>>
    BY <1>10 DEF Shutdown
  <2>5. magic' = "shut" /\ level' = 0 /\ nEngine' = 0
    BY <1>10 DEF Shutdown
  <2>6. methods' \in BOOLEAN
    BY <1>10, Zenon DEF Shutdown
  <2> QED BY <2>1, <2>2, <2>3, <2>4, <2>5, <2>6
<1> QED BY <1>1, <1>2, <1>3, <1>4, <1>5, <1>6, <1>7, <1>8, <1>9, <1>10 DEF Next

(* Every step keeps the facts about who is where. *)
LEMMA SmallStep == IInv /\ [Next]_vars => Small'
<1> SUFFICES ASSUME IInv, [Next]_vars PROVE Small'
  OBVIOUS
<1> USE LibInitAssumption
    DEF IInv, TypeOK, Small, SingleAlone, MasterHeld, MasterInside, Installing, Installed, Owned, Distinct,
        MasterPcs, HoldPcs, ListPcs, Goto, Return, lib, heap
<1>1. CASE UNCHANGED vars
  BY <1>1 DEF vars
<1>2. ASSUME NEW t \in Threads, PushEngine(t) PROVE Small'
  BY <1>2 DEF PushEngine
<1>3. ASSUME NEW t \in Threads, UnlinkEngine(t) PROVE Small'
  BY <1>3 DEF UnlinkEngine
<1>4. ASSUME NEW l \in {1, 2}, ConfigLevel(l) PROVE Small'
  BY <1>4 DEF ConfigLevel, AllIdle
<1>5. ASSUME NEW t \in Threads, CallInit(t) PROVE Small'
  BY <1>5 DEF CallInit, AllIdle
<1>6. ASSUME NEW t \in Threads, Initialize(t) PROVE Small'
  <2>1. CASE Check(t)
    BY <2>1 DEF Check
  <2>2. CASE ChooseMethods(t)
    BY <2>2 DEF ChooseMethods
  <2>3. CASE ConfigMutex(t)
    BY <2>3 DEF ConfigMutex
  <2>4. CASE DropMutex(t)
    BY <2>4 DEF DropMutex
  <2>5. CASE NewMutex(t)
    BY <2>5 DEF NewMutex
  <2>6. CASE UseMethods(t)
    BY <2>6 DEF UseMethods
  <2>7. CASE EnterMaster(t)
    BY <2>7 DEF EnterMaster
  <2>8. CASE Recheck(t)
    BY <2>8 DEF Recheck
  <2>9. CASE InitAllocator(t)
    BY <2>9 DEF InitAllocator
  <2>10. CASE ProtectAllocator(t)
    BY <2>10 DEF ProtectAllocator
  <2>11. CASE SetMagic(t)
    BY <2>11 DEF SetMagic
  <2>12. CASE LeaveMaster(t)
    BY <2>12 DEF LeaveMaster
  <2> QED BY <1>6, <2>1, <2>2, <2>3, <2>4, <2>5, <2>6, <2>7, <2>8, <2>9, <2>10, <2>11, <2>12
          DEF Initialize
<1>7. ASSUME NEW t \in Threads, Create(t) PROVE Small'
  <2>1. CASE AllocEngine(t)
    BY <2>1 DEF AllocEngine
  <2>2. CASE ReadGlobalMutex(t, "E_enter", "E_lock", "E_push")
    BY <2>2 DEF ReadGlobalMutex
  <2>3. CASE EnterGlobalMutex(t, "E_lock", "E_push")
    BY <2>3 DEF EnterGlobalMutex
  <2>4. CASE ReturnEngine(t)
    BY <2>4 DEF ReturnEngine, LeaveGlobalMutex
  <2> QED BY <1>7, <2>1, <2>2, <2>3, <2>4 DEF Create
<1>8. ASSUME NEW t \in Threads, Release(t) PROVE Small'
  <2>1. CASE ReadGlobalMutex(t, "R_enter", "R_lock", "R_unlink")
    BY <2>1 DEF ReadGlobalMutex
  <2>2. CASE EnterGlobalMutex(t, "R_lock", "R_unlink")
    BY <2>2 DEF EnterGlobalMutex
  <2>3. CASE LeaveUnlinked(t)
    BY <2>3 DEF LeaveUnlinked, LeaveGlobalMutex
  <2>4. CASE FreeEngine(t)
    BY <2>4 DEF FreeEngine
  <2> QED BY <1>8, <2>1, <2>2, <2>3, <2>4 DEF Release
<1>9. ASSUME NEW t \in Threads, NEW e \in Engines, CallRelease(t, e) PROVE Small'
  BY <1>9 DEF CallRelease, AllIdle, InCall
<1>10. CASE Shutdown
  BY <1>10 DEF Shutdown, AllIdle
<1> QED BY <1>1, <1>2, <1>3, <1>4, <1>5, <1>6, <1>7, <1>8, <1>9, <1>10 DEF Next

(* The inductive invariant holds in every reachable state. *)
LEMMA Invariance == Spec => []IInv
<1>1. IInv /\ [Next]_vars => IInv'
  BY TypeStep, SmallStep DEF IInv
<1> QED BY InitIInv, <1>1, PTL DEF Spec

(***************************************************************************)
(* TypeOK for every instance: in particular no call links, unlinks or frees*)
(* an engine it does not have.                                             *)
(***************************************************************************)
THEOREM TypeCorrect == Spec => []TypeOK
<1>1. IInv => TypeOK
  BY DEF IInv
<1> QED BY Invariance, <1>1, PTL

(***************************************************************************)
(* At most one thread is inside the body of PH7CoreInitialize, for every   *)
(* number of threads and however the installation of the mutex subsystem   *)
(* interleaves.                                                            *)
(***************************************************************************)
THEOREM MasterMutualExclusion == Spec => []MasterExclusive
<1>1. IInv => MasterExclusive
  BY DEF IInv, Small, TypeOK, SingleAlone, MasterHeld, MasterExclusive, MasterPcs
<1> QED BY Invariance, <1>1, PTL
----------------------------------------------------------------------------
(***************************************************************************)
(* The global mutex.  A host that does not race through its first calls    *)
(* runs the installation alone, so the mutex a thread has read from the    *)
(* shared record is the one it finds there when it leaves; without a mutex *)
(* the library is in single-threaded mode.                                 *)
(***************************************************************************)
SetupPcs == {"I_methods", "I_cfg", "I_drop", "I_new", "I_use", "I_master", "I_recheck",
             "I_alloc", "I_safe", "I_magic"}

(* An installation is not under way with the magic number set, nor beside another call. *)
SetupAlone ==
  \A t \in Threads :
     /\ (pc[t] \in SetupPcs) => (magic # "lib")
     /\ (pc[t] \in SetupPcs \cup {"I_check"} /\ magic # "lib") =>
           \A u \in Threads \ {t} : pc[u] = "idle"

(* The global mutex exists where the methods are installed, and these on every path but the
   single-threaded one. *)
MutexInstalled ==
  /\ methods => (gmutex # NULL)
  /\ (magic = "lib" /\ level # 1) => methods
  /\ \A t \in Threads :
        /\ (pc[t] \in {"I_cfg", "I_drop", "I_new"}) => ~ methods
        /\ (pc[t] = "I_use") => (gmutex # NULL)
        /\ (pc[t] \in {"I_master", "I_recheck", "I_alloc", "I_safe", "I_magic"} /\ level # 1) => methods

(* Who is in the list section holds the mutex every other call will enter. *)
ListHeld ==
  \A t \in Threads :
     /\ (pc[t] \in {"E_lock", "R_lock"}) => (lock[t] = gmutex /\ gmutex # NULL)
     /\ (pc[t] \in ListPcs /\ gmutex # NULL) => (owner[gmutex] = t)

(* The two mutexes are not the same one, and they are held inside the list section only. *)
MutexApart ==
  /\ {gmutex, alloc.mutex} \subseteq created \cup {NULL}
  /\ (alloc.mutex # NULL) => (alloc.mutex # gmutex /\ owner[alloc.mutex] = NULL)
  /\ (gmutex # NULL /\ owner[gmutex] # NULL) => (pc[owner[gmutex]] \in ListPcs)

Orderly == (host = "orderly") => (SetupAlone /\ MutexInstalled /\ ListHeld /\ MutexApart)

(* The mutual exclusion of the list section follows from who holds the mutex. *)
LEMMA HeldExclusive == IInv /\ Orderly => ListExclusive
<1> SUFFICES ASSUME IInv, Orderly, host = "orderly", NEW t \in Threads, NEW u \in Threads,
                    pc[t] \in ListPcs, pc[u] \in ListPcs
             PROVE  t = u
  BY DEF ListExclusive
<1>1. CASE gmutex # NULL
  BY <1>1 DEF Orderly, ListHeld
<1>2. CASE gmutex = NULL
  <2>1. magic = "lib"
    BY DEF IInv, Small, Installed, HoldPcs
  <2>2. level = 1
    BY <1>2, <2>1 DEF Orderly, MutexInstalled
  <2> QED BY <2>2 DEF IInv, Small, SingleAlone, ListPcs
<1> QED BY <1>1, <1>2

LEMMA InitOrderly == Init => Orderly
BY DEF Init, Orderly, SetupAlone, MutexInstalled, ListHeld, MutexApart, SetupPcs, ListPcs

(* Every step of an orderly host keeps the three facts. *)
LEMMA OrderlyStep == IInv /\ Orderly /\ [Next]_vars => Orderly'
<1> SUFFICES ASSUME IInv, Orderly, [Next]_vars, host' = "orderly"
             PROVE  SetupAlone' /\ MutexInstalled' /\ ListHeld' /\ MutexApart'
  BY DEF Orderly
<1> DEFINE Goal == SetupAlone' /\ MutexInstalled' /\ ListHeld' /\ MutexApart'
<1> USE LibInitAssumption
    DEF IInv, TypeOK, Small, SingleAlone, Installing, Installed, MasterPcs, HoldPcs, ListPcs,
        Orderly, SetupAlone, MutexInstalled, ListHeld, MutexApart, SetupPcs, Goto, Return, lib, heap
<1>1. CASE UNCHANGED vars
  BY <1>1 DEF vars
<1>2. ASSUME NEW t \in Threads, PushEngine(t) PROVE Goal
  BY <1>2 DEF PushEngine, Change
<1>3. ASSUME NEW t \in Threads, UnlinkEngine(t) PROVE Goal
  BY <1>3 DEF UnlinkEngine, Change
<1>4. ASSUME UNCHANGED host, NEW l \in {1, 2}, ConfigLevel(l) PROVE Goal
  BY <1>4 DEF ConfigLevel, AllIdle
<1>5. ASSUME UNCHANGED host, NEW t \in Threads, CallInit(t) PROVE Goal
  BY <1>5 DEF CallInit, AllIdle
<1>6. ASSUME UNCHANGED host, NEW t \in Threads, Initialize(t) PROVE Goal
  <2>1. CASE Check(t)
    BY <1>6, <2>1 DEF Check
  <2>2. CASE ChooseMethods(t)
    BY <1>6, <2>2 DEF ChooseMethods
  <2>3. CASE ConfigMutex(t)
    BY <1>6, <2>3 DEF ConfigMutex
  <2>4. CASE DropMutex(t)
    BY <1>6, <2>4 DEF DropMutex
  <2>5. CASE NewMutex(t)
    BY <1>6, <2>5 DEF NewMutex
  <2>6. CASE UseMethods(t)
    BY <1>6, <2>6 DEF UseMethods
  <2>7. CASE EnterMaster(t)
    BY <1>6, <2>7 DEF EnterMaster
  <2>8. CASE Recheck(t)
    BY <1>6, <2>8 DEF Recheck
  <2>9. CASE InitAllocator(t)
    BY <1>6, <2>9 DEF InitAllocator
  <2>10. CASE ProtectAllocator(t)
    BY <1>6, <2>10 DEF ProtectAllocator
  <2>11. CASE SetMagic(t)
    BY <1>6, <2>11 DEF SetMagic
  <2>12. CASE LeaveMaster(t)
    BY <1>6, <2>12 DEF LeaveMaster
  <2> QED BY <1>6, <2>1, <2>2, <2>3, <2>4, <2>5, <2>6, <2>7, <2>8, <2>9, <2>10, <2>11, <2>12
          DEF Initialize
<1>7. ASSUME UNCHANGED host, NEW t \in Threads, Create(t) PROVE Goal
  <2>1. CASE AllocEngine(t)
    BY <1>7, <2>1 DEF AllocEngine
  <2>2. CASE ReadGlobalMutex(t, "E_enter", "E_lock", "E_push")
    BY <1>7, <2>2 DEF ReadGlobalMutex
  <2>3. CASE EnterGlobalMutex(t, "E_lock", "E_push")
    BY <1>7, <2>3 DEF EnterGlobalMutex
  <2>4. CASE ReturnEngine(t)
    BY <1>7, <2>4 DEF ReturnEngine, LeaveGlobalMutex
  <2> QED BY <1>7, <2>1, <2>2, <2>3, <2>4 DEF Create
<1>8. ASSUME UNCHANGED host, NEW t \in Threads, Release(t) PROVE Goal
  <2>1. CASE ReadGlobalMutex(t, "R_enter", "R_lock", "R_unlink")
    BY <1>8, <2>1 DEF ReadGlobalMutex
  <2>2. CASE EnterGlobalMutex(t, "R_lock", "R_unlink")
    BY <1>8, <2>2 DEF EnterGlobalMutex
  <2>3. CASE LeaveUnlinked(t)
    BY <1>8, <2>3 DEF LeaveUnlinked, LeaveGlobalMutex
  <2>4. CASE FreeEngine(t)
    BY <1>8, <2>4 DEF FreeEngine
  <2> QED BY <1>8, <2>1, <2>2, <2>3, <2>4 DEF Release
<1>9. ASSUME UNCHANGED host, NEW t \in Threads, NEW e \in Engines, CallRelease(t, e) PROVE Goal
  BY <1>9 DEF CallRelease, AllIdle
<1>10. CASE UNCHANGED host /\ Shutdown
  BY <1>10 DEF Shutdown, AllIdle
<1> QED BY <1>1, <1>2, <1>3, <1>4, <1>5, <1>6, <1>7, <1>8, <1>9, <1>10 DEF Next

LEMMA OrderlyInvariance == Spec => [](IInv /\ Orderly)
<1>1. Init => IInv /\ Orderly
  BY InitIInv, InitOrderly
<1>2. IInv /\ Orderly /\ [Next]_vars => (IInv /\ Orderly)'
  BY TypeStep, SmallStep, OrderlyStep DEF IInv
<1> QED BY <1>1, <1>2, PTL DEF Spec

(***************************************************************************)
(* Two threads never change the list of engines at once, for every number  *)
(* of threads, unless the host lets its first calls race.                  *)
(***************************************************************************)
THEOREM ListMutualExclusion == Spec => []ListExclusive
BY OrderlyInvariance, HeldExclusive, PTL

(***************************************************************************)
(* No call returns with a mutex that another one waits for or will enter:  *)
(* never with the master mutex, and with an orderly host with none at all. *)
(***************************************************************************)
THEOREM NoMutexKept == Spec => []MutexesLeft
<1>1. IInv /\ Orderly => MutexesLeft
  <2> SUFFICES ASSUME IInv, Orderly, NEW m \in Awaited \ {NULL}, owner[m] # NULL
               PROVE  pc[owner[m]] # "idle"
    BY DEF MutexesLeft
  <2>1. CASE m = Master
    BY <2>1 DEF IInv, Small, MasterInside, MasterPcs
  <2>2. CASE m # Master
    <3>1. host = "orderly" /\ (m = gmutex \/ m = alloc.mutex)
      BY <2>2 DEF Awaited, Orderly, ListHeld
    <3> QED BY <3>1 DEF Orderly, MutexApart, ListPcs
  <2> QED BY <2>1, <2>2
<1> QED BY <1>1, OrderlyInvariance, PTL
----------------------------------------------------------------------------
(***************************************************************************)
(* The counted list of engines.  What follows the last engine is NULL or,  *)
(* after a shutdown, an engine that was released then: the head keeps its  *)
(* value.  A new engine must not be that one (Reuses = FALSE).             *)
(***************************************************************************)
LinkablePcs == {"E_enter", "E_lock", "E_push", "R_leave", "R_free"}
FreshPcs == {"E_enter", "E_lock", "E_push"}

ListCounted ==
  /\ IsFiniteSet(live) /\ past \cap live = {}
  /\ nEngine = Cardinality(live \ Linkable)
  /\ \E end \in past \cup {NULL} : LinkedTo(list, live \ Linkable, end)

(* The engine of a call that has not linked it yet has zero links. *)
FreshLinks ==
  \A t \in Threads : (pc[t] \in FreshPcs) => (list.next[eng[t]] = NULL /\ list.prev[eng[t]] = NULL)

NoEngineEarly == (magic # "lib") => (live = {})

Counted == ListCounted /\ FreshLinks /\ NoEngineEarly
CountInv == (host = "orderly") => Counted

(* The engines between their allocation and their link, or their unlink and their release. *)
LEMMA LinkableDef == \A e : e \in Linkable <=> \E t \in Threads : pc[t] \in LinkablePcs /\ eng[t] = e
BY DEF Linkable, LinkablePcs

(* CountedEngines follows: the counted walk from the head finds all of them. *)
LEMMA CountedSuffices == IInv /\ CountInv => CountedEngines
<1> SUFFICES ASSUME IInv, Counted
             PROVE  /\ FirstItems(list, nEngine) = live \ Linkable
                    /\ Cardinality(live \ Linkable) = nEngine
  BY DEF CountInv, CountedEngines
<1>1. IsFiniteSet(live \ Linkable) /\ live \ Linkable \in SUBSET Engines
  BY FS_Subset DEF Counted, ListCounted, IInv, TypeOK
<1>2. PICK end \in past \cup {NULL} : LinkedTo(list, live \ Linkable, end)
  BY DEF Counted, ListCounted
<1>3. FirstItems(list, Cardinality(live \ Linkable)) = live \ Linkable
  BY <1>1, <1>2, CountedWalk, LibInitAssumption DEF IInv, TypeOK
<1> QED BY <1>3 DEF Counted, ListCounted

LEMMA InitCounted == Init => CountInv
<1> SUFFICES ASSUME Init PROVE Counted
  BY DEF CountInv
<1>1. live = {} /\ past = {} /\ nEngine = 0 /\ list.head = NULL
  BY DEF Init, EmptyList
<1>2. live \ Linkable = {}
  BY <1>1
<1>3. LinkedTo(list, {}, NULL)
  BY <1>1 DEF LinkedTo, Consistent, Acyclic
<1>4. ListCounted
  BY <1>1, <1>2, <1>3, FS_EmptySet DEF ListCounted
<1>5. FreshLinks /\ NoEngineEarly
  BY <1>1 DEF Init, FreshLinks, FreshPcs, NoEngineEarly
<1> QED BY <1>4, <1>5 DEF Counted

(* A step that leaves the list alone, and everybody on the same side of it. *)
SameSide ==
  \A t \in Threads :
     /\ (pc'[t] \in LinkablePcs) <=> (pc[t] \in LinkablePcs)
     /\ (pc'[t] \in FreshPcs) => (pc[t] \in FreshPcs)
     /\ (pc'[t] \in LinkablePcs) => (eng'[t] = eng[t])

LEMMA QuietStep ==
  IInv /\ Counted /\ UNCHANGED heap /\ SameSide /\ (magic' # "lib" => magic # "lib") => Counted'
<1> SUFFICES ASSUME IInv, Counted, UNCHANGED heap, SameSide, magic' # "lib" => magic # "lib"
             PROVE  Counted'
  OBVIOUS
<1>1. Linkable' = Linkable
  BY DEF SameSide, Linkable, LinkablePcs
<1>2. ListCounted'
  BY <1>1 DEF Counted, ListCounted, heap
<1>3. FreshLinks'
  BY DEF Counted, FreshLinks, SameSide, LinkablePcs, FreshPcs, heap
<1>4. NoEngineEarly'
  BY DEF Counted, NoEngineEarly, heap
<1> QED BY <1>2, <1>3, <1>4 DEF Counted

(* A new engine is linked by nobody yet, and nothing that is linked leads to it. *)
LEMMA AllocCounted ==
  ASSUME ~ Reuses, NEW t \in Threads
  PROVE  IInv /\ Counted /\ AllocEngine(t) => Counted'
<1> SUFFICES ASSUME IInv, Counted, AllocEngine(t) PROVE Counted'
  OBVIOUS
<1>1. CASE UNCHANGED <<live, list, eng>> /\ pc' = [pc EXCEPT ![t] = "idle"]
  <2>1. UNCHANGED heap /\ SameSide /\ UNCHANGED magic
    BY <1>1 DEF AllocEngine, IInv, TypeOK, SameSide, LinkablePcs, FreshPcs, heap, lib
  <2> QED BY <2>1, QuietStep
<1>2. ASSUME NEW e \in Engines \ live, e \notin past, live' = live \cup {e},
             list' = ZeroLinks(list, e), eng' = [eng EXCEPT ![t] = e],
             pc' = [pc EXCEPT ![t] = "E_enter"]
      PROVE  Counted'
  <2>0. pc[t] = "E_alloc" /\ UNCHANGED <<nEngine, past, magic>>
    BY DEF AllocEngine, lib
  <2>1. Linkable' = Linkable \cup {e}
    <3>1. pc'[t] = "E_enter" /\ eng'[t] = e
      BY <1>2 DEF IInv, TypeOK
    <3>2. \A u \in Threads \ {t} : pc'[u] = pc[u] /\ eng'[u] = eng[u]
      BY <1>2 DEF IInv, TypeOK
    <3> QED BY <2>0, <3>1, <3>2 DEF Linkable
  <2>2. (live \ Linkable)' = live \ Linkable
    BY <2>1, <1>2
  <2>3. IsFiniteSet(live') /\ past' \cap live' = {}
    BY <1>2, <2>0, FS_AddElement DEF Counted, ListCounted
  <2>4. PICK end \in past \cup {NULL} : LinkedTo(list, live \ Linkable, end)
    BY DEF Counted, ListCounted
  <2>5. LinkedTo(list', (live \ Linkable)', end)
    BY <1>2, <2>2, <2>4, ZeroLinksLinked DEF IInv, TypeOK
  <2>6. ListCounted'
    BY <2>0, <2>2, <2>3, <2>4, <2>5 DEF Counted, ListCounted
  <2>7. FreshLinks'
    <3> SUFFICES ASSUME NEW u \in Threads, pc'[u] \in FreshPcs
                 PROVE  list'.next[eng'[u]] = NULL /\ list'.prev[eng'[u]] = NULL
      BY DEF FreshLinks
    <3>1. CASE u = t
      BY <3>1, <1>2 DEF ZeroLinks, Lists, IInv, TypeOK
    <3>2. CASE u # t
      <4>1. pc[u] \in FreshPcs /\ eng'[u] = eng[u] /\ eng[u] \in live /\ eng[u] # e
        BY <3>2, <1>2 DEF IInv, TypeOK, Small, Owned, HoldPcs, ListPcs, FreshPcs
      <4>2. list.next[eng[u]] = NULL /\ list.prev[eng[u]] = NULL
        BY <4>1 DEF Counted, FreshLinks
      <4> QED BY <4>1, <4>2, <1>2 DEF ZeroLinks, Lists, IInv, TypeOK
    <3> QED BY <3>1, <3>2
  <2>8. NoEngineEarly'
    BY <2>0 DEF NoEngineEarly, IInv, Small, Installed
  <2> QED BY <2>6, <2>7, <2>8 DEF Counted
<1> QED BY <1>1, <1>2 DEF AllocEngine, Return, Goto

(* Linking the engine of the call. *)
LEMMA PushCounted ==
  ASSUME NEW t \in Threads
  PROVE  IInv /\ Counted /\ ListExclusive /\ host' = "orderly" /\ PushEngine(t) => Counted'
<1> SUFFICES ASSUME IInv, Counted, ListExclusive, host' = "orderly", PushEngine(t) PROVE Counted'
  OBVIOUS
<1> DEFINE a == eng[t]
           S == live \ Linkable
<1>1. /\ pc[t] = "E_push" /\ pc' = [pc EXCEPT ![t] = "E_leave"]
      /\ UNCHANGED <<magic, live, past, eng>>
  BY DEF PushEngine, Goto, lib
<1>2. list' = LdPush(list, a) /\ nEngine' = nEngine + 1
  BY DEF PushEngine, Change
<1>3. /\ a \in live /\ a \in Engines /\ a \in Linkable
      /\ \A u \in Threads \ {t} : pc[u] \in HoldPcs => eng[u] # a
  BY <1>1 DEF IInv, TypeOK, Small, Owned, Distinct, HoldPcs, ListPcs, Linkable
<1>4. Linkable' = Linkable \ {a}
  <2>1. pc'[t] = "E_leave" /\ \A u \in Threads \ {t} : pc'[u] = pc[u] /\ eng'[u] = eng[u]
    BY <1>1 DEF IInv, TypeOK
  <2>2. \A u \in Threads : pc[u] \in LinkablePcs => pc[u] \in HoldPcs
    BY DEF LinkablePcs, HoldPcs, ListPcs
  <2>3. ASSUME NEW e PROVE e \in Linkable' <=> e \in Linkable /\ e # a
    <3>1. ASSUME e \in Linkable' PROVE e \in Linkable /\ e # a
      <4>1. PICK u \in Threads : pc'[u] \in LinkablePcs /\ eng'[u] = e
        BY <3>1 DEF Linkable, LinkablePcs
      <4>2. u # t
        BY <4>1, <2>1 DEF LinkablePcs
      <4> QED BY <4>1, <4>2, <2>1, <2>2, <1>3, LinkableDef
    <3>2. ASSUME e \in Linkable, e # a PROVE e \in Linkable'
      <4>1. PICK u \in Threads : pc[u] \in LinkablePcs /\ eng[u] = e
        BY <3>2, LinkableDef
      <4>2. pc'[u] \in LinkablePcs /\ eng'[u] = e
        BY <4>1, <3>2, <2>1
      <4> QED BY <4>2 DEF Linkable, LinkablePcs
    <3> QED BY <3>1, <3>2
  <2> QED BY <2>3
<1>5. (live \ Linkable)' = S \cup {a} /\ a \notin S /\ S \in SUBSET Engines
  BY <1>1, <1>3, <1>4 DEF IInv, TypeOK
<1>6. PICK end \in past \cup {NULL} : LinkedTo(list, S, end)
  BY DEF Counted, ListCounted
<1>7. a # end /\ end \in Engines \cup {NULL}
  BY <1>3, <1>6, LibInitAssumption DEF Counted, ListCounted, IInv, TypeOK
<1>8. list.next[a] = NULL /\ list.prev[a] = NULL
  BY <1>1 DEF Counted, FreshLinks, FreshPcs
<1>9. LinkedTo(list', (live \ Linkable)', end)
  <2>1. list \in Lists(Engines) /\ NULL \notin Engines
    BY LibInitAssumption DEF IInv, TypeOK
  <2>2. a \in Engines \ S
    BY <1>3, <1>5
  <2>3. LinkedTo(LdPush(list, a), S \cup {a}, end)
    BY <2>1, <2>2, <1>5, <1>6, <1>7, <1>8, LdPushLinked
  <2> QED BY <2>3, <1>2, <1>5
<1>10. nEngine' = Cardinality((live \ Linkable)')
  <2>1. IsFiniteSet(S)
    BY FS_Subset DEF Counted, ListCounted
  <2> QED BY <2>1, <1>2, <1>5, FS_AddElement DEF Counted, ListCounted
<1>11. ListCounted'
  BY <1>1, <1>6, <1>9, <1>10 DEF Counted, ListCounted
<1>12. FreshLinks'
  <2> SUFFICES ASSUME NEW u \in Threads, pc'[u] \in FreshPcs
               PROVE  list'.next[eng'[u]] = NULL /\ list'.prev[eng'[u]] = NULL
    BY DEF FreshLinks
  <2>1. u # t /\ pc[u] \in FreshPcs /\ eng'[u] = eng[u]
    BY <1>1 DEF IInv, TypeOK, FreshPcs
  <2>2. eng[u] # a /\ eng[u] \in live /\ eng[u] \in Linkable
    BY <2>1, <1>3 DEF IInv, Small, Owned, FreshPcs, HoldPcs, ListPcs, Linkable
  <2>3. list.head \in S \cup {end}
    BY <1>6 DEF LinkedTo, Consistent
  <2>4. eng[u] # list.head
    BY <2>2, <2>3, <1>6, LibInitAssumption DEF Counted, ListCounted, IInv, TypeOK
  <2>5. list.next[eng[u]] = NULL /\ list.prev[eng[u]] = NULL
    BY <2>1 DEF Counted, FreshLinks
  <2> QED BY <1>2, <1>3, <2>1, <2>2, <2>4, <2>5 DEF LdPush, Lists, IInv, TypeOK
<1>13. NoEngineEarly'
  BY <1>1 DEF Counted, NoEngineEarly
<1> QED BY <1>11, <1>12, <1>13 DEF Counted

(* Unlinking the engine of the call. *)
LEMMA UnlinkCounted ==
  ASSUME NEW t \in Threads
  PROVE  IInv /\ Counted /\ ListExclusive /\ host' = "orderly" /\ UnlinkEngine(t) => Counted'
<1> SUFFICES ASSUME IInv, Counted, ListExclusive, host' = "orderly", UnlinkEngine(t) PROVE Counted'
  OBVIOUS
<1> DEFINE a == eng[t]
           S == live \ Linkable
<1>1. /\ pc[t] = "R_unlink" /\ pc' = [pc EXCEPT ![t] = "R_leave"]
      /\ UNCHANGED <<magic, live, past, eng>>
  BY DEF UnlinkEngine, Goto, lib
<1>2. list' = LdRemove(list, a) /\ nEngine' = nEngine - 1
  BY DEF UnlinkEngine, Change
<1>3. /\ a \in live /\ a \in Engines
      /\ \A u \in Threads \ {t} : pc[u] \in HoldPcs => eng[u] # a
  BY <1>1 DEF IInv, TypeOK, Small, Owned, Distinct, HoldPcs, ListPcs
<1>4. a \notin Linkable
  <2>1. \A u \in Threads : pc[u] \in LinkablePcs => pc[u] \in HoldPcs /\ u # t
    BY <1>1 DEF LinkablePcs, HoldPcs, ListPcs
  <2> QED BY <2>1, <1>3, LinkableDef
<1>5. Linkable' = Linkable \cup {a}
  <2>1. /\ pc'[t] = "R_leave" /\ eng'[t] = a
        /\ \A u \in Threads \ {t} : pc'[u] = pc[u] /\ eng'[u] = eng[u]
    BY <1>1 DEF IInv, TypeOK
  <2>2. \A e : e \in Linkable' <=> \E u \in Threads : pc'[u] \in LinkablePcs /\ eng'[u] = e
    BY DEF Linkable, LinkablePcs
  <2>3. ASSUME NEW e PROVE e \in Linkable' <=> e \in Linkable \/ e = a
    <3>1. ASSUME e \in Linkable' PROVE e \in Linkable \/ e = a
      BY <3>1, <2>1, <2>2, LinkableDef
    <3>2. ASSUME e \in Linkable PROVE e \in Linkable'
      <4>1. PICK u \in Threads : pc[u] \in LinkablePcs /\ eng[u] = e
        BY <3>2, LinkableDef
      <4>2. u # t
        BY <4>1, <1>1 DEF LinkablePcs
      <4> QED BY <4>1, <4>2, <2>1, <2>2
    <3>3. a \in Linkable'
      BY <2>1, <2>2 DEF LinkablePcs
    <3> QED BY <3>1, <3>2, <3>3
  <2> QED BY <2>3
<1>6. (live \ Linkable)' = S \ {a} /\ a \in S /\ S \in SUBSET Engines
  BY <1>1, <1>3, <1>4, <1>5 DEF IInv, TypeOK
<1>7. PICK end \in past \cup {NULL} : LinkedTo(list, S, end)
  BY DEF Counted, ListCounted
<1>8. end \in Engines \cup {NULL}
  BY <1>7 DEF IInv, TypeOK
<1>9. LinkedTo(list', (live \ Linkable)', end)
  BY <1>2, <1>6, <1>7, <1>8, LdRemoveLinked, LibInitAssumption DEF IInv, TypeOK
<1>10. nEngine' = Cardinality((live \ Linkable)')
  <2>1. IsFiniteSet(S)
    BY FS_Subset DEF Counted, ListCounted
  <2>2. Cardinality(S \ {a}) = Cardinality(S) - 1
    BY <2>1, <1>6, FS_RemoveElement
  <2>3. nEngine = Cardinality(S)
    BY DEF Counted, ListCounted
  <2> QED BY <2>2, <2>3, <1>2, <1>6
<1>11. ListCounted'
  BY <1>1, <1>7, <1>9, <1>10 DEF Counted, ListCounted
<1>12. FreshLinks'
  <2> SUFFICES ASSUME NEW u \in Threads, pc'[u] \in FreshPcs
               PROVE  list'.next[eng'[u]] = NULL /\ list'.prev[eng'[u]] = NULL
    BY DEF FreshLinks
  <2>1. u # t /\ pc[u] \in FreshPcs /\ eng'[u] = eng[u]
    BY <1>1 DEF IInv, TypeOK, FreshPcs
  <2>2. eng[u] # a /\ eng[u] \in live /\ eng[u] \in Linkable
    BY <2>1, <1>3 DEF IInv, Small, Owned, FreshPcs, HoldPcs, ListPcs, Linkable
  <2>3. list.next[a] \in S \cup {end} /\ list.prev[a] \in S \cup {NULL}
    BY <1>6, <1>7 DEF LinkedTo, Consistent
  <2>4. eng[u] # list.next[a] /\ eng[u] # list.prev[a]
    BY <2>2, <2>3, <1>7, LibInitAssumption DEF Counted, ListCounted, IInv, TypeOK
  <2>5. list.next[eng[u]] = NULL /\ list.prev[eng[u]] = NULL
    BY <2>1 DEF Counted, FreshLinks
  <2>6. /\ list'.next = (IF list.prev[a] = NULL THEN list.next ELSE [list.next EXCEPT ![list.prev[a]] = list.next[a]])
        /\ list'.prev = (IF list.next[a] = NULL THEN list.prev ELSE [list.prev EXCEPT ![list.next[a]] = list.prev[a]])
    BY <1>2 DEF LdRemove
  <2>7. eng[u] \in Engines /\ list \in Lists(Engines)
    BY <2>2 DEF IInv, TypeOK
  <2> QED BY <2>1, <2>4, <2>5, <2>6, <2>7 DEF Lists
<1>13. NoEngineEarly'
  BY <1>1 DEF Counted, NoEngineEarly
<1> QED BY <1>11, <1>12, <1>13 DEF Counted

(* Releasing an engine that was unlinked before. *)
LEMMA FreeCounted ==
  ASSUME NEW t \in Threads
  PROVE  IInv /\ Counted /\ FreeEngine(t) => Counted'
<1> SUFFICES ASSUME IInv, Counted, FreeEngine(t) PROVE Counted'
  OBVIOUS
<1> DEFINE a == eng[t]
<1>1. /\ pc[t] = "R_free" /\ pc' = [pc EXCEPT ![t] = "idle"]
      /\ UNCHANGED <<magic, list, nEngine, past, eng>> /\ live' = live \ {a}
  BY DEF FreeEngine, Return, Goto, lib
<1>2. /\ a \in Linkable
      /\ \A u \in Threads \ {t} : pc[u] \in HoldPcs => eng[u] # a
  BY <1>1 DEF IInv, TypeOK, Small, Owned, Distinct, HoldPcs, ListPcs, Linkable
<1>3. Linkable' = Linkable \ {a}
  <2>1. pc'[t] = "idle" /\ \A u \in Threads \ {t} : pc'[u] = pc[u] /\ eng'[u] = eng[u]
    BY <1>1 DEF IInv, TypeOK
  <2>2. \A u \in Threads : pc[u] \in LinkablePcs => pc[u] \in HoldPcs
    BY DEF LinkablePcs, HoldPcs, ListPcs
  <2>3. \A e : e \in Linkable' <=> \E u \in Threads : pc'[u] \in LinkablePcs /\ eng'[u] = e
    BY DEF Linkable, LinkablePcs
  <2>4. ASSUME NEW e PROVE e \in Linkable' <=> e \in Linkable /\ e # a
    <3>1. ASSUME e \in Linkable' PROVE e \in Linkable /\ e # a
      <4>1. PICK u \in Threads : pc'[u] \in LinkablePcs /\ eng'[u] = e
        BY <3>1, <2>3
      <4>2. u # t
        BY <4>1, <2>1 DEF LinkablePcs
      <4> QED BY <4>1, <4>2, <2>1, <2>2, <1>2, LinkableDef
    <3>2. ASSUME e \in Linkable, e # a PROVE e \in Linkable'
      BY <3>2, <2>1, <2>3, LinkableDef
    <3> QED BY <3>1, <3>2
  <2> QED BY <2>4
<1>4. (live \ Linkable)' = live \ Linkable
  BY <1>1, <1>2, <1>3
<1>5. IsFiniteSet(live') /\ past' \cap live' = {}
  BY <1>1, FS_RemoveElement DEF Counted, ListCounted
<1>6. ListCounted'
  BY <1>1, <1>4, <1>5 DEF Counted, ListCounted
<1>7. FreshLinks' /\ NoEngineEarly'
  BY <1>1 DEF Counted, FreshLinks, NoEngineEarly, FreshPcs, IInv, TypeOK
<1> QED BY <1>6, <1>7 DEF Counted

(* The shutdown releases all of them: the counted loop has found every one. *)
LEMMA ShutdownCounted == IInv /\ Counted /\ Shutdown => Counted'
<1> SUFFICES ASSUME IInv, Counted, Shutdown PROVE Counted'
  OBVIOUS
<1>1. /\ AllIdle /\ nEngine' = 0 /\ live' = live \ FirstItems(list, nEngine)
      /\ past' = past \cup live /\ UNCHANGED <<list, pc>>
  BY DEF Shutdown
<1>2. Linkable = {} /\ Linkable' = {}
  BY <1>1 DEF Linkable, AllIdle
<1>3. FirstItems(list, nEngine) = live
  <2>1. PICK end \in past \cup {NULL} : LinkedTo(list, live, end)
    BY <1>2 DEF Counted, ListCounted
  <2>2. IsFiniteSet(live) /\ live \in SUBSET Engines
    BY DEF Counted, ListCounted, IInv, TypeOK
  <2>3. FirstItems(list, Cardinality(live)) = live
    BY <2>1, <2>2, CountedWalk, LibInitAssumption DEF IInv, TypeOK
  <2> QED BY <2>3, <1>2 DEF Counted, ListCounted
<1>4. live' = {}
  BY <1>1, <1>3
<1>5. list.head \in past' \cup {NULL}
  BY <1>1, <1>2 DEF Counted, ListCounted, LinkedTo, Consistent
<1>6. LinkedTo(list', {}, list.head)
  BY <1>1 DEF LinkedTo, Consistent, Acyclic
<1>7. ListCounted'
  BY <1>1, <1>2, <1>4, <1>5, <1>6, FS_EmptySet DEF ListCounted
<1>8. FreshLinks' /\ NoEngineEarly'
  BY <1>1, <1>4 DEF FreshLinks, NoEngineEarly, AllIdle, FreshPcs
<1> QED BY <1>7, <1>8 DEF Counted

(* Every step of an orderly host keeps the list counted. *)
LEMMA CountStep ==
  ASSUME ~ Reuses
  PROVE  IInv /\ Orderly /\ CountInv /\ [Next]_vars => CountInv'
<1> SUFFICES ASSUME IInv, Orderly, CountInv, [Next]_vars, host' = "orderly" PROVE Counted'
  BY DEF CountInv
<1>1. Counted /\ ListExclusive
  <2>1. host = "orderly"
    BY DEF Next, PushEngine, UnlinkEngine, Change, vars
  <2> QED BY <2>1, HeldExclusive DEF CountInv
<1>2. ASSUME UNCHANGED heap, SameSide, magic' # "lib" => magic # "lib" PROVE Counted'
  BY <1>1, <1>2, QuietStep
<1> USE DEF IInv, TypeOK, SameSide, LinkablePcs, FreshPcs, heap, lib, Goto, Return
<1>3. CASE UNCHANGED vars
  BY <1>2, <1>3 DEF vars
<1>4. ASSUME NEW t \in Threads, PushEngine(t) PROVE Counted'
  BY <1>1, <1>4, PushCounted
<1>5. ASSUME NEW t \in Threads, UnlinkEngine(t) PROVE Counted'
  BY <1>1, <1>5, UnlinkCounted
<1>6. ASSUME NEW l \in {1, 2}, ConfigLevel(l) PROVE Counted'
  BY <1>2, <1>6 DEF ConfigLevel
<1>7. ASSUME NEW t \in Threads, CallInit(t) PROVE Counted'
  BY <1>2, <1>7 DEF CallInit
<1>8. ASSUME NEW t \in Threads, Initialize(t) PROVE Counted'
  <2>1. /\ UNCHANGED heap /\ UNCHANGED eng /\ (magic' # "lib" => magic # "lib")
        /\ \E here \in InitPcs, there \in InitPcs \cup {"E_alloc", "idle"} :
              pc[t] = here /\ pc' = [pc EXCEPT ![t] = there]
    BY <1>8 DEF Initialize, Check, ChooseMethods, ConfigMutex, DropMutex, NewMutex, UseMethods,
       EnterMaster, Recheck, InitAllocator, ProtectAllocator, SetMagic, LeaveMaster, InitPcs
  <2>2. SameSide
    <3>1. PICK here \in InitPcs, there \in InitPcs \cup {"E_alloc", "idle"} :
            pc[t] = here /\ pc' = [pc EXCEPT ![t] = there]
      BY <2>1
    <3>2. pc[t] \notin LinkablePcs /\ pc'[t] \notin LinkablePcs \cup FreshPcs
      BY <3>1 DEF InitPcs
    <3> QED BY <2>1, <3>1, <3>2
  <2> QED BY <1>2, <2>1, <2>2
<1>9. ASSUME NEW t \in Threads, Create(t) PROVE Counted'
  <2>1. CASE AllocEngine(t)
    BY <1>1, <2>1, AllocCounted
  <2>2. CASE ReadGlobalMutex(t, "E_enter", "E_lock", "E_push")
    BY <1>2, <2>2 DEF ReadGlobalMutex
  <2>3. CASE EnterGlobalMutex(t, "E_lock", "E_push")
    BY <1>2, <2>3 DEF EnterGlobalMutex
  <2>4. CASE ReturnEngine(t)
    BY <1>2, <2>4 DEF ReturnEngine
  <2> QED BY <1>9, <2>1, <2>2, <2>3, <2>4 DEF Create
<1>10. ASSUME NEW t \in Threads, Release(t) PROVE Counted'
  <2>1. CASE ReadGlobalMutex(t, "R_enter", "R_lock", "R_unlink")
    BY <1>2, <2>1 DEF ReadGlobalMutex
  <2>2. CASE EnterGlobalMutex(t, "R_lock", "R_unlink")
    BY <1>2, <2>2 DEF EnterGlobalMutex
  <2>3. CASE LeaveUnlinked(t)
    BY <1>2, <2>3 DEF LeaveUnlinked
  <2>4. CASE FreeEngine(t)
    BY <1>1, <2>4, FreeCounted
  <2> QED BY <1>10, <2>1, <2>2, <2>3, <2>4 DEF Release
<1>11. ASSUME NEW t \in Threads, NEW e \in Engines, CallRelease(t, e) PROVE Counted'
  BY <1>2, <1>11 DEF CallRelease
<1>12. CASE Shutdown
  BY <1>1, <1>12, ShutdownCounted
<1> QED BY <1>3, <1>4, <1>5, <1>6, <1>7, <1>8, <1>9, <1>10, <1>11, <1>12 DEF Next

LEMMA CountInvariance ==
  ASSUME ~ Reuses
  PROVE  Spec => [](IInv /\ Orderly /\ CountInv)
<1>1. Init => IInv /\ Orderly /\ CountInv
  BY InitIInv, InitOrderly, InitCounted
<1>2. IInv /\ Orderly /\ CountInv /\ [Next]_vars => (IInv /\ Orderly /\ CountInv)'
  BY TypeStep, SmallStep, OrderlyStep, CountStep DEF IInv
<1> QED BY <1>1, <1>2, PTL DEF Spec

(***************************************************************************)
(* The counted loop of PH7CoreShutdown visits exactly the linked engines,  *)
(* for every number of threads and engines and however their creations and *)
(* releases interleave, through any number of shutdowns and restarts, as   *)
(* long as no engine gets a chunk that a list of before a shutdown leads to*)
(***************************************************************************)
THEOREM EnginesCounted ==
  ASSUME ~ Reuses
  PROVE  Spec => []CountedEngines
<1>1. IInv /\ CountInv => CountedEngines
  BY CountedSuffices
<1> QED BY <1>1, CountInvariance, PTL

(***************************************************************************)
(* The allocator is set up only while the magic number is not set, however *)
(* the first calls race, and, by an orderly host, only while no engine is  *)
(* left of before the last shutdown.                                       *)
(***************************************************************************)
THEOREM AllocatorSetUpOnce ==
  ASSUME ~ Reuses
  PROVE  Spec => AllocatorInitOnce
<1>1. IInv /\ CountInv /\ [Next]_vars =>
        [(alloc' # alloc /\ alloc'.ready) => (magic # "lib" /\ (host # "orderly" \/ live = {}))]_vars
  <2> SUFFICES ASSUME IInv, CountInv, Next, alloc' # alloc, alloc'.ready
               PROVE  magic # "lib" /\ (host # "orderly" \/ live = {})
    OBVIOUS
  <2>1. PICK t \in Threads : InitAllocator(t) \/ ProtectAllocator(t)
    BY DEF Next, PushEngine, UnlinkEngine, ConfigLevel, CallInit, Initialize, Check, ChooseMethods,
       ConfigMutex, DropMutex, NewMutex, UseMethods, EnterMaster, Recheck, SetMagic, LeaveMaster,
       Create, AllocEngine, ReadGlobalMutex, EnterGlobalMutex, ReturnEngine, Release,
       LeaveUnlinked, FreeEngine, CallRelease, Shutdown
  <2>2. magic # "lib"
    BY <2>1 DEF InitAllocator, ProtectAllocator, IInv, Small, Installing
  <2> QED BY <2>2 DEF CountInv, Counted, NoEngineEarly
<1> QED BY <1>1, CountInvariance, PTL DEF Spec, AllocatorInitOnce
============================================================================
