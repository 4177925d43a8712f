------------------------------- MODULE VmRefs -------------------------------
(***************************************************************************)
(* Names, array elements and the pool of values of a virtual machine       *)
(* (vm.c, hashmap.c).  A value lives in a slot of aMemObj.  The names of   *)
(* the active frames and the elements of the arrays are bound to slots,    *)
(* any number of them to one slot; the reference table keeps, for every    *)
(* slot, pointers to the names and elements bound to it, so that unset()   *)
(* can destroy them all and put the slot on the free list.                 *)
(*                                                                         *)
(* Abstractions: the contents of the values, and with them the count of    *)
(* the values that hold an array: an array may be released at any time.    *)
(* Which of several free slots is handed out is left open, and so is which *)
(* of two entries of one name a lookup finds: HashGrowTable reverses the   *)
(* order of the collision chains.  An array holds no reference to a slot   *)
(* that another of its own elements owns, and foreach binds no name by     *)
(* reference (see README).                                                 *)
(***************************************************************************)
EXTENDS Integers

CONSTANTS
  NULL,
  Slots,             \* the indexes of aMemObj
  Names, Keys,       \* names of variables, keys of elements
  Maps, Globals,     \* the arrays, among them $GLOBALS
  Entries, Nodes,    \* addresses of SyHashEntry and ph7_hashmap_node
  MaxDepth,          \* the number of active frames
  MaxFree            \* a slot that is that often on aFreeObj is not bound again

Depths == 1 .. MaxDepth
VM_REF_IDX_KEEP == 1
RefObj == [ents : SUBSET Entries, nodes : SUBSET Nodes, iFlags : {0, VM_REF_IDX_KEEP}]
Entry == [frame : Depths, name : Names, slot : Slots]
Node == [map : Maps, key : Keys, slot : Slots, foreign : BOOLEAN]

ASSUME VmRefsAssumption ==
  /\ MaxDepth \in Nat \ {0} /\ MaxFree \in Nat
  /\ Names \subseteq Keys /\ Globals \in Maps
  /\ NULL \notin RefObj \cup Entry \cup Node

VARIABLES
  used,      \* the slots in use so far: 0 .. SySetUsed(&pVm->aMemObj) - 1
  free,      \* how often a slot is on aFreeObj
  ref,       \* the reference table: apRefObj
  entry,     \* the entries of the hVar tables, by address
  node,      \* the nodes of the arrays, by address
  depth,     \* the active frames; 1 is the global one
  local,     \* sLocal of every frame
  sref,      \* sRef of every frame
  attr,      \* the slots of the static attributes: pAttr->nIdx
  passed     \* the slots that were passed by reference

vars == <<used, free, ref, entry, node, depth, local, sref, attr, passed>>
frames == <<depth, local, sref>>
pool == <<used, free>>
outside == <<attr, passed>>

Init ==
  /\ used = {} /\ free = [n \in Slots |-> 0]
  /\ ref = [n \in Slots |-> NULL]
  /\ entry = [e \in Entries |-> NULL] /\ node = [v \in Nodes |-> NULL]
  /\ depth = 1
  /\ local = [d \in Depths |-> {}] /\ sref = [d \in Depths |-> {}]
  /\ attr = {} /\ passed = {}

Bound(d, x) == {e \in Entries : entry[e] # NULL /\ entry[e].frame = d /\ entry[e].name = x}
NodesAt(m, k) == {v \in Nodes : node[v] # NULL /\ node[v].map = m /\ node[v].key = k}
NodesOf(m) == {v \in Nodes : node[v] # NULL /\ node[v].map = m}

(* The slots that the variables and elements of an expression denote. *)
Denoted ==
  {n \in Slots : /\ free[n] < MaxFree
                 /\ \/ \E x \in Names : \E e \in Bound(depth, x) : entry[e].slot = n
                    \/ \E v \in Nodes : node[v] # NULL /\ node[v].slot = n
                    \/ n \in attr}

(* The slots that may be handed out: those of the free list first. *)
Available == IF \E n \in Slots : free[n] > 0 THEN {n \in Slots : free[n] > 0} ELSE Slots \ used

(* Mutation: the free list shrinks even when a new slot is made. *)
ReserveUnchecked(n) ==
  /\ n \in Available
  /\ used' = used \cup {n}
  /\ free' = [free EXCEPT ![n] = @ - 1]

(* Mutation: a slot that is taken stays on the free list. *)
ReserveKept(n) ==
  /\ n \in Available
  /\ used' = used \cup {n}
  /\ UNCHANGED free

(* PH7_ReserveMemObj: a slot of the free list, or a new one. *)
Reserve(n) ==
  /\ n \in Available
  /\ used' = used \cup {n}
  /\ free' = [free EXCEPT ![n] = IF @ > 0 THEN @ - 1 ELSE @]

(* Mutation: the entry is recorded in a new reference only. *)
InstalledNew(r, n, es, vs, iFlags) ==
  [r EXCEPT ![n] = IF @ = NULL THEN [ents |-> es, nodes |-> vs, iFlags |-> iFlags] ELSE @]

(* PH7_VmRefObjInstall: the flag is that of the first installation. *)
Installed(r, n, es, vs, iFlags) ==
  [r EXCEPT ![n] = IF r[n] = NULL THEN [ents |-> es, nodes |-> vs, iFlags |-> iFlags]
                   ELSE [ents |-> r[n].ents \cup es, nodes |-> r[n].nodes \cup vs,
                         iFlags |-> r[n].iFlags]]

(* PH7_VmRefObjRemove of an array element *)
NodeRemoved(r, n, v) ==
  [r EXCEPT ![n] = IF r[n] = NULL THEN NULL
                   ELSE [ents |-> r[n].ents, nodes |-> r[n].nodes \ {v}, iFlags |-> r[n].iFlags]]

(* HashmapInsertByRef: an element with that key is bound to the slot, and    *)
(* keeps its flag; otherwise a new foreign element is.                       *)
InsertByRef(m, k, n, r) ==
  \/ \E v \in NodesAt(m, k) :
       /\ node' = [node EXCEPT ![v].slot = n]
       /\ ref' = Installed(NodeRemoved(r, node[v].slot, v), n, {}, {v}, 0)
  \/ /\ NodesAt(m, k) = {}
     /\ \E v \in Nodes :
          /\ node[v] = NULL
          /\ node' = [node EXCEPT ![v] = [map |-> m, key |-> k, slot |-> n, foreign |-> TRUE]]
          /\ ref' = Installed(r, n, {}, {v}, 0)

(* A name of the current frame, recorded so that the frame can be left. *)
NewEntry(x, n, e) ==
  /\ entry[e] = NULL
  /\ entry' = [entry EXCEPT ![e] = [frame |-> depth, name |-> x, slot |-> n]]
  /\ sref' = IF depth > 1 THEN [sref EXCEPT ![depth] = @ \cup {<<n, e>>}] ELSE sref

(* The names of the global frame are elements of $GLOBALS too. *)
BindName(x, n, e) ==
  /\ NewEntry(x, n, e)
  /\ \/ /\ depth = 1
        /\ InsertByRef(Globals, x, n, Installed(ref, n, {e}, {}, 0))
     \/ /\ depth > 1
        /\ ref' = Installed(ref, n, {e}, {}, 0)
        /\ UNCHANGED node

(* VmExtractMemObj creates a name it does not find. *)
LoadVar(x) ==
  /\ Bound(depth, x) = {}
  /\ \E n \in Slots, e \in Entries :
       /\ Reserve(n)
       /\ BindName(x, n, e)
       /\ local' = IF depth > 1 THEN [local EXCEPT ![depth] = @ \cup {n}] ELSE local
  /\ UNCHANGED <<depth, outside>>

(* $x =& ...: PH7_OP_STORE_REF binds a new name only. *)
StoreRef(x, n) ==
  /\ n \in Denoted /\ Bound(depth, x) = {}
  /\ \E e \in Entries : BindName(x, n, e)
  /\ UNCHANGED <<pool, depth, local, outside>>

(* global $x: VmFrameLink binds the name to that of the nearest outer frame. *)
Uplink(x) ==
  /\ depth > 1
  /\ \E d \in 1 .. (depth - 1) :
       /\ \A c \in (d + 1) .. (depth - 1) : Bound(c, x) = {}
       /\ \E f \in Bound(d, x), e \in Entries :
            /\ free[entry[f].slot] < MaxFree
            /\ NewEntry(x, entry[f].slot, e)
            /\ ref' = Installed(ref, entry[f].slot, {e}, {}, 0)
  /\ UNCHANGED <<pool, node, depth, local, outside>>

(* Mutation: an element that is unlinked stays in the reference table. *)
DestroyStale(S, V, gone, names) ==
  LET dead == {n \in S : ref[n] # NULL}
      deadNames == names \cup UNION {ref[n].ents : n \in dead}
      deadNodes == V \cup UNION {ref[n].nodes : n \in dead}
  IN
  /\ entry' = [e \in Entries |-> IF e \in deadNames THEN NULL ELSE entry[e]]
  /\ node' = [v \in Nodes |-> IF v \in deadNodes THEN NULL ELSE node[v]]
  /\ ref' = [n \in Slots |->
               IF n \in S \/ ref[n] = NULL THEN NULL
               ELSE [ref[n] EXCEPT !.ents = {e \in @ : <<n, e>> \notin gone}]]
  /\ free' = [n \in Slots |-> IF n \in dead /\ ref[n].iFlags = 0 THEN free[n] + 1 ELSE free[n]]

(***************************************************************************)
(* PH7_VmUnsetMemObj of the slots S: their names and elements die, and the *)
(* slots go to the free list.  Before, the elements V have been taken out  *)
(* of the table and die (PH7_HashmapUnlinkNode), and the pairs gone of     *)
(* slots and names; the names die too (VmLeaveFrame).                      *)
(***************************************************************************)
Destroy(S, V, gone, names) ==
  LET dead == {n \in S : ref[n] # NULL}
      deadNames == names \cup UNION {ref[n].ents : n \in dead}
      deadNodes == V \cup UNION {ref[n].nodes : n \in dead}
  IN
  /\ entry' = [e \in Entries |-> IF e \in deadNames THEN NULL ELSE entry[e]]
  /\ node' = [v \in Nodes |-> IF v \in deadNodes THEN NULL ELSE node[v]]
  /\ ref' = [n \in Slots |->
               IF n \in S \/ ref[n] = NULL THEN NULL
               ELSE [ents |-> {e \in ref[n].ents : <<n, e>> \notin gone},
                     nodes |-> {v \in ref[n].nodes : v \notin V \/ node[v].slot # n},
                     iFlags |-> ref[n].iFlags]]
  /\ free' = [n \in Slots |-> IF n \in dead /\ ref[n].iFlags = 0 THEN free[n] + 1 ELSE free[n]]

(* unset() of a variable, an element or an attribute *)
Unset(n) ==
  /\ n \in Denoted
  /\ Destroy({n}, {}, {}, {})
  /\ UNCHANGED <<used, frames, outside>>

EnterFrame ==
  /\ depth < MaxDepth
  /\ depth' = depth + 1
  /\ UNCHANGED <<pool, ref, entry, node, local, sref, outside>>

(* VmLeaveFrame: the local slots, the recorded references, the table of names. *)
LeaveFrame ==
  /\ depth > 1
  /\ Destroy(local[depth], {}, sref[depth],
             {e \in Entries : entry[e] # NULL /\ entry[e].frame = depth})
  /\ depth' = depth - 1
  /\ local' = [local EXCEPT ![depth] = {}]
  /\ sref' = [sref EXCEPT ![depth] = {}]
  /\ UNCHANGED <<used, outside>>

(* HashmapInsert of a new key: the element owns a slot. *)
Insert(m, k) ==
  /\ m # Globals /\ NodesAt(m, k) = {}
  /\ \E n \in Slots, v \in Nodes :
       /\ Reserve(n) /\ node[v] = NULL
       /\ node' = [node EXCEPT ![v] = [map |-> m, key |-> k, slot |-> n, foreign |-> FALSE]]
       /\ ref' = Installed(ref, n, {}, {v}, 0)
  /\ UNCHANGED <<entry, frames, outside>>

(* $m[k] =& ... *)
InsertElemByRef(m, k, n) ==
  /\ n \in Denoted
  /\ \A v \in NodesOf(m) : node[v].slot = n => node[v].foreign
  /\ \A v \in NodesAt(m, k) :
       node[v].foreign \/ \A w \in NodesOf(m) : node[w].slot # n
  /\ InsertByRef(m, k, n, ref)
  /\ UNCHANGED <<pool, entry, frames, outside>>

(* PH7_HashmapUnlinkNode with bRestore: array_pop(), array_shift(), array_splice() *)
UnlinkElem(v) ==
  /\ node[v] # NULL
  /\ Destroy(IF node[v].foreign THEN {} ELSE {node[v].slot}, {v}, {}, {})
  /\ UNCHANGED <<used, frames, outside>>

(* PH7_HashmapRelease; $GLOBALS is never released. *)
ReleaseMap(m) ==
  /\ m # Globals /\ NodesOf(m) # {}
  /\ Destroy({node[v].slot : v \in {w \in NodesOf(m) : ~node[w].foreign}}, NodesOf(m), {}, {})
  /\ UNCHANGED <<used, frames, outside>>

(* VmMountUserClass: a static attribute keeps its slot. *)
MountAttr ==
  /\ attr = {}
  /\ \E n \in Slots :
       /\ Reserve(n)
       /\ ref' = Installed(ref, n, {}, {}, VM_REF_IDX_KEEP)
       /\ attr' = attr \cup {n}
  /\ UNCHANGED <<entry, node, frames, passed>>

(* A call binds a by-reference argument without the reference table. *)
CallByRef(x, n) ==
  /\ depth < MaxDepth /\ n \in Denoted
  /\ \E e \in Entries :
       /\ entry[e] = NULL
       /\ entry' = [entry EXCEPT ![e] = [frame |-> depth + 1, name |-> x, slot |-> n]]
  /\ depth' = depth + 1
  /\ passed' = passed \cup {n}
  /\ UNCHANGED <<pool, ref, node, local, sref, attr>>

Next ==
  \/ EnterFrame \/ LeaveFrame \/ MountAttr
  \/ \E x \in Names : LoadVar(x) \/ Uplink(x)
  \/ \E x \in Names, n \in Slots : StoreRef(x, n) \/ CallByRef(x, n)
  \/ \E n \in Slots : Unset(n)
  \/ \E m \in Maps, k \in Keys : Insert(m, k) \/ \E n \in Slots : InsertElemByRef(m, k, n)
  \/ \E v \in Nodes : UnlinkElem(v)
  \/ \E m \in Maps : ReleaseMap(m)

Spec == Init /\ [][Next]_vars
----------------------------------------------------------------------------
(* The type of every variable. *)
TypeOK ==
  /\ used \subseteq Slots /\ free \in [Slots -> Nat]
  /\ ref \in [Slots -> RefObj \cup {NULL}]
  /\ entry \in [Entries -> Entry \cup {NULL}]
  /\ node \in [Nodes -> Node \cup {NULL}]
  /\ depth \in Depths
  /\ local \in [Depths -> SUBSET Slots]
  /\ sref \in [Depths -> SUBSET (Slots \X Entries)]
  /\ attr \subseteq Slots /\ passed \subseteq Slots

(* The slots of the class attributes and of the arguments by reference have *)
(* names that the reference table does not know.                            *)
Known == Slots \ (attr \cup passed)

(***************************************************************************)
(* A slot is at most once on the free list, and no slot there is in the    *)
(* reference table: PH7_ReserveMemObj never hands one slot to two values.  *)
(***************************************************************************)
FreeOnce == \A n \in Known : free[n] = 0 \/ (free[n] = 1 /\ ref[n] = NULL /\ n \in used)

(***************************************************************************)
(* unset() "removes" a value "from the current frame, the reference table" *)
(* (vm.c:10227): no name and no element denotes a slot of the free list.   *)
(***************************************************************************)
NoDangling ==
  /\ \A e \in Entries : entry[e] # NULL /\ entry[e].slot \in Known => free[entry[e].slot] = 0
  /\ \A v \in Nodes : node[v] # NULL /\ node[v].slot \in Known => free[node[v].slot] = 0

(***************************************************************************)
(* The reference table points at exactly the names and elements bound to a *)
(* slot: VmRefObjUnlink misses none and follows no pointer to freed memory.*)
(***************************************************************************)
TableExact ==
  /\ \A n \in Slots : ref[n] # NULL =>
       /\ \A e \in ref[n].ents : entry[e] # NULL /\ entry[e].slot = n
       /\ \A v \in ref[n].nodes : node[v] # NULL /\ node[v].slot = n
  /\ \A e \in Entries : entry[e] # NULL /\ entry[e].slot \notin passed =>
       ref[entry[e].slot] # NULL /\ e \in ref[entry[e].slot].ents
  /\ \A v \in Nodes : node[v] # NULL =>
       ref[node[v].slot] # NULL /\ v \in ref[node[v].slot].nodes

(***************************************************************************)
(* Leaving a function gives the values of its variables back "so that they *)
(* can be reused again" (vm.c:650).  An element that owns its slot and that*)
(* no variable denotes is none of them, and stays.                         *)
(***************************************************************************)
LeaveOwn ==
  [][depth' < depth =>
       \A v \in Nodes : /\ node[v] # NULL /\ ~node[v].foreign
                        /\ \A e \in Entries : entry[e] # NULL => entry[e].slot # node[v].slot
                        => node'[v] = node[v]]_vars
============================================================================
