---------------------------- MODULE VmRefsProofs ----------------------------
(***************************************************************************)
(* The reference table of VmRefs, for any number of slots, names, arrays   *)
(* and frames.  The table is exact because the recorded references of a    *)
(* frame name all the entries that die with it, and none that live on; a   *)
(* slot is freed once because what is on the free list is not in the table.*)
(***************************************************************************)
EXTENDS VmRefs, TLAPS

RefTable == [Slots -> RefObj \cup {NULL}]

(* TableExact in two parts, of the names and of the elements *)
NamesExact(r, en, ps) ==
  /\ \A n \in Slots : r[n] # NULL =>
       \A e \in r[n].ents : en[e] # NULL /\ en[e].slot = n
  /\ \A e \in Entries : en[e] # NULL /\ en[e].slot \notin ps =>
       r[en[e].slot] # NULL /\ e \in r[en[e].slot].ents

ElemsExact(r, no) ==
  /\ \A n \in Slots : r[n] # NULL =>
       \A v \in r[n].nodes : no[v] # NULL /\ no[v].slot = n
  /\ \A v \in Nodes : no[v] # NULL =>
       r[no[v].slot] # NULL /\ v \in r[no[v].slot].nodes

(* A known slot in the table is in use. *)
InUse == \A n \in Known : ref[n] # NULL => n \in used

(* The entries of the table are recorded in their frame, and no frame has  *)
(* recorded an entry of a frame below it.                                  *)
Recorded(r, en, sr) ==
  \A n \in Slots : r[n] # NULL =>
    \A e \in r[n].ents : en[e].frame > 1 => <<n, e>> \in sr[en[e].frame]
FramesExact ==
  /\ \A e \in Entries : entry[e] # NULL => entry[e].frame <= depth
  /\ \A d \in Depths : d > depth => sref[d] = {}
  /\ \A d \in Depths, n \in Slots, e \in Entries :
       <<n, e>> \in sref[d] /\ entry[e] # NULL => entry[e].frame >= d
  /\ Recorded(ref, entry, sref)

(* The same names are in both tables. *)
SameEnts(r, q) ==
  \A s \in Slots : \A e \in Entries :
    (q[s] # NULL /\ e \in q[s].ents) <=> (r[s] # NULL /\ e \in r[s].ents)

IInv == TypeOK /\ FreeOnce /\ TableExact /\ InUse /\ FramesExact

LEMMA TableParts == TableExact <=> NamesExact(ref, entry, passed) /\ ElemsExact(ref, node)
  BY DEF TableExact, NamesExact, ElemsExact
----------------------------------------------------------------------------
(* What PH7_VmRefObjInstall of an element leaves in the table. *)
LEMMA InstalledElem ==
  ASSUME NEW r \in RefTable, NEW n \in Slots, NEW v \in Nodes
  PROVE  LET i == Installed(r, n, {}, {v}, 0)
         IN /\ i \in RefTable
            /\ \A m \in Slots \ {n} : i[m] = r[m]
            /\ i[n] # NULL
            /\ \A x \in Entries : x \in i[n].ents <=> (r[n] # NULL /\ x \in r[n].ents)
            /\ \A w \in Nodes : w \in i[n].nodes <=> (w = v \/ (r[n] # NULL /\ w \in r[n].nodes))
<1> DEFINE i == Installed(r, n, {}, {v}, 0)
           new == [ents |-> {}, nodes |-> {v}, iFlags |-> 0]
           old == [ents |-> r[n].ents \cup {}, nodes |-> r[n].nodes \cup {v},
                   iFlags |-> r[n].iFlags]
<1>1. i = [r EXCEPT ![n] = IF r[n] = NULL THEN new ELSE old]
  BY DEF Installed, RefTable
<1>2. new \in RefObj
  BY DEF RefObj, VM_REF_IDX_KEEP
<1>3. r[n] # NULL => old \in RefObj
  BY DEF RefTable, RefObj
<1>4. i[n] = (IF r[n] = NULL THEN new ELSE old) /\ \A m \in Slots \ {n} : i[m] = r[m]
  BY <1>1 DEF RefTable
<1>5. i \in RefTable
  BY <1>1, <1>2, <1>3 DEF RefTable
<1>6. i[n] # NULL
  BY <1>2, <1>3, <1>4, VmRefsAssumption
<1>7. /\ \A x \in Entries : x \in i[n].ents <=> (r[n] # NULL /\ x \in r[n].ents)
      /\ \A w \in Nodes : w \in i[n].nodes <=> (w = v \/ (r[n] # NULL /\ w \in r[n].nodes))
  BY <1>4
<1> QED
  BY <1>4, <1>5, <1>6, <1>7

(* ... and of a name ... *)
LEMMA InstalledName ==
  ASSUME NEW r \in RefTable, NEW n \in Slots, NEW e \in Entries
  PROVE  LET i == Installed(r, n, {e}, {}, 0)
         IN /\ i \in RefTable
            /\ \A m \in Slots \ {n} : i[m] = r[m]
            /\ i[n] # NULL
            /\ \A x \in Entries : x \in i[n].ents <=> (x = e \/ (r[n] # NULL /\ x \in r[n].ents))
            /\ \A w \in Nodes : w \in i[n].nodes <=> (r[n] # NULL /\ w \in r[n].nodes)
<1> DEFINE i == Installed(r, n, {e}, {}, 0)
           new == [ents |-> {e}, nodes |-> {}, iFlags |-> 0]
           old == [ents |-> r[n].ents \cup {e}, nodes |-> r[n].nodes \cup {},
                   iFlags |-> r[n].iFlags]
<1>1. i = [r EXCEPT ![n] = IF r[n] = NULL THEN new ELSE old]
  BY DEF Installed, RefTable
<1>2. new \in RefObj
  BY DEF RefObj, VM_REF_IDX_KEEP
<1>3. r[n] # NULL => old \in RefObj
  BY DEF RefTable, RefObj
<1>4. i[n] = (IF r[n] = NULL THEN new ELSE old) /\ \A m \in Slots \ {n} : i[m] = r[m]
  BY <1>1 DEF RefTable
<1>5. i \in RefTable
  BY <1>1, <1>2, <1>3 DEF RefTable
<1>6. i[n] # NULL
  BY <1>2, <1>3, <1>4, VmRefsAssumption
<1>7. /\ \A x \in Entries : x \in i[n].ents <=> (x = e \/ (r[n] # NULL /\ x \in r[n].ents))
      /\ \A w \in Nodes : w \in i[n].nodes <=> (r[n] # NULL /\ w \in r[n].nodes)
  BY <1>4
<1> QED
  BY <1>4, <1>5, <1>6, <1>7

(* ... and of a static attribute, of neither. *)
LEMMA InstalledAttr ==
  ASSUME NEW r \in RefTable, NEW n \in Slots
  PROVE  LET i == Installed(r, n, {}, {}, VM_REF_IDX_KEEP)
         IN /\ i \in RefTable
            /\ \A m \in Slots \ {n} : i[m] = r[m]
            /\ i[n] # NULL
            /\ \A x \in Entries : x \in i[n].ents <=> (r[n] # NULL /\ x \in r[n].ents)
            /\ \A w \in Nodes : w \in i[n].nodes <=> (r[n] # NULL /\ w \in r[n].nodes)
<1> DEFINE i == Installed(r, n, {}, {}, VM_REF_IDX_KEEP)
           new == [ents |-> {}, nodes |-> {}, iFlags |-> VM_REF_IDX_KEEP]
           old == [ents |-> r[n].ents \cup {}, nodes |-> r[n].nodes \cup {},
                   iFlags |-> r[n].iFlags]
<1>1. i = [r EXCEPT ![n] = IF r[n] = NULL THEN new ELSE old]
  BY DEF Installed, RefTable
<1>2. new \in RefObj
  BY DEF RefObj, VM_REF_IDX_KEEP
<1>3. r[n] # NULL => old \in RefObj
  BY DEF RefTable, RefObj
<1>4. i[n] = (IF r[n] = NULL THEN new ELSE old) /\ \A m \in Slots \ {n} : i[m] = r[m]
  BY <1>1 DEF RefTable
<1>5. i \in RefTable
  BY <1>1, <1>2, <1>3 DEF RefTable
<1>6. i[n] # NULL
  BY <1>2, <1>3, <1>4, VmRefsAssumption
<1>7. /\ \A x \in Entries : x \in i[n].ents <=> (r[n] # NULL /\ x \in r[n].ents)
      /\ \A w \in Nodes : w \in i[n].nodes <=> (r[n] # NULL /\ w \in r[n].nodes)
  BY <1>4
<1> QED
  BY <1>4, <1>5, <1>6, <1>7

(* PH7_VmRefObjRemove takes one element out of one reference. *)
LEMMA NodeRemovedProps ==
  ASSUME NEW r \in RefTable, NEW n \in Slots, NEW v \in Nodes,
         NEW i, i = NodeRemoved(r, n, v)
  PROVE  /\ i \in RefTable
         /\ \A m \in Slots : /\ i[m] = NULL <=> r[m] = NULL
                             /\ r[m] # NULL => i[m].ents = r[m].ents
         /\ \A m \in Slots \ {n} : i[m] = r[m]
         /\ r[n] # NULL => i[n].nodes = r[n].nodes \ {v}
<1> DEFINE old == [ents |-> r[n].ents, nodes |-> r[n].nodes \ {v}, iFlags |-> r[n].iFlags]
<1>1. i = [r EXCEPT ![n] = IF r[n] = NULL THEN NULL ELSE old]
  BY DEF NodeRemoved, RefTable
<1>2. r[n] # NULL => old \in RefObj /\ old.ents = r[n].ents /\ old.nodes = r[n].nodes \ {v}
  BY DEF RefTable, RefObj
<1>3. i[n] = (IF r[n] = NULL THEN NULL ELSE old) /\ \A m \in Slots \ {n} : i[m] = r[m]
  BY <1>1 DEF RefTable
<1>4. i \in RefTable
  BY <1>1, <1>2 DEF RefTable
<1> QED
  BY <1>2, <1>3, <1>4, VmRefsAssumption
----------------------------------------------------------------------------
WithNode(r, n, v) == Installed(r, n, {}, {v}, 0)

(* A new element: the elements stay exact, the names are not touched. *)
LEMMA NewNodeProps ==
  ASSUME NEW n \in Slots, NEW r \in RefTable, NEW v \in Nodes, NEW x \in Node, x.slot = n,
         node \in [Nodes -> Node \cup {NULL}], ElemsExact(r, node), node[v] = NULL,
         node' = [node EXCEPT ![v] = x], ref' = WithNode(r, n, v)
  PROVE  /\ node' \in [Nodes -> Node \cup {NULL}] /\ ref' \in RefTable
         /\ ElemsExact(ref', node')
         /\ \A s \in Slots \ {n} : ref'[s] = NULL <=> r[s] = NULL
         /\ SameEnts(r, ref')
<1>1. /\ ref' \in RefTable
      /\ \A s \in Slots \ {n} : ref'[s] = r[s]
      /\ ref'[n] # NULL
      /\ \A e \in Entries : e \in ref'[n].ents <=> (r[n] # NULL /\ e \in r[n].ents)
      /\ \A w \in Nodes : w \in ref'[n].nodes <=> (w = v \/ (r[n] # NULL /\ w \in r[n].nodes))
  BY InstalledElem DEF WithNode
<1>2. node'[v] = x /\ \A w \in Nodes \ {v} : node'[w] = node[w]
  OBVIOUS
<1>3. node' \in [Nodes -> Node \cup {NULL}] /\ x # NULL
  BY VmRefsAssumption
<1>4. ElemsExact(ref', node')
  <2>1. ASSUME NEW s \in Slots, ref'[s] # NULL, NEW w \in ref'[s].nodes
        PROVE  node'[w] # NULL /\ node'[w].slot = s
    <3>1. w \in Nodes
      BY <2>1, <1>1 DEF RefTable, RefObj
    <3>2. CASE s = n /\ w = v
      BY <3>2, <1>2, <1>3
    <3>3. CASE ~(s = n /\ w = v)
      <4>1. r[s] # NULL /\ w \in r[s].nodes
        BY <2>1, <3>1, <3>3, <1>1
      <4>2. node[w] # NULL /\ node[w].slot = s
        BY <4>1 DEF ElemsExact
      <4> QED
        BY <4>2, <3>1, <1>2
    <3> QED
      BY <3>2, <3>3
  <2>2. ASSUME NEW w \in Nodes, node'[w] # NULL
        PROVE  ref'[node'[w].slot] # NULL /\ w \in ref'[node'[w].slot].nodes
    <3>1. CASE w = v
      BY <3>1, <1>1, <1>2
    <3>2. CASE w # v
      <4>1. node'[w] = node[w] /\ node[w].slot \in Slots
        BY <2>2, <3>2, <1>2 DEF Node
      <4>2. r[node[w].slot] # NULL /\ w \in r[node[w].slot].nodes
        BY <2>2, <4>1 DEF ElemsExact
      <4> QED
        BY <4>1, <4>2, <1>1
    <3> QED
      BY <3>1, <3>2
  <2> QED
    BY <2>1, <2>2 DEF ElemsExact
<1>5. SameEnts(r, ref')
  BY <1>1 DEF SameEnts
<1> QED
  BY <1>1, <1>3, <1>4, <1>5

(* An element bound by HashmapInsertByRef: the elements stay exact, the     *)
(* names are not touched, and the slot is in the table.                     *)
LEMMA InsertByRefProps ==
  ASSUME NEW m \in Maps, NEW k \in Keys, NEW n \in Slots, NEW r \in RefTable,
         node \in [Nodes -> Node \cup {NULL}], ElemsExact(r, node), InsertByRef(m, k, n, r)
  PROVE  /\ node' \in [Nodes -> Node \cup {NULL}] /\ ref' \in RefTable
         /\ ElemsExact(ref', node')
         /\ \A s \in Slots \ {n} : ref'[s] = NULL <=> r[s] = NULL
         /\ SameEnts(r, ref')
<1>1. CASE \E v \in NodesAt(m, k) :
             /\ node' = [node EXCEPT ![v].slot = n]
             /\ ref' = Installed(NodeRemoved(r, node[v].slot, v), n, {}, {v}, 0)
  <2>1. PICK v \in NodesAt(m, k) :
             /\ node' = [node EXCEPT ![v].slot = n]
             /\ ref' = Installed(NodeRemoved(r, node[v].slot, v), n, {}, {v}, 0)
    BY <1>1
  <2>2. v \in Nodes /\ node[v] \in Node /\ node[v] # NULL /\ node[v].slot \in Slots
    BY DEF NodesAt, Node
  <2> DEFINE x == [node[v] EXCEPT !.slot = n]
             q == NodeRemoved(r, node[v].slot, v)
  <2>3. x \in Node /\ x.slot = n /\ node' = [node EXCEPT ![v] = x]
    BY <2>1, <2>2 DEF Node
  <2>4. /\ q \in RefTable
        /\ \A s \in Slots : /\ q[s] = NULL <=> r[s] = NULL
                            /\ r[s] # NULL => q[s].ents = r[s].ents
        /\ \A s \in Slots \ {node[v].slot} : q[s] = r[s]
        /\ r[node[v].slot] # NULL => q[node[v].slot].nodes = r[node[v].slot].nodes \ {v}
    BY <2>2, NodeRemovedProps
  <2>5. /\ ref' \in RefTable
        /\ \A s \in Slots \ {n} : ref'[s] = q[s]
        /\ ref'[n] # NULL
        /\ \A e \in Entries : e \in ref'[n].ents <=> (q[n] # NULL /\ e \in q[n].ents)
        /\ \A w \in Nodes : w \in ref'[n].nodes <=> (w = v \/ (q[n] # NULL /\ w \in q[n].nodes))
    <3>1. ref' = Installed(q, n, {}, {v}, 0)
      BY <2>1
    <3> HIDE DEF q
    <3> QED
      BY <2>2, <2>4, <3>1, InstalledElem
  <2> HIDE DEF q, x
  <2>6. node' \in [Nodes -> Node \cup {NULL}] /\ x # NULL
    BY <2>2, <2>3, VmRefsAssumption
  <2>7. node'[v] = x /\ \A w \in Nodes \ {v} : node'[w] = node[w]
    BY <2>2, <2>3
  <2>8. \A s \in Slots : q[s] # NULL => \A w \in q[s].nodes : w # v /\ node[w] # NULL /\ node[w].slot = s
    BY <2>2, <2>4 DEF ElemsExact
  <2>9. \A w \in Nodes \ {v} : node[w] # NULL => q[node[w].slot] # NULL /\ w \in q[node[w].slot].nodes
    BY <2>2, <2>4 DEF ElemsExact, Node
  <2>10. ElemsExact(ref', node')
    <3>1. ASSUME NEW s \in Slots, ref'[s] # NULL, NEW w \in ref'[s].nodes
          PROVE  node'[w] # NULL /\ node'[w].slot = s
      <4>1. CASE w = v
        BY <4>1, <3>1, <2>3, <2>5, <2>6, <2>7, <2>8
      <4>2. CASE w # v
        <5>1. w \in Nodes
          BY <3>1, <2>5 DEF RefTable, RefObj
        <5>2. q[s] # NULL /\ w \in q[s].nodes
          BY <4>2, <5>1, <3>1, <2>5
        <5> QED
          BY <5>1, <5>2, <4>2, <2>7, <2>8
      <4> QED
        BY <4>1, <4>2
    <3>2. ASSUME NEW w \in Nodes, node'[w] # NULL
          PROVE  ref'[node'[w].slot] # NULL /\ w \in ref'[node'[w].slot].nodes
      <4>1. CASE w = v
        BY <4>1, <2>3, <2>5, <2>7
      <4>2. CASE w # v
        <5>1. node'[w] = node[w] /\ node[w].slot \in Slots
          BY <3>2, <4>2, <2>7 DEF Node
        <5>2. q[node[w].slot] # NULL /\ w \in q[node[w].slot].nodes
          BY <3>2, <4>2, <5>1, <2>9
        <5> QED
          BY <5>1, <5>2, <2>5
      <4> QED
        BY <4>1, <4>2
    <3> QED
      BY <3>1, <3>2 DEF ElemsExact
  <2>11. SameEnts(r, ref')
    BY <2>4, <2>5 DEF SameEnts
  <2>12. \A s \in Slots \ {n} : ref'[s] = NULL <=> r[s] = NULL
    BY <2>4, <2>5
  <2> QED
    BY <2>5, <2>6, <2>10, <2>11, <2>12
<1>2. CASE \E v \in Nodes :
             /\ node[v] = NULL
             /\ node' = [node EXCEPT ![v] = [map |-> m, key |-> k, slot |-> n, foreign |-> TRUE]]
             /\ ref' = Installed(r, n, {}, {v}, 0)
  <2>1. PICK v \in Nodes :
             /\ node[v] = NULL
             /\ node' = [node EXCEPT ![v] = [map |-> m, key |-> k, slot |-> n, foreign |-> TRUE]]
             /\ ref' = Installed(r, n, {}, {v}, 0)
    BY <1>2
  <2> DEFINE x == [map |-> m, key |-> k, slot |-> n, foreign |-> TRUE]
  <2>2. x \in Node /\ x.slot = n
    BY DEF Node
  <2> HIDE DEF x
  <2>3. node' = [node EXCEPT ![v] = x] /\ ref' = WithNode(r, n, v)
    BY <2>1 DEF x, WithNode
  <2> QED
    BY <2>1, <2>2, <2>3, NewNodeProps
<1> QED
  BY <1>1, <1>2 DEF InsertByRef
----------------------------------------------------------------------------
(* PH7_VmUnsetMemObj with what is unlinked before it: the names that die    *)
(* otherwise are those whose references are gone, so the table stays exact, *)
(* and a slot goes to the free list when it leaves the table.               *)
Destroys(S, V, gone, names) ==
  /\ \A n \in Slots : ref[n] # NULL => \A e \in ref[n].ents : e \in names => <<n, e>> \in gone
  /\ \A n \in Slots, e \in Entries : <<n, e>> \in gone /\ entry[e] # NULL => e \in names
  /\ Destroy(S, V, gone, names)
Destruction ==
  /\ \E S \in SUBSET Slots, V \in SUBSET Nodes, gone \in SUBSET (Slots \X Entries),
        names \in SUBSET Entries : Destroys(S, V, gone, names)
  /\ UNCHANGED <<used, attr, passed>>

LEMMA DestroyProps ==
  ASSUME IInv, Destruction
  PROVE  /\ entry' \in [Entries -> Entry \cup {NULL}]
         /\ node' \in [Nodes -> Node \cup {NULL}]
         /\ ref' \in RefTable /\ free' \in [Slots -> Nat]
         /\ TableExact' /\ FreeOnce' /\ InUse'
         /\ \A e \in Entries : entry'[e] = NULL \/ entry'[e] = entry[e]
         /\ \A n \in Slots : ref'[n] # NULL =>
              ref[n] # NULL /\ \A e \in ref'[n].ents : e \in ref[n].ents
<1>1. PICK S \in SUBSET Slots, V \in SUBSET Nodes, gone \in SUBSET (Slots \X Entries),
           names \in SUBSET Entries : Destroys(S, V, gone, names)
  BY DEF Destruction
<1> DEFINE dead == {n \in S : ref[n] # NULL}
           deadNames == names \cup UNION {ref[n].ents : n \in dead}
           deadNodes == V \cup UNION {ref[n].nodes : n \in dead}
           left(n) == [ents |-> {e \in ref[n].ents : <<n, e>> \notin gone},
                       nodes |-> {v \in ref[n].nodes : v \notin V \/ node[v].slot # n},
                       iFlags |-> ref[n].iFlags]
<1>2. /\ \A n \in Slots : ref[n] # NULL => \A e \in ref[n].ents : e \in names => <<n, e>> \in gone
      /\ \A n \in Slots, e \in Entries : <<n, e>> \in gone /\ entry[e] # NULL => e \in names
      /\ entry' = [e \in Entries |-> IF e \in deadNames THEN NULL ELSE entry[e]]
      /\ node' = [v \in Nodes |-> IF v \in deadNodes THEN NULL ELSE node[v]]
      /\ ref' = [n \in Slots |-> IF n \in S \/ ref[n] = NULL THEN NULL ELSE left(n)]
      /\ free' = [n \in Slots |-> IF n \in dead /\ ref[n].iFlags = 0 THEN free[n] + 1 ELSE free[n]]
  BY <1>1 DEF Destroys, Destroy
<1>3. /\ ref \in RefTable /\ free \in [Slots -> Nat]
      /\ entry \in [Entries -> Entry \cup {NULL}] /\ node \in [Nodes -> Node \cup {NULL}]
      /\ NamesExact(ref, entry, passed) /\ ElemsExact(ref, node)
  BY TableParts DEF IInv, TypeOK, RefTable
<1>4. \A n \in Slots : ref[n] # NULL =>
        /\ ref[n] \in RefObj /\ left(n) \in RefObj /\ left(n) # NULL
        /\ left(n).ents = {e \in ref[n].ents : <<n, e>> \notin gone}
        /\ left(n).nodes = {v \in ref[n].nodes : v \notin V \/ node[v].slot # n}
  <2> SUFFICES ASSUME NEW n \in Slots, ref[n] # NULL
               PROVE  /\ ref[n] \in RefObj /\ left(n) \in RefObj /\ left(n) # NULL
                      /\ left(n).ents = {e \in ref[n].ents : <<n, e>> \notin gone}
                      /\ left(n).nodes = {v \in ref[n].nodes : v \notin V \/ node[v].slot # n}
    OBVIOUS
  <2> DEFINE E == {e \in ref[n].ents : <<n, e>> \notin gone}
             N == {v \in ref[n].nodes : v \notin V \/ node[v].slot # n}
  <2>1. ref[n] \in RefObj
    BY <1>3 DEF RefTable
  <2>2. E \subseteq Entries /\ N \subseteq Nodes /\ ref[n].iFlags \in {0, VM_REF_IDX_KEEP}
    BY <2>1 DEF RefObj
  <2>3. left(n) = [ents |-> E, nodes |-> N, iFlags |-> ref[n].iFlags]
    OBVIOUS
  <2> HIDE DEF E, N, left
  <2>4. left(n) \in RefObj /\ left(n).ents = E /\ left(n).nodes = N
    BY <2>2, <2>3 DEF RefObj
  <2> QED
    BY <2>1, <2>4, VmRefsAssumption DEF E, N
<1>5. \A e \in Entries : e \in deadNames <=> e \in names \/ \E n \in S : ref[n] # NULL /\ e \in ref[n].ents
  OBVIOUS
<1>6. \A v \in Nodes : v \in deadNodes <=> v \in V \/ \E n \in S : ref[n] # NULL /\ v \in ref[n].nodes
  OBVIOUS
<1>7. \A n \in S : n \in Slots /\ (n \in dead <=> ref[n] # NULL)
  BY <1>1
<1> HIDE DEF dead, deadNames, deadNodes, left
<1>8. /\ entry' \in [Entries -> Entry \cup {NULL}]
      /\ node' \in [Nodes -> Node \cup {NULL}]
      /\ free' \in [Slots -> Nat]
      /\ \A e \in Entries : entry'[e] = NULL \/ entry'[e] = entry[e]
  BY <1>2, <1>3
<1>9. ref' \in RefTable
  BY <1>2, <1>4 DEF RefTable
<1>10. \A n \in Slots : ref'[n] # NULL =>
         /\ n \notin S /\ ref[n] # NULL
         /\ \A e \in ref'[n].ents : e \in Entries /\ e \in ref[n].ents /\ <<n, e>> \notin gone
         /\ \A v \in ref'[n].nodes : /\ v \in Nodes /\ v \in ref[n].nodes
                                     /\ v \notin V \/ node[v].slot # n
  BY <1>2, <1>4 DEF RefObj
<1>11. NamesExact(ref', entry', passed')
  <2>1. ASSUME NEW n \in Slots, ref'[n] # NULL, NEW e \in ref'[n].ents
        PROVE  entry'[e] # NULL /\ entry'[e].slot = n
    <3>1. e \in Entries /\ entry[e] # NULL /\ entry[e].slot = n /\ e \notin names
      BY <2>1, <1>2, <1>3, <1>10 DEF NamesExact
    <3>2. \A m \in S : ~(ref[m] # NULL /\ e \in ref[m].ents)
      BY <2>1, <3>1, <1>3, <1>7, <1>10 DEF NamesExact
    <3> QED
      BY <3>1, <3>2, <1>2, <1>5
  <2>2. ASSUME NEW e \in Entries, entry'[e] # NULL, entry'[e].slot \notin passed'
        PROVE  ref'[entry'[e].slot] # NULL /\ e \in ref'[entry'[e].slot].ents
    <3>1. entry'[e] = entry[e] /\ e \notin deadNames /\ entry[e] \in Entry /\ entry[e].slot \in Slots
      BY <2>2, <1>2, <1>3 DEF Entry
    <3>2. ref[entry[e].slot] # NULL /\ e \in ref[entry[e].slot].ents
      BY <2>2, <3>1, <1>3 DEF NamesExact, Destruction
    <3>3. entry[e].slot \notin S /\ e \notin names
      BY <3>1, <3>2, <1>5
    <3>4. <<entry[e].slot, e>> \notin gone
      BY <2>2, <3>1, <3>3, <1>2
    <3> QED
      BY <3>1, <3>2, <3>3, <3>4, <1>2, <1>4
  <2> QED
    BY <2>1, <2>2 DEF NamesExact
<1>12. ElemsExact(ref', node')
  <2>1. ASSUME NEW n \in Slots, ref'[n] # NULL, NEW v \in ref'[n].nodes
        PROVE  node'[v] # NULL /\ node'[v].slot = n
    <3>1. v \in Nodes /\ node[v] # NULL /\ node[v].slot = n /\ v \notin V
      BY <2>1, <1>3, <1>10 DEF ElemsExact
    <3>2. \A m \in S : ~(ref[m] # NULL /\ v \in ref[m].nodes)
      BY <2>1, <3>1, <1>3, <1>7, <1>10 DEF ElemsExact
    <3> QED
      BY <3>1, <3>2, <1>2, <1>6
  <2>2. ASSUME NEW v \in Nodes, node'[v] # NULL
        PROVE  ref'[node'[v].slot] # NULL /\ v \in ref'[node'[v].slot].nodes
    <3>1. node'[v] = node[v] /\ v \notin deadNodes /\ node[v] \in Node /\ node[v].slot \in Slots
      BY <2>2, <1>2, <1>3 DEF Node
    <3>2. ref[node[v].slot] # NULL /\ v \in ref[node[v].slot].nodes
      BY <2>2, <3>1, <1>3 DEF ElemsExact
    <3>3. node[v].slot \notin S /\ v \notin V
      BY <3>1, <3>2, <1>6
    <3> QED
      BY <3>1, <3>2, <3>3, <1>2, <1>4
  <2> QED
    BY <2>1, <2>2 DEF ElemsExact
<1>13. TableExact'
  BY <1>11, <1>12 DEF TableExact, NamesExact, ElemsExact
<1>14. FreeOnce' /\ InUse'
  <2>1. Known' = Known /\ used' = used /\ Known \subseteq Slots
    BY DEF Destruction, Known
  <2>2. \A n \in Slots : n \notin dead => free'[n] = free[n]
    BY <1>2
  <2>3. \A n \in Slots : n \in dead => n \in S /\ ref[n] # NULL /\ ref'[n] = NULL /\ free'[n] \in {free[n], free[n] + 1}
    BY <1>2 DEF dead
  <2>4. \A n \in Slots : ref[n] = NULL => ref'[n] = NULL
    BY <1>2
  <2>5. \A n \in Known : free[n] = 0 \/ (free[n] = 1 /\ ref[n] = NULL /\ n \in used)
    BY DEF IInv, FreeOnce
  <2>6. \A n \in Known : ref[n] # NULL => n \in used
    BY DEF IInv, InUse
  <2> QED
    BY <2>1, <2>2, <2>3, <2>4, <2>5, <2>6 DEF FreeOnce, InUse
<1> QED
  BY <1>8, <1>9, <1>10, <1>13, <1>14
----------------------------------------------------------------------------
(* The frames stay exact when nothing but names is destroyed in them. *)
LEMMA DestroyFrames ==
  ASSUME IInv, Destruction, UNCHANGED frames
  PROVE  IInv'
<1>1. /\ entry' \in [Entries -> Entry \cup {NULL}]
      /\ node' \in [Nodes -> Node \cup {NULL}]
      /\ ref' \in RefTable /\ free' \in [Slots -> Nat]
      /\ TableExact' /\ FreeOnce' /\ InUse'
      /\ \A e \in Entries : entry'[e] = NULL \/ entry'[e] = entry[e]
      /\ \A n \in Slots : ref'[n] # NULL =>
           ref[n] # NULL /\ \A e \in ref'[n].ents : e \in ref[n].ents
  BY DestroyProps
<1>2. TypeOK'
  BY <1>1 DEF IInv, TypeOK, RefTable, Destruction, frames
<1>3. \A n \in Slots : ref'[n] # NULL => \A e \in ref'[n].ents :
        e \in Entries /\ entry'[e] # NULL /\ entry'[e] = entry[e]
  BY <1>1 DEF TableExact, RefTable, RefObj
<1>4. Recorded(ref, entry, sref)' 
  BY <1>1, <1>3 DEF IInv, FramesExact, Recorded, frames
<1>5. FramesExact'
  BY <1>1, <1>4 DEF IInv, FramesExact, frames
<1> QED
  BY <1>1, <1>2, <1>5 DEF IInv

(* VmLeaveFrame: the names of the frame die, and exactly their references   *)
(* are recorded in it.                                                      *)
LEMMA LeaveFrameStep ==
  ASSUME IInv, LeaveFrame
  PROVE  IInv'
<1> DEFINE mine == {e \in Entries : entry[e] # NULL /\ entry[e].frame = depth}
<1>1. /\ depth \in Depths /\ depth > 1 /\ depth \in Nat /\ depth' = depth - 1
      /\ Destroy(local[depth], {}, sref[depth], mine)
      /\ local' = [local EXCEPT ![depth] = {}]
      /\ sref' = [sref EXCEPT ![depth] = {}]
      /\ UNCHANGED <<used, attr, passed>>
  BY VmRefsAssumption DEF IInv, TypeOK, LeaveFrame, outside, Depths
<1>2. /\ local[depth] \in SUBSET Slots /\ sref[depth] \in SUBSET (Slots \X Entries)
      /\ mine \in SUBSET Entries /\ {} \in SUBSET Nodes
  BY <1>1 DEF IInv, TypeOK
<1>3. \A n \in Slots : ref[n] # NULL => \A e \in ref[n].ents : e \in mine => <<n, e>> \in sref[depth]
  BY <1>1 DEF IInv, FramesExact, Recorded
<1>4. \A n \in Slots, e \in Entries : <<n, e>> \in sref[depth] /\ entry[e] # NULL => e \in mine
  <2> SUFFICES ASSUME NEW n \in Slots, NEW e \in Entries, <<n, e>> \in sref[depth], entry[e] # NULL
               PROVE  entry[e].frame = depth
    OBVIOUS
  <2>1. entry[e].frame \in Depths
    BY DEF IInv, TypeOK, Entry
  <2>2. entry[e].frame <= depth /\ entry[e].frame >= depth
    BY <1>1 DEF IInv, FramesExact
  <2> QED
    BY <1>1, <2>1, <2>2 DEF Depths
<1>5. Destroys(local[depth], {}, sref[depth], mine)
  <2> HIDE DEF mine
  <2> QED
    BY <1>1, <1>3, <1>4 DEF Destroys
<1>6. Destruction
  <2> HIDE DEF mine
  <2> QED
    BY <1>1, <1>2, <1>5 DEF Destruction
<1>7. /\ entry' \in [Entries -> Entry \cup {NULL}]
      /\ node' \in [Nodes -> Node \cup {NULL}]
      /\ ref' \in RefTable /\ free' \in [Slots -> Nat]
      /\ TableExact' /\ FreeOnce' /\ InUse'
      /\ \A e \in Entries : entry'[e] = NULL \/ entry'[e] = entry[e]
      /\ \A n \in Slots : ref'[n] # NULL =>
           ref[n] # NULL /\ \A e \in ref'[n].ents : e \in ref[n].ents
  BY <1>6, DestroyProps
<1>8. TypeOK'
  <2>1. depth' \in Depths
    BY <1>1, VmRefsAssumption DEF Depths
  <2>2. local' \in [Depths -> SUBSET Slots] /\ sref' \in [Depths -> SUBSET (Slots \X Entries)]
    BY <1>1 DEF IInv, TypeOK
  <2> QED
    BY <1>1, <1>7, <2>1, <2>2 DEF IInv, TypeOK, RefTable
<1>9. \A e \in Entries : entry'[e] # NULL => entry'[e] = entry[e] /\ entry[e].frame # depth
  <2> SUFFICES ASSUME NEW e \in Entries, entry'[e] # NULL
               PROVE  entry'[e] = entry[e] /\ e \notin mine
    OBVIOUS
  <2> HIDE DEF mine
  <2> QED
    BY <1>1, <1>7 DEF Destroy
<1>10. \A n \in Slots : ref'[n] # NULL => \A e \in ref'[n].ents :
         e \in Entries /\ entry'[e] # NULL
  BY <1>7 DEF TableExact, RefTable, RefObj
<1>11. \A e \in Entries : entry'[e] # NULL =>
         entry[e].frame \in Depths /\ entry[e].frame <= depth /\ entry[e].frame <= depth'
  <2> SUFFICES ASSUME NEW e \in Entries, entry'[e] # NULL
               PROVE  entry[e].frame \in Depths /\ entry[e].frame <= depth /\ entry[e].frame <= depth'
    OBVIOUS
  <2>1. entry[e] # NULL /\ entry[e].frame # depth
    BY <1>9
  <2>2. entry[e].frame \in Depths /\ entry[e].frame <= depth
    BY <2>1 DEF IInv, TypeOK, FramesExact, Entry
  <2> QED
    BY <1>1, <2>1, <2>2 DEF Depths
<1>12. \A d \in Depths : /\ sref'[d] = IF d = depth THEN {} ELSE sref[d]
                         /\ d > depth' => sref'[d] = {}
  <2>1. \A d \in Depths : sref'[d] = IF d = depth THEN {} ELSE sref[d]
    BY <1>1 DEF IInv, TypeOK
  <2>2. \A d \in Depths : d > depth => sref[d] = {}
    BY DEF IInv, FramesExact
  <2>3. \A d \in Depths : d > depth' => d = depth \/ d > depth
    BY <1>1 DEF Depths
  <2> QED
    BY <2>1, <2>2, <2>3
<1>13. Recorded(ref', entry', sref')
  <2> SUFFICES ASSUME NEW n \in Slots, ref'[n] # NULL, NEW e \in ref'[n].ents, entry'[e].frame > 1
               PROVE  <<n, e>> \in sref'[entry'[e].frame]
    BY DEF Recorded
  <2>1. e \in Entries /\ entry'[e] = entry[e] /\ entry[e].frame # depth /\ entry[e].frame \in Depths
    BY <1>9, <1>10, <1>11
  <2>2. <<n, e>> \in sref[entry[e].frame]
    BY <2>1, <1>7 DEF IInv, FramesExact, Recorded
  <2> QED
    BY <2>1, <2>2, <1>12
<1>14. FramesExact'
  <2>1. \A d \in Depths, n \in Slots, e \in Entries :
          <<n, e>> \in sref'[d] /\ entry'[e] # NULL => entry'[e].frame >= d
    BY <1>9, <1>12 DEF IInv, FramesExact
  <2> QED
    BY <1>9, <1>11, <1>12, <1>13, <2>1 DEF FramesExact
<1> QED
  BY <1>7, <1>8, <1>14 DEF IInv

Unlinking(S, V) == Destroy(S, V, {}, {}) /\ UNCHANGED <<used, attr, passed>>

LEMMA UnlinkStep ==
  ASSUME IInv, NEW S \in SUBSET Slots, NEW V \in SUBSET Nodes, Unlinking(S, V), UNCHANGED frames
  PROVE  IInv'
<1>1. Destroys(S, V, {}, {})
  BY DEF Destroys, Unlinking
<1>2. {} \in SUBSET (Slots \X Entries) /\ {} \in SUBSET Entries
  OBVIOUS
<1>3. Destruction
  BY <1>1, <1>2 DEF Destruction, Unlinking
<1> QED
  BY <1>3, DestroyFrames
----------------------------------------------------------------------------
(* Only the slot n changes: it is taken from the pool or stays in use. *)
BoundSlot(n) ==
  /\ used' \subseteq Slots /\ used \subseteq used' /\ free' \in [Slots -> Nat]
  /\ n \in Known' => free'[n] = 0 /\ n \in used'
  /\ \A m \in Slots \ {n} : free'[m] = free[m]

LEMMA ReserveBinds ==
  ASSUME IInv, NEW n \in Slots, Reserve(n), Known' \subseteq Known
  PROVE  BoundSlot(n)
<1>1. /\ n \in Available /\ used' = used \cup {n}
      /\ free' = [free EXCEPT ![n] = IF free[n] > 0 THEN free[n] - 1 ELSE free[n]]
      /\ free \in [Slots -> Nat] /\ used \subseteq Slots
  BY DEF Reserve, IInv, TypeOK
<1>2. n \in Known => free[n] = 0 \/ free[n] = 1
  BY DEF IInv, FreeOnce
<1>3. free[n] \in Nat /\ free'[n] = (IF free[n] > 0 THEN free[n] - 1 ELSE free[n])
  BY <1>1
<1>4. free' \in [Slots -> Nat]
  BY <1>1, <1>3
<1> QED
  BY <1>1, <1>2, <1>3, <1>4 DEF BoundSlot

(* A slot that a variable or an element of the program denotes is in use. *)
LEMMA InTableBinds ==
  ASSUME IInv, NEW n \in Slots, n \in Known => ref[n] # NULL, UNCHANGED pool, Known' \subseteq Known
  PROVE  BoundSlot(n)
  BY DEF IInv, TypeOK, FreeOnce, InUse, BoundSlot, pool

LEMMA DenotedInTable ==
  ASSUME IInv, NEW n \in Denoted
  PROVE  n \in Slots /\ (n \in Known => ref[n] # NULL)
<1> SUFFICES ASSUME n \in Known
             PROVE  ref[n] # NULL
  BY DEF Denoted
<1>1. CASE \E e \in Entries : entry[e] # NULL /\ entry[e].slot = n
  BY <1>1 DEF IInv, TableExact, Known
<1>2. CASE \E v \in Nodes : node[v] # NULL /\ node[v].slot = n
  BY <1>2 DEF IInv, TableExact
<1> QED
  BY <1>1, <1>2 DEF Denoted, Bound, Known

LEMMA PoolKept ==
  ASSUME IInv, NEW n \in Slots, BoundSlot(n), Known' \subseteq Known,
         \A m \in Slots \ {n} : ref'[m] = NULL <=> ref[m] = NULL
  PROVE  FreeOnce' /\ InUse'
<1>1. Known' \subseteq Slots
  BY DEF Known
<1>2. \A m \in Known' : m # n => /\ free'[m] = free[m] /\ m \in Known
                                 /\ ref'[m] = NULL <=> ref[m] = NULL
                                 /\ m \in used => m \in used'
  BY <1>1 DEF BoundSlot
<1>3. \A m \in Known' : free'[m] = 0 \/ (free'[m] = 1 /\ ref'[m] = NULL /\ m \in used')
  BY <1>1, <1>2 DEF IInv, FreeOnce, BoundSlot
<1>4. \A m \in Known' : ref'[m] # NULL => m \in used'
  BY <1>1, <1>2 DEF IInv, InUse, BoundSlot
<1> QED
  BY <1>3, <1>4 DEF FreeOnce, InUse

(* The names of the table, when it gets no new name ... *)
LEMMA NamesKept ==
  ASSUME IInv, ref' \in RefTable, SameEnts(ref, ref'), entry' = entry,
         UNCHANGED frames, passed' = passed
  PROVE  NamesExact(ref', entry', passed') /\ FramesExact'
<1>1. \A s \in Slots : ref'[s] # NULL => \A e \in ref'[s].ents :
        e \in Entries /\ ref[s] # NULL /\ e \in ref[s].ents
  BY DEF SameEnts, RefTable, RefObj
<1>2. NamesExact(ref', entry', passed')
  <2>1. NamesExact(ref, entry, passed) /\ \A e \in Entries : entry[e] # NULL => entry[e].slot \in Slots
    BY TableParts DEF IInv, TypeOK, Entry
  <2> QED
    BY <1>1, <2>1 DEF SameEnts, NamesExact
<1>3. FramesExact'
  BY <1>1 DEF IInv, FramesExact, Recorded, frames
<1> QED
  BY <1>2, <1>3

(* ... and when it gets one of the current frame. *)
WithName(r, q, n, e) ==
  \A s \in Slots : \A f \in Entries :
    (q[s] # NULL /\ f \in q[s].ents) <=> ((s = n /\ f = e) \/ (r[s] # NULL /\ f \in r[s].ents))

LEMMA NewName ==
  ASSUME IInv, NEW x \in Names, NEW n \in Slots, NEW e \in Entries, NewEntry(x, n, e),
         ref' \in RefTable, WithName(ref, ref', n, e), depth' = depth, passed' = passed
  PROVE  /\ entry' \in [Entries -> Entry \cup {NULL}]
         /\ sref' \in [Depths -> SUBSET (Slots \X Entries)]
         /\ NamesExact(ref', entry', passed') /\ FramesExact'
<1> DEFINE new == [frame |-> depth, name |-> x, slot |-> n]
<1>1. /\ depth \in Depths /\ depth \in Nat
      /\ entry \in [Entries -> Entry \cup {NULL}]
      /\ sref \in [Depths -> SUBSET (Slots \X Entries)]
      /\ NamesExact(ref, entry, passed)
  BY TableParts, VmRefsAssumption DEF IInv, TypeOK, Depths
<1>2. new \in Entry /\ new # NULL /\ new.frame = depth /\ new.slot = n
  BY <1>1, VmRefsAssumption DEF Entry
<1>3. entry[e] = NULL /\ entry' = [entry EXCEPT ![e] = new]
  BY DEF NewEntry
<1>4. sref' = IF depth > 1 THEN [sref EXCEPT ![depth] = sref[depth] \cup {<<n, e>>}] ELSE sref
  BY DEF NewEntry
<1> HIDE DEF new
<1>5. /\ entry' \in [Entries -> Entry \cup {NULL}]
      /\ entry'[e] = new /\ \A f \in Entries \ {e} : entry'[f] = entry[f]
  BY <1>1, <1>2, <1>3
<1>6. /\ sref' \in [Depths -> SUBSET (Slots \X Entries)]
      /\ \A d \in Depths : sref[d] \subseteq sref'[d]
      /\ \A d \in Depths, s \in Slots, f \in Entries :
           <<s, f>> \in sref'[d] => <<s, f>> \in sref[d] \/ (d = depth /\ f = e)
      /\ \A d \in Depths : d # depth => sref'[d] = sref[d]
      /\ depth > 1 => <<n, e>> \in sref'[depth]
  BY <1>1, <1>4
<1>7. \A s \in Slots : ref'[s] # NULL => \A f \in ref'[s].ents :
        f \in Entries /\ ((s = n /\ f = e) \/ (f # e /\ ref[s] # NULL /\ f \in ref[s].ents))
  BY <1>1, <1>3 DEF WithName, RefTable, RefObj, NamesExact
<1>8. NamesExact(ref', entry', passed')
  <2>1. \A s \in Slots : ref'[s] # NULL => \A f \in ref'[s].ents : entry'[f] # NULL /\ entry'[f].slot = s
    BY <1>1, <1>2, <1>5, <1>7 DEF NamesExact
  <2>2. ASSUME NEW f \in Entries, entry'[f] # NULL, entry'[f].slot \notin passed'
        PROVE  ref'[entry'[f].slot] # NULL /\ f \in ref'[entry'[f].slot].ents
    <3>1. CASE f = e
      BY <3>1, <1>2, <1>5 DEF WithName
    <3>2. CASE f # e
      <4>1. entry'[f] = entry[f] /\ entry[f].slot \in Slots
        BY <2>2, <3>2, <1>1, <1>5 DEF Entry
      <4>2. ref[entry[f].slot] # NULL /\ f \in ref[entry[f].slot].ents
        BY <2>2, <4>1, <1>1 DEF NamesExact
      <4> QED
        BY <4>1, <4>2 DEF WithName
    <3> QED
      BY <3>1, <3>2
  <2> QED
    BY <2>1, <2>2 DEF NamesExact
<1>9. FramesExact'
  <2>1. \A f \in Entries : entry'[f] # NULL => entry'[f].frame <= depth'
    BY <1>1, <1>2, <1>5 DEF IInv, FramesExact
  <2>2. \A d \in Depths : d > depth' => sref'[d] = {}
    BY <1>1, <1>6 DEF IInv, FramesExact, Depths
  <2>3. ASSUME NEW d \in Depths, NEW s \in Slots, NEW f \in Entries,
               <<s, f>> \in sref'[d], entry'[f] # NULL
        PROVE  entry'[f].frame >= d
    <3>1. d <= depth
      BY <2>2, <2>3, <1>1 DEF Depths
    <3>2. CASE f = e
      BY <3>1, <3>2, <1>1, <1>2, <1>5 DEF Depths
    <3>3. CASE f # e
      BY <2>3, <3>3, <1>5, <1>6 DEF IInv, FramesExact
    <3> QED
      BY <3>2, <3>3
  <2>4. Recorded(ref', entry', sref')
    <3> SUFFICES ASSUME NEW s \in Slots, ref'[s] # NULL, NEW f \in ref'[s].ents, entry'[f].frame > 1
                 PROVE  <<s, f>> \in sref'[entry'[f].frame]
      BY DEF Recorded
    <3>1. CASE s = n /\ f = e
      BY <3>1, <1>2, <1>5, <1>6
    <3>2. CASE f # e /\ f \in Entries /\ ref[s] # NULL /\ f \in ref[s].ents
      <4>1. entry'[f] = entry[f] /\ entry[f].frame \in Depths
        BY <3>2, <1>1, <1>5 DEF NamesExact, Entry
      <4>2. <<s, f>> \in sref[entry[f].frame]
        BY <3>2, <4>1 DEF IInv, FramesExact, Recorded
      <4> QED
        BY <4>1, <4>2, <1>6
    <3> QED
      BY <3>1, <3>2, <1>7
  <2> QED
    BY <2>1, <2>2, <2>3, <2>4 DEF FramesExact
<1> QED
  BY <1>5, <1>6, <1>8, <1>9
----------------------------------------------------------------------------
(* A name of the current frame; one of the global frame is an element too. *)
WithEntry(r, n, e) == Installed(r, n, {e}, {}, 0)

LEMMA WithEntryProps ==
  ASSUME IInv, NEW n \in Slots, NEW e \in Entries
  PROVE  LET i == WithEntry(ref, n, e)
         IN /\ i \in RefTable /\ ElemsExact(i, node) /\ WithName(ref, i, n, e)
            /\ \A m \in Slots \ {n} : i[m] = NULL <=> ref[m] = NULL
<1> DEFINE i == WithEntry(ref, n, e)
<1>1. /\ ref \in RefTable /\ ElemsExact(ref, node)
      /\ \A v \in Nodes : node[v] # NULL => node[v].slot \in Slots
  BY TableParts DEF IInv, TypeOK, RefTable, Node
<1>2. /\ i \in RefTable
      /\ \A m \in Slots \ {n} : i[m] = ref[m]
      /\ i[n] # NULL
      /\ \A x \in Entries : x \in i[n].ents <=> (x = e \/ (ref[n] # NULL /\ x \in ref[n].ents))
      /\ \A w \in Nodes : w \in i[n].nodes <=> (ref[n] # NULL /\ w \in ref[n].nodes)
  BY <1>1, InstalledName DEF WithEntry
<1> HIDE DEF i
<1>3. \A s \in Slots : i[s] # NULL => \A v \in i[s].nodes :
        v \in Nodes /\ ref[s] # NULL /\ v \in ref[s].nodes
  BY <1>2 DEF RefTable, RefObj
<1>4. ElemsExact(i, node)
  BY <1>1, <1>2, <1>3 DEF ElemsExact
<1>5. WithName(ref, i, n, e)
  BY <1>2 DEF WithName
<1> QED
  BY <1>2, <1>4, <1>5 DEF i

LEMMA BindNameProps ==
  ASSUME IInv, NEW x \in Names, NEW n \in Slots, NEW e \in Entries, BindName(x, n, e),
         depth' = depth, passed' = passed
  PROVE  /\ entry' \in [Entries -> Entry \cup {NULL}]
         /\ sref' \in [Depths -> SUBSET (Slots \X Entries)]
         /\ node' \in [Nodes -> Node \cup {NULL}] /\ ref' \in RefTable
         /\ TableExact' /\ FramesExact'
         /\ \A m \in Slots \ {n} : ref'[m] = NULL <=> ref[m] = NULL
<1> DEFINE i == WithEntry(ref, n, e)
<1>1. /\ i \in RefTable /\ ElemsExact(i, node) /\ WithName(ref, i, n, e)
      /\ \A m \in Slots \ {n} : i[m] = NULL <=> ref[m] = NULL
  BY WithEntryProps
<1>2. node \in [Nodes -> Node \cup {NULL}] /\ Globals \in Maps /\ x \in Keys
  BY VmRefsAssumption DEF IInv, TypeOK
<1>3. NewEntry(x, n, e) /\ (InsertByRef(Globals, x, n, i) \/ (ref' = i /\ UNCHANGED node))
  BY DEF BindName, WithEntry
<1> HIDE DEF i
<1>4. /\ node' \in [Nodes -> Node \cup {NULL}] /\ ref' \in RefTable
      /\ ElemsExact(ref', node') /\ WithName(ref, ref', n, e)
      /\ \A m \in Slots \ {n} : ref'[m] = NULL <=> ref[m] = NULL
  <2>1. CASE InsertByRef(Globals, x, n, i)
    <3>1. /\ node' \in [Nodes -> Node \cup {NULL}] /\ ref' \in RefTable
          /\ ElemsExact(ref', node')
          /\ \A s \in Slots \ {n} : ref'[s] = NULL <=> i[s] = NULL
          /\ SameEnts(i, ref')
      BY <2>1, <1>1, <1>2, InsertByRefProps
    <3> QED
      BY <3>1, <1>1 DEF SameEnts, WithName
  <2>2. CASE ref' = i /\ UNCHANGED node
    BY <2>2, <1>1, <1>2
  <2> QED
    BY <2>1, <2>2, <1>3
<1>5. /\ entry' \in [Entries -> Entry \cup {NULL}]
      /\ sref' \in [Depths -> SUBSET (Slots \X Entries)]
      /\ NamesExact(ref', entry', passed') /\ FramesExact'
  BY <1>3, <1>4, NewName
<1>6. TableExact'
  BY <1>4, <1>5 DEF TableExact, NamesExact, ElemsExact
<1> QED
  BY <1>4, <1>5, <1>6

LEMMA BindStep ==
  ASSUME IInv, NEW x \in Names, NEW n \in Slots, NEW e \in Entries, BindName(x, n, e),
         BoundSlot(n), depth' = depth, UNCHANGED outside,
         local' \in [Depths -> SUBSET Slots]
  PROVE  IInv'
<1>1. Known' = Known /\ passed' = passed /\ attr' = attr
  BY DEF Known, outside
<1>2. /\ entry' \in [Entries -> Entry \cup {NULL}]
      /\ sref' \in [Depths -> SUBSET (Slots \X Entries)]
      /\ node' \in [Nodes -> Node \cup {NULL}] /\ ref' \in RefTable
      /\ TableExact' /\ FramesExact'
      /\ \A m \in Slots \ {n} : ref'[m] = NULL <=> ref[m] = NULL
  BY <1>1, BindNameProps
<1>3. FreeOnce' /\ InUse'
  BY <1>1, <1>2, PoolKept
<1>4. TypeOK'
  BY <1>1, <1>2 DEF IInv, TypeOK, RefTable, BoundSlot
<1> QED
  BY <1>2, <1>3, <1>4 DEF IInv

LEMMA LoadVarStep ==
  ASSUME IInv, NEW x \in Names, LoadVar(x)
  PROVE  IInv'
<1>1. PICK n \in Slots, e \in Entries :
        /\ Reserve(n) /\ BindName(x, n, e)
        /\ local' = IF depth > 1 THEN [local EXCEPT ![depth] = local[depth] \cup {n}] ELSE local
        /\ depth' = depth /\ UNCHANGED outside
  BY DEF LoadVar
<1>2. Known' = Known
  BY <1>1 DEF Known, outside
<1>3. BoundSlot(n)
  BY <1>1, <1>2, ReserveBinds
<1>4. local' \in [Depths -> SUBSET Slots]
  BY <1>1 DEF IInv, TypeOK
<1> QED
  BY <1>1, <1>3, <1>4, BindStep

LEMMA StoreRefStep ==
  ASSUME IInv, NEW x \in Names, NEW n \in Slots, StoreRef(x, n)
  PROVE  IInv'
<1>1. PICK e \in Entries : BindName(x, n, e)
  BY DEF StoreRef
<1>2. /\ n \in Denoted /\ Known' = Known /\ UNCHANGED pool
      /\ depth' = depth /\ local' = local /\ UNCHANGED outside
  BY DEF StoreRef, Known, outside
<1>3. n \in Known => ref[n] # NULL
  BY <1>2, DenotedInTable
<1>4. BoundSlot(n)
  BY <1>2, <1>3, InTableBinds
<1>5. local' \in [Depths -> SUBSET Slots]
  BY <1>2 DEF IInv, TypeOK
<1> QED
  BY <1>1, <1>2, <1>4, <1>5, BindStep

LEMMA UplinkStep ==
  ASSUME IInv, NEW x \in Names, Uplink(x)
  PROVE  IInv'
<1>1. PICK f \in Entries, e \in Entries :
        /\ entry[f] # NULL
        /\ NewEntry(x, entry[f].slot, e)
        /\ ref' = Installed(ref, entry[f].slot, {e}, {}, 0)
  BY DEF Uplink, Bound
<1>2. /\ UNCHANGED pool /\ UNCHANGED node /\ depth' = depth /\ local' = local
      /\ UNCHANGED outside /\ Known' = Known
  BY DEF Uplink, Known, outside
<1> DEFINE n == entry[f].slot
<1>3. n \in Slots /\ (n \in Known => ref[n] # NULL)
  BY <1>1 DEF IInv, TypeOK, Entry, TableExact, Known
<1>4. NewEntry(x, n, e) /\ ref' = WithEntry(ref, n, e)
  BY <1>1 DEF WithEntry
<1> HIDE DEF n
<1>5. /\ ref' \in RefTable /\ ElemsExact(ref', node) /\ WithName(ref, ref', n, e)
      /\ \A m \in Slots \ {n} : ref'[m] = NULL <=> ref[m] = NULL
  BY <1>3, <1>4, WithEntryProps
<1>6. BoundSlot(n)
  BY <1>2, <1>3, InTableBinds
<1>7. FreeOnce' /\ InUse'
  BY <1>2, <1>3, <1>5, <1>6, PoolKept
<1>8. /\ entry' \in [Entries -> Entry \cup {NULL}]
      /\ sref' \in [Depths -> SUBSET (Slots \X Entries)]
      /\ NamesExact(ref', entry', passed') /\ FramesExact'
  BY <1>2, <1>3, <1>4, <1>5, NewName DEF outside
<1>9. TableExact'
  BY <1>2, <1>5, <1>8 DEF TableExact, NamesExact, ElemsExact
<1>10. TypeOK'
  BY <1>2, <1>5, <1>6, <1>8 DEF IInv, TypeOK, RefTable, BoundSlot, outside
<1> QED
  BY <1>7, <1>8, <1>9, <1>10 DEF IInv
----------------------------------------------------------------------------
(* Elements and attributes: the table gets no new name. *)
LEMMA ElementStep ==
  ASSUME IInv, NEW n \in Slots, BoundSlot(n), Known' \subseteq Known,
         UNCHANGED entry, UNCHANGED frames, UNCHANGED passed, attr' \subseteq Slots,
         node' \in [Nodes -> Node \cup {NULL}], ref' \in RefTable, ElemsExact(ref', node'),
         \A s \in Slots \ {n} : ref'[s] = NULL <=> ref[s] = NULL,
         SameEnts(ref, ref')
  PROVE  IInv'
<1>1. NamesExact(ref', entry', passed') /\ FramesExact'
  BY NamesKept
<1>2. TableExact'
  BY <1>1 DEF TableExact, NamesExact, ElemsExact
<1>3. FreeOnce' /\ InUse'
  BY PoolKept
<1>4. TypeOK'
  BY DEF IInv, TypeOK, RefTable, BoundSlot, frames
<1> QED
  BY <1>1, <1>2, <1>3, <1>4 DEF IInv

LEMMA InsertStep ==
  ASSUME IInv, NEW m \in Maps, NEW k \in Keys, Insert(m, k)
  PROVE  IInv'
<1>1. PICK n \in Slots, v \in Nodes :
        /\ Reserve(n) /\ node[v] = NULL
        /\ node' = [node EXCEPT ![v] = [map |-> m, key |-> k, slot |-> n, foreign |-> FALSE]]
        /\ ref' = Installed(ref, n, {}, {v}, 0)
  BY DEF Insert
<1>2. /\ UNCHANGED entry /\ UNCHANGED frames /\ UNCHANGED passed /\ attr' \subseteq Slots
      /\ Known' = Known
  BY DEF Insert, Known, outside, IInv, TypeOK
<1>3. BoundSlot(n)
  BY <1>1, <1>2, ReserveBinds
<1> DEFINE x == [map |-> m, key |-> k, slot |-> n, foreign |-> FALSE]
<1>4. x \in Node /\ x.slot = n
  BY DEF Node
<1> HIDE DEF x
<1>5. node' = [node EXCEPT ![v] = x] /\ ref' = WithNode(ref, n, v)
  BY <1>1 DEF x, WithNode
<1>6. ref \in RefTable /\ ElemsExact(ref, node) /\ node \in [Nodes -> Node \cup {NULL}]
  BY TableParts DEF IInv, TypeOK, RefTable
<1>7. /\ node' \in [Nodes -> Node \cup {NULL}] /\ ref' \in RefTable
      /\ ElemsExact(ref', node')
      /\ \A s \in Slots \ {n} : ref'[s] = NULL <=> ref[s] = NULL
      /\ SameEnts(ref, ref')
  BY <1>1, <1>4, <1>5, <1>6, NewNodeProps
<1> QED
  BY <1>2, <1>3, <1>7, ElementStep

LEMMA InsertElemStep ==
  ASSUME IInv, NEW m \in Maps, NEW k \in Keys, NEW n \in Slots, InsertElemByRef(m, k, n)
  PROVE  IInv'
<1>1. /\ n \in Denoted /\ InsertByRef(m, k, n, ref) /\ UNCHANGED pool
      /\ UNCHANGED entry /\ UNCHANGED frames /\ UNCHANGED passed /\ attr' \subseteq Slots
      /\ Known' = Known
  BY DEF InsertElemByRef, Known, outside, IInv, TypeOK
<1>2. BoundSlot(n)
  BY <1>1, DenotedInTable, InTableBinds
<1>3. ref \in RefTable /\ ElemsExact(ref, node) /\ node \in [Nodes -> Node \cup {NULL}]
  BY TableParts DEF IInv, TypeOK, RefTable
<1>4. /\ node' \in [Nodes -> Node \cup {NULL}] /\ ref' \in RefTable
      /\ ElemsExact(ref', node')
      /\ \A s \in Slots \ {n} : ref'[s] = NULL <=> ref[s] = NULL
      /\ SameEnts(ref, ref')
  BY <1>1, <1>3, InsertByRefProps
<1> QED
  BY <1>1, <1>2, <1>4, ElementStep

LEMMA MountAttrStep ==
  ASSUME IInv, MountAttr
  PROVE  IInv'
<1>1. PICK n \in Slots : /\ Reserve(n)
                         /\ ref' = Installed(ref, n, {}, {}, VM_REF_IDX_KEEP)
                         /\ attr' = attr \cup {n}
  BY DEF MountAttr
<1>2. /\ UNCHANGED entry /\ UNCHANGED node /\ UNCHANGED frames /\ UNCHANGED passed
      /\ attr' \subseteq Slots /\ Known' \subseteq Known
  BY <1>1 DEF MountAttr, Known, IInv, TypeOK
<1>3. BoundSlot(n)
  BY <1>1, <1>2, ReserveBinds
<1>4. /\ ref \in RefTable /\ ElemsExact(ref, node) /\ node \in [Nodes -> Node \cup {NULL}]
      /\ \A v \in Nodes : node[v] # NULL => node[v].slot \in Slots
  BY TableParts DEF IInv, TypeOK, RefTable, Node
<1>5. /\ ref' \in RefTable
      /\ \A s \in Slots \ {n} : ref'[s] = ref[s]
      /\ ref'[n] # NULL
      /\ \A x \in Entries : x \in ref'[n].ents <=> (ref[n] # NULL /\ x \in ref[n].ents)
      /\ \A w \in Nodes : w \in ref'[n].nodes <=> (ref[n] # NULL /\ w \in ref[n].nodes)
  BY <1>1, <1>4, InstalledAttr
<1>6. SameEnts(ref, ref')
  BY <1>5 DEF SameEnts
<1>7. \A s \in Slots : ref'[s] # NULL => \A v \in ref'[s].nodes :
        v \in Nodes /\ ref[s] # NULL /\ v \in ref[s].nodes
  BY <1>5 DEF RefTable, RefObj
<1>8. ElemsExact(ref', node')
  BY <1>2, <1>4, <1>5, <1>7 DEF ElemsExact
<1> QED
  BY <1>2, <1>3, <1>4, <1>5, <1>6, <1>8, ElementStep

(* The argument by reference: a name outside of the table, in a new frame. *)
LEMMA CallByRefStep ==
  ASSUME IInv, NEW x \in Names, NEW n \in Slots, CallByRef(x, n)
  PROVE  IInv'
<1>1. PICK e \in Entries :
        /\ entry[e] = NULL
        /\ entry' = [entry EXCEPT ![e] = [frame |-> depth + 1, name |-> x, slot |-> n]]
  BY DEF CallByRef
<1>2. /\ depth < MaxDepth /\ depth' = depth + 1 /\ passed' = passed \cup {n}
      /\ UNCHANGED <<used, free, ref, node, local, sref, attr>>
  BY DEF CallByRef, pool
<1>3. /\ depth \in Nat /\ depth' \in Depths
      /\ \A d \in Depths : d \in Nat /\ (d > depth' => d > depth)
  BY <1>2, VmRefsAssumption DEF IInv, TypeOK, Depths
<1> DEFINE new == [frame |-> depth + 1, name |-> x, slot |-> n]
<1>4. new \in Entry /\ new # NULL /\ new.frame = depth' /\ new.slot = n
  BY <1>2, <1>3, VmRefsAssumption DEF Entry
<1> HIDE DEF new
<1>5. /\ entry' \in [Entries -> Entry \cup {NULL}]
      /\ entry'[e] = new /\ \A f \in Entries \ {e} : entry'[f] = entry[f]
  BY <1>1, <1>4 DEF new, IInv, TypeOK
<1>6. /\ ref \in RefTable /\ NamesExact(ref, entry, passed) /\ ElemsExact(ref, node)
      /\ \A f \in Entries : entry[f] # NULL => entry[f].slot \in Slots /\ entry[f].frame \in Depths
  BY TableParts DEF IInv, TypeOK, RefTable, Entry
<1>7. \A s \in Slots : ref[s] # NULL => \A f \in ref[s].ents :
        f \in Entries /\ f # e /\ entry[f] # NULL
  BY <1>1, <1>6 DEF NamesExact, RefTable, RefObj
<1>8. NamesExact(ref', entry', passed')
  BY <1>2, <1>4, <1>5, <1>6, <1>7 DEF NamesExact
<1>9. TableExact'
  BY <1>2, <1>6, <1>8 DEF TableExact, NamesExact, ElemsExact
<1>10. Known' \subseteq Known /\ FreeOnce' /\ InUse'
  BY <1>2 DEF Known, IInv, FreeOnce, InUse
<1>11. TypeOK'
  BY <1>2, <1>3, <1>5 DEF IInv, TypeOK
<1>12. FramesExact'
  <2>1. \A f \in Entries : entry'[f] # NULL => entry'[f].frame <= depth'
    <3> SUFFICES ASSUME NEW f \in Entries, entry'[f] # NULL
                 PROVE  entry'[f].frame <= depth'
      OBVIOUS
    <3>1. CASE f = e
      BY <3>1, <1>2, <1>3, <1>4, <1>5
    <3>2. CASE f # e
      <4>1. entry'[f] = entry[f] /\ entry[f] # NULL
        BY <3>2, <1>5
      <4>2. entry[f].frame \in Depths /\ entry[f].frame <= depth
        BY <4>1, <1>6 DEF IInv, FramesExact
      <4> QED
        BY <4>1, <4>2, <1>2, <1>3
    <3> QED
      BY <3>1, <3>2
  <2>2. \A d \in Depths : d > depth => sref[d] = {}
    BY DEF IInv, FramesExact
  <2>3. ASSUME NEW d \in Depths, NEW s \in Slots, NEW f \in Entries,
               <<s, f>> \in sref'[d], entry'[f] # NULL
        PROVE  entry'[f].frame >= d
    <3>1. ~(d > depth)
      BY <2>2, <2>3, <1>2
    <3>2. CASE f = e
      BY <3>1, <3>2, <1>2, <1>3, <1>4, <1>5
    <3>3. CASE f # e
      BY <2>3, <3>3, <1>2, <1>5 DEF IInv, FramesExact
    <3> QED
      BY <3>2, <3>3
  <2>4. Recorded(ref', entry', sref')
    BY <1>2, <1>5, <1>7 DEF IInv, FramesExact, Recorded
  <2> QED
    BY <2>1, <2>2, <2>3, <2>4, <1>2, <1>3 DEF FramesExact
<1> QED
  BY <1>9, <1>10, <1>11, <1>12 DEF IInv

LEMMA EnterFrameStep ==
  ASSUME IInv, EnterFrame
  PROVE  IInv'
<1>1. /\ depth < MaxDepth /\ depth' = depth + 1
      /\ UNCHANGED <<used, free, ref, entry, node, local, sref, attr, passed>>
  BY DEF EnterFrame, pool, outside
<1>2. /\ depth \in Nat /\ depth' \in Depths
      /\ \A d \in Depths : d \in Nat /\ (d > depth' => d > depth) /\ (d <= depth => d <= depth')
      /\ \A f \in Entries : entry[f] # NULL => entry[f].frame \in Depths
  BY <1>1, VmRefsAssumption DEF IInv, TypeOK, Depths, Entry
<1>3. TypeOK'
  BY <1>1, <1>2 DEF IInv, TypeOK
<1>4. FreeOnce' /\ InUse' /\ TableExact'
  BY <1>1 DEF IInv, FreeOnce, InUse, TableExact, Known
<1>5. FramesExact'
  BY <1>1, <1>2 DEF IInv, FramesExact, Recorded
<1> QED
  BY <1>3, <1>4, <1>5 DEF IInv
----------------------------------------------------------------------------
LEMMA InitIInv == Init => IInv
<1> SUFFICES ASSUME Init
             PROVE  IInv
  OBVIOUS
<1>1. 1 \in Depths
  BY VmRefsAssumption DEF Depths
<1>2. TypeOK
  BY <1>1 DEF Init, TypeOK
<1>3. FreeOnce /\ InUse /\ TableExact
  BY DEF Init, FreeOnce, InUse, TableExact, Known
<1>4. FramesExact
  BY DEF Init, FramesExact, Recorded
<1> QED
  BY <1>2, <1>3, <1>4 DEF IInv

LEMMA UnsetStep ==
  ASSUME IInv, NEW n \in Slots, Unset(n)
  PROVE  IInv'
<1>1. Unlinking({n}, {}) /\ UNCHANGED frames
  BY DEF Unset, Unlinking, outside
<1>2. {n} \in SUBSET Slots /\ {} \in SUBSET Nodes
  OBVIOUS
<1> DEFINE S == {n}
           V == {}
<1>3. S \in SUBSET Slots /\ V \in SUBSET Nodes /\ Unlinking(S, V) /\ UNCHANGED frames
  BY <1>1, <1>2
<1> HIDE DEF S, V
<1> QED
  BY <1>3, UnlinkStep

LEMMA UnlinkElemStep ==
  ASSUME IInv, NEW v \in Nodes, UnlinkElem(v)
  PROVE  IInv'
<1> DEFINE S == IF node[v].foreign THEN {} ELSE {node[v].slot}
           V == {v}
<1>1. S \in SUBSET Slots /\ V \in SUBSET Nodes
  BY DEF UnlinkElem, IInv, TypeOK, Node
<1>2. Unlinking(S, V) /\ UNCHANGED frames
  BY DEF UnlinkElem, Unlinking, outside
<1> HIDE DEF S, V
<1> QED
  BY <1>1, <1>2, UnlinkStep

LEMMA ReleaseMapStep ==
  ASSUME IInv, NEW m \in Maps, ReleaseMap(m)
  PROVE  IInv'
<1> DEFINE S == {node[v].slot : v \in {w \in NodesOf(m) : ~node[w].foreign}}
           V == NodesOf(m)
<1>1. S \in SUBSET Slots /\ V \in SUBSET Nodes
  BY DEF NodesOf, IInv, TypeOK, Node
<1>2. Unlinking(S, V) /\ UNCHANGED frames
  BY DEF ReleaseMap, Unlinking, outside
<1> HIDE DEF S, V
<1> QED
  BY <1>1, <1>2, UnlinkStep

LEMMA NextIInv ==
  ASSUME IInv, [Next]_vars
  PROVE  IInv'
<1>1. CASE EnterFrame
  BY <1>1, EnterFrameStep
<1>2. CASE LeaveFrame
  BY <1>2, LeaveFrameStep
<1>3. CASE MountAttr
  BY <1>3, MountAttrStep
<1>4. CASE \E x \in Names : LoadVar(x)
  BY <1>4, LoadVarStep
<1>5. CASE \E x \in Names : Uplink(x)
  BY <1>5, UplinkStep
<1>6. CASE \E x \in Names, n \in Slots : StoreRef(x, n)
  BY <1>6, StoreRefStep
<1>7. CASE \E x \in Names, n \in Slots : CallByRef(x, n)
  BY <1>7, CallByRefStep
<1>8. CASE \E n \in Slots : Unset(n)
  BY <1>8, UnsetStep
<1>9. CASE \E m \in Maps, k \in Keys : Insert(m, k)
  BY <1>9, InsertStep
<1>10. CASE \E m \in Maps, k \in Keys : \E n \in Slots : InsertElemByRef(m, k, n)
  BY <1>10, InsertElemStep
<1>11. CASE \E v \in Nodes : UnlinkElem(v)
  BY <1>11, UnlinkElemStep
<1>12. CASE \E m \in Maps : ReleaseMap(m)
  BY <1>12, ReleaseMapStep
<1>13. CASE UNCHANGED vars
  BY <1>13 DEF vars, IInv, TypeOK, FreeOnce, InUse, TableExact, FramesExact, Recorded, Known
<1> QED
  BY <1>1, <1>2, <1>3, <1>4, <1>5, <1>6, <1>7, <1>8, <1>9, <1>10, <1>11, <1>12, <1>13 DEF Next

LEMMA Invariance == Spec => []IInv
  BY InitIInv, NextIInv, PTL DEF Spec

(***************************************************************************)
(* The type of the state of names, elements and slots, in every state that *)
(* the operations of vm.c and hashmap.c on them reach.                     *)
(***************************************************************************)
THEOREM RefsTypeCorrect == Spec => []TypeOK
<1>1. IInv => TypeOK
  BY DEF IInv
<1> QED
  BY <1>1, Invariance, PTL

(***************************************************************************)
(* The reference table is exact: VmRefObjUnlink destroys every name and    *)
(* element of a slot, and follows no pointer to one destroyed before.      *)
(***************************************************************************)
THEOREM RefTableExact == Spec => []TableExact
<1>1. IInv => TableExact
  BY DEF IInv
<1> QED
  BY <1>1, Invariance, PTL

(***************************************************************************)
(* PH7_VmUnsetMemObj puts no slot on the free list twice: a slot goes there*)
(* when it leaves the reference table, and comes back with a name.         *)
(***************************************************************************)
THEOREM SlotsFreedOnce == Spec => []FreeOnce
<1>1. IInv => FreeOnce
  BY DEF IInv
<1> QED
  BY <1>1, Invariance, PTL

(***************************************************************************)
(* No name and no element denotes a slot of the free list: what unset(),   *)
(* the end of a function or of an array destroyed cannot be seen again.    *)
(***************************************************************************)
THEOREM NothingDangles == Spec => []NoDangling
<1>1. ASSUME IInv
      PROVE  NoDangling
  <2>1. \A e \in Entries : entry[e] # NULL /\ entry[e].slot \in Known => free[entry[e].slot] = 0
    BY <1>1 DEF IInv, FreeOnce, TableExact, Known
  <2>2. \A v \in Nodes : node[v] # NULL /\ node[v].slot \in Known => free[node[v].slot] = 0
    BY <1>1 DEF IInv, FreeOnce, TableExact
  <2> QED
    BY <2>1, <2>2 DEF NoDangling
<1> QED
  BY <1>1, Invariance, PTL
============================================================================
