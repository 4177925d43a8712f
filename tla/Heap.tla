------------------------------- MODULE Heap --------------------------------
(***************************************************************************)
(* What a memory backend promises to its users: the cells of every pointer *)
(* it has handed out and not got back belong to that pointer alone.        *)
(***************************************************************************)
CONSTANT Cells
VARIABLE used        \* the sets of cells handed out

Init == used = {}

Disjoint(r, regions) == \A s \in regions : r \cap s = {}

Allocate ==
  \E r \in used' : r \subseteq Cells /\ Disjoint(r, used) /\ used' = used \cup {r}

Free == \E r \in used : used' = used \ {r}

Resize ==
  \E r \in used, s \in used' :
     s \subseteq Cells /\ Disjoint(s, used \ {r}) /\ used' = (used \ {r}) \cup {s}

ReleaseAll == used' = {}

Next == Allocate \/ Free \/ Resize \/ ReleaseAll

Spec == Init /\ [][Next]_used
============================================================================
