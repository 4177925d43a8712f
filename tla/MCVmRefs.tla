------------------------------ MODULE MCVmRefs -----------------------------
(* Instances of VmRefs for TLC: addresses are interchangeable.             *)
EXTENDS VmRefs, TLC
Symmetry == Permutations(Slots) \cup Permutations(Entries) \cup Permutations(Nodes)
============================================================================
