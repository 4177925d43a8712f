----------------------------- MODULE MCObjects -----------------------------
(* Instances of Objects for TLC: chunks and variables are interchangeable. *)
EXTENDS Objects, TLC
Symmetry == Permutations(Ids) \cup Permutations(Globals)
============================================================================
