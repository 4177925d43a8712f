---------------------------- MODULE MCEngineApi ----------------------------
(* Instances of EngineApi for TLC: threads and chunks are interchangeable, *)
(* where no property speaks of the rank of a machine.                      *)
EXTENDS EngineApi, TLC
MCRank == CHOOSE r \in [Vms -> 1..Cardinality(Vms)] : \A v, w \in Vms : r[v] = r[w] => v = w
Symmetry == Permutations(Threads) \cup Permutations(Vms)
============================================================================
