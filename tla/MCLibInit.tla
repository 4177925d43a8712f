----------------------------- MODULE MCLibInit -----------------------------
(* Instances of LibInit for TLC: threads, mutexes and engine chunks are    *)
(* interchangeable.                                                        *)
EXTENDS LibInit, TLC
Symmetry == Permutations(Threads) \cup Permutations(Mutexes) \cup Permutations(Engines)
============================================================================
