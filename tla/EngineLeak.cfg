SPECIFICATION Spec
CONSTANTS
  NULL = NULL
  Threads = {t1, t2}
  Vms = {v1, v2}
  MaxGen = 2
  Rank <- MCRank
  MaxDepth = 2
  Racy = TRUE
SYMMETRY Symmetry
INVARIANTS LocksOfCalls
