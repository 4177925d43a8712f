SPECIFICATION Spec
CONSTANTS
  NULL = NULL
  Threads = {t1, t2}
  Vms = {v1, v2}
  MaxGen = 2
  Rank <- MCRank
  MaxDepth = 3
  Racy = TRUE
SYMMETRY Symmetry
INVARIANTS TypeOK ExecExclusive VmListExact
CHECK_DEADLOCK FALSE
