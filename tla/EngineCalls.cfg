SPECIFICATION FairSpec
CONSTANTS
  NULL = NULL
  Threads = {t1, t2}
  Vms = {v1, v2}
  MaxGen = 1
  Rank <- MCRank
  MaxDepth = 2
  Racy = FALSE
INVARIANTS LocksOfCalls
PROPERTIES CallsReturn
CHECK_DEADLOCK FALSE
