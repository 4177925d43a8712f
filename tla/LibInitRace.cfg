SPECIFICATION Spec
CONSTANTS
  NULL = NULL
  Master = Master
  Threads = {t1, t2}
  Mutexes = {m1, m2}
  Engines = {e1, e2}
  Reuses = FALSE
SYMMETRY Symmetry
INVARIANTS MasterExclusive ListExclusive CountedEngines MutexesLeft
PROPERTIES AllocatorInitOnce
