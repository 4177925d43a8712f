SPECIFICATION FairSpec
CONSTANTS
  Direct = {"d"}
  Bare = {"b"}
  Missing = {"m"}
  Broken = {"x"}
  Empty = {"e"}
  Devices = {"blob", "host"}
  Options <- MCOptions
  ObLimit = 1
  Room = 1
  MaxFrames = 3
  MaxOps = 4
  MaxRuns = 2
INVARIANTS OutputKept ContextsRestored
PROPERTIES PromisedRuns
CHECK_DEADLOCK FALSE
