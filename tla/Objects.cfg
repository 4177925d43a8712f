SPECIFICATION Spec
CONSTANTS
  NULL = NULL
  Ids = {o1, o2, o3}
  Globals = {x}
  Classes = {"closes", "copies"}
  Constructed = {"copies"}
  Destructed = {"closes"}
  Cloned = {"copies"}
  Careless = FALSE
  MaxOps = 2
  MaxDepth = 3
SYMMETRY Symmetry
INVARIANTS CountsExact DestructedOnce
CHECK_DEADLOCK FALSE
