SPECIFICATION Spec
CONSTANTS
  NULL = NULL
  Slots = {s1, s2}
  Names = {x, y}
  Keys = {x, y}
  Maps = {G, A}
  Globals = G
  Entries = {e1, e2}
  Nodes = {v1, v2, v3}
  MaxDepth = 2
  MaxFree = 1
SYMMETRY Symmetry
PROPERTY LeaveOwn
