CONSTANTS
  r = r   e = e  d = d  y = y  f = f
  Pages = {r, e, d, y}
  Containers = {f}
  Space = Space
  Gone = Gone
  Names <- MCNames
  Config <- MCConfig
  Plans <- MCPlans
  InitialParent <- MCParent
  Limit = 2
  DepthLimit = 4
  MaxPages = 5
  MaxChanges = 2

SPECIFICATION Spec
INVARIANTS TypeOK Covered
PROPERTIES Exact
CHECK_DEADLOCK FALSE
