SPECIFICATION Spec
CONSTANTS
  VM = {v1, v2}
  N = 2
  MaxPods = 3
  MaxStops = 1
  MaxFailures = 1
  MaxReboots = 1
INVARIANTS
  TypeOK
  AnnouncedHaveNodes
  SameNode
  SharedOnlyWhilePending
PROPERTIES
  ComesBack
CHECK_DEADLOCK FALSE
