SPECIFICATION Spec
CONSTANTS
  VM = {v1}
  N = 1
  MaxPods = 1
  MaxStops = 1
  MaxFailures = 0
  MaxReboots = 0
PROPERTIES
  AlwaysBack
CHECK_DEADLOCK FALSE
