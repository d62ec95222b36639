SPECIFICATION Spec
CONSTANTS
  N = 1
  MaxFaults = 1
  MaxRestarts = 0
  MaxSignals = 0
PROPERTIES
  AlwaysComesBack
CHECK_DEADLOCK FALSE
