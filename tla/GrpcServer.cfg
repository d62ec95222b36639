SPECIFICATION Spec
CONSTANTS
  Client = {k1}
  Own = own
  MaxFaults = 1
INVARIANTS
  TypeOK
  StopReachesAll
  DoneIsClean
  OneWriter
PROPERTIES
  EverythingEnds
  ActsAsEndpoint
CHECK_DEADLOCK FALSE
