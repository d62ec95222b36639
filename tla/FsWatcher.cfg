SPECIFICATION Spec
CONSTANTS
  Other = {"fuse.sock"}
  MaxQueue = 2
  BufEvents = 2
  MaxOps = 5
  MaxFaults = 1
INVARIANTS
  TypeOK
  NoSilentLoss
  ClosedClean
PROPERTIES
  CloseReturns
  Delivered
  FeedsEvents
CHECK_DEADLOCK FALSE
