SPECIFICATION Spec
CONSTANTS
  VM = {v1, v2}
  MaxPods = 2
  MaxDeletes = 1
  MaxFailures = 1
  MaxTerms = 1
  MaxCrashes = 1
SYMMETRY Symmetry
INVARIANTS
  TypeOK
  HeadIsCurrent
  WaitingIsQueued
  RunningUsable
  NoLeak
  DeletedIsGone
PROPERTIES
  KeepsRequests
