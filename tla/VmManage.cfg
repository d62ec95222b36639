SPECIFICATION Spec
CONSTANTS
  VM = {9, 10, 100}
  MaxInvocations = 2
  MaxWorkers = 2
  MaxFailures = 1
INVARIANTS
  TypeOK
  EndMeansDone
  OkMeansInPlace
PROPERTIES
  Ends
