SPECIFICATION Spec
CONSTANTS
  VM = {v1}
  MaxPods = 1
  MaxDeletes = 0
  MaxFailures = 1
  MaxTerms = 0
  MaxCrashes = 0
PROPERTIES
  FailedInitExits
