SPECIFICATION Spec
CONSTANTS
  VM = {v1}
  MaxPods = 2
  MaxDeletes = 0
  MaxFailures = 0
  MaxTerms = 0
  MaxCrashes = 0
PROPERTIES
  ShutdownSparesNewVm
