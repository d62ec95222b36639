SPECIFICATION Spec
CONSTANTS
  VM = {v1, v2}
  MaxPods = 3
  MaxDeletes = 0
  MaxFailures = 0
  MaxTerms = 1
  MaxCrashes = 0
PROPERTIES
  InitAnswered
  ShutdownCompletes
