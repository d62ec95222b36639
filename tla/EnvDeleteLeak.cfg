SPECIFICATION Spec
CONSTANTS
  VM = {v1}
  MaxPods = 1
  MaxDeletes = 1
  MaxFailures = 0
  MaxTerms = 0
  MaxCrashes = 0
PROPERTIES
  UninitTakesDown
