SPECIFICATION Spec
CONSTANTS
  MaxContent = 1
  MaxPosition = 2
  MaxRuntimes = 2
  MaxAttempts = 2
  MaxOverlap = 1
  MaxFailures = 1
INVARIANTS InSync
PROPERTIES NeverBack CatchesUp
