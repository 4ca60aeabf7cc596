SPECIFICATION Spec
CONSTANTS
  a = a
  b = b
  c = c
  Subtask <- ForkSubtasks
  Deps <- ForkDeps
  Position <- ForkPosition
  Overlap <- ForkOverlap
  Isolation = "non-overlapping"
  Parallel = TRUE
  MaxParallel = 2
  ReviewEnabled = TRUE
  MaxLoops = 1
  DryModes = {FALSE}
  LoopCap = 0
  MaxFaults = 0
  MaxRequests = 1
INVARIANTS
  ConsumedStopCancels
CHECK_DEADLOCK FALSE
