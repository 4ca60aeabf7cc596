SPECIFICATION LifecycleSpec
CONSTANTS
  a = a
  b = b
  Subtask <- ChainSubtasks
  Deps <- ChainDeps
  Position <- ChainPosition
  Overlap <- NoOverlap
  Isolation = "non-overlapping"
  Parallel = FALSE
  MaxParallel = 1
  ReviewEnabled = TRUE
  MaxLoops = 1
  DryModes = {FALSE}
  LoopCap = 0
  Autostart = TRUE
  SeniorEnabled = FALSE
  SeniorMaxLoops = 1
  MaxFaults = 0
  MaxRequests = 2
INVARIANTS
  CompletedHasWork
CHECK_DEADLOCK FALSE
