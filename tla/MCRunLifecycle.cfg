SPECIFICATION LifecycleResumed
CONSTANTS
  a = a
  b = b
  Subtask <- ChainSubtasks
  Deps <- ChainDeps
  Position <- ChainPosition
  Overlap <- NoOverlap
  Isolation = "non-overlapping"
  Parallel = FALSE
  MaxParallel = 1
  ReviewEnabled = TRUE
  MaxLoops = 1
  DryModes = {TRUE, FALSE}
  LoopCap = 0
  Autostart = FALSE
  SeniorEnabled = TRUE
  SeniorMaxLoops = 1
  MaxFaults = 2
  MaxRequests = 2
INVARIANTS
  PhasesInOrder
PROPERTIES
  NeverBackwards
  
  RunReachesVerdict
CHECK_DEADLOCK FALSE
