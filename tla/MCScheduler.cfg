SPECIFICATION Spec
CONSTANTS
  a = a
  b = b
  c = c
  Subtask <- ForkSubtasks
  Deps <- ForkDeps
  Position <- ForkPosition
  Overlap <- ForkOverlap
  Isolation = "non-overlapping"
  Parallel = TRUE
  MaxParallel = 2
  ReviewEnabled = TRUE
  MaxLoops = 1
  DryModes = {FALSE}
  LoopCap = 0
  MaxFaults = 2
  MaxRequests = 2
INVARIANTS
  NoConflictInFlight
  DepsDurablyDone
  DecidesOnDurableState
  PausedIsBoundary
  FlaggedOnlyAtBudget
PROPERTIES
  DoneIsFinal
  ImplementsGraph
  ResumedRunSettles
  StopUnwinds
CHECK_DEADLOCK FALSE
