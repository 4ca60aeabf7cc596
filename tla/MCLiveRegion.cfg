SPECIFICATION Spec
CONSTANTS
  e1 = e1
  e2 = e2
  Main = Main
  Callers <- Executors
  Modes <- SomeModes
  MaxOps = 3
  MaxBeats = 1
  MaxFaults = 1
INVARIANTS
  Readable
  TimersShowCalls
  PointerIsOwn
PROPERTY NobodyHangs
CHECK_DEADLOCK FALSE
