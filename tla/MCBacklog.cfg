SPECIFICATION PatientSpec
CONSTANTS
  Tickets = 4
  DependsOn <- Chain
  Author <- Satisfied
  Gates <- AllGates
  Dry <- SomeDry
  MaxFaults = 2
INVARIANTS DepsDurablyDone CompleteIsDurable
PROPERTIES DoneIsFinal GateHolds BacklogCompletes
