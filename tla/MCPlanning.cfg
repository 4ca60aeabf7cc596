SPECIFICATION Spec
CONSTANTS
  FirstAnswers <- Anything
  LaterAnswers <- Again
  DryModes <- BothModes
  Files <- SmallTree
  MaxFaults = 1
INVARIANTS
  ValidatesExactly
  DocsMatchPlan
  MatchIsGlob
  OverlapSound
  DeclaredIsSnapshotted
PROPERTY PlanningSettles
CHECK_DEADLOCK FALSE
