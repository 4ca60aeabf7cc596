SPECIFICATION Spec
CONSTANTS
  a = a
  b = b
  shared = shared
  fresh = fresh
  rules = rules
  env = env
  Absent = Absent
  User = User
  IgnoreFile = rules
  Subtask <- TwoSubtasks
  Path <- EnvPaths
  Plans <- EnvPlan
  Tracked <- EnvTracked
  Head <- EnvHead
  Start <- EnvStart
  StartIgnored = {env}
  EditedIgnored = {}
  Isolations = {"worktree"}
  Reviewings = {TRUE}
  MaxPasses = 2
  MaxEdits = 1
  MaxFaults = 0
  MaxAmends = 1
PROPERTIES
  LandingKeepsEdits
CHECK_DEADLOCK FALSE
