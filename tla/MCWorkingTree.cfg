SPECIFICATION Spec
CONSTANTS
  a = a
  b = b
  shared = shared
  fresh = fresh
  rules = rules
  env = env
  Absent = Absent
  User = User
  IgnoreFile = rules
  Subtask <- TwoSubtasks
  Path <- TwoPaths
  Plans <- TwoPlans
  Tracked <- TwoTracked
  Head <- TwoHead
  Start <- TwoStart
  StartIgnored = {}
  EditedIgnored = {fresh}
  Isolations = {"non-overlapping", "worktree", "none"}
  Reviewings = {TRUE, FALSE}
  MaxPasses = 2
  MaxEdits = 1
  MaxFaults = 2
  MaxAmends = 1
INVARIANTS
  DiffsAccount
  AmendUndoes
PROPERTY
  WorktreesGoWithPass
