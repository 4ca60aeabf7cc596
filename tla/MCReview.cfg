SPECIFICATION Spec
CONSTANTS
  s1 = s1
  s2 = s2
  Senior = Senior
  Subtask <- TwoSubtasks
  Preambles <- Before
  Verdicts <- Meant
  Garbled <- Bad
  MaxLoops = 1
  SeniorMaxLoops = 1
  MaxFaults = 2
  Absent = Absent
  Torn = Torn
INVARIANTS
  SettledAsJudged
  RemediationsFiled
SYMMETRY Symmetric
CHECK_DEADLOCK FALSE
