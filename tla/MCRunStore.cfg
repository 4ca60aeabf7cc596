SPECIFICATION Spec
CONSTANTS
  p1 = p1
  p2 = p2
  p3 = p3
  Proc = {p1, p2, p3}
  SlugOf <- TaskSlugs
  Latest = Latest
  Absent = Absent
  Torn = Torn
  None = None
  MaxSecond = 1
  MaxVersion = 2
  MaxFaults = 2
  MaxLive = 1
  Sharing = FALSE
INVARIANTS AckedIsDurable LatestNamesNewest
PROPERTY RunKeepsIdentity
CHECK_DEADLOCK FALSE
