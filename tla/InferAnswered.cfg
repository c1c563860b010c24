SPECIFICATION FairSpec
CONSTANTS
  Submitters = {s1, s2}
  Pollers = {p1, p2}
  QueueCap = 2
  HeapLevels = {"ok", "low"}
  MaxCalls = 2
  MaxOpen = 2
  CancelOps = {}
  MaxSlices = 1
PROPERTIES
  JobAnswered
