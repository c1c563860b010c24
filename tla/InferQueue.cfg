SPECIFICATION Spec
CONSTANTS
  Submitters = {s1, s2}
  Pollers = {p1, p2}
  QueueCap = 2
  HeapLevels = {"ok", "low"}
  MaxCalls = 2
  MaxOpen = 2
  CancelOps = {"cancel", "cancel_active"}
  MaxSlices = 1
SYMMETRY Symmetry
INVARIANTS
  TypeOK
  ClaimIntact
  JobNotLost
  AnsweredOnce
  PendingExact
  OneJobInFlight
