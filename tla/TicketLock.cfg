SPECIFICATION FairSpec
CONSTANTS
  Procs = {p1, p2, p3}
  MaxTicket = 6
INVARIANTS
  TypeOK
  MutualExclusion
  NoOrphanTicket
PROPERTIES
  NoBarging
  LockGranted
  ImplementsFifoLock
