SPECIFICATION Spec
CONSTANTS
  Cpus = {c1, c2}
  MaxCalls = 4
INVARIANTS
  NoSelfDeadlock
  FlagRestored
PROPERTIES
  LockGranted
