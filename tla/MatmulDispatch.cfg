SPECIFICATION FairSpec
CONSTANTS
  APs = {a1, a2}
  BSP = bsp
  Kinds = {"rows", "cols"}
  MaxJobs = 3
  Dispatchers = {bsp, a1}
  Tiles = 2
  MaxWork = 3
  PatientAps = TRUE
INVARIANTS
  TypeOK
  NoUseAfterFree
  ResultComplete
  DispatchExclusive
PROPERTIES
  DispatchReturns
