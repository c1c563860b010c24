SPECIFICATION Spec
CONSTANTS
  APs = {a1, a2}
  BSP = bsp
  Kinds = {"rows"}
  MaxJobs = 3
  Dispatchers = {bsp}
  Tiles = 2
  MaxWork = 2
  PatientAps = FALSE
INVARIANTS
  NoUseAfterFree
