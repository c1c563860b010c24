SPECIFICATION Spec
CONSTANTS
  Keys = {1, 2}
  Ckpt = ckpt
  None = none
  Small = {"s"}
  Large = {"l"}
  CkptSectors = 2
  Size = 5
  MaxBatch = 2
  Duplicates = FALSE
INVARIANTS
  TypeOK
  
  
PROPERTIES
  NoClobber
