SPECIFICATION Spec
CONSTANTS
  TotalBlocks = 25
  JournalBlocks = 10
  MaxLeafItems = 3
  FreeListMax = 4
  Names = {1, 2}
  MaxPages = 2
  PageChecksums = {TRUE}
  ZeroCrcs = {2}
  MaxOps = 4
INVARIANT RewriteReads
