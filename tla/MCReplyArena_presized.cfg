CONSTANTS
  InitSize = 2
  Sizes <- MCSizes
  MaxAlloc = 4
  ResizeMidDecode = FALSE
SPECIFICATION Spec
INVARIANT
  FromTable
