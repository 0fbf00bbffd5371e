CONSTANTS
  StartMem = 16
  EndMem = 43
  KernelSize = 6
  BlockSize = 4
  Requests <- MCRequests
SPECIFICATION Spec
INVARIANTS TypeOK BitmapMatchesLive LiveDisjoint
PROPERTY PromiseKept
CHECK_DEADLOCK FALSE
