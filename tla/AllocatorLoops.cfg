CONSTANTS
  StartMem = 16
  EndMem = 43
  KernelSize = 6
  BlockSize = 4
  Requests <- MCRequests
SPECIFICATION FairSpec
INVARIANTS TypeOK LoopInvariant
PROPERTIES LoopsImplementCalls CallsEnd
CHECK_DEADLOCK FALSE
