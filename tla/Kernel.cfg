CONSTANTS
  StartMem = 1048576
  EndMem = 1081344
  KernelSize = 4096
  BlockSize = 4096
  Requests <- MCRequests
  PageTables = 1
  InitialBitmaps <- MCInitialBitmaps
  PacketLengths = {64, 5000}
  OtherIrqs = {14}
  Exceptions = {}
  CommandLength = 1
  MaxKeys = 2
  MaxRaises = 2
  MaxPackets = 2
SPECIFICATION FairSpec
INVARIANTS TypeOK IrqsReachGates DmaIntoOwnBuffer NothingLeftInService HandlersReturnMemory
PROPERTIES CallsAtomic BootCompletes InterruptsServed KeysTaken
CHECK_DEADLOCK FALSE
