CONSTANTS
  StartMem = 1048576
  EndMem = 1073152
  KernelSize = 4096
  BlockSize = 4096
  Requests <- MCRequests
  PageTables = 1
  InitialBitmaps <- MCInitialBitmaps
  PacketLengths = {64}
  OtherIrqs = {14}
  Exceptions = {14}
  CommandLength = 1
  MaxKeys = 2
  MaxRaises = 2
  MaxPackets = 2
SPECIFICATION Spec
PROPERTY CallsAtomic
CHECK_DEADLOCK FALSE
