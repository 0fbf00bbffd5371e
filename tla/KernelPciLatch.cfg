CONSTANTS
  StartMem = 1048576
  EndMem = 1081344
  KernelSize = 4096
  BlockSize = 4096
  Requests <- MCRequests
  PageTables = 1
  InitialBitmaps <- MCInitialBitmaps
  PacketLengths = {64}
  OtherIrqs = {14}
  Exceptions = {}
  CommandLength = 2
  MaxKeys = 3
  MaxRaises = 2
  MaxPackets = 0
SPECIFICATION Spec
INVARIANT BusMasterSet
