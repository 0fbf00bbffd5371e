CONSTANTS
  StartMem = 1048576
  EndMem = 16777215
  KernelSize = 1440000
  BlockSize = 4096
  Requests = {}
  RecBufferSize = 8192
  Lengths <- MCLengths
  JunkLengths <- MCJunkLengths
  MaxPackets = 7
SPECIFICATION Spec
INVARIANTS TypeOK CallsAccounted LossNeedsOverflow FirstPacketIntact DmaWithinBlocks
CHECK_DEADLOCK FALSE
