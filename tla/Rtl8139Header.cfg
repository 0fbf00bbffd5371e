CONSTANTS
  StartMem = 1048576
  EndMem = 16777215
  KernelSize = 1440000
  BlockSize = 4096
  Requests = {}
  RecBufferSize = 8192
  Lengths <- MCLengths
  JunkLengths <- MCJunkLengths
  MaxPackets = 2
SPECIFICATION Spec
INVARIANT HeaderIsHeader
CHECK_DEADLOCK FALSE
