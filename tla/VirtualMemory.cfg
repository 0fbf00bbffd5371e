CONSTANTS
  StartMem = 12
  EndMem = 48
  KernelSize = 4
  BlockSize = 4
  Requests <- MCRequests
  Pages = 4
  Tables = 5
  IdentityTables = 3
  Frames = 32
  Virtual = {12, 13, 16}
  Physical = {1, 2}
SPECIFICATION Spec
INVARIANTS TypeOK IdentityKept TranslationAsAsked FramesApart StaleOnlyUnflushed
CHECK_DEADLOCK FALSE
