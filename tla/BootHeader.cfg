CONSTANTS
  Disks <- MCDisks
  BootDrives = {0, 1}
  MaxReads = 3
SPECIFICATION Spec
CHECK_DEADLOCK FALSE
INVARIANTS EntireKernel
