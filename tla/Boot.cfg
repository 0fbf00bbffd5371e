CONSTANTS
  Disks <- MCDisks
  BootDrives = {0, 1}
  MaxReads = 3
SPECIFICATION FairSpec
CHECK_DEADLOCK FALSE
INVARIANTS TypeOK Stage2Complete KernelComplete
PROPERTIES Boots
