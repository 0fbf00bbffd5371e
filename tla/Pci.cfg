CONSTANTS
  BusCount = 2
  DeviceCount = 2
  Machines <- MCMachines
SPECIFICATION Spec
CHECK_DEADLOCK FALSE
INVARIANTS TypeOK ListedAsPresent PortbaseFromBar
