CONSTANTS
  Cols = 5
  Rows = 2
  LineSize = 3
  Padding = 28
  Letters = {"c"}
  Prompt <- MCPrompt
  BootMessage <- MCBootMessage
  BootMessages = 1
  TooLong <- MCTooLong
  PacketMessage <- MCPacketMessage
  DeviceList <- MCDeviceList
  Clear <- MCClear
  Devices <- MCDevices
  Keys = {"c", "nul", "backspace", "enter"}
  MaxEvents = 4
  InitialCounts = {0, 1}
  InitialCursors <- MCOffScreen
SPECIFICATION FairSpec
INVARIANTS TypeOK BufferIsLine LineOnScreen
PROPERTY CursorSettles
