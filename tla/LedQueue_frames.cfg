SPECIFICATION FairLedSpec
CONSTANTS
  NoteLeds = 1
  CcLeds = 1
  MoveColours = {1}
  ToolColours = {0, 2}
  Slots = 1
  SafeSlots = 1
  Budget = 1
  MaxWaiting = 2
  MaxPackets = 3
  MaxSessions = 2
INVARIANTS
  MoveIsShown
  AskedIsShown
PROPERTIES
  LedsSettle
