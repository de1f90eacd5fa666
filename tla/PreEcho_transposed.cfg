SPECIFICATION EchoSpec
CONSTANTS
  Top = 3
  Chord <- Fifth
  Effects = {"chord"}
  Transpose <- DownBy
  QueueMax = 4
  CountMax = 6
  MaxPresses = 1
  MaxLost = 0
  MaxToggles = 0
CHECK_DEADLOCK FALSE
PROPERTIES
  Settles
