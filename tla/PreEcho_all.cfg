SPECIFICATION EchoSpec
CONSTANTS
  Top = 3
  Chord <- Triad
  Effects = {"chord", "strum_up", "arp"}
  Transpose <- Level
  QueueMax = 3
  CountMax = 6
  MaxPresses = 2
  MaxLost = 1
  MaxToggles = 1
CHECK_DEADLOCK FALSE
INVARIANTS
  EchoesAreKnown
  NothingHangs
  ArpEnds
PROPERTIES
  Settles
