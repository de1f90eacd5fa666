SPECIFICATION LinkSpec
CONSTANTS
  Ring = 8
  PosSpan = 16
  Need = 3
  CatchBlocks = 2
  Target = 4
  DeadBand = 0
  Period = 2
  BurstOver = 2
  BurstFrames = 2
  Buffers = {2, 3}
  MaxProduced = 18
INVARIANTS
  HeardAsProduced
PROPERTIES
  NeverStale
  NeverBack
CHECK_DEADLOCK FALSE
