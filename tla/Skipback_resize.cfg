SPECIFICATION FairSpec
CONSTANTS
  BlockSamples = 2
  Lengths = {3, 5}
  DefaultLength = 3
  Resizers = {r1, r2}
  MaxSaves = 1
  MaxHeard = 6
  MaxFailures = 1
INVARIANTS
  ExclusiveUnlessOvertaken
PROPERTIES
  
  FlagReleased
CHECK_DEADLOCK FALSE
