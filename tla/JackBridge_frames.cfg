SPECIFICATION FairSpec
CONSTANT FrameSpan = 8
INVARIANTS
  NeverFarAhead
  DeadIsSilent
PROPERTIES
  WholeUnlessLate
  Recovers
