SPECIFICATION InjectFairSpec
CONSTANTS
  Slots = 3
  IdxSpan = 3
  ReadySpan = 8
  MaxBurst = 1
  MaxSent = 1
  MaxPerTick = 1
  DeferFrames = 1
  MaxChain = 4
  MaxBusy = 2
INVARIANTS
  FifoUnlessWrapped
  OnceInOrder
PROPERTIES
  InjectsInQuiet
  InjectDrains
CHECK_DEADLOCK FALSE
