SPECIFICATION FairSpec
CONSTANTS
  Keys <- TwoKeys
  Blocking = {TRUE, FALSE}
  IdSpan = 3
  FirstSeq = 1
  MaxCalls = 2
  WebOps = {"get", "fast"}
  MaxWeb = 1
INVARIANTS
  TrueMeansApplied
  ReadsCurrent
  AloneWritesWereAsked
PROPERTY ChannelFrees
CHECK_DEADLOCK FALSE
