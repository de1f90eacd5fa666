SPECIFICATION Spec
CONSTANTS
  Keys = {1}
  Transposes = {0, 1}
  Top = 2
  Forwards = {0, 5}
  RingSize = 4
  EchoAge = 1
  DedupSize = 4
  DedupAge = 3
  Burst = 2
  MaxEvents = 4
  MaxPlayed = 1
  MaxSettings = 2
INVARIANTS
  NeverTwice
  NeverMissed
  NoVoiceHangs
