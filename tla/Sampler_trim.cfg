SPECIFICATION Spec
CONSTANTS
  RingSamples = 3
  BlockSamples = 2
  WriteChunk = 2
  MaxSamples = 10
  Durations <- OneBarOrEndless
  PulsesPerBar = 2
  BlocksPerBar = {2}
  DoneFrames = 1
  MaxPulses = 2
INVARIANTS
  SavedIsRecording
