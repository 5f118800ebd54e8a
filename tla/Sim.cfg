SPECIFICATION Spec
CONSTANTS
  ChunkLen = 2
  ThresholdNum = 1
  ThresholdDen = 2
  ForceAfter = 2
  MaxErrors = 2
  MaxTs = 1
  MaxEp = 2
  Simulated = TRUE
  MaxFailures = 5
  MaxFaults = 2
INVARIANTS QueueIsChunkSuffix
PROPERTIES NoSkippedStep ReplayNeedsRace
