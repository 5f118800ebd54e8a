SPECIFICATION Spec
CONSTANTS
  ChunkLen = 2
  ThresholdNum = 1
  ThresholdDen = 2
  ForceAfter = 2
  MaxErrors = 2
  MaxTs = 2
  MaxEp = 1
  Simulated = FALSE
  MaxFailures = 2
  MaxFaults = 2
INVARIANTS TypeOK QueueIsChunkSuffix EmptyNeedsRace
PROPERTIES NoSkippedStep ReplayNeedsRace LeftoverIsQueue StallEnds
