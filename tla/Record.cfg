CONSTANTS
  NumEpisodes = 2
  MetaBuffer = 2
  QueueMax = 1
  MaxFrames = 3
  MaxTakes = 3
  MaxKeys = 1
  MaxFaults = 1
  MaxLost = 1
  MaxSessions = 3
SPECIFICATION Spec
INVARIANTS TypeOK ReadsBack LongerOnlyAfterDiscard
PROPERTIES KeepsEarlier SaveEnds
