SPECIFICATION Spec
CONSTANTS
  ChunkLen = 2
  ThresholdNum = 1
  ThresholdDen = 2
  ForceAfter = 2
  MaxErrors = 2
  MaxTs = 0
  MaxEp = 4
  Simulated = FALSE
  MaxFailures = 2
  MaxFaults = 0
  MaxRetries = 1
  TrajLen = 1
  Warmup <- WarmupAfter
  QueueMax = 1
  Decisions = {"recovery", "retry", "unbuilt", "reinfer", "stop"}
PROPERTIES WarmupFirst
