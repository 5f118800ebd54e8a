SPECIFICATION Spec
CHECK_DEADLOCK FALSE
CONSTANTS
  Kinds = {"mid", "truncated", "nan"}
  MaxSteps = 2
  Before = 1
  SaveFreq = 1
  MaxVer = 2
  MaxBreaks = 0
  MaxSignals = 0
  MaxSessions = 2
  Capacity = 2
  None = None
  Unset = Unset
INVARIANTS
  SavesCurrentStep
  
