SPECIFICATION Spec
CHECK_DEADLOCK FALSE
CONSTANTS
  Kinds = {"done"}
  MaxSteps = 1
  Before = 1
  SaveFreq = 1
  MaxVer = 1
  MaxBreaks = 1
  MaxSignals = 2
  MaxSessions = 1
  Capacity = 1
  None = None
  Unset = Unset
PROPERTIES
  BothEnd
