SPECIFICATION Spec
CONSTANTS
  Senders = {s1, s2}
  Getters = {g1}
  Nobody = Nobody
  MaxFailures = 1
  MaxTs = 0
  MaxEp = 2
  MaxSessions = 2
  MaxFaults = 1
INVARIANTS StuckNeedsReissue
PROPERTIES SendReturns OldInferenceAddsNothing
