SPECIFICATION Spec
CONSTANTS
  Senders = {s1}
  Getters = {g1, g2}
  Nobody = Nobody
  MaxFailures = 2
  MaxTs = 1
  MaxEp = 1
  MaxSessions = 1
  MaxFaults = 2
SYMMETRY Symmetry
INVARIANTS TypeOK
PROPERTIES RefinesService
