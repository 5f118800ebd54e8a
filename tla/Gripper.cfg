SPECIFICATION Spec
CONSTANTS
  Positions = {0, 1, 2, 3}
  Strengths = {0, 2, 4}
  PosEmpty = 1
  PosOpen = 3
  GapTh = 1
  StableTh = 0
  LoadTh = 2
  SlipNum = 2
  SlipDen = 5
  ConfirmN = 2
  GraspConfirmN = 2
  HomeConfirm = 2
  MaxReinfer = 0
  MaxTotal = 1
  LiftEnabled = TRUE
  RewindEnabled = TRUE
  NoPos = NoPos
CHECK_DEADLOCK FALSE
INVARIANTS TypeOK RetriesBounded
PROPERTIES DoneAfterGrasp HomeIsSteady FailureIsSeen
