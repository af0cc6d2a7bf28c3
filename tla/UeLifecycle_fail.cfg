SPECIFICATION Spec
CONSTANTS
  Spi = {s1}
  None = None
  MaxRanId = 1
  MaxMsgId <- Msg5
  MaxDown = 2
  MaxEvt = 2
  MaxSess = 1
  MaxConn = 1
  LivenessCheck = TRUE
  RemoveMayFail = TRUE
INVARIANTS
  IInv
  IkeServerSurvives
  KeyBeforeAuth
CHECK_DEADLOCK FALSE
