SPECIFICATION Spec
CONSTANTS
  Spi = {s1}
  None = None
  MaxRanId = 1
  MaxMsgId <- Msg5
  MaxDown = 2
  MaxEvt = 3
  MaxSess = 1
  MaxConn = 2
  LivenessCheck = TRUE
  RemoveMayFail = FALSE
INVARIANTS
  NoEapAfterContextSetup
  
  NoHalfReleasedUe
CHECK_DEADLOCK FALSE
