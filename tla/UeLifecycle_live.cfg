SPECIFICATION Spec
CONSTANTS
  Spi = {s1}
  None = None
  MaxRanId = 1
  MaxMsgId <- Msg4
  MaxDown = 2
  MaxEvt = 2
  MaxSess = 1
  MaxConn = 1
  LivenessCheck = TRUE
  RemoveMayFail = FALSE
PROPERTIES
  DeletedUeIsReleased
  
CHECK_DEADLOCK FALSE
