SPECIFICATION Spec
CONSTANTS
  Spi = {s1, s2}
  None = None
  MaxRanId = 2
  MaxMsgId <- Msg4
  MaxDown = 1
  MaxEvt = 2
  MaxSess = 0
  MaxConn = 0
  LivenessCheck = FALSE
  RemoveMayFail = FALSE
SYMMETRY SpiSymmetry
INVARIANTS
  TypeOK
  MapsAgree
  OneRanUePerSpi
  UplinkToOwnRanUe
CHECK_DEADLOCK FALSE
