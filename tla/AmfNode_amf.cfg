SPECIFICATION Spec
CONSTANTS
  a1 = a1
  a2 = a2
  Amf = {a1, a2}
  AmfSctpAddrs <- Addrs
  Active = {a2}
  MaxRan = 1
  Guami = {g1}
  Plmn = {p1}
  Offer <- Offers
  None = None
  PktChLen = 2
  MaxRefuse = 1
  MaxSent = 1
  MaxClose = 1
INVARIANTS
  TypeOK
  OneSetupPending
  
PROPERTIES
  WaitRespected
  
  AmfsSetUp
  ResetAcknowledged
CHECK_DEADLOCK FALSE
