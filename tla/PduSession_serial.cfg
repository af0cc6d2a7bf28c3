SPECIFICATION Spec
CONSTANTS
  Session = {s1, s2}
  None = None
  MaxMsgId = 5
  MaxXid = 5
  MaxRequest = 3
  MaxProbe = 0
  MaxUeDelete = 1
  Overlap = "none"
  XfrmIfaceName = "xfrmi"
  Fault <- NoDuplicates
  MaxFault = 1
PROPERTIES
  
  SetupAnswered
  ReleaseAnswered
  
CHECK_DEADLOCK FALSE
