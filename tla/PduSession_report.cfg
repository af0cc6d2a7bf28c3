SPECIFICATION Spec
CONSTANTS
  Session = {s1, s2}
  None = None
  MaxMsgId = 5
  MaxXid = 5
  MaxRequest = 3
  MaxProbe = 0
  MaxUeDelete = 0
  Overlap = "none"
  XfrmIfaceName = "xfrmi"
  Fault <- SendFault
  MaxFault = 1
PROPERTIES
  ReportedIsInstalled
CHECK_DEADLOCK FALSE
