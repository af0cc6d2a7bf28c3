SPECIFICATION Spec
CONSTANTS
  Session = {s1, s2}
  None = None
  MaxMsgId = 5
  MaxXid = 5
  MaxRequest = 3
  MaxProbe = 0
  MaxUeDelete = 1
  Overlap = "none"
  XfrmIfaceName = "ipsec"
  Fault <- NoFault
  MaxFault = 0
INVARIANTS
  DefaultIfaceKept
CHECK_DEADLOCK FALSE
