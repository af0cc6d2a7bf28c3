SPECIFICATION Spec
CONSTANTS
  Session = {s1, s2}
  None = None
  MaxMsgId = 5
  MaxXid = 5
  MaxRequest = 3
  MaxProbe = 0
  MaxUeDelete = 0
  Overlap = "none"
  XfrmIfaceName = "xfrmi"
  Fault <- DuplicateFault
  MaxFault = 1
INVARIANTS
  SpiPaired
CHECK_DEADLOCK FALSE
