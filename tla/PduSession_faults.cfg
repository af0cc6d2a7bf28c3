SPECIFICATION Spec
CONSTANTS
  Session = {s1, s2}
  None = None
  MaxMsgId = 6
  MaxXid = 5
  MaxRequest = 3
  MaxProbe = 1
  MaxUeDelete = 0
  Overlap = "mixed"
  XfrmIfaceName = "xfrmi"
  Fault <- AllFaults
  MaxFault = 2
SYMMETRY SessionSymmetry
INVARIANTS
  TypeOK
  PairedUnlessReused
  LoopsRun
  DistinctIfaces
  ReleasedHasNoChildSa
PROPERTIES
  ReportedUnlessSendFails
  ServiceUnlessReused
CHECK_DEADLOCK FALSE
