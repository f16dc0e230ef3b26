SPECIFICATION Spec
CONSTANTS
  o1 = o1
  o2 = o2
  o3 = o3
  Ops = {o1, o2, o3}
  NoOwner = NoOwner
  Duration = 6
  Period = 2
  Latency = 1
  SharedLease = TRUE
  MayPause = FALSE
  MayReject = FALSE
SYMMETRY Symmetry
INVARIANTS
  LeaseInv
  ReleasedForGood
  MutualExclusion
PROPERTIES
  WriteHoldsLease
  SectionSpec
