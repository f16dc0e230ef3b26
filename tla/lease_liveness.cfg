SPECIFICATION FairSpec
CONSTANTS
  o1 = o1
  o2 = o2
  Ops = {o1, o2}
  NoOwner = NoOwner
  Duration = 2
  Period = 1
  Latency = 1
  SharedLease = TRUE
  MayPause = TRUE
  MayReject = TRUE
PROPERTIES
  EveryCallSettles
