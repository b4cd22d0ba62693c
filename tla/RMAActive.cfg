\* Fences and accesses with several operations in each epoch.
SPECIFICATION FairSpec
CONSTANTS
  p1 = p1
  p2 = p2
  p3 = p3
  NoData = NoData
  Proc = {p1, p2, p3}
  Plans <- Programs
  OpLists <- GetsLast
INVARIANTS
  CounterInv
  OpsInEpoch
PROPERTIES
  CallsReturn
CHECK_DEADLOCK FALSE
