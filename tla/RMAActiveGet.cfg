\* A get followed by a put to the same target.
SPECIFICATION Spec
CONSTANTS
  p1 = p1
  p2 = p2
  p3 = p3
  NoData = NoData
  Proc = {p1, p2, p3}
  Plans <- Programs
  OpLists <- GetThenPut
INVARIANTS
  GetsInEpoch
CHECK_DEADLOCK FALSE
