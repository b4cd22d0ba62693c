\* Two origins and the target itself.
SPECIFICATION FairSpec
CONSTANTS
  t = t
  o1 = o1
  o2 = o2
  NoData = NoData
  Target = t
  Origins = {o1, o2}
  Programs <- EveryKind
  SelfLocks = {"shared", "exclusive"}
  MaxEpochs <- TwoOfFirst
INVARIANTS
  LockInv
  PutsExact
  RepliesExpected
PROPERTIES
  EpochsEnd
CHECK_DEADLOCK FALSE
