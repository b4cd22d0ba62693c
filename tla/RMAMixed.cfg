\* A shared and an exclusive request wait at the same time.
SPECIFICATION FairSpec
CONSTANTS
  t = t
  o1 = o1
  o2 = o2
  NoData = NoData
  Target = t
  Origins = {o1, o2}
  Programs <- EitherLock
  SelfLocks = {"shared", "exclusive"}
  MaxEpochs <- OneEach
PROPERTIES
  EpochsEnd
CHECK_DEADLOCK FALSE
