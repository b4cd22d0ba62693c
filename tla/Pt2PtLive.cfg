\* A message to self and one of every kind from another process, cancelled on either side.
SPECIFICATION FairSpec
CONSTANTS
  p1 = p1
  p2 = p2
  c1 = c1
  t1 = t1
  t2 = t2
  Proc = {p1, p2}
  Ctx = {c1}
  Tag = {t1}
  AnySource = AnySource
  AnyTag = AnyTag
  NoReq = NoReq
  NoMsg = NoMsg
  Modes = {"eager", "empty", "sync", "syncempty", "rndv", "srndv", "noncontig", "send", "sendempty", "sendshort"}
  RecvArgs <- FromAny
  Calls = {"cancel_send", "cancel_recv"}
  Handles = 4
  MaxSend <- OneToSelf
  MaxRecv <- OneAtP1
INVARIANTS
  DataRight
  SyncMeansMatched
PROPERTIES
  CancelCompletes
  MatchedCompletes
CHECK_DEADLOCK FALSE
