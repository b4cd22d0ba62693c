\* Two messages of two kinds, cancelled and freed at any time, handles reused.
SPECIFICATION Spec
CONSTANTS
  p1 = p1
  p2 = p2
  c1 = c1
  t1 = t1
  t2 = t2
  Proc = {p1, p2}
  Ctx = {c1}
  Tag = {t1}
  AnySource = AnySource
  AnyTag = AnyTag
  NoReq = NoReq
  NoMsg = NoMsg
  Modes = {"eager", "srndv"}
  RecvArgs <- Tag1FromP1
  Calls = {"cancel_send", "request_free"}
  Handles = 4
  MaxSend <- TwoOneWay
  MaxRecv <- TwoAtP2
INVARIANTS
  RefExact
  HandlesValid
  CancelExact
PROPERTIES
  MatchingInOrder
CHECK_DEADLOCK FALSE
