\* Two programs, up to four calls, connected up to twice.
SPECIFICATION FairSpec
CONSTANTS
  Proc = {p1, p2}
  MaxCalls = 4
  MaxConnects = 2
  MaxData = 4
  MaxOpen = 4
INVARIANTS
  RefsInv
  NothingForDestroyedGroup
PROPERTIES
  ImplementsClose
  CallsReturn
CHECK_DEADLOCK FALSE
