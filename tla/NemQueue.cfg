CONSTANTS
  s1 = s1
  s2 = s2
  r = r
  c1 = c1
  c2 = c2
  c3 = c3
  c4 = c4
  Proc = {s1, s2, r}
  Cell = {c1, c2, c3, c4}
  Elements <- CellsOfEach
  Dest <- Routes
  Null = Null
SPECIFICATION FairSpec
INVARIANT TypeOK
PROPERTY ImplementsQueues CellsReturn
CHECK_DEADLOCK FALSE
