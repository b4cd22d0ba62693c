CONSTANTS
  h = h
  s = s
  l = l
  N = 3
  Msg = {s, l}
  KindOf <- Kinds
  Dest <- ToTwo
  Cells = 2
  SeqnoMod = 4
  Loads <- BothLoads
SPECIFICATION FairSpec
INVARIANT TypeOK AssertionsHold
PROPERTY ImplementsChannel EverythingArrives
CHECK_DEADLOCK FALSE
