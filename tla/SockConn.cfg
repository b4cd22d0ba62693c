CONSTANTS
  Proc = {0, 1}
  Msg = {m1, m2}
  Null = Null
  MaxConnects = 2
  MaxSends = 2
  LateConnects = FALSE
SPECIFICATION FairSpec
INVARIANT TypeOK AssertionsHold OneConnection
PROPERTY ImplementsChannel Settles
CHECK_DEADLOCK FALSE
