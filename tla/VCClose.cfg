\* Two processes, one VC between them, opened and closed up to twice.
SPECIFICATION FairSpec
CONSTANTS
  Proc = {p1, p2}
  MaxData = 2
  MaxOpen = 2
INVARIANTS
  TypeOK
  AssertionsHold
  TerminateLosesNothing
  OutstandingExact
PROPERTY CloseTerminates
CHECK_DEADLOCK FALSE
