CONSTANTS
  W = W
  A = A
  B = B
  S = S
  T = T
  L = L
  R = R
  Proc = {1, 2, 3}
  Comm = {W, A, B, S, T, L, R}
  Members <- MembersOf
  Peer <- PeerOf
  RecvBit <- BitOfComm
  Bits = 9
  WordBits = 3
  Programs <- Overlapping
SPECIFICATION FairSpec
INVARIANT TypeOK IdsRight
PROPERTY ImplementsAlloc CallsReturn
CHECK_DEADLOCK FALSE
