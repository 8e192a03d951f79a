CONSTANTS
  self = self
  a = a
  b = b
  c = c
  d = d
  p1 = p1
  p2 = p2
  Peers <- MCPeers
  Self = self
  None = None
  Dist <- MCDist
  Paths = {p1, p2}
  Starts <- MCStarts
  Alpha = 2
  Answers <- MCAnswers
  MaxEvents = 1
  UserSignal = TRUE
  FuncTimeout = FALSE
SPECIFICATION Spec
INVARIANTS
  HandledPeersAreSeen
  OnlyTowardsKey
  VisitsBounded
  NoLostWakeUp
  ReturnsOnlyWhenExhausted
  NearerPeersAsked
  ThrowsOnlyIfAborted
CHECK_DEADLOCK FALSE
