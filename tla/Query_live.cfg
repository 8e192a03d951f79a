CONSTANTS
  self = self
  a = a
  b = b
  c = c
  d = d
  p1 = p1
  p2 = p2
  Peers <- ShortPeers
  Self = self
  None = None
  Dist <- ShortDist
  Paths = {p1, p2}
  Starts <- ShortStarts
  Alpha = 1
  Answers <- ShortAnswers
  MaxEvents = 1
  UserSignal = FALSE
  FuncTimeout = TRUE
SPECIFICATION FairSpec
PROPERTIES
  RunEnds
  AbortStopsWalk
CHECK_DEADLOCK FALSE
