CONSTANTS
  lan = lan
  wan = wan
  self = self
  a = a
  b = b
  c = c
  x = x
  y = y
  z = z
  Dhts = {lan, wan}
  Lan = lan
  Peers = {self, a, b, c}
  Self = self
  Target = a
  Dist <- MCDist
  K = 2
  Alpha = 1
  Tables <- MCTables
  Closer <- MCCloser
  Providers = {x, y, z}
  near = near
  same = same
  far = far
  Width = 4
  ByteBits = 2
  Browser = FALSE
  ZeroKadId <- MCZeroKadId
  Contacts = {near, same, far}
  KadDist <- MCKadDist
SPECIFICATION DualSpec
INVARIANTS
  VerdictIsTrue
  NearestAreKept
  AllNearestTold
  ProvidersYieldedOnce
  BucketsRefreshed
PROPERTY RoundsEnd
CHECK_DEADLOCK FALSE
