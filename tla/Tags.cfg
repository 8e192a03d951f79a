CONSTANTS
  lan = lan
  wan = wan
  a = a
  b = b
  Tables = {lan, wan}
  Candidates = {a, b}
  Dist <- MCDist
  Close = 1
  Sessions = {1, 2}
  MaxChains = 2
SPECIFICATION TagSpec
INVARIANT TagsAreKClosest
