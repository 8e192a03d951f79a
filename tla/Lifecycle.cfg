CONSTANTS
  s1 = s1
  s2 = s2
  m1 = m1
  r1 = r1
  Starts = {s1, s2}
  SetModes = {m1}
  Refreshes = {r1}
  None = None
SPECIFICATION FairSpec
INVARIANTS
  ServerAnswers
  PeersAreObserved
PROPERTIES
  SelfQueriesGoOn
  RefreshTimerGoesOn
