CONSTANTS
  lan = lan
  wan = wan
  c1 = c1
  p1 = p1
  Managers = {lan, wan}
  Cids = {c1}
  Providers = {p1}
  NotCached = NotCached
  Nobody = Nobody
  NoAnswer = NoAnswer
  Validity = 1
  MaxFailures = 0
  MaxNow = 3
SPECIFICATION FairSpec
PROPERTY ExpiredAreDropped
