CONSTANTS
  lan = lan
  wan = wan
  c1 = c1
  p1 = p1
  Managers = {lan, wan}
  Cids = {c1}
  Providers = {p1}
  NotCached = NotCached
  Nobody = Nobody
  NoAnswer = NoAnswer
  Validity = 0
  MaxFailures = 1
  MaxNow = 2
SPECIFICATION FairSpec
INVARIANTS
  CacheCoversOwn
  
PROPERTIES
  OwnAreKept
  ExpiredGoAway
  
