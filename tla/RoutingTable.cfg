CONSTANTS
  a = a
  b = b
  c = c
  Peers = {a, b, c}
  BucketOf <- MCBucketOf
  K = 2
  Concurrency = 2
  Reliable = {a}
  Dead = {c}
  NoTable = NoTable
  MaxCalls = 1
  MaxWaiting = 1
  MaxSessions = 2
SPECIFICATION FairSpec
PROPERTIES
  ReliableStay
  DeadMakeRoom
