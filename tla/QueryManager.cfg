CONSTANTS
  lan = lan
  wan = wan
  r1 = r1
  r2 = r2
  r3 = r3
  o1 = o1
  o2 = o2
  Managers = {lan, wan}
  Runs = {r1, r2, r3}
  Options = {o1, o2}
  ManagerOf <- MCManagerOf
  OptionsOf <- MCOptionsOf
  UserSignals = {o2}
  NoSignal = NoSignal
  UserSignal = UserSignal
SPECIFICATION FairSpec
INVARIANTS
  QueriesCounted
  StopReachesAllRuns
  TimersEndWithRuns
PROPERTIES
  StopDrains
  TimedRunsEnd
