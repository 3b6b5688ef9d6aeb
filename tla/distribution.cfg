CONSTANTS
  n1 = n1
  a1 = a1
  a2 = a2
  Endpoints = {n1, a1, a2}
  Lists <- ListsDef
  Null = Null
  Tasks = {t1, t2}
  TimerStarted = TRUE
  MaxPublished = 2
  MaxChanges = 1
  MaxFaults = 1
SPECIFICATION FairSpec
INVARIANT TypeOK
INVARIANT EveryEndpointIsTried
INVARIANT CachedMeansTried
PROPERTY EveryDistributionEnds
