CONSTANTS
  n1 = n1
  a1 = a1
  a2 = a2
  Endpoints = {n1, a1, a2}
  Lists <- ListsDef
  Null = Null
  Tasks = {t1, t2, t3}
  TimerStarted = FALSE
  MaxPublished = 3
  MaxChanges = 0
  MaxFaults = 2
SPECIFICATION SerialSpec
SYMMETRY Symmetry
INVARIANT DistributedIsCurrent
