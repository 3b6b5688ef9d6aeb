CONSTANTS
  n1 = n1
  a1 = a1
  a2 = a2
  Endpoints = {n1, a1, a2}
  Lists <- ListsDef
  Null = Null
  Tasks = {t1, t2}
  TimerStarted = FALSE
  MaxPublished = 2
  MaxChanges = 0
  MaxFaults = 0
SPECIFICATION Spec
SYMMETRY Symmetry
INVARIANT DistributedIsCurrent
