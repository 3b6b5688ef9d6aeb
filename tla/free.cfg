CONSTANTS
  Requests = {r1, r2}
  Ids = {i1, i2, i3, i4}
  Known = {i1, i2}
  Bodies = {b1}
  DefaultBody = b1
  Operations = {"GetDraft", "GetCurrent", "GetPolicyById", "SaveAsDraft", "Publish", "Delete"}
  MaxRetries = 1
  MaxFaults = 1
  Null = Null
  NoDir = NoDir
  NoFile = NoFile
  Blank = Blank
  Garbled = Garbled
  Closed = Closed
  Orphan = Orphan
SPECIFICATION FairSpec
INVARIANT TypeOK
INVARIANT ContentMatchesPlace
INVARIANT GapHasAWriter
PROPERTY TornCurrentStays
PROPERTY WorkIsBounded
PROPERTY EveryRequestAnswered
