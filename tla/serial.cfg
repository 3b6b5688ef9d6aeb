CONSTANTS
  Requests = {r1, r2, r3}
  Ids = {i1, i2, i3, i4}
  Known = {i1, i2}
  Bodies = {b1, b2}
  DefaultBody = b1
  Operations = {"GetDraft", "GetCurrent", "GetPolicyById", "SaveAsDraft", "Publish", "Delete"}
  MaxRetries = 1
  MaxFaults = 1
  Null = Null
  NoDir = NoDir
  NoFile = NoFile
  Blank = Blank
  Garbled = Garbled
  Closed = Closed
  Orphan = Orphan
SPECIFICATION SerialSpec
SYMMETRY Symmetry
INVARIANT SavedDraftIsKept
INVARIANT OneAtATimeIsClean
INVARIANT LookupFinds
PROPERTY OnlyCopyIsKept
