CONSTANTS
  Requests = {r1, r2}
  Ids = {i1, i2, i3, i4}
  Known = {i1, i2, i3}
  Bodies = {b1}
  DefaultBody = b1
  Operations = {"Publish"}
  MaxRetries = 1
  MaxFaults = 0
  Null = Null
  NoDir = NoDir
  NoFile = NoFile
  Blank = Blank
  Garbled = Garbled
  Closed = Closed
  Orphan = Orphan
SPECIFICATION Spec
SYMMETRY Symmetry
INVARIANT ReplacedIsArchived
