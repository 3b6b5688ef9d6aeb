CONSTANTS
  Requests = {r1, r2, r3}
  Ids = {i1, i2, i3, i4}
  Known = {i1, i2}
  Bodies = {b1}
  DefaultBody = b1
  Operations = {"SaveAsDraft", "Publish", "Delete"}
  MaxRetries = 2
  MaxFaults = 0
  Null = Null
  NoDir = NoDir
  NoFile = NoFile
  Blank = Blank
  Garbled = Garbled
  Closed = Closed
  Orphan = Orphan
SPECIFICATION OneMoverSpec
SYMMETRY Symmetry
INVARIANT PublishedIsKept
INVARIANT CurrentNotInHistory
PROPERTY ImplementsArchive
