CONSTANTS
  Requests = {r1}
  Ids = {i1, i2, i3, i4}
  Known = {i1, i2, i3}
  Bodies = {b1}
  DefaultBody = b1
  Operations = {"Publish", "Delete"}
  MaxRetries = 1
  MaxFaults = 1
  Null = Null
  NoDir = NoDir
  NoFile = NoFile
  Blank = Blank
  Garbled = Garbled
  Closed = Closed
  Orphan = Orphan
  Listers = {l1}
  Pages <- PagesDef
  All = All
  Span = 8
SPECIFICATION FairListingSpec
INVARIANT ListingTypeOK
INVARIANT ListedThroughout
INVARIANT AtMostPageSize
INVARIANT QuietPageIsRight
PROPERTY EveryListingEnds
