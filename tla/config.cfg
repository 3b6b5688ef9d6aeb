CONSTANTS
  a = a
  b = b
  part = part
  Contents = {a, b, part}
  Broken = Broken
  Missing = Missing
  Empty = Empty
  None = None
  Keys <- KeysDef
  Gives <- GivesDef
  Requests = {r1}
  MaxEdits = 3
SPECIFICATION FairSpec
INVARIANT TypeOK
INVARIANT OneReload
INVARIANT SettledWatchIsTrue
INVARIANT ServedAreWhole
PROPERTY EditsAreNoticed
