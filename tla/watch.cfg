\* Two overlapping calls of start_watching, two files, three changes.
SPECIFICATION FairSpec
CONSTANTS
  Paths = {p, q}
  a = a
  b = b
  Contents = {a, b}
  Size <- TwoSizes
  Calls = {c1, c2}
  NoCall = NoCall
  MaxChanges = 3
INVARIANTS
  TypeOK
  WatchersAreOwned
  

  
