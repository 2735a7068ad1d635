\* One job of two files (2 chunks and 1 chunk), two commands in flight.
SPECIFICATION Spec
CONSTANTS
  NumItems = 2
  ChunkCount <- TwoAndOne
  Jobs = {j1}
  Cmds = {c1, c2}
INVARIANTS
  TypeOK
  CompletedIsOnDisk
  AckedIsCounted
PROPERTY
  KeepsChunks
