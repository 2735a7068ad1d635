\* One job of two files (2 chunks and 1 chunk), two commands in flight.
SPECIFICATION FairSpec
CONSTANTS
  NumItems = 2
  ChunkCount <- TwoAndOne
  Jobs = {j1}
  Cmds = {c1, c2}
  MaxRetries = 5
INVARIANTS
  TypeOK
  ProgressIsDelivered
  CompletedIsDelivered
PROPERTIES
  KeepsPromise
  TaskCountsDown
  SendTerminates
