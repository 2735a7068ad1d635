\* The comment at lib.rs:348, refuted under fairness.
SPECIFICATION FairSpec
CONSTANTS
  NumItems = 2
  ChunkCount <- TwoAndOne
  Jobs = {j1}
  Cmds = {c1}
  MaxRetries = 5
PROPERTY FailedIsRetried
