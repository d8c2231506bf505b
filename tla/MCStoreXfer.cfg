SPECIFICATION FairSpec
CONSTANTS
  m1 = m1
  m2 = m2
  Batches <- MCBatches
  PutSizes <- MCPutSizes
  Sources <- MCSources
  Missing = {1}
  MaxAvail = 2
  Media = {m1, m2}
  Faults = {"open", "io", "close", "alloc", "init", "sync", "save"}
  MaxFail = 1
CHECK_DEADLOCK FALSE
INVARIANTS SingleDurable Outcome
PROPERTIES MediaBack Returns
