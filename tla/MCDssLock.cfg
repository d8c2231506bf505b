SPECIFICATION Spec
CONSTANTS
  NoLock = NoLock
  h1 = h1  h2 = h2
  p1 = p1  p2 = p2
  k1 = k1  k2 = k2
  c1 = c1  c2 = c2
  Hosts = {h1, h2}
  Pids = {p1, p2}
  Keys = {k1, k2}
  Procs = {c1, c2}
  Host <- MCHost
  Pid <- MCPid
  ItemLists <- MCItemLists
CHECK_DEADLOCK FALSE
INVARIANTS HeldIsRow Exclusive NoStrayRow
