CONSTANTS
  d1 = d1 d2 = d2 d3 = d3 m1 = m1 m2 = m2 m3 = m3 r1 = r1 r2 = r2 w1 = w1 f1 = f1
  Drives = {d1, d2, d3}
  Media = {m1, m2, m3}
  Requests = {r1, r2, w1, f1}
  None = None
  Kind <- MCKind
  Wants <- MCWants
  Need <- MCNeed
  Prio <- MCPrio
  Techno <- MCTechno
  Technos <- MCTechnos
  Compat <- MCCompat
  Writable = {m2}
  LoCfg <- MCLo
  HiCfg <- MCHi
  Algos = {"fair_share", "none"}
  Start <- MCStart
  Loads <- MCLoads
  MaxEvents = 2
SPECIFICATION Spec
CONSTRAINT Bounded
CHECK_DEADLOCK FALSE
INVARIANTS QueuesBound StatsCount  Reserved
