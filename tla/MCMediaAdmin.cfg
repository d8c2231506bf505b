CONSTANTS
  a = a
  b = b
  t = t
  s = s
  f = f
  u1 = u1
  u2 = u2
  u3 = u3
  o1 = o1
  o2 = o2
  None = None
  Clients = {c1}
  Admins = {m1}
  Media <- MCMedia
  Uuids <- MCUuids
  OidOf <- MCOidOf
  Empty <- MCEmpty
  Replicas <- MCReplicas
  Firsts <- MCFirsts
  MaxVersion = 3
  Commands = {"repack", "lost", "remove", "import"}
  Faults = {"alloc", "copy", "dss", "release", "format", "crash"}
  Quiet = TRUE
  MaxExtent = 13
  MaxPut = 1
  MaxCommand = 2
  MaxFault = 1
SYMMETRY Symmetry
SPECIFICATION Spec
CHECK_DEADLOCK FALSE
INVARIANTS ReplicaThere NeverOverclaims
