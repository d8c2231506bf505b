CONSTANTS
  a = a
  b = b
  t = t
  s = s
  f = f
  u1 = u1
  u2 = u2
  u3 = u3
  o1 = o1
  o2 = o2
  None = None
  Clients = {c1}
  Admins = {m1}
  Media <- MCMedia
  Uuids <- MCUuids
  OidOf <- MCOidOf
  Empty <- MCEmpty
  Replicas <- MCReplicas
  Firsts <- MCFirsts
  MaxVersion = 3
  Commands = {"repack", "lost", "remove", "import"}
  Faults = {"read"}
  Quiet = TRUE
  MaxExtent = 13
  MaxPut = 0
  MaxCommand = 1
  MaxFault = 1
SPECIFICATION Spec
INVARIANTS WholeData
CHECK_DEADLOCK FALSE
