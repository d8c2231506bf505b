SPECIFICATION MCSpec
CONSTANTS
  MaxRequests = 3
  MaxDevices = 5
  MaxRange = 2
  m1 = m1
  m2 = m2
  m3 = m3
  m4 = m4
  m5 = m5
  Media <- MCMedia
  Rebuilds <- MCRebuilds
  MaxBroken = 1
  h1 = h1
  h2 = h2
  x = x
  y = y
  z = z
  NoLock = NoLock
  Empty = Empty
  Hosts = {h1, h2}
  LocateMedia <- MCLocateMedia
  Clients = {c1, c2}
  Places <- MCPlaces
  Nil = Nil
  Holders = {r1, r2, r3, r4}
  Keys = {k1, k2}
  Slots = {v1, v2, v3, v4, v5}
CHECK_DEADLOCK FALSE
INVARIANTS FairShares RebuiltOnce FewChanges Ensured NoWeakLockLeft CacheSound
PROPERTIES Ends
