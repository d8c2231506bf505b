CONSTANTS
  A = A B = B d1 = d1 d2 = d2 t1 = t1 t2 = t2 s1 = s1 x1 = x1
  Hosts = {A, B}
  Drives = {d1, d2}
  Tapes = {t1, t2}
  Slots = {s1}
  ImpExp = {x1}
  None = None
  NoLock = NoLock
  HostOf <- MCHostOf
  StartAt <- MCStartAt
  Blank = {t2}
  NbLibDev = 2
  MaxDeviceRetry = 2
  MaxHealth = 1
  MaxReq = 2
  MaxFault = 1
  MaxCrash = 1
  MaxTlc = 1
  MaxAdmin = 1
SPECIFICATION Spec
CHECK_DEADLOCK FALSE
INVARIANTS DrivesAsBelieved LocksExact CacheTrue
