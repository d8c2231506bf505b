SPECIFICATION MCSpec
CONSTANTS
  Clients = {c1, c2}
  Devices = {d1, d2}
  D1 = d1
  D2 = d2
  Wide = {c1}
  NMedia <- MCNMedia
  DevOf <- MCDevOf
  MaxMedia = 2
  MaxIO = 2
  MaxPartial = 1
  MaxFail = 2
  MaxDeath = 1
  MaxDbFail = 1
  CanClose = TRUE
  NoClient = NoClient
  NoSub = NoSub
CHECK_DEADLOCK FALSE
INVARIANTS ReleaseOneAnswer ReleaseFreed DurableAnswer ParkedIo
PROPERTIES ReleaseAnswered
