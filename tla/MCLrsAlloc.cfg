SPECIFICATION Spec
CONSTANTS
  Requests = {r1, r2}
  Devices = {d1, d2}
  Together = {r1, r2}
  Wide = {r1}
  Sockets <- MCSockets
  NMedia <- MCNMedia
  Sock <- MCSock
  MaxMedia = 2
  MaxIO = 1
  MaxFail = 2
  MaxDeath = 1
  MaxSyncFail = 1
  EagerDevices = TRUE
  CanStop = TRUE
  CanClose = TRUE
  NoDev = NoDev
  NoSub = NoSub
  NoReq = NoReq
CHECK_DEADLOCK FALSE
INVARIANTS EndsOnce NothingLost OngoingIo
PROPERTIES KeepsPromise
