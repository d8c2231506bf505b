SPECIFICATION FairSpec
CONSTANTS
  Requests = {r1, r2}
  Devices = {d1, d2}
  Together = {r1, r2}
  Wide = {r1, r2}
  Sockets <- MCSockets
  NMedia <- MCNMedia
  Sock <- MCSock
  MaxMedia = 2
  MaxIO = 2
  MaxFail = 2
  MaxDeath = 0
  MaxSyncFail = 0
  EagerDevices = FALSE
  CanStop = FALSE
  CanClose = FALSE
  NoDev = NoDev
  NoSub = NoSub
  NoReq = NoReq
PROPERTIES Answered
