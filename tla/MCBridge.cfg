SPECIFICATION Spec
CONSTANTS
  sock = sock
  req = req
  s1 = s1
  MaxEvents = 2
  MaxTicks = 2
  MaxBody = 4
  DefaultChunk = 3
  Request <- MCRequest
  Sid <- MCSid
  SocketCaller = sock
  TTL = 2
  MaxTime = 4
  MaxMessages = 2
INVARIANTS
  TypeOK
  ResponseHasOneUser
  FailureIsTold
  UploadSendsEverything
  UsedWhileLive
PROPERTIES
  LeavingEndsTheStream
CHECK_DEADLOCK FALSE
