\* A Disconnect with the id of the session before.
SPECIFICATION Spec
CONSTANTS
  Workers = {w1}
  Acceptor = a
  Contents = {c1}
  MaxSessions = 1
  SENDWSABUF_MAX = 1
  SendBufferLimit = 2
  RELEASE = 16
  MaxAccepts = 2
  MaxMsgs = 0
  MaxIoCount = 17
CHECK_DEADLOCK FALSE
INVARIANT ZeroIsReleased
