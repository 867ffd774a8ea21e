\* One client in its handshake, two workers.
SPECIFICATION TlsSpec
CONSTANTS
  Workers = {w1, w2}
  Acceptor = a
  Contents = {}
  MaxSessions = 1
  SENDWSABUF_MAX = 1
  SendBufferLimit = 2
  RELEASE = 16
  MaxAccepts = 1
  MaxMsgs = 0
  MaxIoCount = 17
CHECK_DEADLOCK FALSE
INVARIANT SingleSend
