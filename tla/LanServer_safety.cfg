\* One slot used twice, two workers, one thread of the application.
SPECIFICATION Spec
CONSTANTS
  Workers = {w1, w2}
  Acceptor = a
  Contents = {c1}
  MaxSessions = 1
  SENDWSABUF_MAX = 1
  SendBufferLimit = 2
  RELEASE = 16
  MaxAccepts = 2
  MaxMsgs = 2
  MaxIoCount = 17
SYMMETRY WorkerSymmetry
CHECK_DEADLOCK FALSE
INVARIANTS RefCount ZeroIsSeen SingleIO NoLostWakeup 
PROPERTY ServiceSpec
