\* A short of 4 bits: eight queued messages wrap mSenqQSize.
SPECIFICATION Spec
CONSTANTS
  Workers = {w1}
  Contents = {c1}
  CONFIG_SESSION_MAX = 1
  CONFIG_SEND_MESSAGE_MAXCOUNT = 1
  RELEASE_IOCOUNT = 4
  RereadsQSize = FALSE
  MaxSeq = 0
  MaxMsgs = 8
  MaxIOcnt = 4
CHECK_DEADLOCK FALSE
INVARIANT MsgCntInRange
