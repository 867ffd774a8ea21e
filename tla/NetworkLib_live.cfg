\* Fair threads and one session: what is queued goes out, what is dead is released.
SPECIFICATION FairSpec
CONSTANTS
  Workers = {w1}
  Contents = {c1}
  CONFIG_SESSION_MAX = 1
  CONFIG_SEND_MESSAGE_MAXCOUNT = 1
  RELEASE_IOCOUNT = 16
  RereadsQSize = TRUE
  MaxSeq = 0
  MaxMsgs = 2
  MaxIOcnt = 17
CHECK_DEADLOCK FALSE
PROPERTIES DeadIsReleased QueuedMoves
