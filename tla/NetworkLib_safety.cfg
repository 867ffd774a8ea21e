\* One slot used twice, two workers, one application thread.
SPECIFICATION Spec
CONSTANTS
  Workers = {w1, w2}
  Contents = {c1}
  CONFIG_SESSION_MAX = 1
  CONFIG_SEND_MESSAGE_MAXCOUNT = 1
  RELEASE_IOCOUNT = 16
  RereadsQSize = FALSE
  MaxSeq = 1
  MaxMsgs = 2
  MaxIOcnt = 17
SYMMETRY ThreadSymmetry
CHECK_DEADLOCK FALSE
INVARIANTS TypeOK RefCount ZeroIsSeen SingleIO NoLostWakeup SlotToAccept
PROPERTIES ServiceSpec ReleaseBitHolds
