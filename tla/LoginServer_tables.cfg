\* Two clients of one account, one of which keeps to its turn; two DB workers.
SPECIFICATION FairSpec
CONSTANTS
  Sessions = {s1, s2}
  Patient = {s1}
  Accounts = {7}
  DBThreads = {d1, d2}
  WaitLimit = 0
  AuthLimit = 0
  Wrap = 2
  MaxPackets = 2
CHECK_DEADLOCK FALSE
INVARIANTS OnePlace TokenStays DroppedIsGone PatientIsSafe
PROPERTY SilentLeaves
