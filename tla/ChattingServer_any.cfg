\* A client that sends anything beside one that follows the protocol.
SPECIFICATION FairSpec
CONSTANTS
  Workers = {w1}
  Sessions = {h, r}
  Honest = {h}
  SectorsX = 2
  SectorsY = 1
  FirstSeq = 0
  RandomSeqs = {10}
  NoPlayer = NoPlayer
  MaxPackets = 2
CHECK_DEADLOCK FALSE
INVARIANTS AssertionsHold
PROPERTIES PlayerLeaves
