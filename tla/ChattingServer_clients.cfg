\* Two clients that follow the protocol.
SPECIFICATION Spec
CONSTANTS
  Workers = {w1, w2}
  Sessions = {h1, h2}
  Honest = {h1, h2}
  SectorsX = 3
  SectorsY = 1
  FirstSeq = 0
  RandomSeqs = {10}
  NoPlayer = NoPlayer
  MaxPackets = 6
SYMMETRY Symmetry
CHECK_DEADLOCK FALSE
INVARIANTS SectorsMatch PlayerFound EventFollows RepliesInOrder
PROPERTIES HonestKept
