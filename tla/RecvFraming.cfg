\* A buffer of nine bytes: the longest frame that fits has a payload of five.
SPECIFICATION Spec
CONSTANTS
  Size = 9
  HeaderSize = 3
  Streams <- MCStreams
  MaxConn = 2
CHECK_DEADLOCK FALSE
INVARIANTS TypeOK Delivered RoomIsFree NoFrameLeft
PROPERTIES ClosesOnlyBad
