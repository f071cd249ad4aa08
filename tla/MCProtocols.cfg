CONSTANTS
  FileSize = 5
  Forwards = 2
  Backwards = 1
  Chunk = 2
  ShortSeek = 1
  MaxRead = 2
  MaxSeeks = 2
  MaxErrors = 1
SPECIFICATION MCFairSpec
CHECK_DEADLOCK FALSE
INVARIANT RingIsFile
INVARIANT PositionsAgree
PROPERTY ImplementsStream
PROPERTY ReadsContinue
PROPERTY CallsReturn
