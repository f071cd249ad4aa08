SPECIFICATION MCSpec
CONSTANTS
  NoFrame = NoFrame
  Parts = {"async", "sync", "object"}
  NoSurface = NoSurface
  NoProxy = NoProxy
  Surfaces = {S1, S2}
  Start = {S1}
  Outputs = {1, 2}
  Inputs = 1
  FakeSize = 1
  RingSize = 2
  Budgets <- Pairs
CHECK_DEADLOCK FALSE
INVARIANT AndroidSound
INVARIANT ReleasedByOwner
INVARIANT NoBufferLost
PROPERTY AndroidProgress
