SPECIFICATION MCSpec
CONSTANTS
  NoFrame = NoFrame
  Parts = {"object"}
  NoSurface = NoSurface
  NoProxy = NoProxy
  Surfaces = {S1}
  Start = {S1}
  Outputs = {1, 2}
  Inputs = 1
  FakeSize = 1
  RingSize = 2
  Budgets <- TwoSurfaces
CHECK_DEADLOCK FALSE
INVARIANT CodecAlive
