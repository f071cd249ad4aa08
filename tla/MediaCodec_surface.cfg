SPECIFICATION MCSpec
CONSTANTS
  NoFrame = NoFrame
  Parts = {"async"}
  NoSurface = NoSurface
  NoProxy = NoProxy
  Surfaces = {S1}
  Start = {S1, NoSurface}
  Outputs = {1, 2}
  Inputs = 1
  FakeSize = 1
  RingSize = 2
  Budgets <- TwoSurfaces
CHECK_DEADLOCK FALSE
PROPERTY SurfaceReused
