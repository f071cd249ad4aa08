CONSTANTS
  PacketBuffering = TRUE
  HasVideo = TRUE
  StartOnPrepared = TRUE
  Loop = 1
  AutoExit = FALSE
  IoErrors = TRUE
  Reprepare = FALSE
  Duration = 2
  QueueCap = 1
  MaxCalls = 3
  FewCalls = 2
  Windows = {W1, W2}
  NoWindow = NoWindow
SPECIFICATION MCSpec
CHECK_DEADLOCK FALSE
INVARIANT PlayerSound
INVARIANT NoStuckPause
INVARIANT PausedIsHeld
INVARIANT SeekAgrees
PROPERTY StopIsFinal
PROPERTY OnlyClearStrands
PROPERTY LiveProgress
PROPERTY ResumesInPlace
