CONSTANTS
  PacketBuffering = TRUE
  HasVideo = TRUE
  StartOnPrepared = TRUE
  Loop = 1
  AutoExit = FALSE
  IoErrors = FALSE
  Reprepare = FALSE
  Duration = 1
  QueueCap = 1
  MaxCalls = 3
SPECIFICATION Spec
CHECK_DEADLOCK FALSE
INVARIANT PauseSticks
