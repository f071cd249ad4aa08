CONSTANTS
  MaxPlayers = 2
  MaxMsgs = 1
  MaxCalls = 1
SPECIFICATION MCFairSpec
CHECK_DEADLOCK FALSE
INVARIANT LifeSound
INVARIANT PlaybackSound
PROPERTY PlaybackProgress
