CONSTANTS
  a1 = a1
  a2 = a2
  v = v
  other = other
  target = target
  None = None
  NoFrame = NoFrame
  Tracks <- MCTracks
  Video <- MCVideo
  Scenarios <- MCScenarios
  LateStart = FALSE
  PacketBuffering = TRUE
  CodecDelay = 1
  RingSize = 2
  QueueCap = 1
SPECIFICATION MCFairSpec
CHECK_DEADLOCK FALSE
INVARIANT StreamsSound
INVARIANT SerialsTell
PROPERTY NothingStalePlayed
PROPERTY MarkFalls
PROPERTY ActiveTrackPlayed
PROPERTY CompletedPlayedAll
PROPERTY OnlyResetBreaksRing
PROPERTY StreamsProgress
