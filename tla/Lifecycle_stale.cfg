SPECIFICATION Spec
CONSTANTS
  MaxPlayers = 2
  MaxMsgs = 1
  MaxCalls = 0
PROPERTY NoStaleEvents
CHECK_DEADLOCK FALSE
