CONSTANTS
  r1 = r1
  r2 = r2
  c1 = c1
  c2 = c2
  w1 = w1
  w2 = w2
  Contexts <- MCContexts
  Workers = 2
  MaxOpens = 3
SPECIFICATION MCFairSpec
CHECK_DEADLOCK FALSE
INVARIANT CacheSound
INVARIANT OneTask
PROPERTY ReadsTrue
PROPERTY AllCallsReturn
