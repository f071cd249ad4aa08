CONSTANTS
  Whats = {flush, req}
  flush = flush
  req = req
  FlushMsg = flush
  Loops = {l1, l2}
  l1 = l1
  l2 = l2
  MaxMsgs = 5
SPECIFICATION MCSpec
INVARIANT TypeOK
INVARIANT ObjOwnedOnce
INVARIANT NoLostWakeup
PROPERTY NoObjectLost
PROPERTY OneLoopServes
INVARIANT ListShape
PROPERTY ImplementsMsgQueue
