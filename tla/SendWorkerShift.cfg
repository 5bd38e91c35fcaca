SPECIFICATION WorkerSpec
CONSTANTS
  s1 = s1
  s2 = s2
  a1 = a1
  d1 = d1
  d2 = d2
  h1 = h1
  h2 = h2
  SyncSubs = {s1}
  AnnounceSubs = {a1}
  DelaySubs = {}
  Handlers = {h1}
  WorkerQueueSize = 1
  maxTXTS = 3
  SeqIDs = 2
  MaxTicks = 2
  MaxReqs = 0
CHECK_DEADLOCK FALSE
INVARIANT FollowUpOfItsSync
