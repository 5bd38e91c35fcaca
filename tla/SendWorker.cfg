SPECIFICATION FairWorkerSpec
CONSTANTS
  s1 = s1
  s2 = s2
  a1 = a1
  d1 = d1
  d2 = d2
  h1 = h1
  h2 = h2
  SyncSubs = {s1, s2}
  AnnounceSubs = {a1}
  DelaySubs = {d1, d2}
  Handlers = {h1}
  WorkerQueueSize = 1
  maxTXTS = 2
  SeqIDs = 2
  MaxTicks = 3
  MaxReqs = 2
CHECK_DEADLOCK FALSE
INVARIANTS OwnUnlessGaveUp ReuseOnlyUnfollowed 
 
