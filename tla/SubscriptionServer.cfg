SPECIFICATION FairSpec
CONSTANTS
  sync1 = sync1
  delay1 = delay1
  w1 = w1
  r1 = r1
  r2 = r2
  Keys = {sync1, delay1}
  DelayRespKeys = {delay1}
  Workers = {w1}
  WorkerOf <- MCWorkerOf
  RecvWorkers = {r1, r2}
  Durations = {0}
  Intervals = {2, 3}
  MinSubInterval = 3
  MaxSubDuration = 1
  QueueSize = 1
  MaxTLVs = 2
INVARIANTS RunningHasSender AtMostOneLate
PROPERTIES Quiesces
