SPECIFICATION Spec
CONSTANTS
  sync1 = sync1
  delay1 = delay1
  w1 = w1
  r1 = r1
  r2 = r2
  Keys = {sync1}
  DelayRespKeys = {}
  Workers = {w1}
  WorkerOf <- MCWorkerOf
  RecvWorkers = {r1, r2}
  Durations = {0}
  Intervals = {2}
  MinSubInterval = 2
  MaxSubDuration = 1
  QueueSize = 0
  MaxTLVs = 2
PROPERTY NeverOverwritten
