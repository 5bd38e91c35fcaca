SPECIFICATION Spec
CONSTANTS
  sync1 = sync1
  delay1 = delay1
  w1 = w1
  r1 = r1
  r2 = r2
  Keys = {sync1, delay1}
  DelayRespKeys = {delay1}
  Workers = {w1}
  WorkerOf <- MCWorkerOf
  RecvWorkers = {r1}
  Durations = {0, 2}
  Intervals = {1, 2}
  MinSubInterval = 2
  MaxSubDuration = 1
  QueueSize = 0
  MaxTLVs = 3
PROPERTY NeverOverwritten
