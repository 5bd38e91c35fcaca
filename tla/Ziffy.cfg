CONSTANTS
  Settings <- MCSettings
  HopMin = 1
  ContReached = FALSE
  QueueCap = 1
  PTPRecvHandlers = 1
  cfThreshold = 0
  TC <- MCTC
  MaxInFlight = 2
  MaxFaults = 1
SPECIFICATION Spec
CHECK_DEADLOCK FALSE
INVARIANTS  OwnRoute WholePathProbed VerdictRight
 
