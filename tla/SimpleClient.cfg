SPECIFICATION Spec
CONSTANTS
  ClockOffset = 2
  SeqMod = 6
  InChanSize = 1
  Timeout = 3
  MaxTime = 3
  MaxSyncs = 2
  MaxSends = 5
  MaxExtras = 1
  SendsFail = TRUE
CHECK_DEADLOCK FALSE
  
PROPERTIES Terminates PromiseKept
