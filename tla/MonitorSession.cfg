SPECIFICATION Spec
CONSTANTS
  a1 = a1
  a2 = a2
  Addrs = {a1, a2}
  RefClocks = {a2}
  States <- MCStates
  Offs <- MCOffs
  Rooms = {1, 2}
  VarParts = 3
  Requests = 2
  MaxSources = 2
  MaxChanges = 1
  MaxFaults = 1
  CallsFail = TRUE
CHECK_DEADLOCK FALSE
INVARIANTS OwnAnswer SnapshotUnlessChanged VerdictAgrees SocketRemoved
PROPERTIES Terminates
