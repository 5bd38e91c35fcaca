SPECIFICATION StatsSpec
CONSTANTS
  subs = subs
  rx = rx
  tx = tx
  queue = queue
  NMaps = 3
  MapKeys <- MCMapKeys
  InvKeys = {subs}
  CountKeys = {rx, tx}
  MaxKeys = {queue}
  MaxValue = 2
  MaxEvents = 4
  MaxRounds = 2
  MaxReads = 1
CHECK_DEADLOCK FALSE
INVARIANTS ReportedExactlyOnce MaximumKept ReportedAtomically
