CONSTANTS
  Operators = {o1, o2}
  Channels = {"1", "2"}
  Targets = {"t1", "t2"}
  Configs <- MCConfigs
  Versions = {1, 2}
  MaxRuns = 3
  MaxSamples = 2
  MaxFaults = 1
SPECIFICATION Spec
CHECK_DEADLOCK FALSE
INVARIANTS OnlyWhatIsNeeded SampleOnce LabelRight
PROPERTIES ConfigEffective 
