\* Programs can be killed.
CONSTANTS
  Dirs = 2
  Faults = {}
  BufLen = 2
  MaxText = 0
  MaxInterrupts = 0
  Statuses <- AllStatuses
  Signals <- AllSignals
SPECIFICATION RunSpec
INVARIANTS
  SyncZeroMeansFine
