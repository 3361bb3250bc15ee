\* The child's fork() or the grandchild's open("/dev/null") fails.
CONSTANTS
  Dirs = 2
  Faults = {"fork2", "devnull"}
  BufLen = 2
  MaxText = 0
  MaxInterrupts = 0
  Statuses <- AllStatuses
  Signals <- AllSignals
SPECIFICATION RunSpec
INVARIANTS
  AsyncFailuresAreReported
