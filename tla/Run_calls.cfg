\* Everything can fail, a read can be interrupted.
CONSTANTS
  Dirs = 2
  Faults = {"pipe", "fork", "fork2", "devnull", "kill", "kill2", "signal"}
  BufLen = 2
  MaxText = 3
  MaxInterrupts = 1
  Statuses <- AllStatuses
  Signals <- AllSignals
SPECIFICATION RunFairSpec
INVARIANTS
  RunTypeOK
  AsyncAnswerIsTrue
  AsyncNothingLeft
  SyncZeroIsAnExit
  PtyTalkArrives
PROPERTIES
  AsyncReturns
  PtyCallsReturn
