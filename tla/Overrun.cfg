\* A run that outlasts both windows.
SPECIFICATION Spec
CONSTANTS
  ACTIVE_WINDOW <- MCActive
  REST_WINDOW <- MCRest
  POLL <- MCPoll
  LongestRun = 5
  SignalComes = FALSE
  SignalInLock = FALSE
CHECK_DEADLOCK FALSE
INVARIANTS FinishesWithinWindows
