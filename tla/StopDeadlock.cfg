\* A stop signal that meets wait() with its lock held.
SPECIFICATION FairSpec
CONSTANTS
  ACTIVE_WINDOW <- MCActive
  REST_WINDOW <- MCRest
  POLL <- MCPoll
  LongestRun = 1
  SignalComes = TRUE
  SignalInLock = TRUE
CHECK_DEADLOCK FALSE
PROPERTIES ProcessEnds
