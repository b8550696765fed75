\* Runs of any length, with or without a stop signal.
SPECIFICATION FairSpec
CONSTANTS
  ACTIVE_WINDOW <- MCActive
  REST_WINDOW <- MCRest
  POLL <- MCPoll
  LongestRun = 5
  SignalComes = TRUE
  SignalInLock = FALSE
CHECK_DEADLOCK FALSE
INVARIANTS EndsOnTime StopsPromptly
PROPERTIES PollsInWindow ProcessEnds
