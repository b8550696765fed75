\* The connection that holds the lock is closed during a run.
SPECIFICATION Spec
CONSTANTS
  w1 = w1
  w2 = w2
  NoWorker = NoWorker
  MaxRetryCount = 2
  RowCount = 1
  Workers <- MCBothWorkers
  MailSendEnabled <- MCBothWorkers
  MaxAnalysisPerRun = 1
  MailSendBatchSize = 1
  Legacy <- MCNoLegacy
  Arrivals <- MCRequests
  Unanswerable = {}
  ApiAnswers = {"text"}
  Undeliverable = {}
  Faults <- MCLockDrop
  MaxFaults = 2
  MaxReopens = 0
SYMMETRY MCSymmetry
INVARIANT OneRunAtATime
