\* The lock is lost while runs go on.
SPECIFICATION Spec
CONSTANTS
  w1 = w1
  w2 = w2
  NoWorker = NoWorker
  MaxRetryCount = 2
  RowCount = 2
  Workers <- MCBothWorkers
  MailSendEnabled <- MCBothWorkers
  MaxAnalysisPerRun = 1
  MailSendBatchSize = 1
  Legacy <- MCNoLegacy
  Arrivals <- MCRequests
  Unanswerable = {}
  ApiAnswers = {"text"}
  Undeliverable = {}
  Faults <- MCLocklessFaults
  MaxFaults = 2
  MaxReopens = 1
SYMMETRY MCSymmetry
INVARIANTS MailedAtMostOnce WriteBackOwnsRow

