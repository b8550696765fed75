\* Every failure the model has, together.
SPECIFICATION Spec
CONSTANTS
  w1 = w1
  w2 = w2
  NoWorker = NoWorker
  MaxRetryCount = 2
  RowCount = 1
  Workers <- MCBothWorkers
  MailSendEnabled <- MCBothWorkers
  MaxAnalysisPerRun = 1
  MailSendBatchSize = 1
  Legacy <- MCNoLegacy
  Arrivals <- MCRequests
  Unanswerable = {}
  ApiAnswers = {"text"}
  Undeliverable = {}
  Faults <- FaultKinds
  MaxFaults = 3
  MaxReopens = 1
SYMMETRY MCSymmetry
INVARIANTS DuplicatePerFault
