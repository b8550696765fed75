\* Sending is switched on after a blank answer was stored.
SPECIFICATION FairSpec
CONSTANTS
  w1 = w1
  w2 = w2
  NoWorker = NoWorker
  MaxRetryCount = 2
  RowCount = 1
  Workers <- MCBothWorkers
  MailSendEnabled <- MCWorker
  MaxAnalysisPerRun = 1
  MailSendBatchSize = 1
  Legacy <- MCNoLegacy
  Arrivals <- MCRequests
  Unanswerable = {}
  ApiAnswers <- MCBlank
  Undeliverable = {}
  Faults <- MCNoFaults
  MaxFaults = 0
  MaxReopens = 0
PROPERTY BlockedIsRetried
