\* mark_sent cannot reach the database.
SPECIFICATION Spec
CONSTANTS
  w1 = w1
  w2 = w2
  NoWorker = NoWorker
  MaxRetryCount = 2
  RowCount = 1
  Workers <- MCWorker
  MailSendEnabled <- MCWorker
  MaxAnalysisPerRun = 1
  MailSendBatchSize = 1
  Legacy <- MCNoLegacy
  Arrivals <- MCRequests
  Unanswerable = {}
  ApiAnswers = {"text"}
  Undeliverable = {}
  Faults <- MCMarkSentFails
  MaxFaults = 2
  MaxReopens = 0
INVARIANT MailedAtMostOnce
