\* A row was left in RECEIVED.
SPECIFICATION FairSpec
CONSTANTS
  w1 = w1
  w2 = w2
  NoWorker = NoWorker
  MaxRetryCount = 2
  RowCount = 1
  Workers <- MCWorker
  MailSendEnabled <- MCWorker
  MaxAnalysisPerRun = 1
  MailSendBatchSize = 1
  Legacy <- MCLegacyReceived
  Arrivals <- MCRequests
  Unanswerable = {}
  ApiAnswers = {"text"}
  Undeliverable = {}
  Faults <- MCNoFaults
  MaxFaults = 2
  MaxReopens = 0
PROPERTY ReceivedIsRecovered
