\* The order of the phases of a run.
SPECIFICATION HSpec
CONSTANTS
  w1 = w1
  w2 = w2
  NoWorker = NoWorker
  MaxRetryCount = 2
  RowCount = 1
  Workers <- MCWorker
  MailSendEnabled <- MCWorker
  MaxAnalysisPerRun = 2
  MailSendBatchSize = 1
  Legacy <- MCLegacyBlocked
  Arrivals <- MCRequests
  Unanswerable = {}
  ApiAnswers = {"text"}
  Undeliverable = {1}
  Faults <- MCNoFaults
  MaxFaults = 1
  MaxReopens = 0
PROPERTY AnalysesBeforeBacklog
