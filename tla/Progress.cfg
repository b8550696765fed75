\* One request always fails, one mail is always refused; failures on the way.
SPECIFICATION HFairSpec
CONSTANTS
  w1 = w1
  w2 = w2
  NoWorker = NoWorker
  MaxRetryCount = 2
  RowCount = 3
  Workers <- MCBothWorkers
  MailSendEnabled <- MCBothWorkers
  MaxAnalysisPerRun = 2
  MailSendBatchSize = 1
  Legacy <- MCLegacyOpen
  Arrivals <- MCRequests
  Unanswerable = {1}
  ApiAnswers <- MCTextOrWhite
  Undeliverable = {2}
  Faults <- MCRunFaults
  MaxFaults = 1
  MaxReopens = 0
INVARIANTS AnalysedOncePerRun TriedOncePerRun FailureEndsRun
PROPERTIES QueueDrained EveryRequestSettles EveryAnswerLeavesQueue
