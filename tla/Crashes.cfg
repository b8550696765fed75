\* Two workers, one with sending off, on a table that an older release and the
\* central collector have filled; calls fail, processes die.
SPECIFICATION Spec
CONSTANTS
  w1 = w1
  w2 = w2
  NoWorker = NoWorker
  MaxRetryCount = 2
  RowCount = 2
  Workers <- MCBothWorkers
  MailSendEnabled <- MCWorker
  MaxAnalysisPerRun = 2
  MailSendBatchSize = 1
  Legacy <- LegacyStatuses
  Arrivals <- MCAllArrivals
  Unanswerable = {}
  ApiAnswers <- Answers
  Undeliverable = {}
  Faults <- MCSafeFaults
  MaxFaults = 2
  MaxReopens = 1
INVARIANTS TypeOK MailedAtMostOnce OnlyDefiniteFailuresRetried OneRunAtATime QueueBudget MailOnlyAfterAnswer
PROPERTIES OutcomeIsFinal OnlyOperatorReopens KeepsPromise OtherRoutesUntouched SendingSwitch
