\* From any older database, beside the collector, through any failure.
SPECIFICATION FairSpec
CONSTANTS
  w1 = w1
  w2 = w2
  NoWorker = NoWorker
  Workers <- MCWorkers
  MailItems <- MCMailItems
  Start <- MCStart
  OldPrompts <- MCOldPrompts
  OperatorPrompts <- MCOperator
  CollectorMakes <- MCCollector
  Faults <- MCFaults
  MaxFaults = 2
INVARIANTS HistoryInService SchemaInService PromptInService
PROPERTIES ServiceResumes
