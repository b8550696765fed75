\* A profile table without instruction_template.
SPECIFICATION FairSpec
CONSTANTS
  w1 = w1
  w2 = w2
  NoWorker = NoWorker
  Workers <- MCWorker
  MailItems <- MCMailItems
  Start <- MCBareProfile
  OldPrompts <- MCOldPrompts
  OperatorPrompts <- MCOperator
  CollectorMakes <- MCNobody
  Faults <- MCNoFaults
  MaxFaults = 0
PROPERTIES ProfileIsUpgraded
