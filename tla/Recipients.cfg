\* Every mail reaches whom it is meant for, under changing settings.
SPECIFICATION Spec
CONSTANTS
  Boxes <- MCBoxes
  Settings <- MCSettings
  Requests <- MCRequests
  Outcomes <- MCOutcomes
INVARIANTS StatusTellsDelivery RecordIsTrue
PROPERTIES OnlyMeantRecipients ListedIsNotRefused
