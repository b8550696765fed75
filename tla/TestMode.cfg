\* Processes in TEST mode only.
SPECIFICATION Spec
CONSTANTS
  Boxes <- MCBoxes
  Settings <- MCTestSettings
  Requests <- MCRequests
  Outcomes <- MCOutcomes
PROPERTIES TestModeOneRecipient
