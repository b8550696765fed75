\* Two UIDLs that differ in case only.
SPECIFICATION FairSpec
CONSTANTS
  w1 = w1
  w2 = w2
  MailCount = 2
  Workers <- MCWorker
  Uidl <- MCSameCase
  Titled = {1, 2}
  Unparsable = {}
  Uninsertable = {}
  Unlabelled = {}
  Faults <- MCNoFaults
  MaxFaults = 0
PROPERTIES NewMailIsStored
