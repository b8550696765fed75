\* A mail of another kind that cannot be decoded.
SPECIFICATION FairSpec
CONSTANTS
  w1 = w1
  w2 = w2
  MailCount = 2
  Workers <- MCWorker
  Uidl <- MCDistinct
  Titled = {2}
  Unparsable = {1}
  Uninsertable = {}
  Unlabelled = {}
  Faults <- MCNoFaults
  MaxFaults = 0
PROPERTIES NewMailIsStored
