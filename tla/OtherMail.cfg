\* A mail that is not a request.
SPECIFICATION FairSpec
CONSTANTS
  w1 = w1
  w2 = w2
  MailCount = 1
  Workers <- MCWorker
  Uidl <- MCDistinct
  Titled = {}
  Unparsable = {}
  Uninsertable = {}
  Unlabelled = {}
  Faults <- MCNoFaults
  MaxFaults = 0
PROPERTIES OtherMailIsIgnored
