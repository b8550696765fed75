\* Two collectors and the central one on one mailbox.
SPECIFICATION FairSpec
CONSTANTS
  w1 = w1
  w2 = w2
  MailCount = 3
  Workers <- MCWorkers
  Uidl <- MCDistinct
  Titled = {1, 3}
  Unparsable = {}
  Uninsertable = {}
  Unlabelled = {}
  Faults <- MCFaults
  MaxFaults = 1
INVARIANTS OneRowPerUidl
PROPERTIES NewMailIsStored RunsGoOn NothingSkipped
