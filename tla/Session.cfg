\* What a session of the collector has stored when it ends.
SPECIFICATION Spec
CONSTANTS
  w1 = w1
  w2 = w2
  MailCount = 3
  Workers <- MCWorkers
  Uidl <- MCDistinct
  Titled = {1, 2, 3}
  Unparsable = {}
  Uninsertable = {}
  Unlabelled = {2}
  Faults <- MCFaults
  MaxFaults = 1
INVARIANT TypeOK
PROPERTY NothingSkipped
