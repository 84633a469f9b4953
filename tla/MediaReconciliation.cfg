SPECIFICATION FairSpec
CONSTANTS
  None = None
  o1 = o1
  o2 = o2
  r1 = r1
  r2 = r2
  Object = {o1, o2}
  Classes <- OneClass
  Reconciler = {r1, r2}
  RetryLimit = 2
  MaxFaults = 1
INVARIANTS IInv MediaMatchesDocuments DeletedLeavesNoFile
CHECK_DEADLOCK FALSE
CONSTRAINT OneOrReplaced
PROPERTIES OrphansSettle
