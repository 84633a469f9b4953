SPECIFICATION FairSpec
CONSTANTS
  k1 = k1
  Entry = {e1, e2}
  Key = {k1}
  KeyOf <- MCOneKey
  Slot = {t1}
  NoTime = NoTime
  Request = {r1, r2}
  Crashes = TRUE
  MaxMade = 2
INVARIANTS BookedOnceWhenConverted
PROPERTIES PastEntryCloses
CHECK_DEADLOCK FALSE
