SPECIFICATION FairSpec
CONSTANTS
  r1 = r1
  r2 = r2
  Runner = {r1, r2}
  Skew <- MCSkew
  TTL = 2
  RenewDelay = 1
  Stopping = {r1}
  Horizon = 3
  MaxToken = 2
  MaxWrites = 1
PROPERTIES OnlyOwnerShortensLease ImplementsFencedLog ExpiredLeaseIsTaken StopResolves
CHECK_DEADLOCK FALSE
