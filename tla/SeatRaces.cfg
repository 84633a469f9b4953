SPECIFICATION Spec
CONSTANTS
  b1 = b1
  b2 = b2
  Barber = {b1, b2}
  Request = {r1, r2}
  SeatCounts = {1, 2}
  TrialLength = 1
  MonthLength = 1
  MaxTime = 2
  MaxEnd = 3
INVARIANTS SeatsAreCounted SeatsWithinPlan FormerMembersLoseSeats
PROPERTIES ExpiredOnlyWhenOver
SYMMETRY SeatSymmetry
CHECK_DEADLOCK FALSE
