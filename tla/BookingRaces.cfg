SPECIFICATION Spec
CONSTANTS
  b1 = b1
  b2 = b2
  k1 = k1
  k2 = k2
  Booking = {b1, b2}
  Barber = {k1}
  BarberOf <- MCBarberOf
  DurationOf <- MCDurationOf
  Manual = {b2}
  Request = {r1, r2}
  Sweeper = {}
  Working <- MCWorking
  DelayChoices = {1}
  Grace = 0
  BatchSize = 1
  DayLength = 4
  Horizon = 4
SYMMETRY RequestSymmetry
INVARIANTS NoDoubleBooking HoldsCoverBlocking
PROPERTIES DelayShiftsCurrentStart ImplementsCalendar
CHECK_DEADLOCK FALSE
