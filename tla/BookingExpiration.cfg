SPECIFICATION FairSpec
CONSTANTS
  b1 = b1
  b2 = b2
  k1 = k1
  k2 = k2
  Booking = {b1, b2}
  Barber = {k1, k2}
  BarberOf <- MCTwoBarbers
  DurationOf <- MCUnitDurations
  Manual = {}
  Request = {r1}
  Sweeper = {w1}
  Working <- MCHours
  DelayChoices = {}
  Grace = 0
  BatchSize = 1
  DayLength = 3
  Horizon = 3
PROPERTIES ExpiryOnlyWhenMissed MissedBookingSettles
