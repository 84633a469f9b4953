SPECIFICATION Spec
CONSTANTS
  c1 = c1
  k1 = k1
  Client = {c1}
  Barber = Barber
  Slot = {s1, s2}
  Booking = {b1, b2}
  Key = {k1}
  KeyOf <- MCKeyOfClient
  NoKey = NoKey
  NoBooking = NoBooking
  Nobody = Nobody
  Request = {r1, r2}
  Remover = {x1}
  Joiner = {c1}
  Coupons = {TRUE, FALSE}
  Editor = {e1}
  Limit = {1, 2}
  Earlier = 2
  Threshold = 2
SYMMETRY Symmetry
CONSTRAINT OneDisturbance
INVARIANTS OneBookingPerKey ReplyIsOwnBooking VoucherCountsBookings UsesWithinLimit CreatedForLivingAccounts RewardOnce
CHECK_DEADLOCK FALSE
