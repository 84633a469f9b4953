SPECIFICATION Spec
CONSTANTS
  booking = booking
  registration = registration
  created = created
  day1 = day1
  day2 = day2
  hours = hours
  event = event
  Booking = {booking}
  Registration = {registration}
  Notice = {created, day1, day2, hours, event}
  SubjectOf <- About
  KindOf <- Kind
  Worker = {w1, w2}
  Request = {q1}
  Starts = {2}
  MaxTime = 1
INVARIANTS SentIsNotified FieldMeansSent
PROPERTIES FreshClaimIsKept CreatedIsNotified
CHECK_DEADLOCK FALSE
CONSTRAINT OneAtATime
