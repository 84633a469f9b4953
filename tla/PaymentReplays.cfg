SPECIFICATION PaymentsSpec
CONSTANTS
  paid1 = paid1
  paid2 = paid2
  failed1 = failed1
  refunded1 = refunded1
  Barber = {}
  Request = {}
  SeatCounts = {1, 2}
  TrialLength = 1
  MonthLength = 1
  MaxTime = 2
  MaxEnd = 3
  Attempt = {a1}
  Key = {k1}
  Payer = {q1, q2}
  Event = {paid1, paid2, failed1, refunded1}
  EventStatus <- Said
  EventMemory = 1
INVARIANTS AppliedOnce PaidIsApplied
PROPERTIES SeatsSpec OverIsEnded
CHECK_DEADLOCK FALSE
