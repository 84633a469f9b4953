SPECIFICATION Spec
CONSTANTS
  u1 = u1
  u2 = u2
  User = {u1, u2}
  Marked = {u1}
  Request = {r1, r2}
  Limits = {0, 1, 2}
SYMMETRY RequestSymmetry
INVARIANTS NeverOverCapacity SeatsAreCounted
CHECK_DEADLOCK FALSE
