------------------------- MODULE MCBookingLifecycle -------------------------
(* Small instances of BookingLifecycle for TLC. *)
EXTENDS BookingLifecycle, TLC

CONSTANTS b1, b2, k1, k2

MCBarberOf   == [b \in Booking |-> k1]
MCDurationOf == [b \in Booking |-> IF b = b1 THEN 2 ELSE 1]
MCUnitDurations == [b \in Booking |-> 1]
MCTwoBarbers == [b \in Booking |-> IF b = b1 THEN k1 ELSE k2]
MCHours      == [k \in Barber |-> IF k = k1 THEN Minute ELSE {2}]
MCWorking    == [k \in Barber |-> Minute]
RequestSymmetry == Permutations(Request)
=============================================================================
