---------------------------- MODULE MCSalonSeats ----------------------------
(* Small instances of SalonSeats for TLC. *)
EXTENDS SalonSeats, TLC

CONSTANTS b1, b2

SeatSymmetry == Permutations(Request) \cup Permutations(Barber)
=============================================================================
