-------------------------- MODULE BookingCalendar ---------------------------
(***************************************************************************)
(* What the booking service promises about a barber's calendar, with no    *)
(* holds, requests or clock: a booking is given a slot once, may be moved, *)
(* is closed for good, and never shares a minute with another booking of   *)
(* the same barber.                                                        *)
(***************************************************************************)
EXTENDS Integers

CONSTANTS Booking, BarberOf, DurationOf, Minute

VARIABLE entry   \* [phase, start] of every booking; start is 0 when not live

Entry == [phase : {"none", "live", "closed"}, start : Minute]

Minutes(b, s) == s .. (s + DurationOf[b] - 1)

Live(b) == entry[b].phase = "live"

\* No live booking of the barber but b has a minute of b's slot at s.
Room(b, s) ==
  \A c \in Booking \ {b} :
    BarberOf[c] = BarberOf[b] /\ Live(c)
      => Minutes(c, entry[c].start) \cap Minutes(b, s) = {}

Init == entry = [b \in Booking |-> [phase |-> "none", start |-> 0]]

Take(b, s) ==
  /\ entry' = [entry EXCEPT ![b] = [phase |-> "live", start |-> s]]
  /\ Room(b, s)

Book(b) == entry[b].phase = "none" /\ \E s \in Minute : Take(b, s)

Move(b) == Live(b) /\ \E s \in Minute : Take(b, s)

Close(b) ==
  /\ Live(b)
  /\ entry' = [entry EXCEPT ![b] = [phase |-> "closed", start |-> 0]]

Next == \E b \in Booking : Book(b) \/ Move(b) \/ Close(b)

Spec == Init /\ [][Next]_entry
=============================================================================
