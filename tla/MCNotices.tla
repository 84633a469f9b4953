----------------------------- MODULE MCNotices -----------------------------
(* Small instances of Notices for TLC. *)
EXTENDS Notices, TLC

CONSTANTS booking, registration, created, day1, day2, hours, event

About == [n \in Notice |-> IF n = event THEN registration ELSE booking]
Kind  == [n \in Notice |-> CASE n = created -> "created"
                             [] n \in {day1, day2} -> "day"
                             [] n = hours -> "hours"
                             [] n = event -> "event"]

\* Bookings and registrations have nothing in common but the processes: one of
\* them exists at a time.  Its jobs have work one after the other, and a booking
\* that the barber made is followed until its notice is done.
Open(n) == dispatch[n].status \in {"pending", "claimed", "failed"}
              \/ \E p \in Process : task[p] # Idle /\ task[p].notice = n
OneAtATime ==
  /\ Cardinality({s \in Subject : subject[s].status # "none"}) <= 1
  /\ Open(created) \/ subject[booking].manual => \A n \in Notice \ {created} : ~Open(n)
=============================================================================
