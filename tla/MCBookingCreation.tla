-------------------------- MODULE MCBookingCreation --------------------------
(* Small instances of BookingCreation for TLC. *)
EXTENDS BookingCreation, TLC

CONSTANTS c1, k1

MCKeyOfClient == [k \in Key |-> c1]
Symmetry == Permutations(Request) \cup Permutations(Booking) \cup Permutations(Slot)

\* What the bookings stored, or on their way, were asked for.
Asks ==
  {bookings[b].ask : b \in {b \in Booking : bookings[b] # Blank}}
    \cup {request[r].ask :
            r \in {r \in Request : request[r].pc \in {"keyed", "priced", "booked"}}}

\* Either requests with the voucher race and the owner edits it, or requests
\* that earn the reward race for one slot and the waitlist or a deletion
\* disturbs them, which their keys are not needed for.
OneDisturbance ==
  \/ /\ waiting = {} /\ users = Account
     /\ \A x \in Remover : removal[x] = Idle
     /\ \A u \in Account : fence[u].state = "active"
     /\ \A a \in Asks : a.coupon
  \/ /\ \A e \in Editor : edit[e] = Idle
     /\ voucher = [active |-> TRUE, max |-> 1, uses |-> 0, redemptions |-> {}]
     /\ \A a, c \in Asks : ~a.coupon /\ a.slot = c.slot
     /\ (\E x \in Remover : removal[x] # Idle) \/ waiting # {}
          => \A a \in Asks : a.key = NoKey
=============================================================================
