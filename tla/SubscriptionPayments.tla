------------------------ MODULE SubscriptionPayments ------------------------
(***************************************************************************)
(* The payments for one subscription: payment attempts, the four ways in   *)
(* which one is confirmed, the provider's webhook events, and the          *)
(* activations of a salon by the platform.                                 *)
(*                                                                         *)
(* The subscription itself is SalonSeats: a payment takes effect as one of *)
(* its steps, in the transaction that writes the attempt.  The provider is *)
(* outside: it sends any event about an attempt at any time, again and out *)
(* of order.  Attempts are for one month; the amount, which is compared    *)
(* with the plan, is not modelled.                                         *)
(***************************************************************************)
EXTENDS SalonSeats, Sequences

CONSTANTS
  Attempt,      \* documents of SubscriptionPaymentAttempt
  Key,          \* idempotency keys of activations
  Payer,        \* HTTP requests about payments in flight
  Event,        \* ids of the provider's events
  EventStatus,  \* what each event says: paid, failed or refunded
  EventMemory   \* how many event ids an attempt remembers (100 in the code)

ASSUME PaymentsAssumption ==
  /\ Attempt \cap Key = {}
  /\ EventStatus \in [Event -> {"paid", "failed", "refunded"}]
  /\ EventMemory \in Nat \ {0}

VARIABLES
  attempt,    \* the payment attempts
  records,    \* the paymentrecords that name each attempt
  operation,  \* the activations that were recorded under a key
  paying,     \* what each request about a payment has read so far
  applied     \* history: how often each attempt and each key took effect

vars == <<seatVars, attempt, records, operation, paying, applied>>

OpenStatuses == {"pending", "requires_action"}
Settled      == {"paid", "failed", "refunded", "cancelled"}
Action       == {"renew", "update_seats"}
Provider     == {"none", "manual", "mock"}

NoAttempt == [status |-> "none", provider |-> "none", action |-> "renew",
              seatCount |-> 0, expiresAt |-> 0, events |-> <<>>]

PaymentTask ==
  [pc : {"preparing"}, action : Action, seatCount : SeatCounts]
    \cup [pc : {"cancelling"}, attempt : Attempt]

PaymentTypeOK ==
  /\ attempt \in [Attempt -> [status : {"none"} \cup OpenStatuses \cup Settled,
                              provider : Provider, action : Action, seatCount : Nat,
                              expiresAt : Nat, events : Seq(Event)]]
  /\ records \in [Attempt -> Nat]
  /\ operation \subseteq Key
  /\ paying \in [Payer -> {Idle} \cup PaymentTask]
  /\ applied \in [Attempt \cup Key -> Nat]

PaymentsInit ==
  /\ Init
  /\ attempt = [a \in Attempt |-> NoAttempt]
  /\ records = [a \in Attempt |-> 0]
  /\ operation = {}
  /\ paying = [q \in Payer |-> Idle]
  /\ applied = [x \in Attempt \cup Key |-> 0]

\* applyPaymentAttemptTransition: the changes of status that it allows.
Transition ==
  ({"pending"} \X {"paid", "failed", "cancelled"})
    \cup ({"requires_action"} \X {"paid", "failed"})
    \cup {<<"paid", "refunded">>}

Open(a)      == attempt[a].status \in OpenStatuses
Unexpired(a) == attempt[a].expiresAt > now

SetStatus(a, s) == attempt' = [attempt EXCEPT ![a].status = s]
Took(x)         == applied' = [applied EXCEPT ![x] = @ + 1]

----------------------------------------------------------------------------
\* createSubscriptionPaymentIntent looks at the subscription, asks the provider
\* for an intent, and inserts the attempt, which expires within a unit of time.
StartIntent(q, action, n) ==
  /\ paying[q] = Idle
  /\ action = "update_seats" => IsActive
  /\ paying' = [paying EXCEPT ![q] = [pc |-> "preparing", action |-> action, seatCount |-> n]]
  /\ UNCHANGED <<seatVars, attempt, records, operation, applied>>

FinishIntent(q, a) ==
  /\ paying[q].pc = "preparing"
  /\ attempt[a].status = "none"
  /\ \E provider \in {"manual", "mock"} :
       attempt' = [attempt EXCEPT ![a] =
         [status    |-> IF provider = "manual" THEN "pending" ELSE "requires_action",
          provider  |-> provider,
          action    |-> paying[q].action,
          seatCount |-> paying[q].seatCount,
          expiresAt |-> now + 1,
          events    |-> <<>>]]
  /\ paying' = [paying EXCEPT ![q] = Idle]
  /\ UNCHANGED <<seatVars, records, operation, applied>>

\* cancelSubscriptionPaymentAttempt: the status is judged when the attempt is
\* read, and the save writes it without a condition.
StartCancel(q, a) ==
  /\ paying[q] = Idle
  /\ attempt[a].status = "pending"
  /\ paying' = [paying EXCEPT ![q] = [pc |-> "cancelling", attempt |-> a]]
  /\ UNCHANGED <<seatVars, attempt, records, operation, applied>>

FinishCancel(q) ==
  /\ paying[q].pc = "cancelling"
  /\ SetStatus(paying[q].attempt, "cancelled")
  /\ paying' = [paying EXCEPT ![q] = Idle]
  /\ UNCHANGED <<seatVars, records, operation, applied>>

\* The request fails, or its process ends, before its last write.
AbandonPayment(q) ==
  /\ paying[q] # Idle
  /\ paying' = [paying EXCEPT ![q] = Idle]
  /\ UNCHANGED <<seatVars, attempt, records, operation, applied>>

----------------------------------------------------------------------------
\* $push with $slice: only the last EventMemory ids are remembered.
Remembered(a, e) ==
  LET all == Append(attempt[a].events, e)
  IN SubSeq(all, IF Len(all) > EventMemory THEN Len(all) - EventMemory + 1 ELSE 1, Len(all))

Known(a, e) == \E i \in DOMAIN attempt[a].events : attempt[a].events[i] = e

Settle(a, status, events) ==
  attempt' = [attempt EXCEPT ![a].status = status, ![a].events = events]

\* Mutant: the attempt stays as it was.
FinalizeUnsaved(a, events) ==
  /\ Extend(attempt[a].seatCount)
  /\ records' = [records EXCEPT ![a] = @ + 1]
  /\ Took(a)
  /\ Settle(a, attempt[a].status, events)
  /\ UNCHANGED <<operation, paying>>

\* finalizeSubscriptionPaymentAttempt of an open attempt: the subscription is
\* extended, the record of that gets the attempt's reference, and the attempt is
\* saved as paid.
Finalize(a, events) ==
  /\ Extend(attempt[a].seatCount)
  /\ records' = [records EXCEPT ![a] = @ + 1]
  /\ Took(a)
  /\ Settle(a, "paid", events)
  /\ UNCHANGED <<operation, paying>>

\* confirmSubscriptionPaymentAttempt, outside production.  An attempt that has
\* expired is saved as expired in the transaction that the error then undoes; one
\* that is paid is answered without a write.
ConfirmAttempt(a) ==
  /\ Open(a)
  /\ Unexpired(a)
  /\ Finalize(a, attempt[a].events)

\* confirmSalonPayment, by a platform administrator, at any age of the attempt.
ConfirmSalonPayment(a) ==
  /\ owner = "salon"
  /\ attempt[a].provider = "manual"
  /\ Open(a)
  /\ Finalize(a, attempt[a].events)

\* Mutant: the seats are sold whether or not the subscription still runs.
ConfirmSeatUpdateBlind(a) ==
  /\ attempt[a].action = "update_seats"
  /\ Open(a)
  /\ Unexpired(a)
  /\ SetSeatCount(attempt[a].seatCount)
  /\ OnlySub
  /\ Took(a)
  /\ SetStatus(a, "paid")
  /\ UNCHANGED <<records, operation, paying>>

\* confirmSubscriptionSeatUpdate, outside production: the record of it has no
\* reference to the attempt.
ConfirmSeatUpdate(a) ==
  /\ attempt[a].action = "update_seats"
  /\ Open(a)
  /\ Unexpired(a)
  /\ BuySeats(attempt[a].seatCount)
  /\ Took(a)
  /\ SetStatus(a, "paid")
  /\ UNCHANGED <<records, operation, paying>>

----------------------------------------------------------------------------
\* processPaymentWebhook, in one transaction: an event that the attempt remembers
\* is answered without a write, and an error undoes the whole.

Receives(a, e) ==
  /\ attempt[a].provider = "mock"
  /\ ~Known(a, e)

\* The attempt already has the event's status; for a payment its effect is looked
\* for, and that the subscription is active.
RepeatedEvent(a, e) ==
  /\ Receives(a, e)
  /\ EventStatus[e] = attempt[a].status
  /\ EventStatus[e] = "paid" => sub.status = "active" /\ records[a] > 0
  /\ Settle(a, attempt[a].status, Remembered(a, e))
  /\ UNCHANGED <<seatVars, records, operation, paying, applied>>

\* Mutant: a payment is applied for each event that is not remembered.
PaidEventAgain(a, e) ==
  /\ Receives(a, e)
  /\ EventStatus[e] = "paid"
  /\ Open(a) \/ attempt[a].status = "paid"
  /\ Finalize(a, Remembered(a, e))

PaidEvent(a, e) ==
  /\ Receives(a, e)
  /\ EventStatus[e] = "paid"
  /\ Open(a)
  /\ Finalize(a, Remembered(a, e))

OtherEvent(a, e) ==
  /\ Receives(a, e)
  /\ EventStatus[e] \in {"failed", "refunded"}
  /\ <<attempt[a].status, EventStatus[e]>> \in Transition
  /\ Settle(a, EventStatus[e], Remembered(a, e))
  /\ UNCHANGED <<seatVars, records, operation, paying, applied>>

----------------------------------------------------------------------------
\* activateSalonSubscription with an idempotency key: the operation is recorded in
\* the same transaction, and found again by a repeated request.  Without a key it
\* is a step of SalonSeats.
Activate(k, n) ==
  /\ owner = "salon"
  /\ k \notin operation
  /\ Extend(n)
  /\ operation' = operation \cup {k}
  /\ Took(k)
  /\ UNCHANGED <<attempt, records, paying>>

----------------------------------------------------------------------------
PaymentSteps ==
  \/ \E q \in Payer :
       \/ \E action \in Action, n \in SeatCounts : StartIntent(q, action, n)
       \/ \E a \in Attempt : FinishIntent(q, a) \/ StartCancel(q, a)
       \/ FinishCancel(q)
       \/ AbandonPayment(q)
  \/ \E a \in Attempt :
       \/ ConfirmAttempt(a)
       \/ ConfirmSalonPayment(a)
       \/ ConfirmSeatUpdate(a)
       \/ \E e \in Event : RepeatedEvent(a, e) \/ PaidEvent(a, e) \/ OtherEvent(a, e)
  \/ \E k \in Key, n \in SeatCounts : Activate(k, n)

PaymentsNext ==
  \/ PaymentSteps
  \/ Next /\ UNCHANGED <<attempt, records, operation, paying, applied>>

\* The expiration job runs as in SalonSeats.
PaymentsSpec ==
  /\ PaymentsInit /\ [][PaymentsNext]_vars
  /\ WF_seatVars(StartExpiration)
  /\ SF_seatVars(FinishExpiration)

----------------------------------------------------------------------------
\* However often a payment is confirmed, by whichever of the ways, however often
\* its events come and in whatever order, and whether or not an event has been
\* forgotten, the subscription is extended for it at most once; and an activation
\* at most once for its key.
AppliedOnce == \A x \in Attempt \cup Key : applied[x] <= 1

\* What is paid has taken effect, and what has taken effect is paid, refunded, or
\* was overwritten by a cancellation that had read it before.
PaidIsApplied ==
  /\ \A a \in Attempt :
       /\ attempt[a].status \in {"paid", "refunded"} => applied[a] = 1
       /\ applied[a] = 1 => attempt[a].status \in {"paid", "refunded", "cancelled"}
  /\ \A k \in Key : k \in operation <=> applied[k] = 1

\* An attempt that took effect is in the accounts once; a purchase of seats in the
\* running period may be there without its reference.
AccountedOnce ==
  \A a \in Attempt :
    /\ records[a] <= applied[a]
    /\ applied[a] = 1 /\ attempt[a].action = "renew" => records[a] = 1

\* Inductive, with what SalonSeats has: an attempt is for a number of seats that
\* can be bought, and only an attempt is cancelled.
PaymentsInv ==
  /\ IInv
  /\ PaymentTypeOK
  /\ AppliedOnce
  /\ PaidIsApplied
  /\ AccountedOnce
  /\ \A a \in Attempt : attempt[a].status # "none" => attempt[a].seatCount \in SeatCounts
  /\ \A q \in Payer : paying[q].pc = "cancelling" => attempt[paying[q].attempt].status # "none"

\* An attempt changes its status only as the table of transitions allows, but for
\* a cancellation that had read it as pending.
StatusFollowsTable ==
  [][\A a \in Attempt :
       LET old == attempt[a].status
           new == attempt'[a].status
       IN \/ new = old
          \/ old = "none"
          \/ <<old, new>> \in Transition
          \/ /\ new = "cancelled"
             /\ \E q \in Payer : paying[q] = [pc |-> "cancelling", attempt |-> a]]_vars

\* Payments do to the subscription what SalonSeats lets happen, and nothing else.
SeatsSpec == Spec
=============================================================================
