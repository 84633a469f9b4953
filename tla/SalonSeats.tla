----------------------------- MODULE SalonSeats -----------------------------
(***************************************************************************)
(* One subscription, of a barber or of a salon, and the seats of a salon's *)
(* subscription.                                                           *)
(*                                                                         *)
(* Every write is one transaction or one conditional update.  The handlers *)
(* for seats read the membership, the subscription or the seat before that *)
(* transaction, and the expiration job reads its list before it writes:    *)
(* these reads are the steps Start..., with what they saw kept in task and *)
(* job.  Time passes in units longer than a request takes, so that a       *)
(* transaction's own clock reading is the time of its step.                *)
(***************************************************************************)
EXTENDS SalonMembership, Integers, FiniteSets

CONSTANTS
  Request,      \* HTTP requests in flight
  SeatCounts,   \* numbers of seats that are bought
  TrialLength,  \* days of a trial, in units of time
  MonthLength,  \* a paid period
  MaxTime,      \* bound on the clock
  MaxEnd        \* bound on the end of a period

ASSUME SeatsAssumption ==
  /\ IsFiniteSet(Barber)
  /\ SeatCounts \subseteq Nat \ {0}
  /\ TrialLength \in Nat \ {0}
  /\ MonthLength \in Nat \ {0}
  /\ MaxTime \in Nat
  /\ MaxEnd \in Nat

PaidStatuses == {"trialing", "active"}
Status       == {"none", "expired", "cancelled"} \cup PaidStatuses

NoSubscription ==
  [status |-> "none", seatCount |-> 0, activeSeatCount |-> 0, end |-> 0, trialEndsAt |-> 0]

Idle == [pc |-> "idle"]
Task == [pc : {"assigning", "listing", "revoking"}, barber : Barber]
          \cup [pc : {"reducing"}, seatCount : Nat]

VARIABLES
  now,     \* the clock
  owner,   \* Subscription.ownerType, which never changes
  sub,     \* the subscription; end is currentPeriodEnd, 0 in trialEndsAt is no trial
  seat,    \* the subscriptionseats collection, unique per subscription and barber
  task,    \* what each request has read so far
  job,     \* the expiration job: the time by which its list was read
  stray    \* history: barbers whose seat was assigned after they had gone, or
           \* whose removal stopped before the seat was revoked

seatVars == <<now, owner, sub, seat, task, job, stray, join, entry>>

Active == {b \in Barber : seat[b] = "active"}

TypeOK ==
  /\ MembershipTypeOK
  /\ now \in Nat
  /\ owner \in {"barber", "salon"}
  /\ sub \in [status : Status, seatCount : Nat, activeSeatCount : Nat,
              end : Nat, trialEndsAt : Nat]
  /\ seat \in [Barber -> {"none", "active", "revoked"}]
  /\ task \in [Request -> {Idle} \cup Task]
  /\ job \in {Idle} \cup [pc : {"expiring"}, at : Nat]
  /\ stray \subseteq Barber

Init ==
  /\ MembershipInit
  /\ now = 0
  /\ owner \in {"barber", "salon"}
  /\ sub = NoSubscription
  /\ seat = [b \in Barber |-> "none"]
  /\ task = [r \in Request |-> Idle]
  /\ job = Idle
  /\ stray = {}

Tick ==
  /\ now < MaxTime
  /\ now' = now + 1
  /\ UNCHANGED <<owner, sub, seat, task, job, stray, memberVars>>

----------------------------------------------------------------------------
\* The subscription.

Exists == sub.status # "none"

\* subscriptionHasPaidAccess.
HasPaidAccess == sub.status \in PaidStatuses /\ sub.end >= now

OnlySub == UNCHANGED <<now, owner, seat, task, job, stray, memberVars>>

\* createTrialSubscription: an upsert, so that a subscription of the owner is
\* never replaced.  Trials are created for barbers only.
CreateTrial ==
  /\ owner = "barber"
  /\ ~Exists
  /\ sub' = [status |-> "trialing", seatCount |-> 1, activeSeatCount |-> 0,
             end |-> now + TrialLength, trialEndsAt |-> now + TrialLength]
  /\ OnlySub

\* extendManualSubscription: create, or compare and set.  A period that still
\* runs is continued.  The update names trialEndsAt with the value undefined,
\* which Mongoose leaves out of an update: the field keeps its value.
Extend(n) ==
  LET start == IF sub.status \in PaidStatuses /\ sub.end > now THEN sub.end ELSE now
  IN /\ sub.activeSeatCount <= n
     /\ start + MonthLength <= MaxEnd     \* bound
     /\ sub' = [sub EXCEPT !.status = "active", !.seatCount = n, !.end = start + MonthLength]
     /\ OnlySub

\* cancelSalonSubscription.
CancelSubscription ==
  /\ owner = "salon"
  /\ sub.status \in PaidStatuses
  /\ sub' = [sub EXCEPT !.status = "cancelled"]
  /\ OnlySub

\* updateSubscriptionSeatCount: one conditional update.
SetSeatCount(n) ==
  /\ sub.activeSeatCount <= n
  /\ sub' = [sub EXCEPT !.seatCount = n]

\* updateSalonSeatCount, by a platform administrator, in one transaction.
PlatformSeatCount(n) ==
  /\ owner = "salon"
  /\ Exists
  /\ SetSeatCount(n)
  /\ OnlySub

\* isActive of serializeSubscriptionStatus.
IsActive == sub.status \in PaidStatuses /\ sub.end > now

\* confirmSubscriptionSeatUpdate: seats bought for the running period.
BuySeats(n) ==
  /\ IsActive
  /\ SetSeatCount(n)
  /\ OnlySub

----------------------------------------------------------------------------
\* The expiration job: expireSubscriptions.

IsOver(s, t) ==
  /\ s.status \in PaidStatuses
  /\ s.end < t \/ (s.trialEndsAt > 0 /\ s.trialEndsAt < t)

OnlyJob == UNCHANGED <<now, owner, seat, task, stray, memberVars>>

\* Mutant: only trials are listed.
StartExpirationByTrial ==
  /\ job = Idle
  /\ sub.status = "trialing"
  /\ sub.trialEndsAt < now
  /\ job' = [pc |-> "expiring", at |-> now]
  /\ OnlyJob
  /\ UNCHANGED sub

StartExpiration ==
  /\ job = Idle
  /\ IsOver(sub, now)
  /\ job' = [pc |-> "expiring", at |-> now]
  /\ OnlyJob
  /\ UNCHANGED sub

\* Mutant: the write trusts the list.
FinishExpirationBlind ==
  /\ job.pc = "expiring"
  /\ sub' = [sub EXCEPT !.status = "expired"]
  /\ job' = Idle
  /\ OnlyJob

\* The fenced write repeats the conditions of the list, by the list's time.
FinishExpiration ==
  /\ job.pc = "expiring"
  /\ sub' = IF IsOver(sub, job.at) THEN [sub EXCEPT !.status = "expired"] ELSE sub
  /\ job' = Idle
  /\ OnlyJob

\* The lease is lost, or the process ends, before the write.
CrashExpiration ==
  /\ job.pc = "expiring"
  /\ job' = Idle
  /\ OnlyJob
  /\ UNCHANGED sub

----------------------------------------------------------------------------
\* Seats.

At(r, pc) == task[r].pc = pc

Start(r, t) ==
  /\ task[r] = Idle
  /\ task' = [task EXCEPT ![r] = t]
  /\ UNCHANGED <<now, owner, sub, seat, job, stray>>

Finish(r) ==
  /\ task' = [task EXCEPT ![r] = Idle]
  /\ UNCHANGED <<now, owner, job, memberVars>>

Answer(r) == Finish(r) /\ UNCHANGED <<sub, seat, stray>>

\* assignSalonSubscriptionSeat reads the subscription and the barber.
StartAssign(r, b) ==
  /\ owner = "salon"
  /\ HasPaidAccess
  /\ Member(b)
  /\ Start(r, [pc |-> "assigning", barber |-> b])
  /\ UNCHANGED memberVars

\* assignSalonSeat, by a platform administrator, does not ask for paid access.
StartPlatformAssign(r, b) ==
  /\ owner = "salon"
  /\ Exists
  /\ Member(b)
  /\ seat[b] # "active"
  /\ Start(r, [pc |-> "assigning", barber |-> b])
  /\ UNCHANGED memberVars

\* Mutant: an active seat is claimed again.
FinishAssignAgain(r) ==
  LET b == task[r].barber
  IN /\ At(r, "assigning")
     /\ IF sub.activeSeatCount >= sub.seatCount
          THEN Answer(r)
          ELSE /\ sub' = [sub EXCEPT !.activeSeatCount = @ + 1]
               /\ seat' = [seat EXCEPT ![b] = "active"]
               /\ stray' = IF Member(b) THEN stray ELSE stray \cup {b}
               /\ Finish(r)

\* assignActiveSeat with claimCapacity: the seat and the counter in one
\* transaction.
FinishAssign(r) ==
  LET b == task[r].barber
  IN /\ At(r, "assigning")
     /\ IF seat[b] = "active" \/ sub.activeSeatCount >= sub.seatCount
          THEN Answer(r)
          ELSE /\ sub' = [sub EXCEPT !.activeSeatCount = @ + 1]
               /\ seat' = [seat EXCEPT ![b] = "active"]
               /\ stray' = IF Member(b) THEN stray ELSE stray \cup {b}
               /\ Finish(r)

\* revokeSalonSubscriptionSeat reads the seat.
StartRevoke(r, b) ==
  /\ seat[b] = "active"
  /\ Start(r, [pc |-> "revoking", barber |-> b])
  /\ UNCHANGED memberVars

\* revokeActiveSeat with decrementCapacity.
FinishRevoke(r) ==
  LET b == task[r].barber
  IN /\ At(r, "revoking")
     /\ IF seat[b] # "active" \/ sub.activeSeatCount = 0
          THEN Answer(r)
          ELSE /\ sub' = [sub EXCEPT !.activeSeatCount = @ - 1]
               /\ seat' = [seat EXCEPT ![b] = "revoked"]
               /\ stray' = stray \ {b}
               /\ Finish(r)

\* leaveSalon and removeBarberFromSalon: after the transaction that ends the
\* membership, revokeSalonSeatsForRemovedMember lists the barber's seats and
\* revokes each in a transaction of its own.
StartRemoval(r, b) ==
  /\ owner = "salon"
  /\ EndMembership(b)
  /\ Start(r, [pc |-> "listing", barber |-> b])

\* Mutant: no seat is found.
ListNoSeats(r) ==
  /\ At(r, "listing")
  /\ Answer(r)

ListSeats(r) ==
  /\ At(r, "listing")
  /\ IF seat[task[r].barber] = "active"
       THEN /\ task' = [task EXCEPT ![r].pc = "revoking"]
            /\ UNCHANGED <<now, owner, sub, seat, job, stray, memberVars>>
       ELSE Answer(r)

\* Barbers who have gone and still have a seat.
Former == {b \in Active : ~Member(b)}

\* updateSalonSubscriptionSeatCount: an owner may only give seats back, as the
\* subscription was read.
StartReduce(r, n) ==
  /\ owner = "salon"
  /\ Exists
  /\ n <= sub.seatCount
  /\ sub.activeSeatCount <= n
  /\ Start(r, [pc |-> "reducing", seatCount |-> n])
  /\ UNCHANGED memberVars

\* Mutant: no condition on the seats in use.
FinishReduceBlind(r) ==
  /\ At(r, "reducing")
  /\ sub' = [sub EXCEPT !.seatCount = task[r].seatCount]
  /\ Finish(r)
  /\ UNCHANGED <<seat, stray>>

FinishReduce(r) ==
  /\ At(r, "reducing")
  /\ \/ SetSeatCount(task[r].seatCount)
     \/ sub.activeSeatCount > task[r].seatCount /\ UNCHANGED sub
  /\ Finish(r)
  /\ UNCHANGED <<seat, stray>>

\* The request fails, or its process ends, before its last write.
Abandon(r) ==
  /\ task[r] # Idle
  /\ stray' = stray \cup {b \in Former : /\ task[r].pc \in {"listing", "revoking"}
                                         /\ task[r].barber = b}
  /\ Finish(r)
  /\ UNCHANGED <<sub, seat>>

----------------------------------------------------------------------------
JoinSteps(b) ==
  \/ RequestJoin(b)
  \/ CancelJoin(b)
  \/ AcceptJoin(b)
  \/ RejectJoin(b)

Membership ==
  /\ owner = "salon"
  /\ \E b \in Barber : JoinSteps(b)
  /\ UNCHANGED <<now, owner, sub, seat, task, job, stray>>

Next ==
  \/ Tick
  \/ Membership
  \/ CreateTrial
  \/ \E n \in SeatCounts : Extend(n) \/ BuySeats(n) \/ PlatformSeatCount(n)
  \/ CancelSubscription
  \/ StartExpiration \/ FinishExpiration \/ CrashExpiration
  \/ \E r \in Request :
       \/ \E b \in Barber :
            \/ StartAssign(r, b)
            \/ StartPlatformAssign(r, b)
            \/ StartRevoke(r, b)
            \/ StartRemoval(r, b)
       \/ \E n \in SeatCounts : StartReduce(r, n)
       \/ FinishAssign(r)
       \/ ListSeats(r)
       \/ FinishRevoke(r)
       \/ FinishReduce(r)
       \/ Abandon(r)

\* The job runs again and again, and not every run of it is cut off.
Spec ==
  /\ Init /\ [][Next]_seatVars
  /\ WF_seatVars(StartExpiration)
  /\ SF_seatVars(FinishExpiration)

----------------------------------------------------------------------------
\* The counter on which every assignment and every change of the number of
\* seats relies is the number of active seats, whatever seats are assigned,
\* revoked and given back at the same time.
SeatsAreCounted == sub.activeSeatCount = Cardinality(Active)

\* There are never more active seats than seats that were bought: neither an
\* assignment nor a smaller number of seats gets past the other.
SeatsWithinPlan == Cardinality(Active) <= sub.seatCount

\* Somebody who left the salon or was removed keeps a seat only while the removal
\* goes on, or when an assignment had read the membership before, or when the
\* removal stopped half way.
FormerMembersLoseSeats ==
  \A b \in Former :
    \/ b \in stray
    \/ \E r \in Request : task[r].pc \in {"listing", "revoking"} /\ task[r].barber = b

\* Inductive: before there is a subscription there is nothing that counts seats,
\* and the job's clock is never ahead.
IInv ==
  /\ TypeOK
  /\ SeatsAreCounted
  /\ SeatsWithinPlan
  /\ AcceptedIsMember
  /\ FormerMembersLoseSeats
  /\ ~Exists => sub = NoSubscription
  /\ \A r \in Request : At(r, "reducing") => Exists
  /\ job.pc = "expiring" => job.at <= now

\* The job ends a subscription only when its period, or a trial that it began
\* with, is over at the moment of the write: a renewal that was committed after
\* the job read its list is kept.
ExpiredOnlyWhenOver ==
  [][sub'.status = "expired" /\ sub.status # "expired" => IsOver(sub, now)]_seatVars

\* A subscription whose time is over is expired at some time, or renewed.
OverIsEnded == IsOver(sub, now) ~> ~IsOver(sub, now)

----------------------------------------------------------------------------
\* What the documentation says and the code does not keep.

\* "Subscription expiration cron does not expire active subscriptions
\* prematurely": the job ends no subscription whose paid period still runs.
NotExpiredEarly ==
  [][sub'.status = "expired" /\ sub.status # "expired" => sub.end < now]_seatVars
=============================================================================
