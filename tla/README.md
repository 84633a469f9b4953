# A TLA+ development for HairBook

HairBook is a booking platform for hairdressers ("barbers") and salons: a Node
server (`src/backend`, Express and MongoDB), a React client (`src/frontend`).
This directory models the server's stateful core, checks it with TLC and proves
its main safety results with TLAPS. The client renders what the server decides and
is not modelled, except for how the schedule pages fill in and send back the hours.

## 1. The system

Every request is an asynchronous handler: between two `await`s any other
request, job or server instance may run. State that matters is in MongoDB.
Three means keep it consistent, and most of the models are about whether they
are enough:

* transactions with snapshot isolation, retried on a write conflict;
* unique indexes and conditional updates (`findOneAndUpdate` on the state that
  was read);
* leases with fencing tokens for the scheduled jobs.

| Component | State it keeps | Operations | What is hard | What makes it correct |
|---|---|---|---|---|
| Booking lifecycle (`controllers/bookings`, `services/booking`) | `Booking.status`, date, time, `rescheduleRequest`, delay | create, accept, reject, cancel, complete, edit, delay, no-show, late cancel, request / accept / reject reschedule | handlers read, then validate outside the transaction, then commit; three handlers save what they read earlier | no double booking; finished is final; a booking and its holds agree |
| Slot holds (`bookingSlotHoldService`) | one document per barber, date and minute | create, move, release | partial overlap of the old and new slot; unique index across instances | holds of a live booking are exactly its minutes |
| Expiration job (`bookingExpiration`) | none (batches) | sweep | a list read once and worked through later; batch limit | only missed pending bookings expire, and all of them do |
| Booking creation (`bookingCreateService`, idempotency) | `BookingCreateIdempotency`, media, dispatch | create with a client key | the same key twice at once; failure between commit and reply | one booking per key |
| Pricing, vouchers, loyalty rewards | `Voucher.currentUses`, redemptions, `LoyaltyProgress` | claim, restore, consume | a limit read and then claimed; a cancellation restores | never more uses than allowed |
| Reminders and dispatches (booking, event, post-commit) | dispatch documents with claim leases | enqueue, claim, deliver, fail, retry | a worker dies after sending; a claim goes stale during a send; the booking moves | one deliverer at a time; sent means written; nothing new goes unannounced |
| Scheduler lease (`schedulerLeaseService`, `cronLeaseRunner`) | `SchedulerLease` | acquire, renew, release, fenced write | a paused owner that still believes it owns the lease | no write by an expired owner |
| Account deletion (`accountDeletionService`, `accountDeletionFenceService`) | `AccountDeletionRecord` per user | begin, release, complete the fence; delete; guarded mutations | a mutation in flight while the account is being deleted; a commit whose outcome stays unknown | no active booking outlives an account; the fence follows the deletion |
| Waitlist (`services/waitlist`) | `WaitlistEntry.status`, offers | join, offer, accept, decline, reject, cancel, expire | conversion claims the entry, then books; compensation on failure | an entry books at most once |
| Subscriptions and seats (`services/subscription`) | seats, plan, periods | add / remove seat, activate, expire | capacity read then claimed | never more seats than paid for |
| Payment attempts (`services/payment`) | `PaymentAttempt` | create, callback, confirm, cancel | the callback races the client and repeats | a payment is applied once |
| Salon membership and staff | `JoinRequest`, `User.salons` | request, accept, reject, leave, remove | two decisions race | membership follows one decision |
| Salon jobs and onboarding | applications, onboarding | apply, decide, onboard | steps over several documents | one onboarding per acceptance |
| Event registration | registrations, capacity, certificates | register, cancel, waitlist | capacity | never over capacity |
| Schedules (`controllers/schedules`, `salonController`, `utils/scheduleUtils.js`, the pages that edit hours) | `Schedule` (week, overrides, days off, default hours); the default hours again in `User.salons` | load and save on two pages, leave, join, book | two documents without a transaction; three derivations of the hours of a date; a page that sends back what it loaded | the slot offered is the slot accepted; booked inside the hours; a save moves only what it changes |
| Services and categories | references | create, rename, delete | a reference added during a delete | no dangling reference |
| Media objects (`services/media`, `portfolioMediaService`, `bookingReferenceMediaService`) | `MediaObject.status`, lease and retries; files in two directories | stage, promote, activate, replace, clear, compensate, delete, reconcile | crash between file store and database; a commit that is not answered; the reconciliation against a slow upload | what is shown can be served; no file outlives its record; what is left behind is settled |
| Messaging, notifications, reviews, reports | documents | create, read | access rules | thin; reads |

How they interact: creation writes a booking, its holds, its idempotency record,
its voucher or loyalty claim and its post-commit dispatch in one transaction;
ending a booking releases its holds and calls the waitlist; conversion of a
waitlist entry creates an accepted booking with holds; jobs run under the
scheduler lease and write through `withFencedWrite`; most mutations touch the
deletion fence and the paid-access records, so that a concurrent deletion or
expiry conflicts with them.

## 2. Plan

Order of the modules, the most important behaviour first.

| | Module(s) | Question | Abstract specification | State |
|---|---|---|---|---|
| 1 | `BookingLifecycle`, `BookingCalendar` | bookings and holds under every race | the calendar: slots that never overlap, closed is closed | checked, proved |
| 2 | `SchedulerLease`, `FencedLog` | one owner per job | a log whose writers only get newer | checked, proved |
| 3 | `Waitlist` | offers and their conversion | | checked, proved |
| 4 | `BookingCreation` | keys, vouchers, rewards, account deletion | | checked, proved |
| 5 | `EventRegistration` | a limit that changes under approvals and withdrawals; saves of old copies | | checked, proved |
| 6 | `SalonMembership`, `SalonSeats` | a counter and the seats it counts; joining, leaving, giving seats back, running out | | checked, proved |
| 7 | `SubscriptionPayments` | confirmations and events that repeat and come out of order | `SalonSeats`: a payment is a step of the subscription | checked, proved |
| 8 | `Notices` | claim, deliver, mark; takeover of a stale claim; a booking that moves under a reminder | | checked, proved |
| 9 | `Media` | two stores, one without transactions; a reconciliation under a lease per record | | checked, proved |
| 10 | `Schedules` | hours in two documents, written by two pages, derived in three ways; a booking against them | | checked, proved |
| 11 | services and categories | references added while their target is deleted | | open |
| 12 | salon jobs and onboarding | steps over several documents of one applicant | | open |

Composition: `BookingLifecycle` refines `BookingCalendar`, `SchedulerLease`
refines `FencedLog`; `SalonSeats` EXTENDS `SalonMembership`, whose acceptance and
end of a membership are the only ways in and out of the right to a seat, and
`SubscriptionPayments` EXTENDS `SalonSeats` in turn and refines it: every payment is,
for the subscription, a step that `SalonSeats` allows. The jobs
(expiration in 1 and 6, waitlist expiration in 3, recovery and reminders in 8,
reconciliation in 9)
take from 2 that a write under a lease commits only for its owner.
`BookingCreation` reduces a slot to taken or free, which 1 justifies, and
`Notices` takes from it that a booking is stored together with its dispatch.

All modules with theorems use functions and sets only: no recursive operators.

## 3. The modules

### BookingLifecycle

Source: `controllers/bookings/*Controller.js`, `services/booking/bookingSlotHoldService.js`,
`bookingDelayService.js`, `bookingOutcomeService.js`, `bookingExpiration.js`, `bookingCreateService.js`.

| State | In the code |
|---|---|
| `bookings[b]` | status, date and time (`start`), delayed, reschedule request and its target |
| `holds` | `BookingSlotHold` documents, one per booking and minute |
| `task[r]` | what a request holds in its local variables across an `await` |
| `sweep[w]` | the list an expiration run works through, its clock, whether the batch was full |
| `now` | the clock |

A handler is `Start...` (reads, checks, early returns), `Validate` (the slot
validation, which the code runs outside the transaction's session) and
`Commit...` (the transaction). A commit is one action because the transaction
re-reads and writes the booking, so that MongoDB aborts it if anyone else did,
and because the unique index on barber, date and minute orders the holds.
`SaveRequest` and `SaveRejectRequest` are `document.save()` without a
transaction or condition: they write whatever happened meanwhile. `Retry` is
`withTransaction` running its callback again; `Abandon` is any error, conflict
or crash. The job is `StartSweep`, `ReadBatch`, `SweepOne` per booking, `EndBatch`.

Abstracted: date and time are a minute on one axis cut into days; the schedule
is the set of open minutes per barber; the limit of 365 days is the horizon; salon
scope, paid access, prices, texts and notifications are left out. The in-process
creation lock is left out: it orders requests of one instance only, and the
model allows every order. The legacy status `confirmed` is written by nothing.

`BookingCalendar` is what a client of the component may rely on: `Book`, `Move`,
`Close`, with room in the calendar as the guard.

### SchedulerLease

Source: `services/schedulerLeaseService.js`, `schedulerLeaseRunner.js`, `cronLeaseRunner.js`.

`lease` is the document (owner, token, expiry, sequence), `log` the committed
fenced writes (a history), `local[r]` the runner of an instance: its mode
(running, stopping, off), how far its tick has come, the time it captured, what
it read, its token, whether it knows that the lease is lost, a renewal in flight and an open
write. Every call of the service captures the clock and lands in MongoDB later,
in two actions; clocks differ by `Skew`. A fenced write updates the lease
document first, so that until it commits or aborts no other update of the
document proceeds (`Locked`, external: a property of MongoDB). Failures:
`FailAcquire`, `FailRenewal`, `AbortWrite`, `FailRelease`, `Crash`, answers that
are lost. The cron runner has the same lease logic as the interval runner.

Simplified: an owner token, new for each acquisition in the code, is the runner;
an operation of a crashed process does not land afterwards; a job has one open
write at a time.

`FencedLog` is the promise: the writers of the log only get newer.

### Waitlist

Source: `services/waitlist/*`. One barber and date: `entries` (status, offered
time), `made` (bookings made for an entry), `taken` slots, `past`, `task[r]`,
`stale` (history: entries hit by a late save), `listed` (what the current run of the
expiration job has found and not come to yet: `ListPast`, then `Expire` entry by entry,
or `LoseLease`). An older run whose lease was taken over has no list, since its next write is
refused and ends it. Handlers that are one conditional
update are one action; create, cancel, "mark notified", notify and accept are
split at their awaits. Accept claims the entry (`ClaimOffer`), checks, converts
in a transaction, and gives the offer back on failure (`RestoreOffer`), which can
fail on the unique index. `approveWaitlistEntry` is behind a route that answers
410 and is left out.

### BookingCreation

Source: `services/booking/bookingCreateService.js`, `bookingCreateIdempotencyService.js`,
`bookingPricingService.js`, `loyaltyRewardRedemptionService.js`,
`services/users/accountDeletion*.js`, `controllers/promotions/voucherController.js`.

`operations` are the idempotency documents, `voucher` and `rewards` the claims a
booking makes, `fence` the deletion records, `users` the accounts that exist,
`request`, `removal` and `edit` the processes. The creation transaction is one
action, because it writes every document on which its outcome depends, except
that the completed bookings which price a reward are counted outside the session
(`Price`). A deletion only reads the bookings it must not leave behind, so its
snapshot (`OpenRemoval`) and its commit are two actions. A commit may land
unheard. `ConvertEntry` is the waitlist's way to a booking, which touches no
fence.

Left out: amounts, deposits, and what a deletion scrubs; the post-commit dispatch
is in `Notices`, the pictures of a booking are in `Media`.

### EventRegistration

Source: `controllers/events/eventRegistrationController.js`, `eventController.js`,
`services/eventRegistrationValidation.js`. One event.

| State | In the code |
|---|---|
| `event` | whether the status is upcoming, `maxParticipants` (0: none), `approvedRegistrationCount` |
| `reg[u]` | the registration of a user: status and the two fields for attendance |
| `task[r]` | the copy of the registration and the limit that a handler read |
| `leaked` | history: counted places that a late save did not give back |
| `uncapped` | history: the event once had no limit |

Every handler is `Start...` (reads and early returns) and an end: `Approve` and
`Release` are transactions whose updates name the status and the counter they
expect, the others are `document.save()`, which writes those assigned fields whose
value differs from the one read (`Save`). The number of approved participants,
which only decides between pending and waiting list, is read with the event.
Events older than the counter, for which the code answers 503, are left out.

### SalonMembership and SalonSeats

Source: `services/salon/salonJoinRequestLifecycleService.js`,
`controllers/salons/salonStaffController.js`, `services/subscriptionService.js`,
`services/subscription/*`, `services/platform/platformBilling*`.

| State | In the code |
|---|---|
| `join`, `entry` | the barber's latest `SalonJoinRequest` and the entry in `User.salons` |
| `sub` | status, seats bought and in use, end of period, end of trial |
| `seat[b]` | `SubscriptionSeat`, unique per subscription and barber |
| `task[r]` | what a request about seats read before its transaction |
| `job` | the expiration job, between its list and its write |
| `stray` | history: seats assigned after their barber had left, or whose removal stopped |

Decisions about a membership are one transaction each and so one action. The
handlers for seats read first (`StartAssign`, `StartRevoke`, `StartReduce`) and
write later; leaving ends the membership and then lists and revokes the seats in
further transactions (`StartRemoval`, `ListSeats`, `FinishRevoke`), between which
it may stop (`Abandon`). Manual renewal, the platform's changes and the seats
bought with a payment compare and set, and are one action. One unit of time is
longer than a request.

### SubscriptionPayments

Source: `services/payment/paymentAttempt*.js`, `services/subscription/subscriptionPaymentMutations.js`,
`services/platform/platformBilling*`. `attempt` are the `SubscriptionPaymentAttempt`
documents, `records` how many `PaymentRecord`s name each, `operation` the activations
recorded under a key, `paying` the requests between two awaits, `applied` a history
of what took effect. A payment is confirmed in four ways: by the owner
(`ConfirmAttempt`), by the platform (`ConfirmSalonPayment`), as a purchase of seats
(`ConfirmSeatUpdate`), by an event of the provider (`PaidEvent`); each is one
transaction with the step of `SalonSeats` that it causes. The provider is external
and sends any event about an attempt, again and in any order; an attempt remembers
the last `EventMemory` of them. Amounts are left out.

### Notices

Source: `services/booking/bookingPostCommitDispatchService.js`, `bookingReminder*.js`,
`services/notification/eventReminder*.js`, `notificationService.js`.

| State | In the code |
|---|---|
| `subject[s]` | a booking or a registration: status, start, made by the barber, reminder fields |
| `dispatch[n]` | the dispatch of one notice to one recipient: status, the claim's token (`by`), whether the claim or the wait after a failure is fresh |
| `notified` | the notices whose notification is stored (unique by `internalHash`) |
| `task[p]` | what a run of a job, or the request that created the booking, is doing |

A notice is claimed, checked again, written and marked in separate transactions
(`Claim`, `Check`, `Notify`, `MarkSent` or `MarkFailed`), and the field of the
booking is set at the end (`Finalize`). A process may fail (`Trouble`) or die
(`Crash`) between any two. `Begin` is a run that gets the lease of its job: every
write of an earlier run is fenced from then on, so that run is over. Inside a
transaction a duplicate notification aborts it, and the read that should find the
existing one fails with it (`NotifyAgain`); without a session the request goes on.
One unit of time is the two hours of the late reminder, and the early one is sent
two units ahead. Runs are shown one booking or registration at a time.

### Media

Source: `services/media/*`, `services/booking/bookingReferenceMediaService.js`,
`services/portfolio/portfolioMediaService.js`, and what changes documents behind
their back: `userProfileUpdateService.js`, `accountDeletionService.js`.

| State | In the code |
|---|---|
| `media[o]` | the `MediaObject`: status, whether it has a stage key and an owner, the holder of its lease (`reconciliationLeaseToken` and fencing token), failed runs, manual |
| `staging`, `stored` | the files in the two directories of the store |
| `shown[o]` | how the document refers to the object: not at all, live, or by a portfolio photo that was deleted and keeps its fields |
| `task[o]`, `expected[o]` | the next step of the request that works on an object, and the object it expects to replace |
| `inflight`, `unsure` | uploads whose commit was not answered and may still land; those that ever were (history) |
| `old`, `lapsed` | records past the stage age of 24 hours; leases past their expiry |
| `form`, `restored` | a profile form being saved; avatars that such a form brought back (history) |
| `run[r]` | a run of the reconciliation with its copy of the record |

An upload is `Begin` (the record), `Stage` and `Promote` (the file), for a booking
`ClearStageKey`, and `Attach`, the transaction that makes the document point to the
object, activates its record and retires the record of what was shown before.
`Bindable` is what the transaction's filters ask for, class by class. Every step
can fail, with what the code of the class then writes (`GivenUp`, `Compensate`), or
be the last one of its process (`Crash`). `LoseCommit` is a commit without an answer:
it lands (`LandCommit`) or does not (`DropCommit`) at any later time, while the
request looks again (`LookAgain`) or, for a booking, compensates.

The reconciliation takes a lease on a record (`Acquire`), claims what is staged by
making it pending (`Claim`), looks for a reference twice (`Inspect`, `Recheck`),
deletes the file and finalizes the record (`DeleteFile`, `Finalize`); each write asks
for the lease and the status of the run's copy (`Release`). Failed runs are counted
(`Counted`) until the record is manual.

Abstracted: all objects of an instance belong to one account; the two fields that
hold a barber's avatar are one, and so are the two files of a photo, where a failure
of the other file is a failure of this one; each certificate has one object. The time
of the next attempt is left to fairness. The bodies of the file operations are atomic:
within the store they roll back what they published.

### Schedules

Source: `controllers/schedules/scheduleController.js`, `controllers/salons/salonController.js`
(default hours), `utils/scheduleUtils.js`, `utils/bookingSlotValidation.js`,
`utils/barberCardAvailability.js`, `services/booking/bookingReadinessService.js`, and in the
client `useScheduleManager.js`, `useDefaultSalonScheduleSettings.js`, `useSalonBookingAvailability.js`.
One barber in one salon.

| State | In the code |
|---|---|
| `exists`, `schedule` | whether there is a `Schedule`, and what it holds: week, `explicitWeeklyDays`, the mark of a week saved as all off, overrides, `nonWorkingDays`, default hours |
| `member`, `default` | the approved entry of the salon in `User.salons` and its copy of the default hours |
| `page[t]` | a tab with the Schedule page: what it shows, what it sent |
| `settings[t]` | a tab with the settings page |
| `request[r]` | a booking request: day and time, what its transaction read, whether that is still current |
| `torn` | history: since the last save that ran alone, saves overlapped or were cut off, or the barber came back to the salon |

The Schedule page loads (`OpenPage`, where a failed load leaves an empty week), changes one
thing and sends everything (`SavePage`); the server writes the `Schedule`, then the entry
(`WriteSchedule`, `WriteEntry`), and answers with both. The settings page writes the entry
first (`SaveEntry`) and the `Schedule` second (`SaveSchedule`). Either can stop between
its writes. `Leave` removes the entry and keeps the `Schedule`; `Join` makes a new entry.
A booking is `Ask` (the check before the transaction), `Read` (the same check on the
snapshot), `Touch` (the write to both documents, a conflict when they changed since) and
`Commit`. The hours of a date are derived by the server (`ServerHours`), by the booking page
(`PageHours`) and by the barber's card (`CardHours`).

Abstracted: a day of the week stands for its next date; hours are the set of times at
which a service fits, and a time that the week leaves incomplete is a day without hours.

## 4. The runs

| Run | Configuration | What it shows |
|---|---|---|
| `booking_races` | `BookingRaces.cfg` | two concurrent requests of any kind, one booking of two minutes and one manual booking of one minute: no double booking, holds are the minutes of the slot, a delay shifts the start that is current; implements the calendar |
| `booking_expiration` | `BookingExpiration.cfg` | the job against a request, batch size 1: it expires only what is pending and missed as it writes, and gets to everything missed |
| `lease_races` | `LeaseRaces.cfg` | two instances, clocks one tick apart, every pause, failure and crash: only its owner ends a lease; implements the fenced log, so that no write of a replaced owner commits; an expired lease is taken again; stop resolves |
| `waitlist_races` | `WaitlistRaces.cfg` | two entries with one key and two requests: a booking exactly where an entry says so, but for entries that a late save hit; from some moment on no past entry is open, under answers, late saves and runs of the job that are cut off |
| `creation_races` | `CreationRaces.cfg` | two requests with and without one key, for a voucher at its limit that its owner edits, or for a reward while a waitlist entry is converted or an account deleted: one booking per key, replies are one's own, the voucher counts its bookings and keeps its limit, one discounted booking per reward, no active booking by request outlives an account |
| `event_races` | `EventRaces.cfg` | two requests of any kind over two registrations while the organizer changes the limit: never over capacity, the counter is right |
| `seat_races` | `SeatRaces.cfg` | two requests over the seats of two barbers who join and leave, under renewals, platform changes and expiration: the counter is right, never more seats than bought, who left keeps no seat but by a late assignment or a removal that stopped |
| `early_expiry` | `EarlyExpiry.cfg` | finding: a trial that is paid for keeps its end, and once that is over the job expires the paid subscription |
| `payment_replays` | `PaymentReplays.cfg` | one attempt under four events, two of them payments, with a memory of one event: it takes effect once, what is paid is applied, and it does to the subscription what `SalonSeats` allows; what is over is ended |
| `notices` | `Notices.cfg` | two runs and a request over the notices of a booking with two recipients and of an event: what is sent was written, fields are earned, a fresh claim is kept, a new booking is announced in the end |
| `media_reconciliation` | `MediaReconciliation.cfg` | one object of every class under every failure, crash and unanswered commit, or an upload and its replacement, against two runs of the reconciliation: the inductive invariant of the proofs, with retries within the limit; what documents show can be served and nothing else stays active; no file outlives its record; orphans settle |
| `schedule_races` | `ScheduleRaces.cfg` | both pages save the hours of two days, three saves in all, while a client books and the barber leaves and returns: the inductive invariant of the proofs; a time is booked only within the hours that hold at its commit; offered is accepted unless saves tore the two documents apart; a save moves no day that it sends back as shown |

The type invariants and the other inductive invariants, which are proved, are not
repeated in the configurations, nor are `OnlyExpiredLeaseIsTaken`, `OnlyTickProlongsLease`,
`OneOpenEntryPerKey`, `ClosedIsFinal`, `TerminalIsFinal`,
`OutcomeOnlyAfterEnd`, `RejectedIsFinal`, `SentIsFinal`, `OneRunnerPerToken`, `LogIsFenced`, `StoppedIsQuiet`,
`CounterWithinLimit`, `AttendanceStaysTrue`, `AcceptedIsMember`, `StatusFollowsTable`,
`DeletedIsFinal` and `AccountedOnce`: section 5 proves them for every instance, these included.

Bounds, and why they are enough:

* Booking runs: the races in question have two parties, so two requests (or a
  request and the job) and two bookings of one barber. A slot of two minutes on
  an axis of four is the smallest in which old and new slot overlap partly and a
  second booking fits beside either. In `booking_expiration` two bookings with a
  batch of one are the smallest case in which a batch hides a missed booking; the
  two barbers keep apart what `booking_races` already covers, and only the first can be moved.
* Lease: two instances, since a third sees what a second sees; two tokens allow
  a takeover, and the proofs cover a takeover of a takeover; TTL 2 leaves room to
  renew before and after expiry; skew 1 makes one instance early.
* Waitlist: two entries of one key are what the unique index is about; two
  requests race; the job lists both entries, so that a run can be cut off between them; `MaxMade` 2 lets a second booking of one entry happen if it could.
* Creation: two requests, two bookings, one client and the specialist; limits 1
  and 2 so that a voucher reaches its limit and the owner can raise or lower it;
  `Earlier = Threshold = 2` makes the next booking earn a reward. The constraint
  `OneDisturbance` (in `MCBookingCreation`) keeps apart what meets in no document: either
  all requests carry the voucher and its owner edits it, or none does and the waitlist or
  a deletion meets requests for the reward, on one slot and, once it does, without keys.
  The proofs cover every mixture.
* Events: two users and two requests; limits 0, 1 and 2, so that the last place is
  contended, the limit is lowered under an approval, and a limit comes and goes.
  Attendance is marked for one of the users, as it touches no counter.
* Seats: two barbers and at most two seats, so that the last seat is contended; a
  trial and a period of one unit and two units of time (`MaxTime`, `MaxEnd`), so
  that a trial ends, a period is continued and one runs out.
* Payments: one attempt, since attempts meet only in the subscription; two requests
  that cancel or prepare; two payment events with a memory of one make the provider
  repeat what was forgotten. Seats and barbers are `seat_races`.
* Notices: one booking with two recipients of the early reminder, one of the late
  one, and one registration; two runs, so that a run is overtaken. The constraint
  `OneAtATime` (in `MCNotices`) shows a booking and a registration one at a time and
  the jobs of one booking one after the other: they share neither dispatches nor
  notifications, and the proofs do without it. It never cuts off a step of the
  announcement whose progress `CreatedIsNotified` claims.
* Media: one object meets every fault, with two runs of which one may die or outlive
  its lease (`MaxFaults` 1), and two failed runs allowed (`RetryLimit` 2, 8 in the
  code). Two objects meet only where one replaces the other, as avatar or
  certification; there the constraint `OneOrReplaced` (in `MCMedia`) leaves one run
  without faults that works on what is given up. Objects of different classes share
  no document, and the reconciliation treats every record by itself. Where the
  constraint cuts a state off, `OrphansSettle` is claimed of nothing that would need it.
* Schedules: two days, so that one is saved and the other left alone, and a week can be all
  off; a short and a long day, so that default hours differ; one tab of each page. Two
  saves overlap in every order; the third (`MaxSaves`) runs alone and meets no request
  (constraint `LastSaveAlone` in `MCSchedules`), which shows what the first two left behind.
  The settings page changes nothing, one day, or turns every day off (`Edits`).
* Symmetry is used over requests, days, barbers, bookings and slots that the model treats
  alike, and only where no liveness is checked.

Deadlock is not checked where the clock or the set of unused ids runs out, or where
nothing but the clock is left (all configurations but `BookingExpiration.cfg` and
`ScheduleRaces.cfg`): the
bounded system stops there.

### Fairness

* `BookingLifecycle!FairSpec`: weak fairness of the expiration job. The cron
  fires again and again and a run goes on once started; that some instance runs
  it is `ExpiredLeaseIsTaken`. A run that is cut off between two bookings is not modelled here. Requests and the clock promise nothing.
* `SchedulerLease!Fairness`: weak fairness of the steps of a runner that proceed
  by themselves (timers fire, calls return); strong fairness of reading and taking
  the lease, which other runners disable and enable again, and of the end of the
  job: a job that hangs renews its lease for ever, which the code does not bound.
  Failures and crashes are never fair.
* `Waitlist!Fairness`: of the job only; requests promise nothing. Weak fairness of the next
  write of a run, which `LoseLease` may cut off; strong fairness, for each entry, of a list
  that is read and of a write that lands while the entry is open. Runs come every hour, at
  moments that have nothing to do with those of a client who accepts and is refused again
  and again. The fairness is needed: with strong fairness of `ListPast` and `Expire` as they are,
  TLC finds the run in which every write falls between a claim and its `RestoreOffer`.
* `SalonSeats!Spec`, and the same in `PaymentsSpec` of `SubscriptionPayments`: weak fairness of the
  start of the expiration job, strong fairness of its write: runs are cut off when a
  lease is lost, but not all of them. No request and no payment is fair.
* `Notices!Fairness`: some process that is at work goes on; claims age, since the
  clock does; for the notice of a new booking strong fairness of the recovery job,
  of its claim, its check and its write: crashes, failures and takeovers meet some
  attempts and not all. Reminders have no such promise: a reminder whose hour has
  passed is not sent.
* `Media!Fairness`: weak fairness of a request's steps, of each run's steps, of time
  (records grow old, leases run out) and of `Acquire` for every record: the job is
  run every few minutes where it is enabled (`mediaReconciliationScheduler.js`), and a
  batch takes the records in the order in which they are due. Crashes are not fair;
  of the runs at most `MaxFaults` die or outlive their lease.
* `BookingCreation`, `EventRegistration` and `Schedules` state no liveness: a request may always fail.

### Finding

`early_expiry`: `extendManualSubscription` sets `trialEndsAt` to `undefined`
(`subscriptionManualMutations.js:462`), which Mongoose leaves out of an update, so the
end of the trial survives a paid renewal; the expiration job also selects by it
(`subscriptionExpiryMutations.js:137`). `docs/PRODUCTION_CHECKLIST.md:119` says that
the job does not expire active subscriptions prematurely.

### Observations

What the models show of the code and no document speaks about, or speaks about
differently in words that are no property; the properties state these cases as
their exceptions.

* Bookings: the reschedule request of a finished booking stays pending and can be
  accepted, which inserts holds that nothing releases (`bookingRescheduleController.js:271`);
  a rejection saved late overwrites an acceptance (`:390`).
* Waitlist: a late cancel overwrites a conversion and leaves its booking
  (`waitlistCreationService.js:130`); an entry stays `converting` after a crash;
  accept claims an offer of a past date before anything looks at the date (`waitlistConversionService.js:93`).
* Creation: the slower of two requests with one key is told that the time is taken
  (`bookingCreateService.js:223`); a deletion whose outcome stays unknown leaves a closed
  fence that refuses every retry (`accountDeletionService.js:219`); the conversion of a
  waitlist entry touches no fence; a discounted booking that expires keeps its reward claimed.
* Events: approvals without a limit are not counted when a limit comes later; a
  late cancel loses a counted place; check-in and a stale no-show split the fields of attendance.
* Seats: giving seats back on a stale read can raise the number of seats that was
  reduced meanwhile (`subscriptionService.js:224`).
* Payments: a cancellation overwrites an attempt that was paid since it was read; the
  status `expired` is saved in the transaction that the error then undoes
  (`subscriptionPaymentMutations.js:231`); a paid event repeated after the period ran
  out is answered with a conflict.
* Notices: inside a transaction a duplicate `internalHash` aborts it, so a run that
  died after writing a reminder makes the next one stop, and the recovery of a
  delivered booking notice fails again and again, where the comment at
  `bookingPostCommitDispatchService.js:179` expects a later owner to recover it; a booking
  that moved clears its fields (`bookingRescheduleController.js:298`) but not its
  dispatches, and is not reminded again.
* Media: a booking whose commit was not answered is compensated as if it had failed,
  so its pictures are deleted when the commit did land (`bookingCreateService.js:453`).
  An avatar whose commit is "proven" not to have happened is marked by its id alone
  (`profileMediaService.js:51`), also when the commit lands in between: the file stays,
  the record says that it is to be deleted. A profile form saved with the avatar as
  read (`userProfileUpdateService.js:163`) brings back one that was replaced meanwhile and
  leaves the record of the current one active, shown by nothing. A deleted photo keeps
  the fields that count as a reference, so a deletion that stopped half way ends manual
  where `portfolioMediaService.test.js:686` calls it recoverable. Records with a stage key
  always end manual: the local store has no `deleteStaged`. An upload of a photo or
  certification in flight while its account is deleted is attached afterwards.

* Schedules: the two pages write the default hours in opposite orders, so saves that overlap
  leave the copies apart, and the server takes the entry's, although the comment at
  `bookingSlotValidation.js:79` prefers the saved schedule; coming back to a salon makes an
  entry with 09:00 to 18:00 next to the old schedule. Once `explicitWeeklyDays` is stored
  (empty after "Use default hours", or after the first save of a date), days off saved on
  the settings page are ignored, where `docs/AI_PROJECT_CONTEXT.md:493` says that an explicit
  weekly day off must not fall back. Every save of the Schedule page sends the default
  hours it loaded and undoes those set meanwhile. A load that fails leaves an empty week,
  and the next save stores it. Reschedules and delays check the hours outside their
  transaction and touch no document of the schedule, so `BookedInsideHours` is about
  creation only. The schedule saved through `useScheduleManagement.js:209` is always
  refused (`scheduleController.js:171`).

## 5. What is proved

Each `...Proofs` module proves, for every value of the constants that satisfies
the module's assumption (types of the constants, finitely many bookings, users or
barbers), that the inductive invariant (`IInv`, `PaymentsInv`, `ScheduleInv`) holds, and derives the properties
from it. Every proof has a lemma per action or group of actions that write the
same variables.

| Module | Theorems |
|---|---|
| `BookingLifecycleProofs` | `TypeCorrect`, `Invariance`, `HoldsAlwaysCover`, `NeverDoubleBooked`, `FinishedForGood`, `OutcomesAreDue`, `ExpiriesAreDue`, `DelaysShiftTheStart`, `Refinement` (of `BookingCalendar`) |
| `SchedulerLeaseProofs` | `LeaseInvariance`, `LeaseTypes`, `TokensAreExclusive`, `WritesAreFenced`, `TakeoverOnlyAfterExpiry`, `StopIsQuiet`, `ProlongedInTick`, `ShortenedByOwner`, `LeaseRefinement` (of `FencedLog`) |
| `WaitlistProofs` | `WaitlistInvariance`, `WaitlistTypes`, `OneOpenEntry`, `BookingMatchesStatus`, `ClosedStaysClosed` |
| `BookingCreationProofs` | `CreationInvariance`, `CreationTypes`, `KeysBookOnce`, `RepliesAreOwn`, `VoucherIsCounted`, `VoucherStaysWithinLimit`, `RewardsAreClaimedOnce`, `BookingsOfLivingAccounts` |
| `EventRegistrationProofs` | `EventInvariance`, `EventTypes`, `PlacesAreCounted`, `CounterStaysWithinLimit`, `CapacityHolds`, `RejectionStands`, `AttendanceHolds` |
| `SubscriptionProofs` | of `SalonSeats`: `SeatsInvariance`, `SeatsTypes`, `SeatsCounted`, `PlanHolds`, `MembersAreAccepted`, `FormerMembersHold`, `ExpirationHolds`; of `SubscriptionPayments`: `PaymentsInvariance`, `PaymentsTypes`, `PaymentsApplyOnce`, `PaidTakesEffect`, `PaymentsAreAccounted`, `StatusHolds`, `PaymentsRefineSeats` (of `SalonSeats`) |
| `NoticesProofs` | `NoticesInvariance`, `NoticesTypes`, `SentMeansNotified`, `FieldsAreEarned`, `ClaimsAreKept`, `SentStaysSent` |
| `MediaAndSchedulesProofs` | of `Media`: `MediaInvariance`, `MediaTypes`, `ShownCanBeServed`, `DeletedFilesAreGone`, `DeletionIsFinal`; of `Schedules`: `ScheduleInvariance`, `ScheduleTypes`, `OfferedHolds`, `BookedHolds`, `UnchangedHolds` |

Why the invariants have the parts they have:

* Bookings: `NoDoubleBooking` is not inductive, because the slot check reads
  outside the transaction and proves nothing at the commit. What protects it is
  that a blocking booking holds all its minutes (`HoldsCoverBlocking`) and that a
  minute has one holder (`OneHolderPerMinute`, the index); a booking in creation
  has none yet (`UnbornIsBlank`, `TaskInv`). The three theorems about single steps
  add what requests and job captured (`Captured`): a clock that is not ahead, and for
  a delay a target that is an allowed amount after the start that the commit compares.
* Lease: an open write owns the lease it checked (`OpenWriteOwns`, because the
  document is locked), the sequence counts the log, tokens of runners never exceed the
  lease's (`TokenBound`) and the one that equals it is the holder's (`HolderAgrees`).
  That nobody else prolongs or ends a lease needs three facts more about what is in
  flight: a renewal belongs to a tick that still runs (`RenewalsInTick`), a captured
  clock lies in the past (`CapturedIsPast`), and no expiry is further away than a
  clock plus the TTL (`ExpiryBound`).
* Waitlist: the entry that is being converted belongs to one request
  (`ClaimIsExclusive`), which is why giving it back cannot undo another's conversion.
* Creation: operations match bookings one to one; a voucher's redemptions are its
  bookings; a redemption speaks of the booking in the state it says
  (`RewardsMatch`); and between a deletion's snapshot and its commit the fence is
  closed and no booking was missed (`FenceGuards`), which is what orders a
  creation and a deletion that write no common booking.
* Events: an event that always had a limit meets only requests that saw one
  (`TasksSawLimit`); the counter is the approved registrations and the places that
  late saves lost. Capacity follows from the two and the limit on the counter.
* Seats: the counter is the number of active seats and at most the seats bought;
  the job's clock is never ahead, which makes its condition true as it writes.
* Payments: an attempt that took effect is paid, refunded or was cancelled late, so
  that no way to confirm it is open again. `PaymentsRefineSeats` maps each payment to
  a step of `SalonSeats` and the rest to stutters; the fairness of both is the same
  formula over the same variables.
* Notices: who is about to mark a dispatch has written its notification, or tells of
  a booking the barber made (`TaskIsTrue`); a claim's token is why nobody else marks it.
* Media: neither property is inductive, because a file and its record change in different
  steps of different processes. `UploadInOrder` says what an upload relies on: before its
  commit no document shows its object, and a file in the staging directory belongs to an
  upload that is before its promotion or given up, with its stage key. `CleanupInOrder`
  says that a request takes away only what nothing will activate any more (`Doomed`).
  `RunInOrder` says the same of a run of the reconciliation: after `Claim` its object is
  doomed, before the file is deleted no document shows it, and a copy with a stage key
  never gets as far as `Finalize`, which is what keeps a file in the staging directory
  from outliving its record. A run that outlived its lease needs all of this as much as
  the holder: its `DeleteFile` asks for no lease, and only its writes are refused. Lemmas
  say once what a step must leave of an object to a request (`ObjectUntouched`) and to a
  run (`RunsUntouched`, `JobStep`), and the lemma of an action shows that it does.
  That a deleted record stays deleted (`DeletionIsFinal`) is proved from the same
  invariant: an upload before its activation keeps its stage key, so no run finalizes
  its record, and what a run writes back over a deleted record is deleted too. The one
  exception is an avatar given up although its commit could still land, whose record
  `markPending` opens again by its id alone (`profileMediaService.js:51`).
* Schedules: `OfferedIsAccepted` needs that a date off by its own hours is one of the days
  off, and the reverse (`DaysOffAgree`), which the server restores on every write, and that
  a save that is not torn goes on with the default hours it has written (`SavesInOrder`).
  `BookedInsideHours` needs what a transaction may rely on between its read and its
  commit (`GrantsHold`): a write in between makes the read stale, and none comes after
  the touch. `UnchangedDaysKeepHours` rests on lemmas about the operators: what a page
  shows has the hours of the Schedule (`ViewHours`), the hours depend on nothing but
  what is shown (`ShownHours`), and storing a Schedule keeps them (`SanitizedHours`).

Only model-checked: the liveness properties (`MissedBookingSettles`,
`ExpiredLeaseIsTaken`, `StopResolves`, `PastEntryCloses`, `OverIsEnded`,
`CreatedIsNotified`, `OrphansSettle`), as liveness and `ENABLED` are beyond the prover.
Every other property of a passing run is the subject of a theorem. Taken from MongoDB and not
proved: snapshot isolation with an abort on a write conflict, unique indexes, atomic
conditional updates.

## 6. What is not modelled

* The rows 11 and 12 of the plan, and the parts that are reads, serialization,
  credentials or rendering: see the components in `PROJECT.json`.
* Bookings: treatment records and prices; the side effects that run after the
  commit and that nothing waits for: sockets, the punch card, the call of the waitlist.
* Waitlist: `approveWaitlistEntry`, which its route does not reach; what becomes of
  an entry that stays `converting`, which no code looks at again.
* Creation: deposits, paid access, texts a deletion scrubs.
* Events: certificates and reviews; events older than their counter.
* Seats: the one-off grace for existing barbers, the seats of a deleted account,
  the cooldown and the limit of join requests, chair renters, administrators.
* Payments: deposits of bookings, amounts and currencies, the providers themselves
  (only a manual and a mock provider exist).
* Notices: bookings removed from the database, bookings without a client account,
  what a stopped run leaves of its list, delays below the unit of time.
* Schedules: the schedule of an independent barber (one document, written at once), administrators
  who edit for a barber, times as text and breaks, dates that pass and are cleaned away;
  other salons of the barber, and an entry whose membership is not approved yet: the settings
  page can save hours there too, which the model leaves out.
* Media: files from before the media store, the bytes themselves and how they are
  served, the revocation of a certificate by its organizer, which leaves its record as it is.
