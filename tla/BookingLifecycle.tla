-------------------------- MODULE BookingLifecycle --------------------------
(***************************************************************************)
(* The life of a booking and of the per-minute slot holds that protect it. *)
(*                                                                         *)
(* The state is what MongoDB holds (bookings, holds) plus what the server  *)
(* holds between two awaits of a request (task) or of the expiration job   *)
(* (sweep).  A request reads, validates and commits in separate steps, so  *)
(* that other requests, the job and the clock interleave at every await.   *)
(*                                                                         *)
(* A transaction that commits wrote the booking it re-read, so MongoDB     *)
(* aborts it if anyone else wrote that booking since: its re-read, its     *)
(* state checks and its writes are one atomic step (Commit...).  The slot  *)
(* validation is NOT inside it: it reads bookings and holds outside the    *)
(* session, and is a step of its own (Validate).                           *)
(*                                                                         *)
(* A date and a time of day are one minute on an axis 0 .. Horizon-1, cut  *)
(* into days of DayLength minutes.                                         *)
(***************************************************************************)
EXTENDS Integers, FiniteSets

CONSTANTS
  Booking,        \* ids of the bookings that may be created
  Barber,
  BarberOf,       \* barberId, fixed when a booking is created
  DurationOf,     \* duration, copied from the service at creation
  Manual,         \* bookings entered by the barber: no client, born accepted
  Request,        \* HTTP requests in flight
  Sweeper,        \* instances of the expiration job (cron and startup catch-up)
  Working,        \* the minutes each barber's schedule leaves open
  DelayChoices,   \* allowedBookingDelayMinutes
  Grace,          \* minutes after the start in which a delay is still accepted
  BatchSize,      \* EXPIRATION_BATCH_SIZE
  DayLength,
  Horizon         \* bound on the time axis

Minute == 0 .. (Horizon - 1)

ASSUME ConstantsAssumption ==
  /\ Horizon \in Nat \ {0}
  /\ DayLength \in Nat \ {0}
  /\ BatchSize \in Nat \ {0}
  /\ Grace \in Nat
  /\ DelayChoices \subseteq Nat \ {0}
  /\ BarberOf \in [Booking -> Barber]
  /\ DurationOf \in [Booking -> Nat \ {0}]
  /\ Manual \subseteq Booking
  /\ Working \in [Barber -> SUBSET Minute]

BlockingStatus == {"pending", "accepted"}
TerminalStatus ==
  {"completed", "rejected", "cancelled", "expired", "no_show", "late_cancelled"}
Status == {"unborn"} \cup BlockingStatus \cup TerminalStatus

BookingRecord ==
  [status  : Status,
   start   : Minute,
   delayed : BOOLEAN,
   req     : {"none", "pending", "accepted", "rejected"},   \* rescheduleRequest.status
   reqTo   : Minute]                                        \* requested date and time

Unborn ==
  [status |-> "unborn", start |-> 0, delayed |-> FALSE, req |-> "none", reqTo |-> 0]

\* What each status action of updateBooking and each outcome asks and writes.
StatusOp  == {"accept", "complete", "reject", "cancel"}
OutcomeOp == {"no_show", "late_cancelled"}
SlotOp    == {"create", "edit", "delay", "acceptRequest"}
SaveOp    == {"request", "rejectRequest"}

AllowedFrom(op) ==
  CASE op = "accept"   -> {"pending"}
    [] op = "complete" -> {"accepted"}
    [] OTHER           -> {"pending", "accepted"}

StatusAfter(op) ==
  CASE op = "accept"   -> "accepted"
    [] op = "complete" -> "completed"
    [] op = "reject"   -> "rejected"
    [] OTHER           -> "cancelled"

Idle == [pc |-> "idle"]

Task ==
  [pc     : {"loaded", "validated"},
   op     : StatusOp \cup OutcomeOp \cup SlotOp \cup SaveOp,
   id     : Booking,
   from   : Minute,             \* the start the request read
   target : Minute,             \* the start it wants
   at     : 0 .. Horizon]       \* the clock when it arrived

NewTask(op, b, from, target, at) ==
  [pc |-> "loaded", op |-> op, id |-> b, from |-> from, target |-> target, at |-> at]

VARIABLES
  bookings,   \* the bookings collection
  holds,      \* the bookingslotholds collection: pairs <<booking, minute>>
  task,       \* what each request has read so far
  sweep,      \* what each run of the expiration job has read so far
  now         \* the clock

vars == <<bookings, holds, task, sweep, now>>

IdleSweep == [pc |-> "idle", at |-> 0, batch |-> {}, full |-> FALSE, any |-> FALSE]

TypeOK ==
  /\ bookings \in [Booking -> BookingRecord]
  /\ holds \subseteq Booking \X Nat
  /\ task \in [Request -> {Idle} \cup Task]
  /\ sweep \in [Sweeper -> [pc    : {"idle", "scan", "work"},
                            at    : 0 .. Horizon,
                            batch : SUBSET Booking,
                            full  : BOOLEAN,
                            any   : BOOLEAN]]
  /\ now \in 0 .. Horizon

Init ==
  /\ bookings = [b \in Booking |-> Unborn]
  /\ holds = {}
  /\ task = [r \in Request |-> Idle]
  /\ sweep = [w \in Sweeper |-> IdleSweep]
  /\ now = 0

-----------------------------------------------------------------------------
(* Slots *)

Slot(b, s) == s .. (s + DurationOf[b] - 1)
Ends(b, s) == s + DurationOf[b]
Day(m) == m \div DayLength

Blocking(b) == bookings[b].status \in BlockingStatus
SameBarber(b, c) == BarberOf[b] = BarberOf[c]

Overlaps(b, s, c) ==
  /\ s < Ends(c, bookings[c].start)
  /\ Ends(b, s) > bookings[c].start

\* Another booking of the barber holds one of the minutes: the unique index on
\* (barber, date, minute) refuses to insert it.
HeldByOther(b, minutes) ==
  \E h \in holds : h[1] # b /\ SameBarber(b, h[1]) /\ h[2] \in minutes

\* What validation looks for: a hold, then an overlapping blocking booking.
Conflict(b, s) ==
  \/ HeldByOther(b, Slot(b, s))
  \/ \E c \in Booking \ {b} : SameBarber(b, c) /\ Blocking(c) /\ Overlaps(b, s, c)

FitsDay(b, s) == Day(Ends(b, s) - 1) = Day(s)

FitsSchedule(b, s) == Slot(b, s) \subseteq Working[BarberOf[b]]

ValidSlot(b, s) ==
  /\ s > now
  /\ FitsSchedule(b, s)
  /\ FitsDay(b, s)
  /\ ~ Conflict(b, s)

\* Mutant: the unique index is missing.
CreateHoldsUnindexed(b, minutes) == holds' = holds \cup ({b} \X minutes)

CreateHolds(b, minutes) ==
  /\ ~ HeldByOther(b, minutes)
  /\ holds' = holds \cup ({b} \X minutes)

\* Mutant: every minute of the old slot is deleted, the kept ones too.
MoveHoldsDroppingKept(b, from, to) ==
  LET gained == Slot(b, to) \ Slot(b, from)
  IN /\ ~ HeldByOther(b, gained)
     /\ holds' = (holds \cup ({b} \X gained)) \ ({b} \X Slot(b, from))

\* Only the minutes that are new are inserted, only those given up are deleted.
MoveHolds(b, from, to) ==
  LET gained == Slot(b, to) \ Slot(b, from)
      lost   == Slot(b, from) \ Slot(b, to)
  IN /\ ~ HeldByOther(b, gained)
     /\ holds' = (holds \cup ({b} \X gained)) \ ({b} \X lost)

ReleaseHolds(b) == holds' = {h \in holds : h[1] # b}

-----------------------------------------------------------------------------
(* Requests.  Start... is the handler up to its first transaction or save. *)

Start(r, t) ==
  /\ task[r] = Idle
  /\ task' = [task EXCEPT ![r] = t]
  /\ UNCHANGED <<bookings, holds, sweep, now>>

Finish(r) == task' = [task EXCEPT ![r] = Idle]

\* A booking id is a fresh ObjectId: no other request in flight creates it.
StartCreate(r, b, s) ==
  /\ bookings[b].status = "unborn"
  /\ \A q \in Request : task[q] # Idle => task[q].id # b
  /\ ValidSlot(b, s)
  /\ Start(r, NewTask("create", b, 0, s, 0))

StartStatus(r, b, op) ==
  /\ bookings[b].status \in AllowedFrom(op)
  /\ Start(r, NewTask(op, b, 0, 0, 0))

CanMarkOutcome(b, at) ==
  /\ bookings[b].status = "accepted"
  /\ Ends(b, bookings[b].start) <= at

StartOutcome(r, b, op) ==
  /\ CanMarkOutcome(b, now)
  /\ Start(r, NewTask(op, b, 0, 0, now))

\* A general edit may only repeat the date and time the handler just read.
StartEdit(r, b) ==
  /\ b \notin Manual
  /\ Blocking(b)
  /\ ValidSlot(b, bookings[b].start)
  /\ Start(r, NewTask("edit", b, 0, bookings[b].start, 0))

StartDelay(r, b, d) ==
  LET old == bookings[b].start
  IN /\ b \notin Manual
     /\ bookings[b].status = "accepted"
     /\ ~ bookings[b].delayed
     /\ now <= old + Grace
     /\ Day(old + d) = Day(old)
     /\ old + d \in Minute
     /\ Start(r, NewTask("delay", b, old, old + d, 0))

StartRequest(r, b, s) ==
  /\ b \notin Manual
  /\ Blocking(b)
  /\ bookings[b].req # "pending"
  /\ ValidSlot(b, s)
  /\ Start(r, NewTask("request", b, 0, s, 0))

\* Neither answer looks at the status of the booking.
StartAcceptRequest(r, b) ==
  /\ bookings[b].req = "pending"
  /\ Start(r, NewTask("acceptRequest", b, 0, 0, 0))

StartRejectRequest(r, b) ==
  /\ bookings[b].req = "pending"
  /\ Start(r, NewTask("rejectRequest", b, 0, 0, 0))

-----------------------------------------------------------------------------
(* The transaction or save that ends a request *)

Booked(r) == task[r].id
Doing(r, op) == task[r] # Idle /\ task[r].op = op

\* The slot the transaction validates: that of the request it re-read, or the
\* one the handler computed before it.
TargetNow(r) ==
  IF task[r].op = "acceptRequest" THEN bookings[Booked(r)].reqTo ELSE task[r].target

Validate(r) ==
  /\ task[r].pc = "loaded"
  /\ task[r].op \in SlotOp
  /\ Doing(r, "edit") => Blocking(Booked(r))
  /\ Doing(r, "acceptRequest") => bookings[Booked(r)].req = "pending"
  /\ ValidSlot(Booked(r), TargetNow(r))
  /\ task' = [task EXCEPT ![r].pc = "validated", ![r].target = TargetNow(r)]
  /\ UNCHANGED <<bookings, holds, sweep, now>>

\* withTransaction runs the callback again after a write conflict.
Retry(r) ==
  /\ task[r].pc = "validated"
  /\ task' = [task EXCEPT ![r].pc = "loaded"]
  /\ UNCHANGED <<bookings, holds, sweep, now>>

\* A check fails, a conflict is reported, the database errs, the server stops.
Abandon(r) ==
  /\ task[r] # Idle
  /\ Finish(r)
  /\ UNCHANGED <<bookings, holds, sweep, now>>

CommitCreate(r) ==
  LET b == Booked(r)
  IN /\ task[r].pc = "validated" /\ Doing(r, "create")
     /\ CreateHolds(b, Slot(b, task[r].target))
     /\ bookings' = [bookings EXCEPT ![b] =
          [Unborn EXCEPT !.status = IF b \in Manual THEN "accepted" ELSE "pending",
                         !.start = task[r].target]]
     /\ Finish(r)
     /\ UNCHANGED <<sweep, now>>

CommitStatus(r) ==
  LET b == Booked(r)
      op == task[r].op
  IN /\ task[r].pc = "loaded" /\ op \in StatusOp
     /\ bookings[b].status \in AllowedFrom(op)
     /\ bookings' = [bookings EXCEPT ![b].status = StatusAfter(op)]
     /\ IF StatusAfter(op) \in TerminalStatus THEN ReleaseHolds(b) ELSE UNCHANGED holds
     /\ Finish(r)
     /\ UNCHANGED <<sweep, now>>

CommitOutcome(r) ==
  LET b == Booked(r)
  IN /\ task[r].pc = "loaded" /\ task[r].op \in OutcomeOp
     /\ CanMarkOutcome(b, task[r].at)
     /\ bookings' = [bookings EXCEPT ![b].status = task[r].op]
     /\ ReleaseHolds(b)
     /\ Finish(r)
     /\ UNCHANGED <<sweep, now>>

CommitEdit(r) ==
  LET b == Booked(r)
  IN /\ task[r].pc = "validated" /\ Doing(r, "edit")
     /\ Blocking(b)
     /\ MoveHolds(b, bookings[b].start, task[r].target)
     /\ bookings' = [bookings EXCEPT ![b].start = task[r].target]
     /\ Finish(r)
     /\ UNCHANGED <<sweep, now>>

\* Mutant: the update does not compare the start with the one that was read.
CommitDelayUncompared(r) ==
  LET b == Booked(r)
  IN /\ task[r].pc = "validated" /\ Doing(r, "delay")
     /\ bookings[b].status = "accepted"
     /\ ~ bookings[b].delayed
     /\ MoveHolds(b, task[r].from, task[r].target)
     /\ bookings' = [bookings EXCEPT ![b].start = task[r].target, ![b].delayed = TRUE]
     /\ Finish(r)
     /\ UNCHANGED <<sweep, now>>

\* findOneAndUpdate compares the booking with the one read before the transaction.
CommitDelay(r) ==
  LET b == Booked(r)
  IN /\ task[r].pc = "validated" /\ Doing(r, "delay")
     /\ bookings[b].status = "accepted"
     /\ bookings[b].start = task[r].from
     /\ ~ bookings[b].delayed
     /\ MoveHolds(b, task[r].from, task[r].target)
     /\ bookings' = [bookings EXCEPT ![b].start = task[r].target, ![b].delayed = TRUE]
     /\ Finish(r)
     /\ UNCHANGED <<sweep, now>>

\* Mutant: the booking moves and its holds stay.
CommitAcceptRequestUnheld(r) ==
  LET b == Booked(r)
  IN /\ task[r].pc = "validated" /\ Doing(r, "acceptRequest")
     /\ bookings[b].req = "pending"
     /\ bookings[b].reqTo = task[r].target
     /\ bookings' = [bookings EXCEPT ![b].start = task[r].target, ![b].req = "accepted"]
     /\ Finish(r)
     /\ UNCHANGED <<holds, sweep, now>>

CommitAcceptRequest(r) ==
  LET b == Booked(r)
  IN /\ task[r].pc = "validated" /\ Doing(r, "acceptRequest")
     /\ bookings[b].req = "pending"
     /\ bookings[b].reqTo = task[r].target
     /\ MoveHolds(b, bookings[b].start, task[r].target)
     /\ bookings' = [bookings EXCEPT ![b].start = task[r].target, ![b].req = "accepted"]
     /\ Finish(r)
     /\ UNCHANGED <<sweep, now>>

\* Both of these save the document read earlier, without a transaction and
\* without a condition: only the fields the handler assigned are written.
SaveRequest(r) ==
  LET b == Booked(r)
  IN /\ task[r].pc = "loaded" /\ Doing(r, "request")
     /\ bookings' = [bookings EXCEPT ![b].req = "pending", ![b].reqTo = task[r].target]
     /\ Finish(r)
     /\ UNCHANGED <<holds, sweep, now>>

SaveRejectRequest(r) ==
  LET b == Booked(r)
  IN /\ task[r].pc = "loaded" /\ Doing(r, "rejectRequest")
     /\ bookings' = [bookings EXCEPT ![b].req = "rejected"]
     /\ Finish(r)
     /\ UNCHANGED <<holds, sweep, now>>

RequestStep(r) ==
  \/ \E b \in Booking :
       \/ \E s \in Minute : StartCreate(r, b, s) \/ StartRequest(r, b, s)
       \/ \E op \in StatusOp : StartStatus(r, b, op)
       \/ \E op \in OutcomeOp : StartOutcome(r, b, op)
       \/ \E d \in DelayChoices : StartDelay(r, b, d)
       \/ StartEdit(r, b)
       \/ StartAcceptRequest(r, b)
       \/ StartRejectRequest(r, b)
  \/ Validate(r)
  \/ Retry(r)
  \/ Abandon(r)
  \/ CommitCreate(r)
  \/ CommitStatus(r)
  \/ CommitOutcome(r)
  \/ CommitEdit(r)
  \/ CommitDelay(r)
  \/ CommitAcceptRequest(r)
  \/ SaveRequest(r)
  \/ SaveRejectRequest(r)

-----------------------------------------------------------------------------
(* The expiration job *)

ShouldExpire(b, at) == bookings[b].status = "pending" /\ bookings[b].start < at

\* Pending bookings of the job's day or of an earlier one.
Candidates(at) ==
  {b \in Booking : bookings[b].status = "pending" /\ Day(bookings[b].start) <= Day(at)}

\* Mutant: the query is not sorted.
IsFirstBatchUnsorted(S, C) ==
  /\ S \subseteq C
  /\ Cardinality(S) = IF Cardinality(C) < BatchSize THEN Cardinality(C) ELSE BatchSize

\* The first BatchSize of them in the order of date and time.
IsFirstBatch(S, C) ==
  /\ S \subseteq C
  /\ Cardinality(S) = IF Cardinality(C) < BatchSize THEN Cardinality(C) ELSE BatchSize
  /\ \A b \in S, c \in C \ S : bookings[b].start <= bookings[c].start

StartSweep(w) ==
  /\ sweep[w].pc = "idle"
  /\ sweep' = [sweep EXCEPT ![w].pc = "scan", ![w].at = now]
  /\ UNCHANGED <<bookings, holds, task, now>>

ReadBatch(w) ==
  /\ sweep[w].pc = "scan"
  /\ \E S \in SUBSET Booking :
       /\ IsFirstBatch(S, Candidates(sweep[w].at))
       /\ sweep' = [sweep EXCEPT ![w] =
            [pc |-> "work", at |-> sweep[w].at, any |-> FALSE,
             batch |-> {b \in S : ShouldExpire(b, sweep[w].at)},
             full |-> Cardinality(S) = BatchSize]]
  /\ UNCHANGED <<bookings, holds, task, now>>

\* Mutant: the booking is expired on the strength of the list.
SweepOneUnchecked(w, b) ==
  /\ sweep[w].pc = "work" /\ b \in sweep[w].batch
  /\ bookings' = [bookings EXCEPT ![b].status = "expired"]
  /\ ReleaseHolds(b)
  /\ sweep' = [sweep EXCEPT ![w].batch = @ \ {b}, ![w].any = TRUE]
  /\ UNCHANGED <<task, now>>

\* One fenced transaction per candidate, on the booking as it is now.
SweepOne(w, b) ==
  /\ sweep[w].pc = "work" /\ b \in sweep[w].batch
  /\ IF ShouldExpire(b, sweep[w].at)
     THEN /\ bookings' = [bookings EXCEPT ![b].status = "expired"]
          /\ ReleaseHolds(b)
          /\ sweep' = [sweep EXCEPT ![w].batch = @ \ {b}, ![w].any = TRUE]
     ELSE /\ sweep' = [sweep EXCEPT ![w].batch = @ \ {b}]
          /\ UNCHANGED <<bookings, holds>>
  /\ UNCHANGED <<task, now>>

\* A full batch that expired something is followed by another one.
EndBatch(w) ==
  /\ sweep[w].pc = "work" /\ sweep[w].batch = {}
  /\ sweep' = [sweep EXCEPT ![w] =
       IF sweep[w].full /\ sweep[w].any THEN [IdleSweep EXCEPT !.pc = "scan", !.at = sweep[w].at]
       ELSE IdleSweep]
  /\ UNCHANGED <<bookings, holds, task, now>>

SweepStep(w) ==
  \/ StartSweep(w)
  \/ ReadBatch(w)
  \/ \E b \in Booking : SweepOne(w, b)
  \/ EndBatch(w)

Tick ==
  /\ now < Horizon
  /\ now' = now + 1
  /\ UNCHANGED <<bookings, holds, task, sweep>>

Next ==
  \/ \E r \in Request : RequestStep(r)
  \/ \E w \in Sweeper : SweepStep(w)
  \/ Tick

Spec == Init /\ [][Next]_vars

\* The cron fires forever and a run of it, once started, goes on; requests
\* and the clock promise nothing.
FairSpec == Spec /\ \A w \in Sweeper : WF_vars(SweepStep(w))

-----------------------------------------------------------------------------
(* Properties *)

\* No two blocking bookings of a barber share a minute, whatever races they
\* were created, moved or delayed in: the promise of the slot holds.
NoDoubleBooking ==
  \A b, c \in Booking :
    b # c /\ SameBarber(b, c) /\ Blocking(b) /\ Blocking(c)
      => Slot(b, bookings[b].start) \cap Slot(c, bookings[c].start) = {}

\* A blocking booking holds exactly the minutes of its slot, through every
\* partial move of its holds: releasing or moving it never strands a minute.
Covered(b) ==
  /\ \A h \in holds : h[1] = b => h[2] \in Slot(b, bookings[b].start)
  /\ \A m \in Slot(b, bookings[b].start) : <<b, m>> \in holds

HoldsCoverBlocking == \A b \in Booking : Blocking(b) => Covered(b)

\* The unique index: no minute of a barber is held by two bookings.
OneHolderPerMinute ==
  \A g, h \in holds : SameBarber(g[1], h[1]) /\ g[2] = h[2] => g = h

\* A booking that does not exist yet has no holds and no reschedule request.
UnbornIsBlank ==
  \A b \in Booking :
    bookings[b].status = "unborn" =>
      bookings[b].req = "none" /\ \A h \in holds : h[1] # b

\* What a request in flight still relies on when it commits.
TaskInv ==
  \A r \in Request :
    /\ Doing(r, "create") => bookings[Booked(r)].status = "unborn"
    /\ \A q \in Request : Doing(r, "create") /\ task[q] # Idle /\ Booked(q) = Booked(r) => q = r
    /\ task[r] # Idle /\ ~ Doing(r, "create") => bookings[Booked(r)].status # "unborn"

\* The inductive invariant of the safety proofs.
IInv ==
  /\ TypeOK
  /\ HoldsCoverBlocking
  /\ OneHolderPerMinute
  /\ UnbornIsBlank
  /\ TaskInv

\* A booking that was completed, rejected, cancelled, expired or marked never
\* changes status again, even when the request that tries was let in before.
TerminalIsFinal ==
  [][\A b \in Booking :
       bookings[b].status \in TerminalStatus => bookings'[b].status = bookings[b].status]_vars

\* No-show and late cancellation are only recorded for a booking whose slot, as
\* it is at that moment, is over: not for one moved while the request was read.
OutcomeOnlyAfterEnd ==
  [][\A b \in Booking :
       bookings'[b].status \in OutcomeOp /\ bookings[b].status \notin OutcomeOp
         => bookings[b].status = "accepted" /\ Ends(b, bookings[b].start) <= now]_vars

\* The job expires a booking only if, as it is at that moment, it is pending and
\* its start has passed: not one accepted or moved since the job listed it.
ExpiryOnlyWhenMissed ==
  [][\A b \in Booking :
       bookings'[b].status = "expired" /\ bookings[b].status # "expired"
         => bookings[b].status = "pending" /\ bookings[b].start < now]_vars

\* A delay shifts the current start by an allowed amount, once: never a start
\* that an accepted reschedule request has replaced since the client asked.
DelayShiftsCurrentStart ==
  [][\A b \in Booking :
       bookings'[b].delayed # bookings[b].delayed
         => /\ bookings'[b].delayed
            /\ bookings'[b].start - bookings[b].start \in DelayChoices]_vars

\* A pending booking whose start has passed does not stay pending: the job ends
\* it, unless someone answers it or moves it first.
MissedBookingSettles ==
  \A b \in Booking :
    (bookings[b].status = "pending" /\ bookings[b].start < now)
      ~> (bookings[b].status # "pending" \/ bookings[b].start >= now)

\* The lifecycle implements the calendar: what a booking occupies is its slot
\* while it is pending or accepted.
Phase(b) ==
  CASE bookings[b].status = "unborn"         -> "none"
    [] bookings[b].status \in BlockingStatus -> "live"
    [] OTHER                                 -> "closed"

EntryMap ==
  [b \in Booking |->
     [phase |-> Phase(b), start |-> IF Blocking(b) THEN bookings[b].start ELSE 0]]

Calendar == INSTANCE BookingCalendar WITH entry <- EntryMap

ImplementsCalendar == Calendar!Spec
=============================================================================
