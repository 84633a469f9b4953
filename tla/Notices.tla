------------------------------ MODULE Notices ------------------------------
(***************************************************************************)
(* The notices that go out after the fact: a new booking to its barber,    *)
(* the two reminders of a booking to its recipients, and the reminder of   *)
(* an event to a participant.                                              *)
(*                                                                         *)
(* Each notice has a dispatch: a process claims it, writes the             *)
(* notification, and marks the dispatch, in three transactions.  The       *)
(* scheduled jobs fence every transaction by their lease; the request that *)
(* created a booking delivers its notice at once, without a lease and      *)
(* without a session.  Notifications are unique by an idempotency key.     *)
(* Writing one again is answered with the existing one when there is no    *)
(* session; inside a transaction the duplicate key has already aborted the *)
(* transaction, and the read of the existing one fails.                    *)
(*                                                                         *)
(* One unit of time is the two hours of the late reminder; the early one   *)
(* goes out two units ahead, which stands for 24 hours.  The runs of a job *)
(* are shown one booking or registration at a time: a longer list is one   *)
(* that is older when it is used.                                          *)
(***************************************************************************)
EXTENDS Naturals, FiniteSets

CONSTANTS
  Booking,       \* bookings
  Registration,  \* registrations for events
  Notice,        \* what is told to one recipient: one dispatch each
  SubjectOf,     \* the booking or registration that each notice is about
  KindOf,        \* created, day, hours or event
  Worker,        \* runs of the scheduled jobs, on any instance
  Request,       \* HTTP requests that create a booking
  Starts,        \* the times at which bookings and events begin
  MaxTime        \* bound on the clock

Subject == Booking \cup Registration
Process == Worker \cup Request
Field   == {"day", "hours", "event"}

ASSUME NoticesAssumption ==
  /\ Booking \cap Registration = {}
  /\ Worker \cap Request = {}
  /\ SubjectOf \in [Notice -> Subject]
  /\ KindOf \in [Notice -> {"created"} \cup Field]
  /\ \A n \in Notice : KindOf[n] = "event" <=> SubjectOf[n] \in Registration
  /\ \A m, n \in Notice :
       KindOf[n] = "event" /\ SubjectOf[m] = SubjectOf[n] => m = n
  /\ Starts \subseteq Nat
  /\ MaxTime \in Nat

VARIABLES
  now,       \* the clock
  subject,   \* the bookings and registrations
  dispatch,  \* the dispatch of each notice
  notified,  \* the notices with a notification
  task       \* what each process is doing

vars == <<now, subject, dispatch, notified, task>>

NoDispatch == [status |-> "none", by |-> "nobody", fresh |-> FALSE]
Idle       == [pc |-> "idle"]

Reminds(n) == KindOf[n] \in {"day", "hours"}
JobOf(n)   == IF Reminds(n) THEN "reminders" ELSE KindOf[n]

\* The notices of one kind about one subject, the recipients of the code.
Siblings(n) == {m \in Notice : SubjectOf[m] = SubjectOf[n] /\ KindOf[m] = KindOf[n]}

\* The notice in hand, the time the run began, the notices still to be sent, and
\* whether this run has sent one.
Task == [pc : {"listed", "claimed", "notifying", "marking", "failing", "finalizing"},
         notice : Notice, at : Nat, left : SUBSET Notice, any : BOOLEAN]

Stored == [status : {"none", "waiting", "accepted", "over"},
           start : Nat, manual : BOOLEAN, reminded : SUBSET Field]

Dispatch == [status : {"none", "pending", "claimed", "failed", "sent"},
             by : Process \cup {"nobody"}, fresh : BOOLEAN]

TypeOK ==
  /\ now \in Nat
  /\ subject \in [Subject -> Stored]
  /\ dispatch \in [Notice -> Dispatch]
  /\ notified \in SUBSET Notice
  /\ task \in [Process -> Task \cup {Idle}]

Init ==
  /\ now = 0
  /\ subject \in [Subject -> [status : {"none"}, start : Starts, manual : {FALSE},
                              reminded : {{}}]]
  /\ dispatch = [n \in Notice |-> NoDispatch]
  /\ notified = {}
  /\ task = [p \in Process |-> Idle]

Tick ==
  /\ now < MaxTime
  /\ now' = now + 1
  /\ UNCHANGED <<subject, dispatch, notified, task>>

-----------------------------------------------------------------------------
\* What becomes of bookings and registrations

\* A booking is stored with the dispatch of its notice; the request goes on to
\* deliver it.  One that the barber makes is accepted at once.
Create(q, n, start, manual) ==
  LET b == SubjectOf[n] IN
  /\ task[q] = Idle
  /\ KindOf[n] = "created"
  /\ subject[b].status = "none"
  /\ start > now
  /\ subject' = [subject EXCEPT
       ![b].status = IF manual THEN "accepted" ELSE "waiting",
       ![b].start = start, ![b].manual = manual]
  /\ dispatch' = [dispatch EXCEPT ![n].status = "pending"]
  /\ task' = [task EXCEPT ![q] = [pc |-> "listed", notice |-> n, at |-> now,
                                  left |-> {n}, any |-> FALSE]]
  /\ UNCHANGED <<now, notified>>

Register(r) ==
  /\ subject[r].status = "none"
  /\ subject' = [subject EXCEPT ![r].status = "waiting"]
  /\ UNCHANGED <<now, dispatch, notified, task>>

Accept(s) ==
  /\ subject[s].status = "waiting"
  /\ subject' = [subject EXCEPT ![s].status = "accepted"]
  /\ UNCHANGED <<now, dispatch, notified, task>>

\* A booking ends for good; a registration may be approved again.
End(s) ==
  /\ subject[s].status \in {"waiting", "accepted"}
  /\ subject' = [subject EXCEPT
       ![s].status = IF s \in Booking THEN "over" ELSE "waiting"]
  /\ UNCHANGED <<now, dispatch, notified, task>>

\* Accepting a reschedule, whatever the booking has become, clears the reminder
\* fields, and leaves the dispatches as they are.
Move(b, start) ==
  /\ subject[b].status # "none"
  /\ start > now
  /\ subject' = [subject EXCEPT ![b].start = start, ![b].reminded = {}]
  /\ UNCHANGED <<now, dispatch, notified, task>>

\* The organizer sets another time for the event.
MoveEvent(r, start) ==
  /\ subject' = [subject EXCEPT ![r].start = start]
  /\ UNCHANGED <<now, dispatch, notified, task>>

-----------------------------------------------------------------------------
\* What is due

\* The late reminder goes before the early one, which is not sent any more once
\* the late one was.
Due(n, at) ==
  LET s == subject[SubjectOf[n]] IN
  /\ s.status = "accepted"
  /\ CASE KindOf[n] = "hours" ->
            /\ "hours" \notin s.reminded
            /\ s.start = at + 1
       [] KindOf[n] = "day" ->
            /\ s.reminded \cap {"day", "hours"} = {}
            /\ s.start = at + 2
       [] KindOf[n] = "event" -> s.start = at + 2
       [] OTHER -> FALSE

\* Mutant: a claim is never given up.
ClaimableOnce(n) ==
  CASE dispatch[n].status = "none"    -> KindOf[n] # "created"
    [] dispatch[n].status = "pending" -> TRUE
    [] dispatch[n].status = "failed"  -> KindOf[n] = "created" => ~dispatch[n].fresh
    [] OTHER -> FALSE

\* Whether the job finds a dispatch open: those of bookings exist from the
\* beginning and wait after a failure, those of reminders begin with a claim.
Claimable(n) ==
  CASE dispatch[n].status = "none"    -> KindOf[n] # "created"
    [] dispatch[n].status = "pending" -> TRUE
    [] dispatch[n].status = "failed"  -> KindOf[n] = "created" => ~dispatch[n].fresh
    [] dispatch[n].status = "claimed" -> ~dispatch[n].fresh
    [] OTHER -> FALSE

\* A claim becomes stale, or the time to wait after a failure has passed.
Age(n) ==
  /\ dispatch[n].status \in {"claimed", "failed"}
  /\ dispatch[n].fresh
  /\ dispatch' = [dispatch EXCEPT ![n].fresh = FALSE]
  /\ UNCHANGED <<now, subject, notified, task>>

-----------------------------------------------------------------------------
\* The runs

On(p, n, pc) == task[p] # Idle /\ task[p].pc = pc /\ task[p].notice = n

HoldsClaim(p, n) == dispatch[n].status = "claimed" /\ dispatch[n].by = p

\* A run starts with the lease of its job.  Whoever had it before writes nothing
\* more, for every write of a run is fenced.
Begin(w, n, left) ==
  /\ task[w] = Idle
  /\ task' = [p \in Process |->
       CASE p = w -> [pc |-> "listed", notice |-> n, at |-> now, left |-> left, any |-> FALSE]
         [] p # w /\ p \in Worker /\ task[p] # Idle
              /\ JobOf(task[p].notice) = JobOf(n) -> Idle
         [] OTHER -> task[p]]
  /\ UNCHANGED <<now, subject, dispatch, notified>>

StartRecovery(w, n) ==
  /\ KindOf[n] = "created"
  /\ Claimable(n)
  /\ Begin(w, n, {n})

StartReminders(w, n) ==
  /\ Reminds(n)
  /\ Due(n, now)
  /\ Begin(w, n, Siblings(n))

StartEventReminders(w, n) ==
  /\ KindOf[n] = "event"
  /\ Due(n, now)
  /\ "event" \notin subject[SubjectOf[n]].reminded
  /\ Begin(w, n, {n})

\* The next recipient of the same reminder or, after the last, the field of the
\* booking if this run reached anyone.
Proceed(p, any) ==
  LET left == task[p].left \ {task[p].notice} IN
  task' = [task EXCEPT ![p] =
    CASE left # {} -> [@ EXCEPT !.pc = "listed", !.left = left, !.any = any]
      [] left = {} /\ any -> [@ EXCEPT !.pc = "finalizing", !.left = left, !.any = any]
      [] OTHER -> Idle]

Rest(p) == task' = [task EXCEPT ![p] = Idle]

Claim(p, n) ==
  /\ task[p] # Idle /\ task[p].pc = "listed" /\ n \in task[p].left
  /\ Claimable(n)
  /\ dispatch' = [dispatch EXCEPT ![n] = [status |-> "claimed", by |-> p, fresh |-> TRUE]]
  /\ task' = [task EXCEPT ![p].pc = "claimed", ![p].notice = n]
  /\ UNCHANGED <<now, subject, notified>>

\* Someone else has the dispatch, or it is sent.  The event reminder then only
\* lacks its field.
PassOver(p, n) ==
  /\ task[p] # Idle /\ task[p].pc = "listed" /\ n \in task[p].left
  /\ ~Claimable(n)
  /\ IF Reminds(n)
     THEN LET left == task[p].left \ {n} IN
          task' = [task EXCEPT ![p] =
            IF left = {} /\ ~@.any THEN Idle
            ELSE [@ EXCEPT !.pc = IF left = {} THEN "finalizing" ELSE "listed",
                           !.notice = n, !.left = left]]
     ELSE IF KindOf[n] = "event" /\ dispatch[n].status = "sent"
          THEN task' = [task EXCEPT ![p].pc = "finalizing", ![p].notice = n]
          ELSE Rest(p)
  /\ UNCHANGED <<now, subject, dispatch, notified>>

\* The booking or registration is read again.  Nobody is told of a booking that
\* the barber made; an event reminder that was written is not written again.
Check(p, n) ==
  /\ On(p, n, "claimed")
  /\ task' = [task EXCEPT ![p].pc =
       CASE KindOf[n] = "created" /\ subject[SubjectOf[n]].manual -> "marking"
         [] KindOf[n] = "created" -> "notifying"
         [] ~Due(n, task[p].at) -> "failing"
         [] KindOf[n] = "event" /\ n \in notified -> "marking"
         [] OTHER -> "notifying"]
  /\ UNCHANGED <<now, subject, dispatch, notified>>

Notify(p, n) ==
  /\ On(p, n, "notifying")
  /\ n \in notified => p \in Request
  /\ notified' = notified \cup {n}
  /\ task' = [task EXCEPT ![p].pc = "marking"]
  /\ UNCHANGED <<now, subject, dispatch>>

\* The notification exists, and the transaction has failed with it: the run of a
\* reminder is over, the other one notes a failure.
NotifyAgain(p, n) ==
  /\ On(p, n, "notifying")
  /\ n \in notified /\ p \in Worker
  /\ IF KindOf[n] = "created" THEN task' = [task EXCEPT ![p].pc = "failing"] ELSE Rest(p)
  /\ UNCHANGED <<now, subject, dispatch, notified>>

\* Mutant: a notification that could not be written is taken as written.
TroubleSwallowed(p, n) ==
  /\ \E pc \in {"claimed", "notifying", "marking"} : On(p, n, pc)
  /\ task' = [task EXCEPT ![p].pc = "marking"]
  /\ UNCHANGED <<now, subject, dispatch, notified>>

\* Reading, writing or telling the sockets fails.
Trouble(p, n) ==
  /\ \E pc \in {"claimed", "notifying", "marking"} : On(p, n, pc)
  /\ task' = [task EXCEPT ![p].pc = "failing"]
  /\ UNCHANGED <<now, subject, dispatch, notified>>

\* Mutant: a failure is noted whoever holds the claim.
MarkFailedUnowned(p, n) ==
  /\ On(p, n, "failing")
  /\ dispatch' = [dispatch EXCEPT ![n] = [status |-> "failed", by |-> "nobody", fresh |-> TRUE]]
  /\ IF Reminds(n) THEN Proceed(p, task[p].any) ELSE Rest(p)
  /\ UNCHANGED <<now, subject, notified>>

MarkFailed(p, n) ==
  /\ On(p, n, "failing")
  /\ dispatch' = IF HoldsClaim(p, n)
                 THEN [dispatch EXCEPT ![n] = [status |-> "failed", by |-> "nobody", fresh |-> TRUE]]
                 ELSE dispatch
  /\ IF Reminds(n) THEN Proceed(p, task[p].any) ELSE Rest(p)
  /\ UNCHANGED <<now, subject, notified>>

MarkSent(p, n) ==
  /\ On(p, n, "marking")
  /\ dispatch' = IF HoldsClaim(p, n)
                 THEN [dispatch EXCEPT ![n] = [status |-> "sent", by |-> "nobody", fresh |-> FALSE]]
                 ELSE dispatch
  /\ CASE Reminds(n) -> Proceed(p, task[p].any \/ HoldsClaim(p, n))
       [] KindOf[n] = "event" /\ HoldsClaim(p, n) ->
            task' = [task EXCEPT ![p].pc = "finalizing"]
       [] OTHER -> Rest(p)
  /\ UNCHANGED <<now, subject, notified>>

\* Mutant: the field is set as soon as one recipient was reached.
FinalizeEarly(p, n) ==
  LET s == SubjectOf[n] IN
  /\ On(p, n, "finalizing")
  /\ subject' = IF Due(n, task[p].at)
                THEN [subject EXCEPT ![s].reminded = @ \cup {KindOf[n]}]
                ELSE subject
  /\ Rest(p)
  /\ UNCHANGED <<now, dispatch, notified>>

\* The field of the booking or registration, if the reminder is still the one due
\* and every recipient has it.
Finalize(p, n) ==
  LET s == SubjectOf[n] IN
  /\ On(p, n, "finalizing")
  /\ subject' = IF /\ Due(n, task[p].at)
                   /\ Reminds(n) => \A m \in Siblings(n) : dispatch[m].status = "sent"
                THEN [subject EXCEPT ![s].reminded = @ \cup {KindOf[n]}]
                ELSE subject
  /\ Rest(p)
  /\ UNCHANGED <<now, dispatch, notified>>

\* A process dies between two awaits, or a write of its fails in a way the run
\* does not survive.
Crash(p) ==
  /\ task[p] # Idle
  /\ Rest(p)
  /\ UNCHANGED <<now, subject, dispatch, notified>>

-----------------------------------------------------------------------------
Subjects ==
  \/ \E q \in Request, n \in Notice, start \in Starts, manual \in BOOLEAN :
       Create(q, n, start, manual)
  \/ \E r \in Registration : Register(r) \/ \E start \in Starts : MoveEvent(r, start)
  \/ \E s \in Subject : Accept(s) \/ End(s)
  \/ \E b \in Booking, start \in Starts : Move(b, start)

Runs == \E w \in Worker, n \in Notice :
  StartRecovery(w, n) \/ StartReminders(w, n) \/ StartEventReminders(w, n)

Advance(p) == \E n \in Notice :
  \/ Claim(p, n) \/ PassOver(p, n) \/ Check(p, n) \/ Notify(p, n) \/ NotifyAgain(p, n)
  \/ MarkFailed(p, n) \/ MarkSent(p, n) \/ Finalize(p, n)

Next ==
  \/ Tick
  \/ Subjects
  \/ Runs
  \/ \E n \in Notice : Age(n)
  \/ \E p \in Process : Advance(p) \/ Crash(p) \/ \E n \in Notice : Trouble(p, n)

\* Jobs run again and again and a process that lives goes on with what it does.
\* Crashes, takeovers and failures do not meet every attempt at the same notice.
Fairness ==
  /\ WF_vars(\E p \in Process : Advance(p))
  /\ \A n \in {m \in Notice : KindOf[m] = "created"} :
       /\ WF_vars(Age(n))
       /\ SF_vars(\E w \in Worker : StartRecovery(w, n))
       /\ SF_vars(\E p \in Process : Claim(p, n))
       /\ SF_vars(\E p \in Process : Check(p, n))
       /\ SF_vars(\E p \in Process : Notify(p, n))

Spec == Init /\ [][Next]_vars /\ Fairness

-----------------------------------------------------------------------------
Told(n) == n \in notified \/ (KindOf[n] = "created" /\ subject[SubjectOf[n]].manual)

\* A dispatch is sent only when its recipient has the notification, or when it
\* tells of a booking that the barber made.
SentIsNotified == \A n \in Notice : dispatch[n].status = "sent" => Told(n)

\* The reminder field of a booking, which stops its job, is set only when every
\* recipient has the reminder.
FieldMeansSent == \A n \in Notice :
  KindOf[n] \in subject[SubjectOf[n]].reminded =>
    dispatch[n].status = "sent" /\ n \in notified

\* While a claim is fresh only the process that made it ends it, and nobody takes
\* it over: two processes do not deliver the same notice at once.
FreshClaimIsKept == [][\A n \in Notice :
  dispatch[n].status = "claimed" /\ dispatch[n].fresh /\ dispatch'[n] # dispatch[n] =>
    \/ dispatch'[n] = [dispatch[n] EXCEPT !.fresh = FALSE]
    \/ On(dispatch[n].by, n, "marking") \/ On(dispatch[n].by, n, "failing")]_vars

\* A reminder is not sent twice, a new booking not announced twice, whatever
\* crashes, is claimed again, or is moved to another day.
SentIsFinal == [][\A n \in Notice :
  dispatch[n].status = "sent" => dispatch'[n].status = "sent"]_vars

\* A stored booking is announced in the end to a barber who did not make it.
CreatedIsNotified == \A n \in Notice :
  dispatch[n].status = "pending" ~> n \in notified \/ subject[SubjectOf[n]].manual

\* What a process is about to write is already true.
TaskIsTrue(p) == task[p] # Idle =>
  LET n == task[p].notice IN
  /\ task[p].left \subseteq Siblings(n)
  /\ KindOf[n] = "created" => dispatch[n].status # "none"
  /\ task[p].pc = "marking" => Told(n)
  /\ task[p].pc = "finalizing" =>
       Reminds(n) \/ (KindOf[n] = "event" /\ dispatch[n].status = "sent")

IInv ==
  /\ TypeOK
  /\ SentIsNotified
  /\ FieldMeansSent
  /\ \A p \in Process : TaskIsTrue(p)
  /\ \A n \in Notice : KindOf[n] = "created" /\ dispatch[n].status # "none" =>
       subject[SubjectOf[n]].status # "none"

=============================================================================
