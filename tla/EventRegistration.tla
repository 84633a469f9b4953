------------------------- MODULE EventRegistration -------------------------
(***************************************************************************)
(* The registrations of one event and the counter that guards its          *)
(* capacity.                                                               *)
(*                                                                         *)
(* Every handler reads the event and the registration, decides, and writes *)
(* later.  Approving, and giving an approved place back, write under a     *)
(* condition on the status and move the counter in the same transaction;   *)
(* the other handlers save the document they read.  A save writes the      *)
(* fields whose value differs from the one that was read, and no others,   *)
(* whatever has become of the document meanwhile.                          *)
(*                                                                         *)
(* Events are as createEvent makes them, with a counter; those older than  *)
(* the counter, for which the capacity handlers answer 503, are left out.  *)
(***************************************************************************)
EXTENDS Integers, FiniteSets

CONSTANTS
  User,      \* who may register
  Marked,    \* users whose attendance is recorded
  Request,   \* HTTP requests in flight
  Limits     \* values of maxParticipants that an organizer chooses; 0 is no limit

ASSUME EventAssumption ==
  /\ Limits \subseteq Nat
  /\ IsFiniteSet(User)
  /\ Marked \subseteq User

Open        == {"pending", "waitlisted"}
Status      == {"none", "approved", "rejected", "cancelled"} \cup Open
Attendance  == {"pending", "attended", "no_show"}

RegistrationWith(S) == [status : S, attendance : Attendance, attended : BOOLEAN]
Registration   == RegistrationWith(Status)
NoRegistration == [status |-> "none", attendance |-> "pending", attended |-> FALSE]

Idle == [pc |-> "idle"]
\* What a request has read and goes on to use: the fields it decides by or will
\* assign, and the limit.
Task ==
  [pc : {"registering"}, id : User, read : RegistrationWith({"none", "cancelled"}), max : Nat]
  \cup
  [pc : {"waitlisting"}, id : User, read : RegistrationWith(Open \cup {"approved"}), max : Nat]
  \cup
  [pc : {"approving"}, id : User, max : Nat]
  \cup
  [pc : {"cancelling", "rejecting"}, id : User, read : [status : Open]]
  \cup
  [pc : {"attending", "missing"}, id : User, read : RegistrationWith({"approved"})]

VARIABLES
  event,     \* the event: whether its status is upcoming (not completed or
             \* cancelled), maxParticipants, approvedRegistrationCount
  reg,       \* the eventregistrations collection, unique per event and user
  task,      \* what each request has read so far
  leaked,    \* history: counted places that a save of an old copy did not return,
             \* while the event always had a limit
  uncapped   \* history: the event had no limit at some time

vars == <<event, reg, task, leaked, uncapped>>

Approved == {u \in User : reg[u].status = "approved"}

\* No place is left, judged by a limit that may have been read earlier.
FullAt(max) == max > 0 /\ Cardinality(Approved) >= max

TypeOK ==
  /\ event \in [upcoming : BOOLEAN, max : Nat, count : Nat]
  /\ reg \in [User -> Registration]
  /\ task \in [Request -> {Idle} \cup Task]
  /\ leaked \in Nat
  /\ uncapped \in BOOLEAN

Init ==
  /\ \E m \in Limits :
       /\ event = [upcoming |-> TRUE, max |-> m, count |-> 0]
       /\ uncapped = (m = 0)
  /\ reg = [u \in User |-> NoRegistration]
  /\ task = [r \in Request |-> Idle]
  /\ leaked = 0

At(r, pc) == task[r].pc = pc

Start(r, t) ==
  /\ task[r] = Idle
  /\ task' = [task EXCEPT ![r] = t]
  /\ UNCHANGED <<event, reg, leaked, uncapped>>

Finish(r) == task' = [task EXCEPT ![r] = Idle]

Answer(r) == Finish(r) /\ UNCHANGED <<event, reg, leaked, uncapped>>

\* document.save() after the fields of new were assigned: it writes those whose
\* value is not the one that was read.
Save(r, new) ==
  LET u   == task[r].id
      mod == {f \in DOMAIN new : new[f] # task[r].read[f]}
      doc == [f \in DOMAIN reg[u] |-> IF f \in mod THEN new[f] ELSE reg[u][f]]
  IN /\ reg' = [reg EXCEPT ![u] = doc]
     /\ leaked' = IF ~uncapped /\ reg[u].status = "approved" /\ doc.status # "approved"
                    THEN leaked + 1 ELSE leaked
     /\ Finish(r)
     /\ UNCHANGED <<event, uncapped>>

Fresh(status) == [status |-> status, attendance |-> "pending", attended |-> FALSE]

----------------------------------------------------------------------------
\* registerForEvent.  The approved registrations are counted between the reads
\* and the write, for no more than the choice of pending or waitlisted.
StartRegister(r, u) ==
  /\ event.upcoming
  /\ reg[u].status \in {"none", "cancelled"}
  /\ Start(r, [pc |-> "registering", id |-> u, read |-> reg[u], max |-> event.max])

\* The unique index over event and user refuses a second document.
FinishRegister(r) ==
  LET status == IF FullAt(task[r].max) THEN "waitlisted" ELSE "pending"
  IN /\ At(r, "registering")
     /\ IF task[r].read.status = "cancelled"
          THEN Save(r, Fresh(status))
          ELSE /\ IF reg[task[r].id].status = "none"
                    THEN reg' = [reg EXCEPT ![task[r].id] = Fresh(status)]
                    ELSE UNCHANGED reg
               /\ Finish(r)
               /\ UNCHANGED <<event, leaked, uncapped>>

\* cancelRegistration, by the participant.
StartCancel(r, u) ==
  /\ reg[u].status \in Open
  /\ Start(r, [pc |-> "cancelling", id |-> u, read |-> [status |-> reg[u].status]])

FinishCancel(r) ==
  /\ At(r, "cancelling")
  /\ Save(r, [status |-> "cancelled"])

\* approveRegistration.
StartApprove(r, u) ==
  /\ reg[u].status \in Open
  /\ ~FullAt(event.max)
  /\ Start(r, [pc |-> "approving", id |-> u, max |-> event.max])

\* Mutant: the capacity is checked where it was read, not where it is claimed.
ApproveUnclaimed(r) ==
  /\ At(r, "approving")
  /\ reg[task[r].id].status \in Open
  /\ reg' = [reg EXCEPT ![task[r].id] = Fresh("approved")]
  /\ event' = [event EXCEPT !.count = @ + (IF task[r].max > 0 THEN 1 ELSE 0)]
  /\ Finish(r)
  /\ UNCHANGED <<leaked, uncapped>>

\* With a limit as read, one transaction claims a place and approves; without
\* one, the registration is approved and nothing is counted.
Approve(r) ==
  /\ At(r, "approving")
  /\ reg[task[r].id].status \in Open
  /\ IF task[r].max > 0
       THEN /\ event.max > 0 /\ event.count < event.max
            /\ event' = [event EXCEPT !.count = @ + 1]
       ELSE UNCHANGED event
  /\ reg' = [reg EXCEPT ![task[r].id] = Fresh("approved")]
  /\ Finish(r)
  /\ UNCHANGED <<leaked, uncapped>>

RefuseApprove(r) ==
  /\ At(r, "approving")
  /\ \/ reg[task[r].id].status \notin Open
     \/ task[r].max > 0 /\ (event.max = 0 \/ event.count >= event.max)
  /\ Answer(r)

\* waitlistRegistration.
StartWaitlist(r, u) ==
  /\ reg[u].status \in Open \cup {"approved"}
  /\ reg[u].status = "approved" /\ event.max > 0 => event.count >= 1
  /\ Start(r, [pc |-> "waitlisting", id |-> u, read |-> reg[u], max |-> event.max])

Counted(r) == task[r].read.status = "approved" /\ task[r].max > 0

\* Mutant: the place is returned before the status is known to be approved still.
ReleaseTwice(r) ==
  /\ At(r, "waitlisting") /\ Counted(r)
  /\ event.max > 0 /\ event.count > 0
  /\ event' = [event EXCEPT !.count = @ - 1]
  /\ reg' = [reg EXCEPT ![task[r].id] = Fresh("waitlisted")]
  /\ Finish(r)
  /\ UNCHANGED <<leaked, uncapped>>

\* An approved registration of an event with a limit gives its place back in a
\* transaction ...
Release(r) ==
  /\ At(r, "waitlisting") /\ Counted(r)
  /\ event.max > 0 /\ event.count > 0
  /\ reg[task[r].id].status = "approved"
  /\ event' = [event EXCEPT !.count = @ - 1]
  /\ reg' = [reg EXCEPT ![task[r].id] = Fresh("waitlisted")]
  /\ Finish(r)
  /\ UNCHANGED <<leaked, uncapped>>

RefuseRelease(r) ==
  /\ At(r, "waitlisting") /\ Counted(r)
  /\ ~(event.max > 0 /\ event.count > 0 /\ reg[task[r].id].status = "approved")
  /\ Answer(r)

\* ... and any other is saved.
FinishWaitlist(r) ==
  /\ At(r, "waitlisting") /\ ~Counted(r)
  /\ Save(r, Fresh("waitlisted"))

\* rejectRegistration.
StartReject(r, u) ==
  /\ reg[u].status \in Open
  /\ Start(r, [pc |-> "rejecting", id |-> u, read |-> [status |-> reg[u].status]])

FinishReject(r) ==
  /\ At(r, "rejecting")
  /\ Save(r, [status |-> "rejected"])

\* updateAttendance and checkInRegistration.
StartAttend(r, u) ==
  /\ reg[u].status = "approved"
  /\ Start(r, [pc |-> "attending", id |-> u, read |-> reg[u]])

StartMiss(r, u) ==
  /\ reg[u].status = "approved"
  /\ Start(r, [pc |-> "missing", id |-> u, read |-> reg[u]])

FinishAttend(r) ==
  /\ At(r, "attending")
  /\ Save(r, [attendance |-> "attended", attended |-> TRUE])

FinishMiss(r) ==
  /\ At(r, "missing")
  /\ Save(r, [attendance |-> "no_show", attended |-> FALSE])

\* updateEvent: a limit is set where the counter allows it; no limit always.
\* The status is among the fields an organizer may send.
UpdateEvent(m, s) ==
  /\ m > 0 /\ m # event.max => event.count <= m
  /\ event' = [event EXCEPT !.max = m, !.upcoming = s]
  /\ uncapped' = (uncapped \/ m = 0)
  /\ leaked' = IF m = 0 THEN 0 ELSE leaked
  /\ UNCHANGED <<reg, task>>

CancelEvent ==
  /\ event' = [event EXCEPT !.upcoming = FALSE]
  /\ UNCHANGED <<reg, task, leaked, uncapped>>

\* A request fails or its process dies between two awaits.
Abandon(r) == task[r] # Idle /\ Answer(r)

----------------------------------------------------------------------------
Next ==
  \/ \E r \in Request, u \in User :
       \/ StartRegister(r, u) \/ StartCancel(r, u) \/ StartApprove(r, u)
       \/ StartWaitlist(r, u) \/ StartReject(r, u)
  \/ \E r \in Request, u \in Marked : StartAttend(r, u) \/ StartMiss(r, u)
  \/ \E r \in Request :
       \/ FinishRegister(r) \/ FinishCancel(r) \/ Approve(r) \/ RefuseApprove(r)
       \/ Release(r) \/ RefuseRelease(r) \/ FinishWaitlist(r) \/ FinishReject(r)
       \/ FinishAttend(r) \/ FinishMiss(r) \/ Abandon(r)
  \/ \E m \in Limits, s \in BOOLEAN : UpdateEvent(m, s)
  \/ CancelEvent

Spec == Init /\ [][Next]_vars

----------------------------------------------------------------------------
\* An event that always had a limit never has more approved participants than
\* that, however approvals, withdrawals and changes of the limit interleave.
NeverOverCapacity == ~uncapped => Cardinality(Approved) <= event.max

\* The counter of such an event is the number of approved participants and of
\* the places lost to late saves: nothing is counted or returned twice.
SeatsAreCounted == ~uncapped => event.count = Cardinality(Approved) + leaked

\* Whatever the history of its limit, the counter never exceeds the limit in
\* force: neither an approval nor a lower limit slips past the other.
CounterWithinLimit == event.max > 0 => event.count <= event.max

\* A request ends whose copy of u's registration is out of date.
EndsLate(u) ==
  \E r \in Request :
    /\ task[r].pc \notin {"idle", "approving"} /\ task'[r] = Idle
    /\ task[r].id = u
    /\ \E f \in DOMAIN task[r].read : task[r].read[f] # reg[u][f]

\* Present and absent exclude each other, and only who is approved is either.
AttendanceAgrees(d) ==
  /\ d.attended <=> d.attendance = "attended"
  /\ d.status # "approved" => d.attendance = "pending"

\* The two fields that record attendance stay in agreement with each other and
\* with the approval unless a request saves a copy that is out of date.
AttendanceStaysTrue ==
  [][\A u \in User : AttendanceAgrees(reg[u]) => AttendanceAgrees(reg'[u]) \/ EndsLate(u)]_vars

\* A rejection is final: no request brings the registration back unless it
\* saves a copy that the rejection has made out of date.
RejectedIsFinal ==
  [][\A u \in User : reg[u].status = "rejected" => reg'[u].status = "rejected" \/ EndsLate(u)]_vars

\* Without a limit nothing is counted, so a request that saw none must not meet
\* an event that always had one.
TasksSawLimit ==
  ~uncapped =>
    /\ event.max > 0
    /\ \A r \in Request :
         task[r].pc \in {"registering", "waitlisting", "approving"} => task[r].max > 0

IInv ==
  /\ TypeOK
  /\ TasksSawLimit
  /\ SeatsAreCounted
  /\ CounterWithinLimit
=============================================================================
