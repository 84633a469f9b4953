------------------------------ MODULE Waitlist ------------------------------
(***************************************************************************)
(* The waitlist entries of one barber and one date, from creation through  *)
(* offer and answer to a booking.                                          *)
(*                                                                         *)
(* Most handlers end in one conditional update (findOneAndUpdate on the    *)
(* status they require) that repeats every condition they read before: the *)
(* read changes nothing and the handler is one action.  Split in steps are *)
(* the handlers that write on the strength of an earlier read: create,     *)
(* cancel and "mark notified" (document.save), the notification of a freed *)
(* slot, and the conversion, which claims the entry, validates, commits a  *)
(* transaction and gives the offer back when it fails.                     *)
(*                                                                         *)
(* approveWaitlistEntry is left out: its route answers 410 and no code of  *)
(* the server calls it.                                                    *)
(***************************************************************************)
EXTENDS Integers, FiniteSets

CONSTANTS
  Entry,      \* ids of the entries that may be created
  Key,        \* client, salon, service and preferred window
  KeyOf,      \* the key of each entry
  Slot,       \* times of the day that a booking can take
  NoTime,     \* offeredTime before the first offer
  Request,    \* HTTP requests in flight
  Crashes,    \* whether requests may die or lose the database halfway
  MaxMade     \* bound on the bookings made for one entry

ASSUME WaitlistAssumption ==
  /\ KeyOf \in [Entry -> Key]
  /\ NoTime \notin Slot
  /\ Crashes \in BOOLEAN
  /\ MaxMade \in Nat \ {0}

OpenStatus   == {"active", "notified", "offered"}
ClosedStatus == {"converted", "rejected", "cancelled", "expired"}
Status == {"unborn", "converting"} \cup OpenStatus \cup ClosedStatus

Idle == [pc |-> "idle"]
Task ==
  [pc   : {"creating", "cancelling", "marking", "notifying"},
   id   : Entry,
   time : Slot \cup {NoTime}]
  \cup
  [pc : {"claimed", "checked", "restoring"}, id : Entry, time : Slot]

VARIABLES
  entries,   \* the waitlistentries collection: status and offeredTime
  made,      \* how many bookings were created from each entry
  taken,     \* the slots of the day held by a booking
  past,      \* the date lies before today
  task,      \* what each request has done so far
  stale,     \* history: entries that a save overwrote after their status had moved on
  listed     \* the entries that the run of the expiration job has found and not come to yet

vars == <<entries, made, taken, past, task, stale, listed>>

TypeOK ==
  /\ entries \in [Entry -> [status : Status, time : Slot \cup {NoTime}]]
  /\ made \in [Entry -> Nat]
  /\ taken \subseteq Slot
  /\ past \in BOOLEAN
  /\ task \in [Request -> {Idle} \cup Task]
  /\ stale \subseteq Entry
  /\ listed \subseteq Entry

Init ==
  /\ entries = [e \in Entry |-> [status |-> "unborn", time |-> NoTime]]
  /\ made = [e \in Entry |-> 0]
  /\ taken = {}
  /\ past = FALSE
  /\ task = [r \in Request |-> Idle]
  /\ stale = {}
  /\ listed = {}

\* The unique index over the key of the open entries: another one is in the way.
OpenTwin(e) ==
  \E f \in Entry \ {e} : KeyOf[f] = KeyOf[e] /\ entries[f].status \in OpenStatus

SetStatus(e, status) == entries' = [entries EXCEPT ![e].status = status]

Goto(r, pc) == task' = [task EXCEPT ![r].pc = pc]

Start(r, pc, e) ==
  /\ task[r] = Idle
  /\ task' = [task EXCEPT ![r] = [pc |-> pc, id |-> e, time |-> entries[e].time]]

Finish(r) == task' = [task EXCEPT ![r] = Idle]

At(r, pc) == task[r].pc = pc

----------------------------------------------------------------------------
\* createWaitlistEntry.  The lock around it is local to one process.
StartCreate(r, e) ==
  /\ entries[e].status = "unborn" /\ \A q \in Request : task[q] # Idle => task[q].id # e
  /\ ~past
  /\ ~OpenTwin(e)
  /\ Start(r, "creating", e)
  /\ UNCHANGED <<entries, made, taken, past, stale, listed>>

FinishCreate(r) ==
  /\ At(r, "creating")
  /\ IF OpenTwin(task[r].id) THEN UNCHANGED entries ELSE SetStatus(task[r].id, "active")
  /\ Finish(r)
  /\ UNCHANGED <<made, taken, past, stale, listed>>

\* cancelWaitlistEntry and markNotified: find an entry they may act on ...
StartCancel(r, e) ==
  /\ entries[e].status \in {"active", "notified"}
  /\ Start(r, "cancelling", e)
  /\ UNCHANGED <<entries, made, taken, past, stale, listed>>

StartMark(r, e) ==
  /\ entries[e].status = "active"
  /\ Start(r, "marking", e)
  /\ UNCHANGED <<entries, made, taken, past, stale, listed>>

\* ... and save the document, whatever its status is by then.
Save(r, e, status) ==
  /\ SetStatus(e, status)
  /\ stale' = IF entries[e].status \in {"active", "notified"} THEN stale ELSE stale \cup {e}
  /\ Finish(r)
  /\ UNCHANGED <<made, taken, past, listed>>

SaveCancel(r) == At(r, "cancelling") /\ Save(r, task[r].id, "cancelled")

SaveMark(r) ==
  /\ At(r, "marking")
  /\ IF OpenTwin(task[r].id)
       THEN Finish(r) /\ UNCHANGED <<entries, made, taken, past, stale, listed>>
       ELSE Save(r, task[r].id, "notified")

\* notifyMatchingWaitlistEntries, after a booking of the day gave its slot back.
StartNotify(r, e) ==
  /\ ~past
  /\ entries[e].status = "active"
  /\ Start(r, "notifying", e)
  /\ UNCHANGED <<entries, made, taken, past, stale, listed>>

FinishNotify(r) ==
  /\ At(r, "notifying")
  /\ IF entries[task[r].id].status = "active"
       THEN SetStatus(task[r].id, "notified")
       ELSE UNCHANGED entries
  /\ Finish(r)
  /\ UNCHANGED <<made, taken, past, stale, listed>>

----------------------------------------------------------------------------
\* offerWaitlistEntry, declineWaitlistOffer, rejectWaitlistEntry
Offer(e, t) ==
  /\ entries[e].status \in {"active", "notified"}
  /\ entries' = [entries EXCEPT ![e] = [status |-> "offered", time |-> t]]
  /\ UNCHANGED <<made, taken, past, task, stale, listed>>

Decline(e) ==
  /\ entries[e].status = "offered"
  /\ SetStatus(e, "rejected")
  /\ UNCHANGED <<made, taken, past, task, stale, listed>>

Reject(e) ==
  /\ entries[e].status \in {"active", "notified"}
  /\ SetStatus(e, "rejected")
  /\ UNCHANGED <<made, taken, past, task, stale, listed>>

----------------------------------------------------------------------------
\* expirePastWaitlistEntries.  A run reads the open entries of the past first ...
ListOpen(status) ==
  /\ past
  /\ listed = {}
  /\ listed' = {e \in Entry : entries[e].status \in status}
  /\ UNCHANGED <<entries, made, taken, past, task, stale>>

\* Mutant: the run forgets the offers that nobody answered.
ListUnoffered == ListOpen({"active", "notified"})

ListPast == ListOpen(OpenStatus)

\* ... and comes to one after the other, in a fenced update that asks for an open
\* status again.  The date of an entry never changes, so it is past still.
Expire(e) ==
  /\ e \in listed
  /\ listed' = listed \ {e}
  /\ IF entries[e].status \in OpenStatus THEN SetStatus(e, "expired") ELSE UNCHANGED entries
  /\ UNCHANGED <<made, taken, past, task, stale>>

\* The lease is lost or the process dies: the write is refused, which ends the run.
\* The next run, of whichever instance takes the lease, reads its own list.
LoseLease ==
  /\ Crashes
  /\ listed # {}
  /\ listed' = {}
  /\ UNCHANGED <<entries, made, taken, past, task, stale>>

----------------------------------------------------------------------------
\* acceptWaitlistOffer: claim the offer first.
ClaimOffer(r, e) ==
  /\ entries[e].status = "offered"
  /\ entries[e].time # NoTime
  /\ SetStatus(e, "converting")
  /\ Start(r, "claimed", e)
  /\ UNCHANGED <<made, taken, past, stale, listed>>

\* The barber's paid access ran out, or the conversion context is not valid.
CheckConversion(r) ==
  /\ At(r, "claimed")
  /\ \/ Goto(r, "restoring")
     \/ ~past /\ task[r].time \notin taken /\ Goto(r, "checked")
  /\ UNCHANGED <<entries, made, taken, past, stale, listed>>

\* The transaction: slot holds, booking, and converting -> converted.  The
\* request may miss the answer to its commit.
Convert(r) ==
  LET e == task[r].id IN
  /\ At(r, "checked")
  /\ task[r].time \notin taken
  /\ entries[e].status = "converting"
  /\ made[e] < MaxMade
  /\ taken' = taken \cup {task[r].time}
  /\ made' = [made EXCEPT ![e] = @ + 1]
  /\ SetStatus(e, "converted")
  /\ Finish(r) \/ Goto(r, "restoring")
  /\ UNCHANGED <<past, stale, listed>>

FailConversion(r) ==
  /\ At(r, "checked")
  /\ \/ task[r].time \in taken
     \/ entries[task[r].id].status # "converting"
     \/ Crashes
  /\ Goto(r, "restoring")
  /\ UNCHANGED <<entries, made, taken, past, stale, listed>>

\* withTransaction runs its callback again, the validation included.
RetryConversion(r) ==
  /\ At(r, "checked")
  /\ Goto(r, "claimed")
  /\ UNCHANGED <<entries, made, taken, past, stale, listed>>

\* Mutant: the offer is given back without a look at the status.
RestoreOfferUnconditionally(r) ==
  /\ At(r, "restoring")
  /\ IF OpenTwin(task[r].id) THEN UNCHANGED entries ELSE SetStatus(task[r].id, "offered")
  /\ Finish(r)
  /\ UNCHANGED <<made, taken, past, stale, listed>>

RestoreOffer(r) ==
  /\ At(r, "restoring")
  /\ IF entries[task[r].id].status # "converting" \/ OpenTwin(task[r].id)
       THEN UNCHANGED entries
       ELSE SetStatus(task[r].id, "offered")
  /\ Finish(r)
  /\ UNCHANGED <<made, taken, past, stale, listed>>

\* An error before the handler has anything to undo, or a crash.
Abandon(r) ==
  /\ Crashes
  /\ task[r] # Idle
  /\ Finish(r)
  /\ UNCHANGED <<entries, made, taken, past, stale, listed>>

\* Bookings made and given back elsewhere, and midnight.
BookElsewhere(t) ==
  /\ t \notin taken
  /\ taken' = taken \cup {t}
  /\ UNCHANGED <<entries, made, past, task, stale, listed>>

FreeSlot(t) ==
  /\ t \in taken
  /\ taken' = taken \ {t}
  /\ UNCHANGED <<entries, made, past, task, stale, listed>>

DayEnds ==
  /\ ~past
  /\ past' = TRUE
  /\ UNCHANGED <<entries, made, taken, task, stale, listed>>

Next ==
  \/ \E r \in Request, e \in Entry :
       \/ StartCreate(r, e) \/ StartCancel(r, e) \/ StartMark(r, e)
       \/ StartNotify(r, e) \/ ClaimOffer(r, e)
  \/ \E r \in Request :
       \/ FinishCreate(r) \/ SaveCancel(r) \/ SaveMark(r) \/ FinishNotify(r)
       \/ CheckConversion(r) \/ Convert(r) \/ FailConversion(r) \/ RetryConversion(r)
       \/ RestoreOffer(r) \/ Abandon(r)
  \/ \E e \in Entry : \/ Decline(e) \/ Reject(e) \/ Expire(e)
                      \/ \E t \in Slot : Offer(e, t)
  \/ \E t \in Slot : BookElsewhere(t) \/ FreeSlot(t)
  \/ DayEnds \/ ListPast \/ LoseLease

Spec == Init /\ [][Next]_vars

Open(e) == entries[e].status \in OpenStatus

\* Only the job is fair.  A run works off its list unless it loses the lease; runs
\* come again and again, and neither their reads nor their writes meet an entry only
\* in the moments in which a request holds it, or lose the lease each time before.
\* Requests, answers to offers and midnight promise nothing.
Fairness ==
  /\ WF_vars(\E e \in Entry : Expire(e))
  /\ \A e \in Entry : SF_vars(ListPast /\ Open(e)) /\ SF_vars(Expire(e) /\ Open(e))

FairSpec == Spec /\ Fairness

----------------------------------------------------------------------------
\* At most one open entry per client, service and window, even when a failed
\* conversion or a late save reopens one.
OneOpenEntryPerKey ==
  \A e, f \in Entry :
    /\ e # f
    /\ KeyOf[e] = KeyOf[f]
    => ~(entries[e].status \in OpenStatus /\ entries[f].status \in OpenStatus)

\* Unless a late save hit it, an entry is "converted" exactly when one booking
\* was made of it, and no entry in any other status has a booking: decline,
\* expiration and rejection never leave a booking behind, accept never makes two.
BookedOnceWhenConverted ==
  \A e \in Entry \ stale :
    made[e] = IF entries[e].status = "converted" THEN 1 ELSE 0

Claims(r) == task[r].pc \in {"claimed", "checked", "restoring"}

\* A claim has one owner, who finds the entry as it left it.
ClaimIsExclusive ==
  \A r \in Request : Claims(r) /\ task[r].id \notin stale =>
    /\ entries[task[r].id].status \in
         IF At(r, "restoring") THEN {"converting", "converted"} ELSE {"converting"}
    /\ \A q \in Request \ {r} : Claims(q) => task[q].id # task[r].id

\* Only a request that creates an entry knows an entry that is not there yet.
CreationIsPrivate ==
  \A r \in Request : task[r] # Idle =>
    /\ At(r, "creating") => /\ entries[task[r].id].status = "unborn"
                            /\ \A q \in Request \ {r} : task[q] # Idle => task[q].id # task[r].id
    /\ ~At(r, "creating") => entries[task[r].id].status # "unborn"

IInv ==
  /\ TypeOK
  /\ OneOpenEntryPerKey
  /\ BookedOnceWhenConverted
  /\ ClaimIsExclusive
  /\ CreationIsPrivate

\* Unless a late save hit it, a closed entry keeps its status for good.
ClosedIsFinal ==
  [][\A e \in Entry \ stale' :
       entries[e].status \in ClosedStatus => entries'[e].status = entries[e].status]_vars

\* Once the date is over, no entry stays open, and from some moment on none is ever
\* open again: not one whose offer is accepted and given back over and over while
\* the job runs, nor one that was offered only after a run had listed it, nor one that
\* a late save or a failed conversion reopens after it had expired.  It ends closed,
\* or "converting" when its request is dead.
PastEntryCloses == \A e \in Entry : past ~> [](~Open(e))
=============================================================================
