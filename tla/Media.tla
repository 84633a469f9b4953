------------------------------- MODULE Media -------------------------------
(***************************************************************************)
(* Uploaded pictures and files: a record in the database, a file in one of *)
(* two directories of the media store, and the document that shows it (a   *)
(* booking, a portfolio photo, a user's avatar, a certification of a       *)
(* barber's profile, a certificate of an event).                           *)
(*                                                                         *)
(* The store takes no part in the transactions of the database.  An upload *)
(* creates a staged record, writes the file, moves it to its final place,  *)
(* and activates the record in the transaction that makes the document     *)
(* point to it.  What is left behind is marked for deletion, and a         *)
(* scheduled job, on several instances, deletes it under a lease of its    *)
(* own on every record, or hands it over to a person (manual).             *)
(*                                                                         *)
(* All objects of one instance belong to one account.  The two fields of a *)
(* barber that hold his avatar are one here; a photo of the portfolio is   *)
(* one file here, and what the failure of its other file does to it is a   *)
(* failure of this one.                                                    *)
(***************************************************************************)
EXTENDS Naturals

CONSTANTS
  Object,      \* uploads, each with its record and its file
  Classes,     \* the functions from objects to media classes to start from
  Reconciler,  \* runs of the reconciliation job, on any instance
  RetryLimit,  \* failed runs after which a record is manual
  MaxFaults,   \* bound on crashes of runs and on leases outlived by a run
  None

Batch   == {"reference", "portfolio"}
Profile == {"avatar", "certification"}
Class   == Batch \cup Profile \cup {"certificate"}

ASSUME MediaAssumption ==
  /\ Classes \subseteq [Object -> Class]
  /\ RetryLimit \in Nat \ {0}
  /\ MaxFaults \in Nat
  /\ None \notin Object \cup Reconciler

VARIABLES
  class,     \* the media class of every object
  media,     \* the records
  staging,   \* the objects with a file in the staging directory
  stored,    \* the objects with a file in the active directory
  shown,     \* how documents refer to an object: none, live, or hidden, by
             \* a portfolio photo that was deleted and keeps its fields
  old,       \* the records older than the stage age of 24 hours
  lapsed,    \* the records whose lease is past its expiry
  task,      \* the next step of the request that works on an object
  expected,  \* the object its document showed when an upload began
  inflight,  \* the uploads whose commit may still take effect
  form,      \* the avatar in a profile form being saved
  erased,    \* the account was deleted
  run,       \* the runs of the reconciliation
  faults,    \* faults so far
  unsure,    \* history: the uploads whose commit was not answered
  restored   \* history: the avatars that saving a form brought back

vars == <<class, media, staging, stored, shown, old, lapsed, task, expected,
          inflight, form, erased, run, faults, unsure, restored>>

Status       == {"none", "staged", "active", "pending", "deleted", "failed"}
Reconcilable == {"staged", "pending", "failed"}

NoMedia == [status |-> "none", stageKey |-> FALSE, owner |-> FALSE,
            lease |-> None, retries |-> 0, manual |-> FALSE]
Idle    == [step |-> "idle"]

Init ==
  /\ class \in Classes
  /\ media = [o \in Object |-> NoMedia]
  /\ staging = {} /\ stored = {}
  /\ shown = [o \in Object |-> "none"]
  /\ old = {} /\ lapsed = {}
  /\ task = [o \in Object |-> "new"]
  /\ expected = [o \in Object |-> None]
  /\ inflight = {}
  /\ form = None
  /\ erased = FALSE
  /\ run = [r \in Reconciler |-> Idle]
  /\ faults = 0
  /\ unsure = {} /\ restored = {}

\* What an upload leaves alone until it attaches its object.
OfOthers == <<class, shown, old, lapsed, expected, form, erased, run, faults, restored>>

LiveOf(c) == {o \in Object : class[o] = c /\ shown[o] = "live"}

(***************************************************************************)
(* Uploads.                                                                *)
(***************************************************************************)

\* The document that an upload expects: the user's avatar as it is, or the
\* certification that it replaces, if any.
Expected(o) ==
  CASE class[o] = "avatar" /\ LiveOf("avatar") # {} -> LiveOf("avatar")
    [] class[o] = "certification" -> LiveOf("certification") \cup {None}
    [] OTHER -> {None}

\* A record is staged with the key of its staging file; references and
\* portfolio photos have no owner yet.
Begin(o) ==
  /\ task[o] = "new"
  /\ ~erased
  /\ \E e \in Expected(o) : expected' = [expected EXCEPT ![o] = e]
  /\ media' = [media EXCEPT ![o].status = "staged", ![o].stageKey = TRUE,
                            ![o].owner = class[o] \notin Batch]
  /\ task' = [task EXCEPT ![o] = "stage"]
  /\ UNCHANGED <<class, staging, stored, shown, old, lapsed, inflight, form,
                 erased, run, faults, unsure, restored>>

Stage(o) ==
  /\ task[o] = "stage"
  /\ staging' = staging \cup {o}
  /\ task' = [task EXCEPT ![o] = "promote"]
  /\ UNCHANGED <<media, stored, inflight, unsure, OfOthers>>

\* The statuses in which a failed upload can leave the record: profile media
\* are marked for deletion whatever their status, a certificate only while it
\* is staged; batch is what the other services write.  The update itself may
\* fail, which is ignored.
GivenUp(o, batch) ==
  {media[o].status} \cup
    IF class[o] \in Batch THEN batch
    ELSE IF class[o] \in Profile \/ media[o].status = "staged" THEN {"pending"}
    ELSE {}

\* The file could not be staged, or the other file of the photo or booking.
FailStage(o) ==
  /\ task[o] = "stage"
  /\ \E s \in GivenUp(o, {"failed", "staged"}) : media' = [media EXCEPT ![o].status = s]
  /\ task' = [task EXCEPT ![o] = "ended"]
  /\ UNCHANGED <<staging, stored, inflight, unsure, OfOthers>>

\* A reference then drops its stage key; the others keep theirs until they
\* are activated.
Promote(o) ==
  /\ task[o] = "promote"
  /\ o \in staging
  /\ staging' = staging \ {o}
  /\ stored' = stored \cup {o}
  /\ task' = [task EXCEPT ![o] = IF class[o] = "reference" THEN "clear" ELSE "attach"]
  /\ UNCHANGED <<media, inflight, unsure, OfOthers>>

\* A failed promotion takes the published file back; the staging file may be
\* gone already.  A booking that is refused before the promotion ends here too.
FailPromote(o) ==
  /\ task[o] = "promote"
  /\ staging' \in {staging, staging \ {o}}
  /\ \E s \in GivenUp(o, {"staged"}) : media' = [media EXCEPT ![o].status = s]
  /\ task' = [task EXCEPT ![o] = "ended"]
  /\ UNCHANGED <<stored, inflight, unsure, OfOthers>>

ClearStageKey(o) ==
  /\ task[o] = "clear"
  /\ \/ /\ media' = [media EXCEPT ![o].stageKey = FALSE]
        /\ task' = [task EXCEPT ![o] = "attach"]
     \/ /\ task' = [task EXCEPT ![o] = "compensate"]
        /\ UNCHANGED media
  /\ UNCHANGED <<staging, stored, inflight, unsure, OfOthers>>

\* The document still shows what the upload expects.
DocumentUnchanged(o) ==
  CASE class[o] = "avatar"        -> ~erased /\ LiveOf("avatar") \ {expected[o]} = {}
                                       /\ expected[o] \in LiveOf("avatar") \cup {None}
    [] class[o] = "certification" -> expected[o] \in LiveOf("certification") \cup {None}
    [] class[o] = "portfolio"     -> TRUE
    [] OTHER                      -> ~erased

\* Mutant: the activation matches the record by its identity alone.
BindableAnyStatus(o) ==
  /\ class[o] \in Batch => ~media[o].owner
  /\ class[o] = "reference" => ~media[o].stageKey
  /\ DocumentUnchanged(o)

\* The transaction finds the record as the upload left it.
Bindable(o) ==
  /\ media[o].status = "staged"
  /\ class[o] \in Batch => ~media[o].owner
  /\ class[o] = "reference" => ~media[o].stageKey
  /\ DocumentUnchanged(o)

\* Records that a document gives up are deleted by the reconciliation.
Retired(m) == IF m.status = "active" THEN [m EXCEPT !.status = "pending"] ELSE m

\* Show the object, activate its record, retire what was shown before.
Bind(o) ==
  /\ shown' = [x \in Object |-> CASE x = o           -> "live"
                                  [] x = expected[o] -> "none"
                                  [] OTHER           -> shown[x]]
  /\ media' = [x \in Object |->
       CASE x = o           -> [media[o] EXCEPT !.status = "active", !.stageKey = FALSE,
                                                !.owner = TRUE]
         [] x = expected[o] -> Retired(media[x])
         [] OTHER           -> media[x]]

Attach(o) ==
  /\ task[o] = "attach"
  /\ Bindable(o)
  /\ Bind(o)
  /\ task' = [task EXCEPT ![o] = "ended"]
  /\ UNCHANGED <<class, staging, stored, old, lapsed, expected, inflight, form, erased,
                 run, faults, unsure, restored>>

\* The commit is sent and not answered.  A booking treats this as any failure.
LoseCommit(o) ==
  /\ task[o] = "attach"
  /\ Bindable(o)
  /\ inflight' = inflight \cup {o}
  /\ unsure' = unsure \cup {o}
  /\ task' = [task EXCEPT ![o] = IF class[o] = "reference" THEN "compensate" ELSE "unsure"]
  /\ UNCHANGED <<media, staging, stored, OfOthers>>

LandCommit(o) ==
  /\ o \in inflight
  /\ Bindable(o)
  /\ Bind(o)
  /\ inflight' = inflight \ {o}
  /\ UNCHANGED <<class, staging, stored, old, lapsed, task, expected, form, erased,
                 run, faults, unsure, restored>>

DropCommit(o) ==
  /\ o \in inflight
  /\ inflight' = inflight \ {o}
  /\ UNCHANGED <<media, staging, stored, task, unsure, OfOthers>>

FailAttach(o) ==
  /\ task[o] = "attach"
  /\ \/ /\ class[o] \in Batch
        /\ task' = [task EXCEPT ![o] = "compensate"]
        /\ UNCHANGED media
     \/ /\ class[o] \notin Batch
        /\ \E s \in GivenUp(o, {}) : media' = [media EXCEPT ![o].status = s]
        /\ task' = [task EXCEPT ![o] = "ended"]
  /\ UNCHANGED <<staging, stored, inflight, unsure, OfOthers>>

\* Only the avatar service concludes from its reads that the commit did not
\* take effect; the others leave the record as it is.
LookAgain(o) ==
  /\ task[o] = "unsure"
  /\ \E next \in {"mark", "ended"} :
       /\ next = "mark" => /\ class[o] = "avatar"
                           /\ media[o].status = "staged" /\ shown[o] = "none"
                           /\ DocumentUnchanged(o)
       /\ task' = [task EXCEPT ![o] = next]
  /\ UNCHANGED <<media, staging, stored, inflight, unsure, OfOthers>>

MarkPending(o) ==
  /\ task[o] = "mark"
  /\ \E s \in GivenUp(o, {}) : media' = [media EXCEPT ![o].status = s]
  /\ task' = [task EXCEPT ![o] = "ended"]
  /\ UNCHANGED <<staging, stored, inflight, unsure, OfOthers>>

(***************************************************************************)
(* Deletion by the request itself: the compensation of a failed booking or *)
(* photo, and the deletion of a photo.                                     *)
(***************************************************************************)

\* The record is marked if it is bound to the document of this request, or
\* staged as this request left it, or marked for it already.
Markable(o) ==
  \/ media[o].owner /\ media[o].status \in {"active", "pending"}
  \/ ~media[o].owner /\ media[o].status = "staged"
       /\ media[o].stageKey = (class[o] = "portfolio")
  \/ class[o] = "portfolio" /\ media[o].status = "deleted"

Compensate(o) ==
  /\ task[o] = "compensate"
  /\ \/ /\ Markable(o)
        /\ media' = IF media[o].status = "deleted" THEN media
                    ELSE [media EXCEPT ![o].status = "pending", ![o].owner = TRUE]
        /\ task' = [task EXCEPT ![o] = "remove"]
     \/ /\ task' = [task EXCEPT ![o] = "ended"]
        /\ UNCHANGED media
  /\ UNCHANGED <<staging, stored, inflight, unsure, OfOthers>>

\* A deleted photo keeps its fields and is only no longer active.
DeletePhoto(o) ==
  /\ task[o] = "ended"
  /\ class[o] = "portfolio"
  /\ ~erased
  /\ shown[o] = "live"
  /\ Markable(o)
  /\ shown' = [shown EXCEPT ![o] = "hidden"]
  /\ media' = [media EXCEPT ![o].status = "pending"]
  /\ task' = [task EXCEPT ![o] = "remove"]
  /\ UNCHANGED <<class, staging, stored, old, lapsed, expected, inflight, form, erased,
                 run, faults, unsure, restored>>

\* Mutant: an error of the store counts as a file that is gone.
RemoveFileOrNot(o) ==
  /\ task[o] = "remove"
  /\ stored' \in {stored, stored \ {o}}
  /\ task' = [task EXCEPT ![o] = "settle"]
  /\ UNCHANGED <<media, staging, inflight, unsure, OfOthers>>

RemoveFile(o) ==
  /\ task[o] = "remove"
  /\ \/ /\ stored' = stored \ {o}
        /\ task' = [task EXCEPT ![o] = "settle"]
     \/ /\ task' = [task EXCEPT ![o] = "ended"]
        /\ UNCHANGED stored
  /\ UNCHANGED <<media, staging, inflight, unsure, OfOthers>>

SettleDeleted(o) ==
  /\ task[o] = "settle"
  /\ media' = IF media[o].status = "pending" THEN [media EXCEPT ![o].status = "deleted"]
              ELSE media
  /\ task' = [task EXCEPT ![o] = "ended"]
  /\ UNCHANGED <<staging, stored, inflight, unsure, OfOthers>>

\* The process of a request dies between two steps.
Crash(o) ==
  /\ task[o] \notin {"new", "ended"}
  /\ task' = [task EXCEPT ![o] = "ended"]
  /\ UNCHANGED <<media, staging, stored, inflight, unsure, OfOthers>>

(***************************************************************************)
(* What else changes the documents.                                        *)
(***************************************************************************)

\* The avatar is cleared, or a certification deleted.
Clear(o) ==
  /\ class[o] \in Profile
  /\ shown[o] = "live"
  /\ ~erased
  /\ shown' = [shown EXCEPT ![o] = "none"]
  /\ media' = [media EXCEPT ![o] = Retired(media[o])]
  /\ UNCHANGED <<class, staging, stored, old, lapsed, task, expected, inflight, form,
                 erased, run, faults, unsure, restored>>

\* A profile form that sends the avatar back as the request has read it
\* writes it, whatever the avatar is by then.
OpenForm(o) ==
  /\ form = None
  /\ o \in LiveOf("avatar")
  /\ form' = o
  /\ UNCHANGED <<class, media, staging, stored, shown, old, lapsed, task, expected,
                 inflight, erased, run, faults, unsure, restored>>

SaveForm ==
  /\ form # None
  /\ IF erased \/ shown[form] = "live" THEN UNCHANGED <<shown, restored>>
     ELSE /\ shown' = [x \in Object |-> IF x = form THEN "live"
                                        ELSE IF class[x] = "avatar" THEN "none" ELSE shown[x]]
          /\ restored' = restored \cup {form} \cup LiveOf("avatar")
  /\ form' = None
  /\ UNCHANGED <<class, media, staging, stored, old, lapsed, task, expected, inflight,
                 erased, run, faults, unsure>>

\* The account is deleted: no document refers to its files any more, and
\* every active record is marked.
DeleteAccount ==
  /\ ~erased
  /\ erased' = TRUE
  /\ shown' = [o \in Object |-> "none"]
  /\ media' = [o \in Object |-> Retired(media[o])]
  /\ UNCHANGED <<class, staging, stored, old, lapsed, task, expected, inflight, form,
                 run, faults, unsure, restored>>

(***************************************************************************)
(* The reconciliation.                                                     *)
(***************************************************************************)

OfUploads == <<class, staging, shown, old, task, expected, inflight, form, erased,
               unsure, restored>>

GrowOld(o) ==
  /\ media[o].status # "none"
  /\ o \notin old
  /\ old' = old \cup {o}
  /\ UNCHANGED <<class, media, staging, stored, shown, lapsed, task, expected, inflight,
                 form, erased, run, faults, unsure, restored>>

\* Mutant: the lease of a run that died is never taken over.
DueUnleased(o) ==
  /\ media[o].status \in Reconcilable
  /\ ~media[o].manual
  /\ media[o].status = "staged" => o \in old
  /\ media[o].lease = None

Due(o) ==
  /\ media[o].status \in Reconcilable
  /\ ~media[o].manual
  /\ media[o].status = "staged" => o \in old
  /\ media[o].lease = None \/ o \in lapsed

\* The run goes on with its copy of the record.
Acquire(r, o) ==
  /\ run[r] = Idle
  /\ Due(o)
  /\ media' = [media EXCEPT ![o].lease = r]
  /\ lapsed' = lapsed \ {o}
  /\ run' = [run EXCEPT ![r] =
       [step |-> IF media[o].status = "staged" THEN "claim" ELSE "inspect",
        object |-> o, wasStaged |-> media[o].status = "staged", copy |-> media'[o]]]
  /\ UNCHANGED <<stored, faults, OfUploads>>

\* The lease token of the run is the one in the record.
Holds(r) == media[run[r].object].lease = r

Finish(r) == run' = [run EXCEPT ![r] = Idle]

\* A staged record is claimed first, so that its upload cannot activate it.
Claim(r) ==
  /\ run[r].step = "claim"
  /\ LET o == run[r].object
     IN IF Holds(r) /\ media[o].status = "staged"
        THEN /\ media' = [media EXCEPT ![o].status = "pending"]
             /\ run' = [run EXCEPT ![r].step = "inspect", ![r].copy.status = "pending"]
        ELSE Finish(r) /\ UNCHANGED media
  /\ UNCHANGED <<stored, lapsed, faults, OfUploads>>

\* Write m and drop the lease, if the run still holds it and the status is
\* that of its copy.
Release(r, m) ==
  LET o == run[r].object
      mine == Holds(r) /\ media[o].status = run[r].copy.status
  IN /\ media' = IF mine THEN [media EXCEPT ![o] = [m EXCEPT !.lease = None]] ELSE media
     /\ lapsed' = IF mine THEN lapsed \ {o} ELSE lapsed
     /\ Finish(r)
     /\ UNCHANGED <<stored, faults, OfUploads>>

\* Mutant: one run more than the limit.
CountedPastLimit(r, limit) ==
  LET n == run[r].copy.retries + 1
  IN [media[run[r].object] EXCEPT !.retries = n, !.manual = n > limit]

\* The record after one more failed run.
Counted(r, limit) ==
  LET n == run[r].copy.retries + 1
  IN [media[run[r].object] EXCEPT !.retries = n, !.manual = n >= limit]

\* No document refers to the object; a record without an owner is only
\* trusted in the run that claimed it.
Unused(r, m) ==
  /\ shown[run[r].object] = "none"
  /\ m.status = "pending" /\ ~m.owner => run[r].wasStaged

\* Failed uploads are left to a person.  So are records with a stage key:
\* the store cannot delete staging files.
Inspect(r) ==
  /\ run[r].step = "inspect"
  /\ LET m == run[r].copy
     IN CASE m.status = "failed"   -> Release(r, [media[run[r].object] EXCEPT !.manual = TRUE])
          [] m.status # "failed" /\ ~Unused(r, m) -> Release(r, Counted(r, RetryLimit))
          [] m.status # "failed" /\ Unused(r, m) /\ m.stageKey -> Release(r, Counted(r, 1))
          [] OTHER -> /\ run' = [run EXCEPT ![r].step = "recheck"]
                      /\ UNCHANGED <<media, stored, lapsed, faults, OfUploads>>

\* The record is read again under the lease, and the references looked up
\* once more.
Recheck(r) ==
  /\ run[r].step = "recheck"
  /\ LET o == run[r].object
     IN CASE ~Holds(r) \/ media[o].status \notin Reconcilable ->
               Finish(r) /\ UNCHANGED <<media, stored, lapsed, faults, OfUploads>>
          [] OTHER ->
               /\ run' = [run EXCEPT ![r].copy = media[o],
                                      ![r].step = IF Unused(r, media[o]) THEN "delete" ELSE "retry"]
               /\ UNCHANGED <<media, stored, lapsed, faults, OfUploads>>

\* The file is deleted, unless the record has got a stage key.
DeleteFile(r) ==
  /\ run[r].step = "delete"
  /\ IF run[r].copy.stageKey
     THEN Release(r, Counted(r, 1))
     ELSE /\ stored' = stored \ {run[r].object}
          /\ run' = [run EXCEPT ![r].step = "finalize"]
          /\ UNCHANGED <<media, lapsed, faults, OfUploads>>

Finalize(r) ==
  /\ run[r].step = "finalize"
  /\ Release(r, [media[run[r].object] EXCEPT !.status = "deleted", !.retries = 0,
                                             !.manual = FALSE])

\* A document refers to the object again, a lookup or the store fails, or the
\* job has lost its own lease.
FailRun(r) ==
  /\ \/ run[r].step \in {"recheck", "retry", "delete", "finalize"}
     \/ run[r].step = "inspect" /\ run[r].copy.status # "failed"
  /\ Release(r, Counted(r, RetryLimit))

\* The process of a run dies, or the job has lost its lease before it began.
CrashRun(r) ==
  /\ run[r] # Idle
  /\ faults < MaxFaults
  /\ faults' = faults + 1
  /\ Finish(r)
  /\ UNCHANGED <<media, stored, lapsed, OfUploads>>

\* A lease runs out; that its run is still alive is a fault.
Lapse(o) ==
  /\ media[o].lease # None
  /\ o \notin lapsed
  /\ LET alive == run[media[o].lease] # Idle /\ run[media[o].lease].object = o
     IN /\ alive => faults < MaxFaults
        /\ faults' = IF alive THEN faults + 1 ELSE faults
  /\ lapsed' = lapsed \cup {o}
  /\ UNCHANGED <<media, stored, run, OfUploads>>

(***************************************************************************)
(* The specification.                                                      *)
(***************************************************************************)

RequestStep(o) ==
  \/ Stage(o) \/ FailStage(o) \/ Promote(o) \/ FailPromote(o) \/ ClearStageKey(o)
  \/ Attach(o) \/ LoseCommit(o) \/ FailAttach(o) \/ LookAgain(o) \/ MarkPending(o)
  \/ Compensate(o) \/ RemoveFile(o) \/ SettleDeleted(o)

RunStep(r) ==
  Claim(r) \/ Inspect(r) \/ Recheck(r) \/ DeleteFile(r) \/ Finalize(r) \/ FailRun(r)

Next ==
  \/ \E o \in Object : Begin(o) \/ RequestStep(o) \/ LandCommit(o) \/ DropCommit(o)
                       \/ DeletePhoto(o) \/ Crash(o) \/ Clear(o) \/ OpenForm(o)
                       \/ GrowOld(o) \/ Lapse(o)
  \/ \E r \in Reconciler : RunStep(r) \/ CrashRun(r) \/ \E o \in Object : Acquire(r, o)
  \/ SaveForm
  \/ DeleteAccount

\* Requests and runs of the job go on unless they crash, the job is run again
\* and again, and time passes.
Fairness ==
  /\ \A o \in Object : /\ WF_vars(RequestStep(o))
                       /\ WF_vars(GrowOld(o))
                       /\ WF_vars(Lapse(o))
                       /\ WF_vars(\E r \in Reconciler : Acquire(r, o))
  /\ \A r \in Reconciler : WF_vars(RunStep(r))

Spec     == Init /\ [][Next]_vars
FairSpec == Spec /\ Fairness

(***************************************************************************)
(* What is checked.                                                        *)
(***************************************************************************)

Records == [status : Status, stageKey : BOOLEAN, owner : BOOLEAN,
            lease : Reconciler \cup {None}, retries : 0..RetryLimit, manual : BOOLEAN]

Runs == [step : {"claim", "inspect", "recheck", "retry", "delete", "finalize"},
         object : Object, wasStaged : BOOLEAN, copy : Records]

Steps == {"new", "stage", "promote", "clear", "attach", "unsure", "mark", "compensate",
          "remove", "settle", "ended"}

\* Every variable stays in its range; in particular a record is manual before
\* its failed runs exceed the limit.
TypeOK ==
  /\ class \in [Object -> Class]
  /\ media \in [Object -> Records]
  /\ staging \subseteq Object /\ stored \subseteq Object
  /\ shown \in [Object -> {"none", "live", "hidden"}]
  /\ old \subseteq Object /\ lapsed \subseteq Object
  /\ task \in [Object -> Steps]
  /\ expected \in [Object -> Object \cup {None}]
  /\ inflight \subseteq Object
  /\ form \in Object \cup {None}
  /\ erased \in BOOLEAN
  /\ run \in [Reconciler -> {Idle} \cup Runs]
  /\ faults \in 0..MaxFaults
  /\ unsure \subseteq Object /\ restored \subseteq Object

\* What a document shows can be served: its record is active and its file is
\* there, through every failure of the upload, every lost commit and whatever
\* the reconciliation does.  And no record is active, which is out of reach of
\* the reconciliation for good, that no document shows.  The exceptions are
\* those of the code: a booking whose commit was not answered deletes the
\* pictures all the same, an avatar whose late commit was taken for none is
\* marked but keeps its file, and a profile form brings an old avatar back.
MediaMatchesDocuments ==
  \A o \in Object \ restored :
    /\ shown[o] = "live" /\ ~(class[o] = "reference" /\ o \in unsure) =>
         /\ o \in stored
         /\ media[o].status = "active" \/ (class[o] = "avatar" /\ o \in unsure)
    /\ media[o].status = "active" => shown[o] = "live"

\* A record that says deleted leaves no file behind in either directory: the
\* record is the only thing that leads to the file.
DeletedLeavesNoFile ==
  \A o \in Object : media[o].status = "deleted" => o \notin staging \cup stored

\* A deletion is final: neither a failing or compensating request, nor the deletion of
\* a photo, nor a run that outlived its lease puts a deleted record back among those
\* to be reconciled, except for an avatar whose late commit was taken for none.
DeletedIsFinal ==
  [][\A o \in Object :
       media[o].status = "deleted" /\ ~(class[o] = "avatar" /\ o \in unsure) =>
         media'[o].status = "deleted"]_vars

\* What these two rest on.

\* The upload of o may still activate it.
Before  == {"new", "stage", "promote", "clear", "attach"}
Awaited(o) == task[o] \in Before \/ o \in inflight

\* Nothing activates o any more.
Doomed(o) ==
  \/ media[o].status \in {"pending", "deleted", "failed"}
  \/ media[o].status = "staged" /\ task[o] = "ended" /\ o \notin inflight

\* Where an upload is: no document shows an object before its commit; its file is
\* there when the commit can take effect, and its stage key as long as there is a
\* file in the staging directory.
UploadInOrder(o) ==
  /\ task[o] = "new" <=> media[o].status = "none"
  /\ Awaited(o) => shown[o] = "none" /\ media[o].status # "active" /\ form # o
  /\ o \in inflight => task[o] \notin Before
  /\ task[o] \in Before => o \notin unsure
  /\ o \in inflight => o \in unsure
  /\ o \in staging => /\ task[o] \in {"promote", "ended"} /\ media[o].stageKey
                      /\ shown[o] = "none" /\ o \notin inflight /\ form # o
  /\ task[o] \in {"stage", "promote"} \/ (task[o] = "attach" /\ class[o] # "reference") =>
       media[o].stageKey /\ media[o].status # "deleted"
  /\ task[o] = "clear" => class[o] = "reference"
  /\ media[o].status = "staged" /\ (task[o] \in {"clear", "attach"} \/ o \in inflight) =>
       o \in stored
  /\ expected[o] # o
  /\ o \in restored => class[o] = "avatar"

\* Where the end of a request is: only what no document shows is taken away by it,
\* but for a booking that had no answer to its commit.
CleanupInOrder(o) ==
  /\ task[o] \in {"compensate", "remove", "settle"} =>
       /\ class[o] \in Batch
       /\ shown[o] # "live" \/ (class[o] = "reference" /\ o \in unsure)
       /\ o \in inflight => class[o] = "reference"
  /\ task[o] \in {"remove", "settle"} => Doomed(o)
  /\ task[o] = "settle" => o \notin stored
  /\ task[o] = "unsure" => class[o] # "reference" /\ o \in unsure
  /\ task[o] = "mark" => class[o] = "avatar" /\ o \in unsure
  /\ ~media[o].manual => media[o].retries < RetryLimit

\* Where a run is: after the claim its object is lost to its upload, and before the
\* file is deleted no document shows it and it has no staging file.
RunInOrder(r) ==
  LET o == run[r].object
      m == run[r].copy
  IN run[r] # Idle =>
       /\ run[r].step # "claim" => Doomed(o)
       /\ run[r].step \in {"delete", "finalize"} =>
            /\ shown[o] = "none" \/ o \in restored
            /\ media[o].stageKey => m.stageKey
       /\ run[r].step = "finalize" => ~m.stageKey /\ o \notin stored
       /\ m.retries < RetryLimit
       /\ Holds(r) => ~media[o].manual

\* The inductive invariant.  However uploads, requests and runs of the reconciliation
\* interleave, fail and outlive their leases: the types, with the retries of a record
\* within the limit, and where every upload, deletion by a request and run is, as
\* stated above; only an avatar is in a form.
IInv ==
  /\ TypeOK
  /\ MediaMatchesDocuments
  /\ DeletedLeavesNoFile
  /\ form # None => class[form] = "avatar"
  /\ \A o \in Object : UploadInOrder(o) /\ CleanupInOrder(o)
  /\ \A r \in Reconciler : RunInOrder(r)

\* What an upload, a crash or a deletion leaves behind is deleted, handed to a
\* person or, if its commit landed late, shown after all: the reconciliation
\* gets to it, although its runs die and their leases have to run out.
OrphansSettle ==
  \A o \in Object :
    media[o].status \in Reconcilable
      ~> media[o].status \in {"active", "deleted"} \/ media[o].manual

=============================================================================
