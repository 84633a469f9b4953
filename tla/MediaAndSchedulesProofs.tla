---------------------- MODULE MediaAndSchedulesProofs ----------------------
(***************************************************************************)
(* Proofs about Media and Schedules, the two components whose truth lies   *)
(* in two places that no transaction holds together: a record and a file,  *)
(* or the Schedule of a barber and the entry of his salon.                 *)
(*                                                                         *)
(* Objects, classes, runs of the reconciliation, their limits and faults,  *)
(* days, times, hours, pages, requests and numbers of saves are any that   *)
(* MediaAssumption, SchedulesAssumption and EditsAssumption allow.         *)
(***************************************************************************)
EXTENDS Media, Schedules, TLAPS

----------------------------------------------------------------------------
(* Media: what the invariant says of one object.                           *)

Matches(o) ==
  o \notin restored =>
    /\ shown[o] = "live" /\ ~(class[o] = "reference" /\ o \in unsure) =>
         /\ o \in stored
         /\ media[o].status = "active" \/ (class[o] = "avatar" /\ o \in unsure)
    /\ media[o].status = "active" => shown[o] = "live"

Good(o) ==
  /\ UploadInOrder(o)
  /\ CleanupInOrder(o)
  /\ Matches(o)
  /\ media[o].status = "deleted" => o \notin staging \cup stored

LEMMA MediaInvParts ==
  IInv <=> /\ TypeOK
           /\ form # None => class[form] = "avatar"
           /\ \A o \in Object : Good(o)
           /\ \A r \in Reconciler : RunInOrder(r)
BY DEF IInv, Good, Matches, MediaMatchesDocuments, DeletedLeavesNoFile

LEMMA MediaInvNext ==
  ASSUME TypeOK', (form # None => class[form] = "avatar")',
         \A o \in Object : Good(o)', \A r \in Reconciler : RunInOrder(r)'
  PROVE  IInv'
BY DEF IInv, Good, Matches, MediaMatchesDocuments, DeletedLeavesNoFile

LEMMA InitMediaInv == ASSUME Init PROVE IInv
<1>1. NoMedia \in Records
  BY MediaAssumption DEF NoMedia, Records, Status
<1>2. TypeOK
  <2>1. class \in [Object -> Class]
    BY MediaAssumption DEF Init
  <2>2. media \in [Object -> Records]
    BY <1>1 DEF Init
  <2>3. faults \in 0..MaxFaults
    BY MediaAssumption DEF Init
  <2>4. \A r \in Reconciler : run[r] = Idle
    BY DEF Init
  <2>5. task \in [Object -> Steps] /\ expected \in [Object -> Object \cup {None}]
    BY DEF Init, Steps
  <2>6. QED BY <2>1, <2>2, <2>3, <2>4, <2>5 DEF Init, TypeOK
<1>3. ASSUME NEW o \in Object PROVE Good(o)
  <2>1. /\ media[o].status = "none" /\ media[o].retries = 0
        /\ task[o] = "new" /\ shown[o] = "none" /\ expected[o] = None
        /\ o \notin staging /\ o \notin stored /\ o \notin inflight /\ o \notin unsure
        /\ form # o /\ o # None /\ 0 < RetryLimit /\ o \notin restored
    BY MediaAssumption DEF Init, NoMedia
  <2>2. UploadInOrder(o)
    BY <2>1 DEF UploadInOrder
  <2>3. CleanupInOrder(o) /\ Matches(o)
    BY <2>1 DEF CleanupInOrder, Matches
  <2>4. QED BY <2>1, <2>2, <2>3 DEF Good
<1>5. \A r \in Reconciler : RunInOrder(r)
  BY DEF Init, RunInOrder
<1>6. QED BY <1>2, <1>3, <1>5, MediaInvParts DEF Init

\* The records and runs are what TypeOK says.
LEMMA MediaFacts ==
  ASSUME IInv, NEW o \in Object
  PROVE  /\ media \in [Object -> Records] /\ media[o] \in Records
         /\ task \in [Object -> Steps] /\ expected \in [Object -> Object \cup {None}]
         /\ staging \subseteq Object /\ stored \subseteq Object
         /\ inflight \subseteq Object /\ unsure \subseteq Object
         /\ Good(o)
BY MediaInvParts DEF TypeOK

\* An object of which nothing changes but its lease stays in order.
LEMMA ObjectUntouched ==
  ASSUME IInv, NEW x \in Object,
         media'[x].status = media[x].status, media'[x].stageKey = media[x].stageKey,
         media'[x].retries = media[x].retries, media'[x].manual = media[x].manual,
         task'[x] = task[x], class'[x] = class[x], shown'[x] = shown[x],
         expected'[x] = expected[x],
         x \in staging' <=> x \in staging, x \in stored' <=> x \in stored,
         x \in inflight' <=> x \in inflight, x \in unsure' <=> x \in unsure,
         form' = x => form = x, x \in restored => x \in restored',
         x \in restored' => x \in restored \/ class[x] = "avatar"
  PROVE  Good(x)'
<1>1. Good(x)
  BY MediaFacts
<1>2. UploadInOrder(x)'
  BY <1>1 DEF Good, UploadInOrder, Awaited
<1>3. CleanupInOrder(x)'
  BY <1>1 DEF Good, CleanupInOrder, Doomed
<1>4. Matches(x)'
  BY <1>1 DEF Good, Matches
<1>5. QED BY <1>1, <1>2, <1>3, <1>4 DEF Good

\* What a step must leave of an object to a run that works on it.
SafeForRuns(x) ==
  /\ media'[x].lease = media[x].lease /\ media'[x].manual = media[x].manual
  /\ Doomed(x) => Doomed(x)'
  /\ Doomed(x) /\ media'[x].stageKey => media[x].stageKey
  /\ Doomed(x) /\ x \in stored' => x \in stored \/ media[x].stageKey
  /\ Doomed(x) /\ (shown[x] = "none" \/ x \in restored) =>
       shown'[x] = "none" \/ x \in restored'

LEMMA RunsUntouched ==
  ASSUME IInv, run' = run, \A x \in Object : SafeForRuns(x)
  PROVE  \A r \in Reconciler : RunInOrder(r)'
<1> SUFFICES ASSUME NEW r \in Reconciler, run[r] # Idle PROVE RunInOrder(r)'
  BY DEF RunInOrder
<1>1. run[r] \in Runs /\ RunInOrder(r)
  BY MediaInvParts DEF TypeOK
<1> DEFINE o == run[r].object
<1>2. o \in Object /\ SafeForRuns(o)
  BY <1>1 DEF Runs
<1>3. run[r].step = "finalize" => Doomed(o)
  BY <1>1 DEF RunInOrder
<1> HIDE DEF o
<1>4. QED BY <1>1, <1>2, <1>3 DEF RunInOrder, SafeForRuns, Holds, o

----------------------------------------------------------------------------
(* Steps of a request on its own object.                                   *)

\* Nothing but the record, the files and the request of o changes.
OnlyObject(o) ==
  /\ media' \in [Object -> Records] /\ task' \in [Object -> Steps]
  /\ staging' \subseteq Object /\ stored' \subseteq Object
  /\ inflight' \subseteq Object /\ unsure' \subseteq Object
  /\ expected' \in [Object -> Object \cup {None}]
  /\ \A x \in Object \ {o} :
       /\ media'[x] = media[x] /\ task'[x] = task[x] /\ expected'[x] = expected[x]
       /\ x \in staging' <=> x \in staging
       /\ x \in stored' <=> x \in stored
       /\ x \in inflight' <=> x \in inflight
       /\ x \in unsure' <=> x \in unsure
  /\ UNCHANGED <<class, shown, old, lapsed, form, erased, run, faults, restored>>

LEMMA Others ==
  ASSUME UNCHANGED OfOthers
  PROVE  /\ class' = class /\ shown' = shown /\ old' = old /\ lapsed' = lapsed
         /\ expected' = expected /\ form' = form /\ erased' = erased
         /\ run' = run /\ faults' = faults /\ restored' = restored
BY DEF OfOthers

LEMMA ObjectStep ==
  ASSUME IInv, NEW o \in Object, OnlyObject(o), Good(o)', SafeForRuns(o)
  PROVE  IInv'
<1>1. TypeOK'
  BY MediaInvParts DEF OnlyObject, TypeOK
<1>2. ASSUME NEW x \in Object \ {o} PROVE Good(x)' /\ SafeForRuns(x)
  <2>1. Good(x)'
    BY ObjectUntouched DEF OnlyObject
  <2>2. Doomed(x) <=> Doomed(x)'
    BY DEF OnlyObject, Doomed
  <2>3. SafeForRuns(x)
    BY <2>2 DEF OnlyObject, SafeForRuns
  <2>4. QED BY <2>1, <2>3
<1>3. \A x \in Object : Good(x)' /\ SafeForRuns(x)
  BY <1>2
<1>4. \A r \in Reconciler : RunInOrder(r)'
  BY <1>3, RunsUntouched DEF OnlyObject
<1>5. (form # None => class[form] = "avatar")'
  BY MediaInvParts DEF OnlyObject
<1>6. QED BY <1>1, <1>3, <1>4, <1>5, MediaInvNext

\* The record of o gets one of the statuses that a failed request can leave.
LEMMA StatusWritten ==
  ASSUME IInv, NEW o \in Object, NEW s \in Status, media' = [media EXCEPT ![o].status = s]
  PROVE  /\ media' \in [Object -> Records]
         /\ \A x \in Object \ {o} : media'[x] = media[x]
         /\ media'[o].status = s /\ media'[o].stageKey = media[o].stageKey
         /\ media'[o].owner = media[o].owner /\ media'[o].lease = media[o].lease
         /\ media'[o].retries = media[o].retries /\ media'[o].manual = media[o].manual
BY MediaFacts DEF Records

LEMMA GivenUpStatus ==
  ASSUME IInv, NEW o \in Object, NEW batch, batch \subseteq {"failed", "staged"},
         NEW s \in GivenUp(o, batch)
  PROVE  /\ s \in Status
         /\ \/ s = media[o].status
            \/ s \in batch /\ class[o] \in Batch
            \/ s = "pending" /\ (class[o] \in Profile \/ media[o].status = "staged")
BY MediaFacts DEF GivenUp, Status, Records

LEMMA BeginKeepsInv ==
  ASSUME IInv, NEW o \in Object, Begin(o)
  PROVE  IInv'
<1> DEFINE m == [media[o] EXCEPT !.status = "staged", !.stageKey = TRUE,
                                 !.owner = class[o] \notin Batch]
<1>1. /\ m \in Records /\ m.status = "staged" /\ m.stageKey
      /\ m.lease = media[o].lease /\ m.retries = media[o].retries
      /\ m.manual = media[o].manual
  BY MediaFacts DEF Records, Status
<1>2. media' = [media EXCEPT ![o] = m]
  BY MediaFacts DEF Begin, Records
<1> HIDE DEF m
<1>3. PICK e \in Expected(o) : expected' = [expected EXCEPT ![o] = e]
  BY DEF Begin
<1>4. Good(o) /\ media[o].status = "none" /\ shown[o] = "none"
  BY MediaFacts DEF Begin, Good, UploadInOrder, Awaited, Before
<1>5. e \in Object \cup {None} /\ e # o
  BY <1>4, MediaAssumption DEF Expected, LiveOf
<1>6. expected \in [Object -> Object \cup {None}]
  BY MediaFacts
<1>7. OnlyObject(o)
  BY <1>1, <1>2, <1>3, <1>5, <1>6, MediaFacts DEF Begin, OnlyObject, Steps
<1>8. /\ media'[o] = m /\ task[o] = "new" /\ task'[o] = "stage" /\ expected'[o] # o
  BY <1>1, <1>2, <1>3, <1>5, <1>6, MediaFacts DEF Begin
<1>9. Good(o)'
  <2>1. UploadInOrder(o)'
    BY <1>1, <1>4, <1>8 DEF Begin, Good, UploadInOrder, Awaited, Before
  <2>2. CleanupInOrder(o)'
    BY <1>1, <1>4, <1>8 DEF Good, CleanupInOrder
  <2>3. Matches(o)'
    BY <1>1, <1>4, <1>8 DEF Begin, Good, Matches
  <2>4. QED BY <1>1, <1>8, <2>1, <2>2, <2>3 DEF Good
<1>10. SafeForRuns(o)
  BY <1>1, <1>4, <1>8 DEF Begin, SafeForRuns, Doomed
<1>11. QED BY <1>7, <1>9, <1>10, ObjectStep

LEMMA StageKeepsInv ==
  ASSUME IInv, NEW o \in Object, Stage(o) \/ FailStage(o)
  PROVE  IInv'
<1>1. /\ Good(o) /\ task[o] = "stage" /\ media[o].stageKey /\ media[o].status # "deleted"
      /\ o \notin inflight /\ o \notin unsure /\ shown[o] = "none" /\ form # o
      /\ media[o].status # "active"
  BY MediaFacts DEF Stage, FailStage, Good, UploadInOrder, Awaited, Before
<1>2. CASE Stage(o)
  <2>1. OnlyObject(o)
    BY <1>2, MediaFacts, Others DEF Stage, OnlyObject, Steps
  <2>2. task'[o] = "promote" /\ UNCHANGED <<media, stored, inflight, unsure, OfOthers>>
    BY <1>2, MediaFacts DEF Stage
  <2>3. Good(o)'
    BY <1>1, <2>2, Others DEF Good, UploadInOrder, CleanupInOrder, Matches, Awaited, Before
  <2>4. SafeForRuns(o)
    BY <1>1, <2>2, Others DEF SafeForRuns, Doomed
  <2>5. QED BY <2>1, <2>3, <2>4, ObjectStep
<1>3. CASE FailStage(o)
  <2>1. PICK s \in GivenUp(o, {"failed", "staged"}) : media' = [media EXCEPT ![o].status = s]
    BY <1>3 DEF FailStage
  <2>2. /\ s \in Status
        /\ s = media[o].status \/ s \in {"failed", "staged", "pending"}
    BY <2>1, GivenUpStatus
  <2>3. /\ task' = [task EXCEPT ![o] = "ended"]
        /\ UNCHANGED <<staging, stored, inflight, unsure, OfOthers>>
    BY <1>3 DEF FailStage
  <2>9. /\ media' \in [Object -> Records]
        /\ \A x \in Object \ {o} : media'[x] = media[x]
        /\ media'[o].status = s /\ media'[o].stageKey = media[o].stageKey
        /\ media'[o].lease = media[o].lease
        /\ media'[o].retries = media[o].retries /\ media'[o].manual = media[o].manual
    BY <2>1, <2>2, StatusWritten
  <2>4. OnlyObject(o)
    BY <2>1, <2>2, <2>3, <2>9, MediaFacts, Others DEF OnlyObject, Steps
  <2>5. task'[o] = "ended"
    BY <2>3, MediaFacts
  <2>6. Good(o)'
    <3>1. UploadInOrder(o)'
      BY <1>1, <2>2, <2>3, <2>5, <2>9, Others DEF Good, UploadInOrder, Awaited, Before
    <3>2. CleanupInOrder(o)' /\ Matches(o)'
      BY <1>1, <2>2, <2>3, <2>5, <2>9, Others DEF Good, CleanupInOrder, Matches
    <3>3. media'[o].status # "deleted"
      BY <1>1, <2>2, <2>9
    <3>4. QED BY <3>1, <3>2, <3>3 DEF Good
  <2>7. SafeForRuns(o)
    BY <1>1, <2>1, <2>2, <2>3, <2>5, <2>9, Others DEF SafeForRuns, Doomed
  <2>8. QED BY <2>4, <2>6, <2>7, ObjectStep
<1>4. QED BY <1>2, <1>3

LEMMA PromoteKeepsInv ==
  ASSUME IInv, NEW o \in Object, Promote(o) \/ FailPromote(o)
  PROVE  IInv'
<1>1. /\ Good(o) /\ task[o] = "promote" /\ media[o].stageKey /\ media[o].status # "deleted"
      /\ o \notin inflight /\ o \notin unsure /\ shown[o] = "none" /\ form # o
      /\ media[o].status # "active"
  BY MediaFacts DEF Promote, FailPromote, Good, UploadInOrder, Awaited, Before
<1>2. CASE Promote(o)
  <2>1. OnlyObject(o)
    BY <1>2, MediaFacts, Others DEF Promote, OnlyObject, Steps
  <2>2. /\ task'[o] \in {"clear", "attach"}
        /\ task'[o] = "clear" => class[o] = "reference"
        /\ o \notin staging' /\ o \in stored'
        /\ UNCHANGED <<media, inflight, unsure, OfOthers>>
    BY <1>2, MediaFacts DEF Promote
  <2>3. Good(o)'
    <3>1. UploadInOrder(o)'
      BY <1>1, <2>2, Others DEF Good, UploadInOrder, Awaited, Before
    <3>2. CleanupInOrder(o)' /\ Matches(o)'
      BY <1>1, <2>2, Others DEF Good, CleanupInOrder, Matches
    <3>3. QED BY <1>1, <2>2, <3>1, <3>2 DEF Good
  <2>4. SafeForRuns(o)
    BY <1>1, <2>2, Others DEF SafeForRuns, Doomed
  <2>5. QED BY <2>1, <2>3, <2>4, ObjectStep
<1>3. CASE FailPromote(o)
  <2>1. PICK s \in GivenUp(o, {"staged"}) : media' = [media EXCEPT ![o].status = s]
    BY <1>3 DEF FailPromote
  <2>2. s \in Status /\ (s = media[o].status \/ s \in {"staged", "pending"})
    BY <2>1, GivenUpStatus
  <2>3. /\ task' = [task EXCEPT ![o] = "ended"]
        /\ staging' \in {staging, staging \ {o}}
        /\ UNCHANGED <<stored, inflight, unsure, OfOthers>>
    BY <1>3 DEF FailPromote
  <2>9. /\ media' \in [Object -> Records]
        /\ \A x \in Object \ {o} : media'[x] = media[x]
        /\ media'[o].status = s /\ media'[o].stageKey = media[o].stageKey
        /\ media'[o].lease = media[o].lease
        /\ media'[o].retries = media[o].retries /\ media'[o].manual = media[o].manual
    BY <2>1, <2>2, StatusWritten
  <2>4. OnlyObject(o)
    BY <2>1, <2>2, <2>3, <2>9, MediaFacts, Others DEF OnlyObject, Steps
  <2>5. task'[o] = "ended"
    BY <2>3, MediaFacts
  <2>6. Good(o)'
    <3>1. UploadInOrder(o)'
      BY <1>1, <2>2, <2>3, <2>5, <2>9, Others DEF Good, UploadInOrder, Awaited, Before
    <3>2. CleanupInOrder(o)' /\ Matches(o)'
      BY <1>1, <2>2, <2>3, <2>5, <2>9, Others DEF Good, CleanupInOrder, Matches
    <3>3. media'[o].status # "deleted"
      BY <1>1, <2>2, <2>9
    <3>4. QED BY <3>1, <3>2, <3>3 DEF Good
  <2>7. SafeForRuns(o)
    BY <1>1, <2>1, <2>2, <2>3, <2>5, <2>9, Others DEF SafeForRuns, Doomed
  <2>8. QED BY <2>4, <2>6, <2>7, ObjectStep
<1>4. QED BY <1>2, <1>3

LEMMA ClearStageKeyKeepsInv ==
  ASSUME IInv, NEW o \in Object, ClearStageKey(o)
  PROVE  IInv'
<1>1. /\ Good(o) /\ task[o] = "clear" /\ class[o] = "reference" /\ o \notin staging
      /\ o \notin inflight /\ o \notin unsure /\ shown[o] = "none" /\ form # o
      /\ media[o].status \notin {"active", "none"}
  BY MediaFacts DEF ClearStageKey, Good, UploadInOrder, Awaited, Before
<1>2. /\ media' \in [Object -> Records]
      /\ \A x \in Object \ {o} : media'[x] = media[x]
      /\ media'[o].status = media[o].status /\ media'[o].lease = media[o].lease
      /\ media'[o].retries = media[o].retries /\ media'[o].manual = media[o].manual
      /\ media'[o].stageKey => media[o].stageKey
      /\ task'[o] \in {"attach", "compensate"}
  <2>1. CASE UNCHANGED media
    BY <2>1, MediaFacts DEF ClearStageKey
  <2>2. CASE media' = [media EXCEPT ![o].stageKey = FALSE]
    BY <2>2, MediaFacts DEF ClearStageKey, Records
  <2>3. QED BY <2>1, <2>2 DEF ClearStageKey
<1>3. OnlyObject(o)
  BY <1>2, MediaFacts, Others DEF ClearStageKey, OnlyObject, Steps
<1>4. UNCHANGED <<staging, stored, inflight, unsure, OfOthers>>
  BY DEF ClearStageKey
<1>5. Good(o)'
  BY <1>1, <1>2, <1>4, Others
  DEF Good, UploadInOrder, CleanupInOrder, Matches, Awaited, Before, Batch
<1>6. SafeForRuns(o)
  BY <1>1, <1>2, <1>4, Others DEF SafeForRuns, Doomed
<1>7. QED BY <1>3, <1>5, <1>6, ObjectStep

LEMMA CommitKeepsInv ==
  ASSUME IInv, NEW o \in Object, LoseCommit(o) \/ DropCommit(o)
  PROVE  IInv'
<1>1. Good(o) /\ UNCHANGED <<media, staging, stored, OfOthers>>
  BY MediaFacts DEF LoseCommit, DropCommit
<1>2. CASE LoseCommit(o)
  <2>1. /\ task[o] = "attach" /\ media[o].status = "staged" /\ o \notin staging
        /\ o \in stored /\ shown[o] = "none" /\ form # o
        /\ class[o] = "reference" \/ class[o] # "reference"
    BY <1>1, <1>2 DEF LoseCommit, Bindable, Good, UploadInOrder, Awaited, Before
  <2>2. /\ task'[o] = IF class[o] = "reference" THEN "compensate" ELSE "unsure"
        /\ o \in inflight' /\ o \in unsure'
    BY <1>2, MediaFacts DEF LoseCommit
  <2>3. OnlyObject(o)
    BY <1>2, MediaFacts, Others DEF LoseCommit, OnlyObject, Steps
  <2>4. UploadInOrder(o)'
    BY <1>1, <2>1, <2>2, Others DEF Good, UploadInOrder, Awaited, Before
  <2>5. CleanupInOrder(o)' /\ Matches(o)'
    BY <1>1, <2>1, <2>2, Others DEF Good, CleanupInOrder, Matches, Batch
  <2>6. Good(o)' /\ SafeForRuns(o)
    BY <1>1, <2>1, <2>2, <2>4, <2>5, Others DEF Good, SafeForRuns, Doomed
  <2>7. QED BY <2>3, <2>6, ObjectStep
<1>3. CASE DropCommit(o)
  <2>1. o \in inflight /\ inflight' = inflight \ {o} /\ UNCHANGED <<task, unsure>>
    BY <1>3 DEF DropCommit
  <2>2. OnlyObject(o)
    BY <1>1, <2>1, MediaFacts, Others DEF OnlyObject
  <2>3. UploadInOrder(o)'
    BY <1>1, <2>1, Others DEF Good, UploadInOrder, Awaited
  <2>4. CleanupInOrder(o)' /\ Matches(o)'
    BY <1>1, <2>1, Others DEF Good, CleanupInOrder, Matches, Doomed
  <2>5. Good(o)' /\ SafeForRuns(o)
    BY <1>1, <2>1, <2>3, <2>4, Others DEF Good, SafeForRuns, Doomed
  <2>6. QED BY <2>2, <2>5, ObjectStep
<1>4. QED BY <1>2, <1>3

\* The upload fails at its commit, or concludes that it did.
LEMMA FailAttachKeepsInv ==
  ASSUME IInv, NEW o \in Object, FailAttach(o) \/ MarkPending(o)
  PROVE  IInv'
<1>1. /\ Good(o) /\ task[o] \in {"attach", "mark"}
      /\ UNCHANGED <<staging, stored, inflight, unsure, OfOthers>>
  BY MediaFacts DEF FailAttach, MarkPending
<1>2. /\ media[o].status # "none" /\ o \notin staging
      /\ task[o] = "attach" =>
           /\ media[o].status # "active" /\ shown[o] = "none" /\ form # o
           /\ o \notin inflight /\ o \notin unsure
      /\ task[o] = "mark" => class[o] = "avatar" /\ o \in unsure
      /\ class[o] = "avatar" => class[o] \notin Batch
  BY <1>1 DEF Good, UploadInOrder, CleanupInOrder, Awaited, Before, Batch
<1>3. CASE class[o] \in Batch /\ task[o] = "attach" /\ UNCHANGED media
             /\ task' = [task EXCEPT ![o] = "compensate"]
  <2>1. task'[o] = "compensate" /\ OnlyObject(o)
    BY <1>1, <1>3, MediaFacts, Others DEF OnlyObject, Steps
  <2>2. UploadInOrder(o)'
    BY <1>1, <1>2, <1>3, <2>1, Others DEF Good, UploadInOrder, Awaited, Before
  <2>3. CleanupInOrder(o)' /\ Matches(o)'
    BY <1>1, <1>2, <1>3, <2>1, Others DEF Good, CleanupInOrder, Matches
  <2>4. Good(o)' /\ SafeForRuns(o)
    BY <1>1, <1>2, <1>3, <2>1, <2>2, <2>3, Others DEF Good, SafeForRuns, Doomed
  <2>5. QED BY <2>1, <2>4, ObjectStep
<1>4. CASE /\ \E s \in GivenUp(o, {}) : media' = [media EXCEPT ![o].status = s]
           /\ task' = [task EXCEPT ![o] = "ended"]
  <2>1. PICK s \in GivenUp(o, {}) : media' = [media EXCEPT ![o].status = s]
    BY <1>4
  <2>2. s \in Status /\ (s = media[o].status \/ s = "pending")
    BY <2>1, GivenUpStatus
  <2>3. task'[o] = "ended"
    BY <1>4, MediaFacts
  <2>9. /\ media' \in [Object -> Records]
        /\ \A x \in Object \ {o} : media'[x] = media[x]
        /\ media'[o].status = s /\ media'[o].stageKey = media[o].stageKey
        /\ media'[o].lease = media[o].lease
        /\ media'[o].retries = media[o].retries /\ media'[o].manual = media[o].manual
    BY <2>1, <2>2, StatusWritten
  <2>4. OnlyObject(o)
    BY <1>1, <1>4, <2>9, MediaFacts, Others DEF OnlyObject, Steps
  <2>5. UploadInOrder(o)'
    BY <1>1, <1>2, <2>2, <2>3, <2>9, Others DEF Good, UploadInOrder, Awaited, Before
  <2>6. CleanupInOrder(o)'
    BY <1>1, <1>2, <2>2, <2>3, <2>9, Others DEF Good, CleanupInOrder
  <2>7. Matches(o)'
    BY <1>1, <1>2, <2>2, <2>3, <2>9, Others DEF Good, Matches
  <2>8. Good(o)' /\ SafeForRuns(o)
    BY <1>1, <1>2, <2>2, <2>3, <2>5, <2>6, <2>7, <2>9, Others DEF Good, SafeForRuns, Doomed
  <2>10. QED BY <2>4, <2>8, ObjectStep
<1>5. QED BY <1>3, <1>4 DEF FailAttach, MarkPending

\* A request looks again, or its process dies.
LEMMA LookAgainKeepsInv ==
  ASSUME IInv, NEW o \in Object, LookAgain(o) \/ Crash(o)
  PROVE  IInv'
<1>1. Good(o) /\ UNCHANGED <<media, staging, stored, inflight, unsure, OfOthers>>
  BY MediaFacts DEF LookAgain, Crash
<1>2. /\ task[o] \notin {"new", "ended"} /\ task'[o] \in {"mark", "ended"}
      /\ task'[o] = "mark" => class[o] = "avatar" /\ o \in unsure /\ task[o] = "unsure"
      /\ OnlyObject(o)
  <2>1. CASE LookAgain(o)
    <3>1. PICK next \in {"mark", "ended"} :
            /\ next = "mark" => class[o] = "avatar"
            /\ task[o] = "unsure" /\ task' = [task EXCEPT ![o] = next]
      BY <2>1 DEF LookAgain
    <3>2. task'[o] = next
      BY <3>1, MediaFacts
    <3>3. OnlyObject(o)
      BY <1>1, <3>1, MediaFacts, Others DEF OnlyObject, Steps
    <3>4. QED BY <1>1, <3>1, <3>2, <3>3 DEF Good, CleanupInOrder
  <2>2. CASE Crash(o)
    BY <1>1, <2>2, MediaFacts, Others DEF Crash, OnlyObject, Steps
  <2>3. QED BY <2>1, <2>2
<1>3. UploadInOrder(o)'
  BY <1>1, <1>2, Others DEF Good, UploadInOrder, Awaited, Before
<1>4. CleanupInOrder(o)' /\ Matches(o)'
  BY <1>1, <1>2, Others DEF Good, CleanupInOrder, Matches
<1>5. Good(o)' /\ SafeForRuns(o)
  BY <1>1, <1>2, <1>3, <1>4, Others DEF Good, SafeForRuns, Doomed
<1>6. QED BY <1>2, <1>5, ObjectStep

\* A request takes away what it uploaded: the record, then the file.
LEMMA CompensateKeepsInv ==
  ASSUME IInv, NEW o \in Object, Compensate(o)
  PROVE  IInv'
<1>1. /\ Good(o) /\ task[o] = "compensate" /\ o \notin staging /\ class[o] \in Batch
      /\ media[o].status # "none"
      /\ UNCHANGED <<staging, stored, inflight, unsure, OfOthers>>
  BY MediaFacts DEF Compensate, Good, UploadInOrder, CleanupInOrder
<1>2. CASE UNCHANGED media /\ task' = [task EXCEPT ![o] = "ended"]
  <2>1. task'[o] = "ended" /\ OnlyObject(o)
    BY <1>1, <1>2, MediaFacts, Others DEF OnlyObject, Steps
  <2>2. UploadInOrder(o)'
    BY <1>1, <1>2, <2>1, Others DEF Good, UploadInOrder, Awaited, Before
  <2>3. CleanupInOrder(o)' /\ Matches(o)'
    BY <1>1, <1>2, <2>1, Others DEF Good, CleanupInOrder, Matches
  <2>4. Good(o)' /\ SafeForRuns(o)
    BY <1>1, <1>2, <2>1, <2>2, <2>3, Others DEF Good, SafeForRuns, Doomed
  <2>5. QED BY <2>1, <2>4, ObjectStep
<1>3. CASE /\ media' = IF media[o].status = "deleted" THEN media
                       ELSE [media EXCEPT ![o].status = "pending", ![o].owner = TRUE]
           /\ task' = [task EXCEPT ![o] = "remove"]
  <2>1. /\ media' \in [Object -> Records]
        /\ \A x \in Object \ {o} : media'[x] = media[x]
        /\ media'[o].status \in {"pending", "deleted"}
        /\ media'[o].status = "deleted" => media[o].status = "deleted"
        /\ media'[o].stageKey = media[o].stageKey /\ media'[o].lease = media[o].lease
        /\ media'[o].retries = media[o].retries /\ media'[o].manual = media[o].manual
    <3>1. CASE media[o].status = "deleted"
      BY <1>3, <3>1, MediaFacts
    <3>2. CASE media[o].status # "deleted"
      BY <1>3, <3>2, MediaFacts DEF Records, Status
    <3>3. QED BY <3>1, <3>2
  <2>2. task'[o] = "remove" /\ OnlyObject(o)
    BY <1>1, <1>3, <2>1, MediaFacts, Others DEF OnlyObject, Steps
  <2>3. UploadInOrder(o)'
    BY <1>1, <2>1, <2>2, Others DEF Good, UploadInOrder, Awaited, Before
  <2>4. CleanupInOrder(o)'
    BY <1>1, <2>1, <2>2, Others DEF Good, CleanupInOrder, Doomed
  <2>5. Matches(o)'
    BY <1>1, <2>1, <2>2, Others DEF Good, CleanupInOrder, Matches
  <2>6. Good(o)' /\ SafeForRuns(o)
    BY <1>1, <2>1, <2>2, <2>3, <2>4, <2>5, Others DEF Good, SafeForRuns, Doomed
  <2>7. QED BY <2>2, <2>6, ObjectStep
<1>4. QED BY <1>2, <1>3 DEF Compensate

LEMMA RemoveKeepsInv ==
  ASSUME IInv, NEW o \in Object, RemoveFile(o) \/ SettleDeleted(o)
  PROVE  IInv'
<1>1. /\ Good(o) /\ task[o] \in {"remove", "settle"} /\ o \notin staging
      /\ media[o].status \in {"pending", "deleted", "failed"}
      /\ shown[o] # "live" \/ (class[o] = "reference" /\ o \in unsure)
      /\ UNCHANGED <<staging, inflight, unsure, OfOthers>>
  BY MediaFacts DEF RemoveFile, SettleDeleted, Good, UploadInOrder, CleanupInOrder, Doomed
<1>2. CASE RemoveFile(o)
  <2>1. /\ UNCHANGED media /\ stored' \in {stored, stored \ {o}}
        /\ task'[o] = "ended" \/ (task'[o] = "settle" /\ o \notin stored')
        /\ OnlyObject(o)
    BY <1>1, <1>2, MediaFacts, Others DEF RemoveFile, OnlyObject, Steps
  <2>2. UploadInOrder(o)'
    BY <1>1, <2>1, Others DEF Good, UploadInOrder, Awaited, Before
  <2>3. CleanupInOrder(o)' /\ Matches(o)'
    BY <1>1, <1>2, <2>1, Others DEF RemoveFile, Good, CleanupInOrder, Matches, Doomed
  <2>4. Good(o)' /\ SafeForRuns(o)
    BY <1>1, <2>1, <2>2, <2>3, Others DEF Good, SafeForRuns, Doomed
  <2>5. QED BY <2>1, <2>4, ObjectStep
<1>3. CASE SettleDeleted(o)
  <2>1. /\ media' \in [Object -> Records]
        /\ \A x \in Object \ {o} : media'[x] = media[x]
        /\ media'[o].status \in {"deleted", "failed"}
        /\ media'[o].stageKey = media[o].stageKey /\ media'[o].lease = media[o].lease
        /\ media'[o].retries = media[o].retries /\ media'[o].manual = media[o].manual
    <3>1. CASE media[o].status = "pending"
      BY <1>3, <3>1, MediaFacts DEF SettleDeleted, Records, Status
    <3>2. CASE media[o].status # "pending"
      BY <1>1, <1>3, <3>2, MediaFacts DEF SettleDeleted
    <3>3. QED BY <3>1, <3>2
  <2>2. /\ task'[o] = "ended" /\ stored' = stored /\ o \notin stored
        /\ OnlyObject(o)
    BY <1>1, <1>3, <2>1, MediaFacts, Others
    DEF SettleDeleted, OnlyObject, Steps, Good, CleanupInOrder
  <2>3. UploadInOrder(o)'
    BY <1>1, <2>1, <2>2, Others DEF Good, UploadInOrder, Awaited, Before
  <2>4. CleanupInOrder(o)' /\ Matches(o)'
    BY <1>1, <2>1, <2>2, Others DEF Good, CleanupInOrder, Matches
  <2>5. Good(o)' /\ SafeForRuns(o)
    BY <1>1, <2>1, <2>2, <2>3, <2>4, Others DEF Good, SafeForRuns, Doomed
  <2>6. QED BY <2>2, <2>5, ObjectStep
<1>4. QED BY <1>2, <1>3

----------------------------------------------------------------------------
(* Steps on documents, which may show several objects.                     *)

LEMMA DocumentStep ==
  ASSUME IInv, TypeOK', (form # None => class[form] = "avatar")', run' = run,
         \A x \in Object : Good(x)' /\ SafeForRuns(x)
  PROVE  IInv'
BY RunsUntouched, MediaInvNext

LEMMA RetiredRecord ==
  ASSUME NEW m \in Records
  PROVE  /\ Retired(m) \in Records
         /\ Retired(m).status = IF m.status = "active" THEN "pending" ELSE m.status
         /\ Retired(m).stageKey = m.stageKey /\ Retired(m).lease = m.lease
         /\ Retired(m).retries = m.retries /\ Retired(m).manual = m.manual
<1>1. CASE m.status = "active"
  BY <1>1 DEF Retired, Records, Status
<1>2. CASE m.status # "active"
  BY <1>2 DEF Retired
<1>3. QED BY <1>1, <1>2

\* An object that its document gives up stays in order.
LEMMA ObjectRetired ==
  ASSUME IInv, NEW x \in Object, media'[x] = Retired(media[x]), shown'[x] = "none",
         task'[x] = task[x], x \in inflight' <=> x \in inflight,
         UNCHANGED <<class, staging, stored, expected, form, unsure, restored>>
  PROVE  Good(x)' /\ SafeForRuns(x)
<1>1. /\ Good(x) /\ media'[x].stageKey = media[x].stageKey /\ media'[x].lease = media[x].lease
      /\ media'[x].status = IF media[x].status = "active" THEN "pending" ELSE media[x].status
      /\ media'[x].retries = media[x].retries /\ media'[x].manual = media[x].manual
  BY MediaFacts, RetiredRecord
<1>2. UploadInOrder(x)'
  BY <1>1 DEF Good, UploadInOrder, Awaited
<1>3. CleanupInOrder(x)'
  BY <1>1 DEF Good, CleanupInOrder, Doomed
<1>4. Matches(x)'
  BY <1>1 DEF Matches
<1>5. QED BY <1>1, <1>2, <1>3, <1>4 DEF Good, SafeForRuns, Doomed

\* The rest of the types, for a step on documents.
LEMMA DocumentTypes ==
  ASSUME IInv, media' \in [Object -> Records],
         shown' \in [Object -> {"none", "live", "hidden"}], task' \in [Object -> Steps],
         inflight' \subseteq Object, form' \in Object \cup {None}, erased' \in BOOLEAN,
         restored' \subseteq Object,
         UNCHANGED <<class, staging, stored, old, lapsed, expected, run, faults, unsure>>
  PROVE  TypeOK'
BY MediaInvParts DEF TypeOK

LEMMA DocumentFacts ==
  ASSUME IInv
  PROVE  /\ shown \in [Object -> {"none", "live", "hidden"}]
         /\ media \in [Object -> Records] /\ task \in [Object -> Steps]
         /\ expected \in [Object -> Object \cup {None}]
         /\ inflight \subseteq Object /\ restored \subseteq Object
         /\ form \in Object \cup {None} /\ erased \in BOOLEAN
         /\ form # None => class[form] = "avatar"
BY MediaInvParts DEF TypeOK

LEMMA BindKeepsInv ==
  ASSUME IInv, NEW o \in Object, Attach(o) \/ LandCommit(o)
  PROVE  IInv'
<1> DEFINE b == [media[o] EXCEPT !.status = "active", !.stageKey = FALSE, !.owner = TRUE]
<1>1. /\ Good(o) /\ media[o].status = "staged" /\ o \in stored /\ o \notin staging
      /\ task[o] = "attach" \/ o \in inflight
      /\ Bind(o)
      /\ o \notin inflight' /\ task'[o] \notin Before /\ task' \in [Object -> Steps]
      /\ \A x \in Object \ {o} : /\ task'[x] = task[x]
                                 /\ x \in inflight' <=> x \in inflight
      /\ UNCHANGED <<class, staging, stored, old, lapsed, expected, form, erased, run,
                     faults, unsure, restored>>
  <2>1. CASE Attach(o)
    BY <2>1, MediaFacts DEF Attach, Bindable, Good, UploadInOrder, Before, Steps
  <2>2. CASE LandCommit(o)
    BY <2>2, MediaFacts DEF LandCommit, Bindable, Good, UploadInOrder, Before
  <2>3. QED BY <2>1, <2>2
<1>2. /\ b \in Records /\ b.status = "active" /\ b.lease = media[o].lease
      /\ b.retries = media[o].retries /\ b.manual = media[o].manual
      /\ b.stageKey = FALSE
  BY MediaFacts DEF Records, Status
<1> HIDE DEF b
<1>3. /\ media'[o] = b /\ shown'[o] = "live"
      /\ \A x \in Object \ {o} :
           IF x = expected[o] THEN media'[x] = Retired(media[x]) /\ shown'[x] = "none"
           ELSE media'[x] = media[x] /\ shown'[x] = shown[x]
  BY <1>1 DEF Bind, b, Good, UploadInOrder
<1>4. TypeOK'
  <2>1. \A x \in Object \ {o} : media[x] \in Records /\ media'[x] \in Records
    BY <1>3, DocumentFacts, RetiredRecord
  <2>2. media' \in [Object -> Records]
    BY <1>1, <1>2, <1>3, <2>1 DEF Bind
  <2>3. shown' \in [Object -> {"none", "live", "hidden"}]
    BY <1>1, <1>3, DocumentFacts DEF Bind
  <2>4. inflight' \subseteq Object
    BY DocumentFacts DEF Attach, LandCommit
  <2>5. QED BY <1>1, <2>2, <2>3, <2>4, DocumentFacts, DocumentTypes
<1>5. Good(o)'
  <2>1. UploadInOrder(o)'
    BY <1>1, <1>2, <1>3 DEF Good, UploadInOrder, Awaited, Before
  <2>2. CleanupInOrder(o)'
    <3>1. CASE task[o] = "attach"
      BY <1>1, <1>2, <1>3, <3>1 DEF Good, UploadInOrder, CleanupInOrder, Attach, LandCommit, Before
    <3>2. CASE o \in inflight
      <4>1. task[o] \notin {"attach", "remove", "settle"} /\ task' = task /\ o \in unsure
        BY <1>1, <3>2 DEF Good, UploadInOrder, CleanupInOrder, Doomed, Attach, LandCommit, Before
      <4>2. QED BY <1>1, <1>2, <1>3, <3>2, <4>1 DEF Good, CleanupInOrder
    <3>3. QED BY <1>1, <3>1, <3>2
  <2>3. Matches(o)'
    BY <1>1, <1>2, <1>3 DEF Matches
  <2>4. QED BY <1>2, <1>3, <2>1, <2>2, <2>3 DEF Good
<1>6. SafeForRuns(o)
  BY <1>1, <1>2, <1>3 DEF SafeForRuns, Doomed, Good, UploadInOrder, Before
<1>7. ASSUME NEW x \in Object \ {o} PROVE Good(x)' /\ SafeForRuns(x)
  <2>1. CASE x = expected[o]
    BY <1>1, <1>3, <2>1, ObjectRetired
  <2>2. CASE x # expected[o]
    <3>1. media'[x] = media[x] /\ shown'[x] = shown[x]
      BY <1>3, <2>2
    <3>2. Good(x)'
      BY <1>1, <3>1, ObjectUntouched
    <3>3. SafeForRuns(x)
      BY <1>1, <3>1 DEF SafeForRuns, Doomed
    <3>4. QED BY <3>2, <3>3
  <2>3. QED BY <2>1, <2>2
<1>8. (form # None => class[form] = "avatar")' /\ run' = run
  BY <1>1, DocumentFacts
<1>9. QED BY <1>4, <1>5, <1>6, <1>7, <1>8, DocumentStep

LEMMA DeletePhotoKeepsInv ==
  ASSUME IInv, NEW o \in Object, DeletePhoto(o)
  PROVE  IInv'
<1>1. /\ Good(o) /\ task[o] = "ended" /\ class[o] = "portfolio" /\ shown[o] = "live"
      /\ o \notin inflight /\ o \notin staging /\ media[o].status # "none"
      /\ UNCHANGED <<class, staging, stored, old, lapsed, expected, inflight, form, erased,
                     run, faults, unsure, restored>>
  BY MediaFacts DEF DeletePhoto, Good, UploadInOrder, Awaited
<1>2. /\ media' \in [Object -> Records]
      /\ \A x \in Object \ {o} : media'[x] = media[x]
      /\ media'[o].status = "pending" /\ media'[o].stageKey = media[o].stageKey
      /\ media'[o].lease = media[o].lease
      /\ media'[o].retries = media[o].retries /\ media'[o].manual = media[o].manual
  BY StatusWritten DEF DeletePhoto, Status
<1>3. /\ task' \in [Object -> Steps] /\ task'[o] = "remove"
      /\ \A x \in Object \ {o} : task'[x] = task[x]
      /\ shown' \in [Object -> {"none", "live", "hidden"}] /\ shown'[o] = "hidden"
      /\ \A x \in Object \ {o} : shown'[x] = shown[x]
  BY DocumentFacts DEF DeletePhoto, Steps
<1>4. TypeOK' /\ (form # None => class[form] = "avatar")'
  BY <1>1, <1>2, <1>3, DocumentFacts, DocumentTypes
<1>5. Good(o)' /\ SafeForRuns(o)
  <2>1. UploadInOrder(o)'
    BY <1>1, <1>2, <1>3 DEF Good, UploadInOrder, Awaited, Before
  <2>2. CleanupInOrder(o)' /\ Matches(o)'
    BY <1>1, <1>2, <1>3 DEF Good, CleanupInOrder, Matches, Doomed, Batch
  <2>3. SafeForRuns(o)
    BY <1>1, <1>2, <1>3 DEF SafeForRuns, Doomed
  <2>4. QED BY <1>2, <2>1, <2>2, <2>3 DEF Good
<1>6. ASSUME NEW x \in Object \ {o} PROVE Good(x)' /\ SafeForRuns(x)
  BY <1>1, <1>2, <1>3, ObjectUntouched DEF SafeForRuns, Doomed
<1>7. QED BY <1>1, <1>4, <1>5, <1>6, DocumentStep

\* An avatar is cleared or a certification deleted, or the whole account.
LEMMA ClearKeepsInv ==
  ASSUME IInv, NEW gone \in SUBSET Object,
         shown' = [x \in Object |-> IF x \in gone THEN "none" ELSE shown[x]],
         media' = [x \in Object |-> IF x \in gone THEN Retired(media[x]) ELSE media[x]],
         erased' \in BOOLEAN,
         UNCHANGED <<class, staging, stored, old, lapsed, task, expected, inflight, form,
                     run, faults, unsure, restored>>
  PROVE  IInv'
<1>1. media' \in [Object -> Records]
  <2>1. \A x \in Object : media[x] \in Records /\ Retired(media[x]) \in Records
    BY DocumentFacts, RetiredRecord
  <2>2. QED BY <2>1
<1>2. shown' \in [Object -> {"none", "live", "hidden"}]
  BY DocumentFacts
<1>3. TypeOK' /\ (form # None => class[form] = "avatar")'
  BY <1>1, <1>2, DocumentFacts, DocumentTypes
<1>4. ASSUME NEW x \in Object PROVE Good(x)' /\ SafeForRuns(x)
  <2>1. CASE x \in gone
    BY <2>1, ObjectRetired
  <2>2. CASE x \notin gone
    <3>1. media'[x] = media[x] /\ shown'[x] = shown[x]
      BY <2>2
    <3>2. QED BY <3>1, ObjectUntouched DEF SafeForRuns, Doomed
  <2>3. QED BY <2>1, <2>2
<1>5. QED BY <1>3, <1>4, DocumentStep

LEMMA DocumentsGoneKeepInv ==
  ASSUME IInv, (\E o \in Object : Clear(o)) \/ DeleteAccount
  PROVE  IInv'
<1>1. CASE \E o \in Object : Clear(o)
  <2>1. PICK o \in Object : Clear(o)
    BY <1>1
  <2>2. /\ shown' = [x \in Object |-> IF x \in {o} THEN "none" ELSE shown[x]]
        /\ media' = [x \in Object |-> IF x \in {o} THEN Retired(media[x]) ELSE media[x]]
    BY <2>1, DocumentFacts DEF Clear
  <2>3. /\ erased' \in BOOLEAN
        /\ UNCHANGED <<class, staging, stored, old, lapsed, task, expected, inflight, form,
                       run, faults, unsure, restored>>
    BY <2>1, DocumentFacts DEF Clear
  <2>4. QED BY <2>2, <2>3, ClearKeepsInv
<1>2. CASE DeleteAccount
  <2>1. /\ shown' = [x \in Object |-> IF x \in Object THEN "none" ELSE shown[x]]
        /\ media' = [x \in Object |-> IF x \in Object THEN Retired(media[x]) ELSE media[x]]
        /\ erased' \in BOOLEAN
        /\ UNCHANGED <<class, staging, stored, old, lapsed, task, expected, inflight, form,
                       run, faults, unsure, restored>>
    BY <1>2 DEF DeleteAccount
  <2>2. QED BY <2>1, ClearKeepsInv
<1>3. QED BY <1>1, <1>2

LEMMA FormKeepsInv ==
  ASSUME IInv, (\E o \in Object : OpenForm(o)) \/ SaveForm
  PROVE  IInv'
<1>1. CASE \E o \in Object : OpenForm(o)
  <2>1. PICK o \in Object : OpenForm(o)
    BY <1>1
  <2>2. /\ class[o] = "avatar" /\ shown[o] = "live" /\ form' = o
        /\ UNCHANGED <<class, media, staging, stored, shown, old, lapsed, task, expected,
                       inflight, erased, run, faults, unsure, restored>>
    BY <2>1 DEF OpenForm, LiveOf
  <2>3. Good(o)' /\ SafeForRuns(o)
    <3>1. Good(o)
      BY MediaFacts
    <3>2. UploadInOrder(o)'
      BY <2>2, <3>1 DEF Good, UploadInOrder, Awaited
    <3>3. CleanupInOrder(o)' /\ Matches(o)'
      BY <2>2, <3>1 DEF Good, CleanupInOrder, Matches, Doomed
    <3>4. QED BY <2>2, <3>1, <3>2, <3>3 DEF Good, SafeForRuns, Doomed
  <2>4. ASSUME NEW x \in Object \ {o} PROVE Good(x)' /\ SafeForRuns(x)
    BY <2>2, ObjectUntouched DEF SafeForRuns, Doomed
  <2>5. TypeOK' /\ (form # None => class[form] = "avatar")'
    BY <2>2, DocumentFacts, DocumentTypes
  <2>6. QED BY <2>2, <2>3, <2>4, <2>5, DocumentStep
<1>2. CASE SaveForm /\ (erased \/ shown[form] = "live")
  <2>1. /\ form' = None
        /\ UNCHANGED <<class, media, staging, stored, shown, old, lapsed, task, expected,
                       inflight, erased, run, faults, unsure, restored>>
    BY <1>2 DEF SaveForm
  <2>2. ASSUME NEW x \in Object PROVE Good(x)' /\ SafeForRuns(x)
    BY <2>1, MediaAssumption, ObjectUntouched DEF SafeForRuns, Doomed
  <2>3. TypeOK' /\ (form # None => class[form] = "avatar")'
    BY <2>1, DocumentFacts, DocumentTypes
  <2>4. QED BY <2>1, <2>2, <2>3, DocumentStep
<1>3. CASE SaveForm /\ ~(erased \/ shown[form] = "live")
  <2>1. /\ form \in Object /\ form' = None /\ class[form] = "avatar"
        /\ shown' = [x \in Object |-> IF x = form THEN "live"
                                      ELSE IF class[x] = "avatar" THEN "none" ELSE shown[x]]
        /\ restored' = restored \cup {form} \cup LiveOf("avatar")
        /\ UNCHANGED <<class, media, staging, stored, old, lapsed, task, expected,
                       inflight, erased, run, faults, unsure>>
    BY <1>3, DocumentFacts DEF SaveForm
  <2>2. shown' \in [Object -> {"none", "live", "hidden"}] /\ restored' \subseteq Object
    BY <2>1, DocumentFacts DEF LiveOf
  <2>3. TypeOK' /\ (form # None => class[form] = "avatar")'
    BY <2>1, <2>2, DocumentFacts, DocumentTypes
  <2>4. ASSUME NEW x \in Object PROVE Good(x)' /\ SafeForRuns(x)
    <3>1. Good(x) /\ form' # x /\ shown[x] \in {"none", "live", "hidden"}
      BY <2>1, MediaFacts, DocumentFacts, MediaAssumption
    <3>2. CASE class[x] = "avatar"
      <4>1. /\ shown'[x] = IF x = form THEN "live" ELSE "none"
            /\ x \in restored' \/ (x # form /\ shown[x] # "live" /\ x \notin restored)
            /\ class[x] \notin Batch
        BY <2>1, <3>2 DEF LiveOf, Batch
      <4>2. UploadInOrder(x)'
        BY <2>1, <3>1, <3>2, <4>1 DEF Good, UploadInOrder, Awaited
      <4>3. CleanupInOrder(x)'
        BY <2>1, <3>1, <4>1 DEF Good, CleanupInOrder
      <4>4. Matches(x)'
        BY <2>1, <3>1, <4>1 DEF Good, Matches
      <4>5. Good(x)'
        BY <2>1, <3>1, <4>2, <4>3, <4>4 DEF Good
      <4>6. SafeForRuns(x)
        BY <2>1, <4>1 DEF SafeForRuns, Doomed
      <4>7. QED BY <4>5, <4>6
    <3>3. CASE class[x] # "avatar"
      <4>1. shown'[x] = shown[x] /\ (x \in restored <=> x \in restored')
        BY <2>1, <3>3 DEF LiveOf
      <4>2. Good(x)'
        BY <2>1, <3>1, <4>1, ObjectUntouched
      <4>3. QED BY <2>1, <4>1, <4>2 DEF SafeForRuns, Doomed
    <3>4. QED BY <3>2, <3>3
  <2>5. QED BY <2>1, <2>3, <2>4, DocumentStep
<1>4. QED BY <1>1, <1>2, <1>3

\* Time passes: a record grows old, or its lease runs out.
LEMMA TimeKeepsInv ==
  ASSUME IInv, NEW o \in Object, GrowOld(o) \/ Lapse(o)
  PROVE  IInv'
<1>1. /\ UNCHANGED <<class, media, staging, stored, shown, task, expected, inflight,
                     form, erased, run, unsure, restored>>
  BY DEF GrowOld, Lapse, OfUploads
<1>2. old' \subseteq Object /\ lapsed' \subseteq Object /\ faults' \in 0..MaxFaults
  <2>1. old \subseteq Object /\ lapsed \subseteq Object /\ faults \in 0..MaxFaults
    BY MediaInvParts DEF TypeOK
  <2>2. CASE GrowOld(o)
    BY <2>1, <2>2 DEF GrowOld
  <2>3. CASE Lapse(o)
    <3>1. faults' = faults \/ (faults < MaxFaults /\ faults' = faults + 1)
      BY <2>3 DEF Lapse
    <3>2. QED BY <2>1, <2>3, <3>1, MediaAssumption DEF Lapse, OfUploads
  <2>4. QED BY <2>2, <2>3
<1>3. TypeOK'
  BY <1>1, <1>2, MediaInvParts DEF TypeOK
<1>4. ASSUME NEW x \in Object PROVE Good(x)' /\ SafeForRuns(x)
  BY <1>1, ObjectUntouched DEF SafeForRuns, Doomed
<1>5. (form # None => class[form] = "avatar")' /\ run' = run
  BY <1>1, DocumentFacts
<1>6. QED BY <1>3, <1>4, <1>5, DocumentStep

----------------------------------------------------------------------------
(* Steps of the reconciliation.                                            *)

LEMMA RunFacts ==
  ASSUME IInv, NEW r \in Reconciler, run[r] # Idle
  PROVE  /\ run \in [Reconciler -> {Idle} \cup Runs] /\ run[r] \in Runs
         /\ run[r].object \in Object /\ run[r].copy \in Records
         /\ RunInOrder(r)
         /\ lapsed \subseteq Object /\ faults \in 0..MaxFaults
<1>1. /\ run \in [Reconciler -> {Idle} \cup Runs] /\ RunInOrder(r)
      /\ lapsed \subseteq Object /\ faults \in 0..MaxFaults
  BY MediaInvParts DEF TypeOK
<1>2. run[r] \in Runs
  BY <1>1
<1>3. QED BY <1>1, <1>2 DEF Runs

LEMMA UploadsKept ==
  ASSUME UNCHANGED OfUploads
  PROVE  /\ class' = class /\ staging' = staging /\ shown' = shown /\ old' = old
         /\ task' = task /\ expected' = expected /\ inflight' = inflight
         /\ form' = form /\ erased' = erased /\ unsure' = unsure /\ restored' = restored
BY DEF OfUploads

\* Run r works on o; the others keep what they rely on, because r has the lease.
LEMMA JobStep ==
  ASSUME IInv, NEW r \in Reconciler, NEW o \in Object, UNCHANGED OfUploads,
         media' \in [Object -> Records], \A x \in Object \ {o} : media'[x] = media[x],
         run' \in [Reconciler -> {Idle} \cup Runs],
         \A q \in Reconciler \ {r} : run'[q] = run[q],
         lapsed' \subseteq Object, faults' \in 0..MaxFaults,
         stored' \subseteq stored, \A x \in Object \ {o} : x \in stored' <=> x \in stored,
         Good(o)', RunInOrder(r)',
         Doomed(o) => Doomed(o)',
         media'[o].stageKey = media[o].stageKey,
         \A q \in Reconciler \ {r} : media'[o].lease = q =>
           media[o].lease = q /\ media'[o].manual = media[o].manual
  PROVE  IInv'
<1>1. TypeOK'
  BY UploadsKept, MediaInvParts DEF TypeOK
<1>2. ASSUME NEW x \in Object \ {o} PROVE Good(x)' /\ (Doomed(x) => Doomed(x)')
  <2>1. Good(x)'
    BY UploadsKept, ObjectUntouched
  <2>2. QED BY <2>1, UploadsKept DEF Doomed
<1>3. ASSUME NEW q \in Reconciler \ {r} PROVE RunInOrder(q)'
  <2> SUFFICES ASSUME run[q] # Idle PROVE RunInOrder(q)'
    BY DEF RunInOrder
  <2> DEFINE x == run[q].object
  <2>1. /\ run'[q] = run[q] /\ run[q].object \in Object /\ RunInOrder(q)
        /\ x \in Object
    BY RunFacts
  <2>2. /\ Doomed(x) => Doomed(x)'
        /\ media'[x].stageKey = media[x].stageKey
        /\ media'[x].lease = q => media[x].lease = q /\ media'[x].manual = media[x].manual
        /\ x \in stored' => x \in stored
    BY <1>2, <2>1
  <2> HIDE DEF x
  <2>3. QED BY <2>1, <2>2, UploadsKept DEF RunInOrder, Holds, x
<1>4. (form # None => class[form] = "avatar")'
  BY UploadsKept, DocumentFacts
<1>5. QED BY <1>1, <1>2, <1>3, <1>4, MediaInvNext

\* The run ends, and leaves the record.
LEMMA FinishKeepsInv ==
  ASSUME IInv, NEW r \in Reconciler, run[r] # Idle, Finish(r),
         faults' \in 0..MaxFaults, UNCHANGED <<media, stored, lapsed, OfUploads>>
  PROVE  IInv'
<1>1. run' \in [Reconciler -> {Idle} \cup Runs] /\ run'[r] = Idle
      /\ \A q \in Reconciler \ {r} : run'[q] = run[q]
  BY RunFacts DEF Finish
<1>2. RunInOrder(r)'
  BY <1>1 DEF RunInOrder
<1>3. PICK o \in Object : TRUE
  BY RunFacts
<1>4. Good(o)' /\ (Doomed(o) => Doomed(o)')
  BY UploadsKept, ObjectUntouched DEF Doomed
<1>5. media' \in [Object -> Records] /\ lapsed' \subseteq Object
  BY DocumentFacts, RunFacts
<1>6. QED BY <1>1, <1>2, <1>4, <1>5, JobStep

\* A record that a run has written: its status is the same, or deleted.
LEMMA WrittenIsGood ==
  ASSUME IInv, NEW o \in Object, stored' = stored, UNCHANGED OfUploads,
         media'[o].stageKey = media[o].stageKey,
         ~media'[o].manual => media'[o].retries < RetryLimit,
         \/ media'[o].status = media[o].status
         \/ /\ media'[o].status = "deleted" /\ Doomed(o)
            /\ o \notin stored /\ ~media[o].stageKey
            /\ shown[o] = "none" \/ o \in restored
  PROVE  Good(o)' /\ (Doomed(o) => Doomed(o)')
<1>1. Good(o)
  BY MediaFacts
<1>2. Doomed(o) => Doomed(o)'
  BY UploadsKept DEF Doomed
<1>3. UploadInOrder(o)'
  BY <1>1, UploadsKept DEF Good, UploadInOrder, Awaited, Doomed, Before
<1>4. CleanupInOrder(o)' /\ Matches(o)'
  BY <1>1, <1>2, UploadsKept DEF Good, CleanupInOrder, Matches
<1>5. (media[o].status = "deleted" => o \notin staging \cup stored)'
  BY <1>1, UploadsKept DEF Good, UploadInOrder
<1>6. QED BY <1>2, <1>3, <1>4, <1>5 DEF Good

LEMMA ReleaseKeepsInv ==
  ASSUME IInv, NEW r \in Reconciler, run[r] # Idle, NEW m \in Records, Release(r, m),
         m.stageKey = media[run[r].object].stageKey,
         ~m.manual => m.retries < RetryLimit,
         \/ m.status = media[run[r].object].status
         \/ m.status = "deleted" /\ run[r].step = "finalize"
  PROVE  IInv'
<1>1. PICK o \in Object : o = run[r].object
  BY RunFacts
<1>2. /\ RunInOrder(r) /\ faults \in 0..MaxFaults
      /\ stored' = stored /\ faults' = faults /\ UNCHANGED OfUploads
  BY RunFacts DEF Release
<1>3. CASE ~(Holds(r) /\ media[o].status = run[r].copy.status)
  <2>1. UNCHANGED <<media, stored, lapsed, OfUploads>> /\ Finish(r)
    BY <1>2, <1>3, <1>1 DEF Release
  <2>2. QED BY <1>2, <2>1, FinishKeepsInv
<1>4. CASE Holds(r) /\ media[o].status = run[r].copy.status
  <2> DEFINE n == [m EXCEPT !.lease = None]
  <2>1. /\ n \in Records /\ n.lease = None /\ n.status = m.status
        /\ n.stageKey = m.stageKey /\ n.manual = m.manual /\ n.retries = m.retries
    BY DEF Records
  <2>2. /\ media' = [media EXCEPT ![o] = n] /\ Finish(r) /\ lapsed' = lapsed \ {o}
    BY <1>4, <1>1 DEF Release
  <2> HIDE DEF n
  <2>3. /\ media' \in [Object -> Records] /\ media'[o] = n
        /\ \A x \in Object \ {o} : media'[x] = media[x]
    BY <1>2, <2>1, <2>2, DocumentFacts
  <2>4. /\ run' \in [Reconciler -> {Idle} \cup Runs] /\ run'[r] = Idle
        /\ \A q \in Reconciler \ {r} : run'[q] = run[q]
        /\ lapsed' \subseteq Object /\ faults' \in 0..MaxFaults
    BY <1>2, <2>2, RunFacts DEF Finish
  <2>5. RunInOrder(r)'
    BY <2>4 DEF RunInOrder
  <2>6. run[r].step = "finalize" =>
          /\ Doomed(o) /\ o \notin stored /\ ~media[o].stageKey
          /\ shown[o] = "none" \/ o \in restored
    BY <1>2, <1>1 DEF RunInOrder
  <2>7. /\ media'[o].stageKey = media[o].stageKey
        /\ ~media'[o].manual => media'[o].retries < RetryLimit
        /\ \/ media'[o].status = media[o].status
           \/ media'[o].status = "deleted" /\ run[r].step = "finalize"
    BY <1>1, <2>1, <2>3
  <2>8. \A q \in Reconciler \ {r} : media'[o].lease # q
    BY <2>1, <2>3, MediaAssumption
  <2>9. Good(o)' /\ (Doomed(o) => Doomed(o)')
    BY <1>2, <2>6, <2>7, WrittenIsGood
  <2>10. QED BY <1>2, <2>3, <2>4, <2>5, <2>7, <2>8, <2>9, JobStep
<1>5. QED BY <1>3, <1>4

LEMMA AcquireKeepsInv ==
  ASSUME IInv, NEW r \in Reconciler, NEW o \in Object, Acquire(r, o)
  PROVE  IInv'
<1> DEFINE m == [media[o] EXCEPT !.lease = r]
           v == [step |-> IF media[o].status = "staged" THEN "claim" ELSE "inspect",
                 object |-> o, wasStaged |-> media[o].status = "staged", copy |-> m]
<1>1. /\ m \in Records /\ m.status = media[o].status /\ m.stageKey = media[o].stageKey
      /\ m.lease = r /\ m.manual = media[o].manual /\ m.retries = media[o].retries
  BY MediaFacts DEF Records
<1>2. /\ ~media[o].manual /\ media[o].status \in Reconcilable
      /\ media[o].retries < RetryLimit
  BY MediaFacts DEF Acquire, Due, Good, CleanupInOrder
<1>3. /\ media' = [media EXCEPT ![o] = m] /\ media'[o] = m
      /\ lapsed' = lapsed \ {o} /\ stored' = stored /\ faults' = faults
      /\ UNCHANGED OfUploads
  BY MediaFacts DEF Acquire
<1>4. run' = [run EXCEPT ![r] = v]
  BY <1>3 DEF Acquire
<1>5. /\ v \in Runs /\ v # Idle /\ v.object = o /\ v.copy = m
      /\ v.step = "inspect" \/ (v.step = "claim" /\ media[o].status = "staged")
      /\ v.step # "claim" => media[o].status # "staged"
  BY <1>1 DEF Runs, Idle
<1> HIDE DEF m, v
<1>6. /\ run \in [Reconciler -> {Idle} \cup Runs] /\ lapsed \subseteq Object
      /\ faults \in 0..MaxFaults
  BY MediaInvParts DEF TypeOK
<1>7. /\ run' \in [Reconciler -> {Idle} \cup Runs] /\ run'[r] = v
      /\ \A q \in Reconciler \ {r} : run'[q] = run[q]
      /\ lapsed' \subseteq Object /\ faults' \in 0..MaxFaults
  BY <1>3, <1>4, <1>5, <1>6
<1>8. /\ media' \in [Object -> Records] /\ \A x \in Object \ {o} : media'[x] = media[x]
  BY <1>1, <1>3, DocumentFacts
<1>9. Good(o)' /\ (Doomed(o) => Doomed(o)')
  BY <1>1, <1>2, <1>3, WrittenIsGood
<1>10. RunInOrder(r)'
  <2>1. v.step # "claim" => Doomed(o)'
    BY <1>1, <1>2, <1>3, <1>5 DEF Doomed, Reconcilable
  <2>2. QED BY <1>1, <1>2, <1>3, <1>5, <1>7, <2>1 DEF RunInOrder, Doomed
<1>11. QED BY <1>1, <1>3, <1>7, <1>8, <1>9, <1>10, MediaAssumption, JobStep

LEMMA ClaimKeepsInv ==
  ASSUME IInv, NEW r \in Reconciler, Claim(r)
  PROVE  IInv'
<1>1. PICK o \in Object : o = run[r].object /\ run[r] # Idle
  BY RunFacts DEF Claim, Idle
<1>2. /\ run[r].step = "claim" /\ stored' = stored /\ lapsed' = lapsed /\ faults' = faults
      /\ faults \in 0..MaxFaults /\ lapsed \subseteq Object /\ UNCHANGED OfUploads
  BY <1>1, RunFacts DEF Claim
<1>3. CASE ~(Holds(r) /\ media[o].status = "staged")
  <2>1. Finish(r) /\ UNCHANGED <<media, stored, lapsed, OfUploads>>
    BY <1>1, <1>2, <1>3 DEF Claim
  <2>2. QED BY <1>1, <1>2, <2>1, FinishKeepsInv
<1>4. CASE Holds(r) /\ media[o].status = "staged"
  <2> DEFINE v == [run[r] EXCEPT !.step = "inspect", !.copy.status = "pending"]
  <2>1. /\ media' = [media EXCEPT ![o].status = "pending"]
        /\ run' = [run EXCEPT ![r].step = "inspect", ![r].copy.status = "pending"]
    BY <1>1, <1>4 DEF Claim
  <2>2. /\ media' \in [Object -> Records]
        /\ \A x \in Object \ {o} : media'[x] = media[x]
        /\ media'[o].status = "pending" /\ media'[o].stageKey = media[o].stageKey
        /\ media'[o].lease = media[o].lease
        /\ media'[o].retries = media[o].retries /\ media'[o].manual = media[o].manual
    BY <2>1, StatusWritten DEF Status
  <2>3. /\ run[r] \in Runs /\ run \in [Reconciler -> {Idle} \cup Runs] /\ RunInOrder(r)
        /\ run[r].copy \in Records
    BY <1>1, RunFacts
  <2>4. /\ v \in Runs /\ v # Idle /\ v.step = "inspect" /\ v.object = o
        /\ v.copy.retries = run[r].copy.retries
    BY <1>1, <2>3 DEF Runs, Records, Status, Idle
  <2>5. run' = [run EXCEPT ![r] = v]
    BY <2>1, <2>3 DEF Runs
  <2> HIDE DEF v
  <2>6. /\ run' \in [Reconciler -> {Idle} \cup Runs] /\ run'[r] = v
        /\ \A q \in Reconciler \ {r} : run'[q] = run[q]
    BY <2>3, <2>4, <2>5
  <2>7. Doomed(o)'
    BY <2>2 DEF Doomed
  <2>8. Good(o)'
    <3>1. Good(o)
      BY MediaFacts
    <3>2. UploadInOrder(o)'
      BY <1>2, <1>4, <2>2, <3>1, UploadsKept DEF Good, UploadInOrder, Awaited
    <3>3. CleanupInOrder(o)' /\ Matches(o)'
      BY <1>2, <1>4, <2>2, <2>7, <3>1, UploadsKept DEF Good, CleanupInOrder, Matches
    <3>4. QED BY <2>2, <3>2, <3>3 DEF Good
  <2>9. RunInOrder(r)'
    BY <1>1, <1>4, <2>2, <2>3, <2>4, <2>6, <2>7 DEF RunInOrder, Holds
  <2>10. \A q \in Reconciler \ {r} : media'[o].lease # q
    BY <1>1, <1>4, <2>2 DEF Holds
  <2>11. QED BY <1>2, <2>2, <2>6, <2>7, <2>8, <2>9, <2>10, JobStep
<1>5. QED BY <1>3, <1>4

\* What the runs write: one more failure, and nothing else of a record.
LEMMA CountedRecord ==
  ASSUME IInv, NEW r \in Reconciler, run[r] # Idle, NEW limit \in {1, RetryLimit}
  PROVE  /\ Counted(r, limit) \in Records
         /\ Counted(r, limit).status = media[run[r].object].status
         /\ Counted(r, limit).stageKey = media[run[r].object].stageKey
         /\ ~Counted(r, limit).manual => Counted(r, limit).retries < RetryLimit
<1> DEFINE n == run[r].copy.retries + 1
           m == media[run[r].object]
<1>1. m \in Records /\ n \in 1..RetryLimit
  BY RunFacts, DocumentFacts, MediaAssumption DEF RunInOrder, Records
<1>2. Counted(r, limit) = [m EXCEPT !.retries = n, !.manual = n >= limit]
  BY DEF Counted
<1> HIDE DEF n, m
<1>3. n \in 0..RetryLimit /\ (n >= limit) \in BOOLEAN /\ (~(n >= limit) => n < RetryLimit)
  BY <1>1, MediaAssumption
<1>4. /\ Counted(r, limit) \in Records /\ Counted(r, limit).status = m.status
      /\ Counted(r, limit).stageKey = m.stageKey /\ Counted(r, limit).retries = n
      /\ Counted(r, limit).manual = (n >= limit)
  BY <1>1, <1>2, <1>3 DEF Records
<1>5. QED BY <1>3, <1>4 DEF m

\* The run goes on, with nothing written, or with the file deleted.
LEMMA RunGoesOn ==
  ASSUME IInv, NEW r \in Reconciler, run[r] # Idle, NEW v \in Runs,
         run' = [run EXCEPT ![r] = v], v.object = run[r].object,
         run[r].step # "claim", v # Idle,
         v.step \in {"delete", "finalize"} =>
           /\ shown[v.object] = "none" \/ v.object \in restored
           /\ media[v.object].stageKey => v.copy.stageKey,
         v.step = "finalize" => ~v.copy.stageKey /\ v.object \notin stored',
         v.copy.retries < RetryLimit,
         \/ stored' = stored
         \/ /\ stored' = stored \ {v.object}
            /\ shown[v.object] = "none" \/ v.object \in restored,
         UNCHANGED <<media, lapsed, faults>>, UNCHANGED OfUploads
  PROVE  IInv'
<1>1. PICK o \in Object : o = run[r].object
  BY RunFacts
<1>2. /\ run \in [Reconciler -> {Idle} \cup Runs] /\ RunInOrder(r) /\ Doomed(o)
      /\ lapsed \subseteq Object /\ faults \in 0..MaxFaults
  BY <1>1, RunFacts DEF RunInOrder
<1>3. /\ run' \in [Reconciler -> {Idle} \cup Runs] /\ run'[r] = v
      /\ \A q \in Reconciler \ {r} : run'[q] = run[q]
  BY <1>2
<1>4. Good(o)' /\ Doomed(o)'
  <2>1. CASE stored' = stored
    BY <1>2, <2>1, ObjectUntouched, UploadsKept DEF Doomed
  <2>2. CASE stored' # stored
    <3>1. /\ stored' = stored \ {o} /\ Good(o)
          /\ shown[o] = "none" \/ o \in restored
      BY <1>1, <2>2, MediaFacts
    <3>2. UploadInOrder(o)'
      BY <1>2, <3>1, UploadsKept DEF Good, UploadInOrder, Awaited, Doomed, Before
    <3>3. CleanupInOrder(o)' /\ Doomed(o)'
      BY <1>2, <3>1, UploadsKept DEF Good, CleanupInOrder, Doomed
    <3>4. Matches(o)'
      BY <3>1, UploadsKept, <1>2 DEF Good, Matches, Doomed
    <3>5. QED BY <3>1, <3>2, <3>3, <3>4, UploadsKept DEF Good
  <2>3. QED BY <2>1, <2>2
<1>5. RunInOrder(r)'
  BY <1>1, <1>2, <1>3, <1>4, UploadsKept DEF RunInOrder, Holds
<1>6. /\ media' \in [Object -> Records] /\ stored' \subseteq stored
      /\ \A x \in Object \ {o} : x \in stored' <=> x \in stored
  BY <1>1, DocumentFacts
<1>7. QED BY <1>2, <1>3, <1>4, <1>5, <1>6, JobStep

LEMMA InspectKeepsInv ==
  ASSUME IInv, NEW r \in Reconciler, Inspect(r)
  PROVE  IInv'
<1>1. PICK o \in Object : o = run[r].object /\ run[r] # Idle
  BY RunFacts DEF Inspect, Idle
<1>2. run[r].step = "inspect" /\ run[r] \in Runs /\ RunInOrder(r)
      /\ run \in [Reconciler -> {Idle} \cup Runs] /\ media[o] \in Records
  BY <1>1, RunFacts, MediaFacts DEF Inspect
<1>3. CASE Release(r, [media[run[r].object] EXCEPT !.manual = TRUE])
  <2> DEFINE m == [media[o] EXCEPT !.manual = TRUE]
  <2>1. /\ m \in Records /\ m.status = media[o].status /\ m.stageKey = media[o].stageKey
        /\ m.manual
    BY <1>2 DEF Records
  <2>2. Release(r, m)
    BY <1>1, <1>3
  <2> HIDE DEF m
  <2>3. QED BY <1>1, <2>1, <2>2, ReleaseKeepsInv
<1>4. ASSUME NEW limit \in {1, RetryLimit}, Release(r, Counted(r, limit)) PROVE IInv'
  BY <1>1, <1>4, CountedRecord, ReleaseKeepsInv
<1>5. CASE /\ run' = [run EXCEPT ![r].step = "recheck"]
           /\ UNCHANGED <<media, stored, lapsed, faults, OfUploads>>
  <2> DEFINE v == [run[r] EXCEPT !.step = "recheck"]
  <2>1. /\ v \in Runs /\ v # Idle /\ v.step = "recheck" /\ v.object = run[r].object
        /\ v.copy = run[r].copy /\ run' = [run EXCEPT ![r] = v]
    BY <1>2, <1>5 DEF Runs, Idle
  <2> HIDE DEF v
  <2>2. v.copy.retries < RetryLimit
    BY <1>1, <1>2, <2>1 DEF RunInOrder
  <2>3. QED BY <1>1, <1>2, <1>5, <2>1, <2>2, RunGoesOn
<1>6. \/ Release(r, [media[run[r].object] EXCEPT !.manual = TRUE])
      \/ Release(r, Counted(r, RetryLimit)) \/ Release(r, Counted(r, 1))
      \/ /\ run' = [run EXCEPT ![r].step = "recheck"]
         /\ UNCHANGED <<media, stored, lapsed, faults, OfUploads>>
  BY DEF Inspect
<1>7. QED BY <1>3, <1>4, <1>5, <1>6

LEMMA RecheckKeepsInv ==
  ASSUME IInv, NEW r \in Reconciler, Recheck(r)
  PROVE  IInv'
<1>1. PICK o \in Object : o = run[r].object /\ run[r] # Idle
  BY RunFacts DEF Recheck, Idle
<1>2. run[r].step = "recheck" /\ run[r] \in Runs /\ RunInOrder(r)
      /\ run \in [Reconciler -> {Idle} \cup Runs] /\ media[o] \in Records
      /\ faults \in 0..MaxFaults /\ Good(o)
  BY <1>1, RunFacts, MediaFacts DEF Recheck
<1>3. CASE ~Holds(r) \/ media[o].status \notin Reconcilable
  <2>1. Finish(r) /\ UNCHANGED <<media, stored, lapsed, faults, OfUploads>>
    BY <1>1, <1>3 DEF Recheck
  <2>2. faults' \in 0..MaxFaults /\ UNCHANGED <<media, stored, lapsed, OfUploads>>
    BY <1>2, <2>1
  <2>3. QED BY <1>1, <2>1, <2>2, FinishKeepsInv
<1>4. CASE Holds(r) /\ media[o].status \in Reconcilable
  <2> DEFINE s == IF Unused(r, media[o]) THEN "delete" ELSE "retry"
             v == [run[r] EXCEPT !.copy = media[o], !.step = s]
  <2>1. /\ run' = [run EXCEPT ![r].copy = media[o], ![r].step = s]
        /\ UNCHANGED <<media, stored, lapsed, faults>> /\ UNCHANGED OfUploads
    BY <1>1, <1>4 DEF Recheck
  <2>2. s \in {"delete", "retry"} /\ (s = "delete" => shown[o] = "none")
    BY <1>1 DEF Unused
  <2> HIDE DEF s
  <2>3. /\ v \in Runs /\ v.step = s /\ v.object = run[r].object
        /\ v.copy = media[o] /\ run' = [run EXCEPT ![r] = v]
    BY <1>2, <2>1, <2>2 DEF Runs
  <2> HIDE DEF v
  <2>4. v # Idle
    BY <2>2, <2>3 DEF Idle
  <2>5. v.copy.retries < RetryLimit
    BY <1>1, <1>2, <1>4, <2>3 DEF RunInOrder, Good, CleanupInOrder
  <2>6. /\ v.step \in {"delete", "finalize"} =>
             /\ shown[v.object] = "none"
             /\ media[v.object].stageKey => v.copy.stageKey
        /\ v.step # "finalize" /\ run[r].step # "claim" /\ v.object = run[r].object
    BY <1>1, <1>2, <2>2, <2>3
  <2>7. QED BY <1>1, <2>1, <2>3, <2>4, <2>5, <2>6, RunGoesOn
<1>5. QED BY <1>3, <1>4

\* The file goes, or the run is counted as failed.
LEMMA DeleteFileKeepsInv ==
  ASSUME IInv, NEW r \in Reconciler, DeleteFile(r)
  PROVE  IInv'
<1>1. PICK o \in Object : o = run[r].object /\ run[r] # Idle
  BY RunFacts DEF DeleteFile, Idle
<1>2. run[r].step = "delete" /\ run[r] \in Runs /\ RunInOrder(r)
      /\ run \in [Reconciler -> {Idle} \cup Runs]
  BY <1>1, RunFacts DEF DeleteFile
<1>3. CASE run[r].copy.stageKey
  <2>1. Release(r, Counted(r, 1))
    BY <1>3 DEF DeleteFile
  <2>2. QED BY <1>1, <2>1, CountedRecord, ReleaseKeepsInv
<1>4. CASE ~run[r].copy.stageKey
  <2> DEFINE v == [run[r] EXCEPT !.step = "finalize"]
  <2>1. /\ stored' = stored \ {o} /\ run' = [run EXCEPT ![r].step = "finalize"]
        /\ UNCHANGED <<media, lapsed, faults>> /\ UNCHANGED OfUploads
    BY <1>1, <1>4 DEF DeleteFile
  <2>2. /\ v \in Runs /\ v.step = "finalize" /\ v.object = o /\ v # Idle
        /\ v.copy = run[r].copy /\ run' = [run EXCEPT ![r] = v]
    BY <1>1, <1>2, <2>1 DEF Runs, Idle
  <2> HIDE DEF v
  <2>3. /\ shown[o] = "none" \/ o \in restored
        /\ media[o].stageKey => run[r].copy.stageKey
        /\ run[r].copy.retries < RetryLimit
    BY <1>1, <1>2 DEF RunInOrder
  <2>4. QED BY <1>1, <1>2, <1>4, <2>1, <2>2, <2>3, RunGoesOn
<1>5. QED BY <1>3, <1>4

LEMMA FinalizeKeepsInv ==
  ASSUME IInv, NEW r \in Reconciler, Finalize(r)
  PROVE  IInv'
<1>1. PICK o \in Object : o = run[r].object /\ run[r] # Idle
  BY RunFacts DEF Finalize, Idle
<1> DEFINE m == [media[o] EXCEPT !.status = "deleted", !.retries = 0, !.manual = FALSE]
<1>2. media[o] \in Records /\ 0 \in 0..RetryLimit /\ 0 < RetryLimit
  BY MediaFacts, MediaAssumption
<1>3. /\ m \in Records /\ m.status = "deleted" /\ m.stageKey = media[o].stageKey
      /\ m.retries < RetryLimit
  BY <1>2 DEF Records, Status
<1>4. Release(r, m) /\ run[r].step = "finalize"
  BY <1>1 DEF Finalize
<1> HIDE DEF m
<1>5. QED BY <1>1, <1>3, <1>4, ReleaseKeepsInv

\* A run fails and counts it, or dies.
LEMMA RunEndsKeepsInv ==
  ASSUME IInv, NEW r \in Reconciler, FailRun(r) \/ CrashRun(r)
  PROVE  IInv'
<1>1. run[r] # Idle
  BY DEF FailRun, CrashRun, Idle
<1>2. CASE FailRun(r)
  <2>1. Release(r, Counted(r, RetryLimit))
    BY <1>2 DEF FailRun
  <2>2. QED BY <1>1, <2>1, CountedRecord, ReleaseKeepsInv
<1>3. CASE CrashRun(r)
  <2>1. faults' \in 0..MaxFaults /\ Finish(r)
        /\ UNCHANGED <<media, stored, lapsed, OfUploads>>
    BY <1>1, <1>3, RunFacts, MediaAssumption DEF CrashRun
  <2>2. QED BY <1>1, <2>1, FinishKeepsInv
<1>4. QED BY <1>2, <1>3

LEMMA MediaStepKeepsInv ==
  ASSUME IInv, [Next]_vars
  PROVE  IInv'
<1>1. CASE UNCHANGED vars
  <2>1. /\ UNCHANGED <<class, media, staging, stored, shown, old, lapsed, task, expected,
                       inflight, form, erased, run, faults, unsure, restored>>
    BY <1>1 DEF vars
  <2>2. ASSUME NEW x \in Object PROVE Good(x)' /\ SafeForRuns(x)
    BY <2>1, ObjectUntouched DEF SafeForRuns, Doomed
  <2>3. TypeOK' /\ (form # None => class[form] = "avatar")'
    BY <2>1, DocumentFacts, DocumentTypes
  <2>4. QED BY <2>1, <2>2, <2>3, DocumentStep
<1>2. ASSUME NEW o \in Object, Begin(o) \/ LandCommit(o) \/ DropCommit(o) \/ DeletePhoto(o)
                               \/ Crash(o)
      PROVE  IInv'
  BY <1>2, BeginKeepsInv, BindKeepsInv, CommitKeepsInv, DeletePhotoKeepsInv, LookAgainKeepsInv
<1>3. ASSUME NEW o \in Object, Clear(o) \/ OpenForm(o) \/ GrowOld(o) \/ Lapse(o)
      PROVE  IInv'
  BY <1>3, DocumentsGoneKeepInv, FormKeepsInv, TimeKeepsInv
<1>4. ASSUME NEW o \in Object, RequestStep(o) PROVE IInv'
  BY <1>4, StageKeepsInv, PromoteKeepsInv, ClearStageKeyKeepsInv, BindKeepsInv,
     CommitKeepsInv, FailAttachKeepsInv, LookAgainKeepsInv, CompensateKeepsInv,
     RemoveKeepsInv DEF RequestStep
<1>5. ASSUME NEW r \in Reconciler, RunStep(r) \/ CrashRun(r) \/ \E o \in Object : Acquire(r, o)
      PROVE  IInv'
  BY <1>5, ClaimKeepsInv, InspectKeepsInv, RecheckKeepsInv, DeleteFileKeepsInv,
     FinalizeKeepsInv, RunEndsKeepsInv, AcquireKeepsInv DEF RunStep
<1>6. CASE SaveForm \/ DeleteAccount
  BY <1>6, FormKeepsInv, DocumentsGoneKeepInv
<1>7. QED BY <1>1, <1>2, <1>3, <1>4, <1>5, <1>6 DEF Next

\* The inductive invariant of the media store holds in every state: of Promote,
\* LandCommit, Compensate and the runs of the reconciliation in particular.
THEOREM MediaInvariance == Spec => []IInv
<1>1. Init => IInv
  BY InitMediaInv
<1>2. IInv /\ [Next]_vars => IInv'
  BY MediaStepKeepsInv
<1>3. QED BY <1>1, <1>2, PTL DEF Spec

\* Every variable of the media store stays in its range; in particular the failed
\* runs of a record never exceed the limit.
THEOREM MediaTypes == Spec => []TypeOK
<1>1. IInv => TypeOK
  BY DEF IInv
<1>2. QED BY <1>1, MediaInvariance, PTL

\* The picture a document shows is active and has its file, and no active record
\* is without its document: for any number of uploads, lost commits, crashes and
\* runs of the reconciliation that outlive their leases.
THEOREM ShownCanBeServed == Spec => []MediaMatchesDocuments
<1>1. IInv => MediaMatchesDocuments
  BY DEF IInv
<1>2. QED BY <1>1, MediaInvariance, PTL

\* A record is only marked deleted, by a request or by finalizeDeleted of a run,
\* when neither directory has its file any more, and none comes back later.
THEOREM DeletedFilesAreGone == Spec => []DeletedLeavesNoFile
<1>1. IInv => DeletedLeavesNoFile
  BY DEF IInv
<1>2. QED BY <1>1, MediaInvariance, PTL

----------------------------------------------------------------------------
(* Media: a deleted record stays deleted.                                  *)

\* What the invariant says of a record that a step could revive.
LEMMA DeletedFacts ==
  ASSUME IInv, NEW o \in Object, media[o].status = "deleted",
         ~(class[o] = "avatar" /\ o \in unsure)
  PROVE  /\ task[o] \notin {"new", "stage", "promote", "mark"}
         /\ task[o] = "attach" => class[o] = "reference"
         /\ ~(class[o] = "portfolio" /\ shown[o] = "live")
         /\ media \in [Object -> Records] /\ media[o] \in Records
<1>1. UploadInOrder(o) /\ CleanupInOrder(o) /\ Matches(o)
      /\ media \in [Object -> Records] /\ media[o] \in Records
  BY MediaFacts DEF Good
<1>2. o \in restored => class[o] = "avatar"
  BY <1>1 DEF UploadInOrder
<1>3. ~(class[o] = "portfolio" /\ shown[o] = "live")
  BY <1>1, <1>2 DEF Matches
<1>4. /\ task[o] \notin {"new", "stage", "promote"}
      /\ task[o] = "attach" => class[o] = "reference"
  BY <1>1 DEF UploadInOrder
<1>5. task[o] # "mark"
  BY <1>1 DEF CleanupInOrder
<1>6. QED BY <1>1, <1>3, <1>4, <1>5

LEMMA UploadsReviveNothing ==
  ASSUME IInv, NEW o \in Object, media[o].status = "deleted",
         ~(class[o] = "avatar" /\ o \in unsure), NEW p \in Object,
         \/ Begin(p) \/ FailStage(p) \/ FailPromote(p) \/ ClearStageKey(p)
         \/ FailAttach(p) \/ MarkPending(p) \/ Attach(p) \/ LandCommit(p)
  PROVE  media'[o].status = "deleted"
<1>1. CASE Begin(p) \/ FailStage(p) \/ FailPromote(p) \/ ClearStageKey(p) \/ MarkPending(p)
  <2>1. CASE p = o
    BY <1>1, <2>1, DeletedFacts DEF Begin, FailStage, FailPromote, ClearStageKey, MarkPending, Records
  <2>2. CASE p # o
    <3>1. media'[o] = media[o]
      BY <1>1, <2>2, DeletedFacts DEF Begin, FailStage, FailPromote, ClearStageKey, MarkPending
    <3>2. QED BY <3>1
  <2>3. QED BY <2>1, <2>2
<1>2. CASE FailAttach(p)
  <2>1. CASE p = o
    BY <1>2, <2>1, DeletedFacts DEF FailAttach, Batch
  <2>2. CASE p # o
    BY <1>2, <2>2, DeletedFacts DEF FailAttach
  <2>3. QED BY <2>1, <2>2
<1>3. CASE Attach(p) \/ LandCommit(p)
  <2>1. p # o /\ Bind(p)
    BY <1>3 DEF Attach, LandCommit, Bindable
  <2>2. media'[o] = IF o = expected[p] THEN Retired(media[o]) ELSE media[o]
    BY <2>1 DEF Bind
  <2>3. QED BY <2>2 DEF Retired
<1>4. QED BY <1>1, <1>2, <1>3

LEMMA RequestsReviveNothing ==
  ASSUME IInv, NEW o \in Object, media[o].status = "deleted",
         ~(class[o] = "avatar" /\ o \in unsure),
         \/ \E p \in Object : Compensate(p) \/ SettleDeleted(p) \/ DeletePhoto(p) \/ Clear(p)
         \/ DeleteAccount
  PROVE  media'[o].status = "deleted"
<1>1. ASSUME NEW p \in Object, Compensate(p) \/ SettleDeleted(p) \/ DeletePhoto(p)
      PROVE  media'[o].status = "deleted"
  <2>1. CASE p = o
    BY <1>1, <2>1, DeletedFacts DEF Compensate, SettleDeleted, DeletePhoto
  <2>2. CASE p # o
    <3>1. media'[o] = media[o]
      BY <1>1, <2>2, DeletedFacts DEF Compensate, SettleDeleted, DeletePhoto
    <3>2. QED BY <3>1
  <2>3. QED BY <2>1, <2>2
<1>2. ASSUME NEW p \in Object, Clear(p) PROVE media'[o].status = "deleted"
  <2>1. media'[o] = media[o] \/ media'[o] = Retired(media[o])
    BY <1>2, DeletedFacts DEF Clear
  <2>2. QED BY <2>1 DEF Retired
<1>3. CASE DeleteAccount
  <2>1. media'[o] = Retired(media[o])
    BY <1>3 DEF DeleteAccount
  <2>2. QED BY <2>1 DEF Retired
<1>4. QED BY <1>1, <1>2, <1>3

\* A run writes the status that it read, or deleted.
LEMMA ReleaseRevivesNothing ==
  ASSUME IInv, NEW r \in Reconciler, run[r] # Idle, NEW m \in Records, Release(r, m),
         m.status \in {media[run[r].object].status, "deleted"},
         NEW o \in Object, media[o].status = "deleted"
  PROVE  media'[o].status = "deleted"
<1> DEFINE n == [m EXCEPT !.lease = None]
<1>1. n.status = m.status
  BY DEF Records
<1>2. media' = media \/ media' = [media EXCEPT ![run[r].object] = n]
  BY DEF Release
<1> HIDE DEF n
<1>3. media \in [Object -> Records] /\ run[r].object \in Object
  BY MediaFacts, RunFacts
<1>4. media'[o] = media[o] \/ (o = run[r].object /\ media'[o] = n)
  BY <1>2, <1>3
<1>5. QED BY <1>1, <1>4

LEMMA RunsReviveNothing ==
  ASSUME IInv, NEW o \in Object, media[o].status = "deleted",
         NEW r \in Reconciler, RunStep(r) \/ CrashRun(r) \/ \E p \in Object : Acquire(r, p)
  PROVE  media'[o].status = "deleted"
<1>1. CASE media' = media
  BY <1>1
<1>2. ASSUME NEW p \in Object, Acquire(r, p) PROVE media'[o].status = "deleted"
  BY <1>2, MediaFacts DEF Acquire, Records
<1>3. CASE Claim(r)
  <2>1. run[r] # Idle
    BY <1>3 DEF Claim, Idle
  <2>2. CASE media[run[r].object].status = "staged"
    <3>1. run[r].object # o
      BY <2>2
    <3>2. media'[o] = media[o]
      BY <1>3, <2>1, <3>1, MediaFacts, RunFacts DEF Claim
    <3>3. QED BY <3>2
  <2>3. CASE media[run[r].object].status # "staged"
    BY <1>1, <1>3, <2>3 DEF Claim
  <2>4. QED BY <2>2, <2>3
<1>4. ASSUME run[r] # Idle, NEW limit \in {1, RetryLimit}, Release(r, Counted(r, limit))
      PROVE  media'[o].status = "deleted"
  BY <1>4, CountedRecord, ReleaseRevivesNothing
<1>5. CASE Inspect(r)
  <2>1. run[r] # Idle
    BY <1>5 DEF Inspect, Idle
  <2>2. CASE Release(r, [media[run[r].object] EXCEPT !.manual = TRUE])
    <3> DEFINE m == [media[run[r].object] EXCEPT !.manual = TRUE]
    <3>1. media[run[r].object] \in Records
      BY <2>1, MediaFacts, RunFacts
    <3>2. m \in Records /\ m.status = media[run[r].object].status
      BY <3>1 DEF Records
    <3>3. Release(r, m)
      BY <2>2
    <3> HIDE DEF m
    <3>4. QED BY <2>1, <3>2, <3>3, ReleaseRevivesNothing
  <2>3. QED BY <1>1, <1>4, <1>5, <2>1, <2>2 DEF Inspect
<1>6. CASE Recheck(r) \/ CrashRun(r)
  BY <1>1, <1>6 DEF Recheck, CrashRun
<1>7. CASE DeleteFile(r) \/ FailRun(r)
  <2>1. run[r] # Idle
    BY <1>7 DEF DeleteFile, FailRun, Idle
  <2>2. QED BY <1>1, <1>4, <1>7, <2>1 DEF DeleteFile, FailRun
<1>8. CASE Finalize(r)
  <2>1. run[r] # Idle
    BY <1>8 DEF Finalize, Idle
  <2> DEFINE m == [media[run[r].object] EXCEPT !.status = "deleted", !.retries = 0,
                                               !.manual = FALSE]
  <2>2. m \in Records /\ m.status = "deleted" /\ Release(r, m)
    <3>1. media[run[r].object] \in Records /\ 0 \in 0..RetryLimit
      BY <2>1, MediaFacts, RunFacts, MediaAssumption
    <3>2. QED BY <1>8, <3>1 DEF Finalize, Records, Status
  <2> HIDE DEF m
  <2>3. QED BY <2>1, <2>2, ReleaseRevivesNothing
<1>9. QED BY <1>2, <1>3, <1>5, <1>6, <1>7, <1>8 DEF RunStep

LEMMA NothingRevives ==
  ASSUME IInv, [Next]_vars, NEW o \in Object, media[o].status = "deleted",
         ~(class[o] = "avatar" /\ o \in unsure)
  PROVE  media'[o].status = "deleted"
<1>1. CASE media' = media
  BY <1>1
<1>2. ASSUME NEW p \in Object,
             \/ Stage(p) \/ Promote(p) \/ LoseCommit(p) \/ LookAgain(p) \/ RemoveFile(p)
             \/ DropCommit(p) \/ Crash(p) \/ OpenForm(p) \/ GrowOld(p) \/ Lapse(p)
      PROVE  media'[o].status = "deleted"
  BY <1>1, <1>2 DEF Stage, Promote, LoseCommit, LookAgain, RemoveFile, DropCommit, Crash,
                    OpenForm, GrowOld, Lapse
<1>3. CASE SaveForm \/ UNCHANGED vars
  BY <1>1, <1>3 DEF SaveForm, vars
<1>4. QED
  BY <1>2, <1>3, UploadsReviveNothing, RequestsReviveNothing, RunsReviveNothing
  DEF Next, RequestStep

\* Whatever markPending, a compensation, deletePortfolioPhoto or a run with an old copy
\* write, a record that says deleted says so for good, but for the avatar that
\* replaceUserAvatarAtomically gave up although its commit could still land.
THEOREM DeletionIsFinal == Spec => DeletedIsFinal
<1>1. IInv /\ [Next]_vars =>
        [\A o \in Object :
           media[o].status = "deleted" /\ ~(class[o] = "avatar" /\ o \in unsure) =>
             media'[o].status = "deleted"]_vars
  BY NothingRevives
<1>2. QED BY <1>1, MediaInvariance, PTL DEF Spec, DeletedIsFinal

----------------------------------------------------------------------------
(* Schedules: weeks, overrides and the documents made of them.             *)

LEMMA DayMapMade ==
  ASSUME NEW D \in SUBSET Day, NEW f \in [D -> Hours \cup {Off}]
  PROVE  f \in DayMap
BY DEF DayMap

LEMMA DayMapRead ==
  ASSUME NEW f \in DayMap
  PROVE  DOMAIN f \in SUBSET Day /\ f \in [DOMAIN f -> Hours \cup {Off}]
<1>1. PICK D \in SUBSET Day : f \in [D -> Hours \cup {Off}]
  BY DEF DayMap
<1>2. QED BY <1>1

\* The operations that keep a week a week.
LEMMA RestrictIsDayMap ==
  ASSUME NEW f \in DayMap, NEW S \in SUBSET DOMAIN f
  PROVE  Restrict(f, S) \in DayMap
<1>1. S \in SUBSET Day /\ Restrict(f, S) \in [S -> Hours \cup {Off}]
  BY DayMapRead DEF Restrict
<1>2. QED BY <1>1, DayMapMade

LEMMA PutIsDayMap ==
  ASSUME NEW f \in DayMap, NEW g \in DayMap
  PROVE  Put(f, g) \in DayMap
<1>1. DOMAIN f \cup DOMAIN g \in SUBSET Day
  BY DayMapRead
<1>2. \A d \in DOMAIN f \cup DOMAIN g :
        (IF d \in DOMAIN g THEN g[d] ELSE f[d]) \in Hours \cup {Off}
  BY DayMapRead
<1>3. Put(f, g) \in [DOMAIN f \cup DOMAIN g -> Hours \cup {Off}]
  BY <1>2 DEF Put
<1>4. QED BY <1>1, <1>3, DayMapMade

LEMMA OneDayIsDayMap ==
  ASSUME NEW d \in Day, NEW h \in Hours \cup {Off}
  PROVE  [x \in {d} |-> h] \in DayMap
<1>1. {d} \in SUBSET Day /\ [x \in {d} |-> h] \in [{d} -> Hours \cup {Off}]
  OBVIOUS
<1>2. QED BY <1>1, DayMapMade

LEMMA FreeIsDayMap == Free \in DayMap /\ DOMAIN Free = {}
<1>1. {} \in SUBSET Day /\ Free \in [{} -> Hours \cup {Off}]
  BY DEF Free
<1>2. QED BY <1>1, DayMapMade

LEMMA BlankIsSchedule == Blank \in Schedule
BY FreeIsDayMap, SchedulesAssumption DEF Blank, Schedule

LEMMA NormalizedIsSchedule ==
  ASSUME NEW s \in Schedule
  PROVE  /\ Normalized(s) \in Schedule
         /\ Normalized(s).overrides = s.overrides /\ Normalized(s).nonWorking = s.nonWorking
         /\ Normalized(s).explicit = s.explicit /\ Normalized(s).default = s.default
BY FreeIsDayMap DEF Normalized, Schedule

LEMMA ViewIsSchedule ==
  ASSUME NEW s \in Schedule
  PROVE  /\ View(s) \in Schedule
         /\ View(s).overrides = s.overrides /\ View(s).nonWorking = s.nonWorking
         /\ View(s).explicit = s.explicit /\ View(s).default = s.default
         /\ View(s).weekly =
              IF s.explicit = Absent THEN Normalized(s).weekly
              ELSE Restrict(Normalized(s).weekly,
                            s.explicit \cap DOMAIN Normalized(s).weekly)
<1> DEFINE n == Normalized(s)
           w == IF n.explicit = Absent THEN n.weekly
                ELSE Restrict(n.weekly, n.explicit \cap DOMAIN n.weekly)
<1>1. /\ n \in Schedule /\ n.overrides = s.overrides /\ n.nonWorking = s.nonWorking
      /\ n.explicit = s.explicit /\ n.default = s.default
  BY NormalizedIsSchedule
<1>2. n.weekly \in DayMap
  BY <1>1 DEF Schedule
<1>3. w \in DayMap
  BY <1>2, RestrictIsDayMap
<1>4. View(s) = [n EXCEPT !.marked = FALSE, !.weekly = w]
  BY DEF View
<1> HIDE DEF n, w
<1>5. View(s) \in Schedule /\ View(s).weekly = w /\ View(s).overrides = n.overrides
      /\ View(s).nonWorking = n.nonWorking /\ View(s).explicit = n.explicit
      /\ View(s).default = n.default
  BY <1>1, <1>3, <1>4 DEF Schedule
<1>6. QED BY <1>1, <1>5 DEF w, n

\* What a page can send is a Schedule.
LEMMA UpdatesAreSchedules ==
  ASSUME NEW s \in Schedule, NEW p \in Updates(s)
  PROVE  p \in Schedule
<1>1. s.overrides \in DayMap /\ s.nonWorking \in SUBSET Day
  BY DEF Schedule
<1>2. ASSUME NEW d \in Day, NEW h \in Hours \cup {Off}
      PROVE  Put(s.overrides, [x \in {d} |-> h]) \in DayMap
  BY <1>1, OneDayIsDayMap, PutIsDayMap
<1>3. CASE \E d \in Day, h \in Hours : p = SetDateHours(s, d, h)
  <2>1. PICK d \in Day, h \in Hours : p = SetDateHours(s, d, h)
    BY <1>3
  <2>2. Put(s.overrides, [x \in {d} |-> h]) \in DayMap
    BY <1>2
  <2>3. s.nonWorking \ {d} \in SUBSET Day
    BY <1>1
  <2>4. QED BY <2>1, <2>2, <2>3 DEF SetDateHours, Schedule
<1>4. CASE \E d \in Day : p = MarkDayOff(s, d)
  <2>1. PICK d \in Day : p = MarkDayOff(s, d)
    BY <1>4
  <2>2. Put(s.overrides, [x \in {d} |-> Off]) \in DayMap
    BY <1>2
  <2>3. s.nonWorking \cup {d} \in SUBSET Day
    BY <1>1
  <2>4. QED BY <2>1, <2>2, <2>3 DEF MarkDayOff, Schedule
<1>5. CASE \E d \in DOMAIN s.overrides : p = RemoveOverride(s, d)
  <2>1. PICK d \in DOMAIN s.overrides : p = RemoveOverride(s, d)
    BY <1>5
  <2>2. Restrict(s.overrides, DOMAIN s.overrides \ {d}) \in DayMap
    BY <1>1, RestrictIsDayMap
  <2>3. QED BY <1>1, <2>1, <2>2 DEF RemoveOverride, Schedule
<1>6. CASE p = UseDefaultHours(s)
  BY <1>6 DEF UseDefaultHours, Schedule
<1>7. QED BY <1>3, <1>4, <1>5, <1>6 DEF Updates

LEMMA MarkedIsSchedule ==
  ASSUME NEW s \in Schedule
  PROVE  /\ Marked(s) \in Schedule
         /\ Marked(s).weekly = s.weekly /\ Marked(s).marked = AllDaysOff(s.weekly)
         /\ Marked(s).overrides = s.overrides /\ Marked(s).nonWorking = s.nonWorking
         /\ Marked(s).explicit = s.explicit /\ Marked(s).default = s.default
         /\ Normalized(Marked(s)) = Marked(s)
<1>1. AllDaysOff(s.weekly) \in BOOLEAN
  BY DEF AllDaysOff
<1>2. Marked(s) = [s EXCEPT !.marked = AllDaysOff(s.weekly)]
  BY DEF Marked
<1>3. /\ Marked(s) \in Schedule
      /\ Marked(s).weekly = s.weekly /\ Marked(s).marked = AllDaysOff(s.weekly)
      /\ Marked(s).overrides = s.overrides /\ Marked(s).nonWorking = s.nonWorking
      /\ Marked(s).explicit = s.explicit /\ Marked(s).default = s.default
  BY <1>1, <1>2 DEF Schedule
<1>4. Normalized(Marked(s)) = Marked(s)
  BY <1>3 DEF Normalized
<1>5. QED BY <1>3, <1>4

LEMMA SanitizedIsSchedule ==
  ASSUME NEW p \in Schedule
  PROVE  /\ Sanitized(p) \in Schedule
         /\ Sanitized(p).weekly = p.weekly /\ Sanitized(p).overrides = p.overrides
         /\ Sanitized(p).default = p.default
         /\ Sanitized(p).explicit =
              IF p.explicit = Absent THEN DOMAIN p.weekly ELSE p.explicit
         /\ \A d \in DOMAIN p.overrides :
              d \in Sanitized(p).nonWorking <=> p.overrides[d] = Off
         /\ \A d \in Day \ DOMAIN p.overrides :
              d \in Sanitized(p).nonWorking <=> d \in p.nonWorking
         /\ Normalized(Sanitized(p)) = Sanitized(p)
<1> DEFINE working == {d \in DOMAIN p.overrides : p.overrides[d] # Off}
           m == Marked(p)
           e == IF m.explicit = Absent THEN DOMAIN p.weekly ELSE m.explicit
           n == (m.nonWorking \cup DOMAIN p.overrides) \ working
<1>1. /\ m \in Schedule /\ m.weekly = p.weekly /\ m.overrides = p.overrides
      /\ m.nonWorking = p.nonWorking /\ m.explicit = p.explicit /\ m.default = p.default
      /\ m.marked = AllDaysOff(p.weekly)
  BY MarkedIsSchedule
<1>2. /\ p.weekly \in DayMap /\ p.overrides \in DayMap
      /\ p.nonWorking \in SUBSET Day /\ p.explicit \in {Absent} \cup SUBSET Day
  BY DEF Schedule
<1>3. DOMAIN p.weekly \in SUBSET Day /\ DOMAIN p.overrides \in SUBSET Day
  BY <1>2, DayMapRead
<1>4. e \in {Absent} \cup SUBSET Day /\ n \in SUBSET Day
  BY <1>1, <1>2, <1>3
<1>5. Sanitized(p) = [m EXCEPT !.explicit = e, !.nonWorking = n]
  BY DEF Sanitized
<1>6. e = (IF p.explicit = Absent THEN DOMAIN p.weekly ELSE p.explicit)
  BY <1>1
<1>7. /\ \A d \in DOMAIN p.overrides : d \in n <=> p.overrides[d] = Off
      /\ \A d \in Day \ DOMAIN p.overrides : d \in n <=> d \in p.nonWorking
  BY <1>1
<1> HIDE DEF e, n, m
<1>8. /\ Sanitized(p) \in Schedule
      /\ Sanitized(p).weekly = p.weekly /\ Sanitized(p).overrides = p.overrides
      /\ Sanitized(p).default = p.default /\ Sanitized(p).explicit = e
      /\ Sanitized(p).nonWorking = n /\ Sanitized(p).marked = AllDaysOff(p.weekly)
  BY <1>1, <1>4, <1>5 DEF Schedule
<1>9. Normalized(Sanitized(p)) = Sanitized(p)
  BY <1>8 DEF Normalized
<1>10. QED BY <1>6, <1>7, <1>8, <1>9

----------------------------------------------------------------------------
(* Schedules: the hours of a date.                                         *)

\* A page shows the hours that the Schedule has.
LEMMA ViewHours ==
  ASSUME NEW s \in Schedule, NEW usual, NEW d \in Day
  PROVE  DateHours(View(s), usual, d) = DateHours(Normalized(s), usual, d)
<1> DEFINE n == Normalized(s)
           v == View(s)
           S == n.explicit \cap DOMAIN n.weekly
<1>1. /\ n.overrides = v.overrides /\ n.nonWorking = v.nonWorking
      /\ n.explicit = v.explicit
      /\ v.weekly = IF n.explicit = Absent THEN n.weekly ELSE Restrict(n.weekly, S)
  <2>1. /\ n.overrides = s.overrides /\ n.nonWorking = s.nonWorking
        /\ n.explicit = s.explicit
    BY NormalizedIsSchedule
  <2>2. /\ v.overrides = s.overrides /\ v.nonWorking = s.nonWorking
        /\ v.explicit = s.explicit
    BY ViewIsSchedule
  <2>3. v.weekly = IF s.explicit = Absent THEN n.weekly
                   ELSE Restrict(n.weekly, s.explicit \cap DOMAIN n.weekly)
    BY ViewIsSchedule
  <2>4. QED BY <2>1, <2>2, <2>3
<1>2. /\ DOMAIN Restrict(n.weekly, S) = S
      /\ \A x \in S : Restrict(n.weekly, S)[x] = n.weekly[x]
  BY DEF Restrict
<1> HIDE DEF n, v
<1>3. /\ ExplicitDay(v, d) <=> ExplicitDay(n, d)
      /\ ExplicitDay(n, d) => (d \in DOMAIN v.weekly <=> d \in DOMAIN n.weekly)
      /\ ExplicitDay(n, d) /\ d \in DOMAIN v.weekly => v.weekly[d] = n.weekly[d]
  BY <1>1, <1>2 DEF ExplicitDay
<1>4. DateHours(v, usual, d) = DateHours(n, usual, d)
  BY <1>1, <1>3 DEF DateHours, DayHours
<1>5. QED BY <1>4 DEF n, v

LEMMA ShownParts ==
  ASSUME NEW a, NEW b, NEW d, Shown(a, d) = Shown(b, d)
  PROVE  /\ ExplicitDay(a, d) = ExplicitDay(b, d)
         /\ (d \in a.nonWorking) = (d \in b.nonWorking)
         /\ d \in DOMAIN a.weekly <=> d \in DOMAIN b.weekly
         /\ d \in DOMAIN a.weekly => a.weekly[d] = b.weekly[d]
         /\ d \in DOMAIN a.overrides <=> d \in DOMAIN b.overrides
         /\ d \in DOMAIN a.overrides => a.overrides[d] = b.overrides[d]
<1>1. /\ ExplicitDay(a, d) = ExplicitDay(b, d)
      /\ Restrict(a.weekly, {d} \cap DOMAIN a.weekly) =
           Restrict(b.weekly, {d} \cap DOMAIN b.weekly)
      /\ Restrict(a.overrides, {d} \cap DOMAIN a.overrides) =
           Restrict(b.overrides, {d} \cap DOMAIN b.overrides)
      /\ (d \in a.nonWorking) = (d \in b.nonWorking)
  BY DEF Shown
<1>2. ASSUME NEW f, NEW g,
             Restrict(f, {d} \cap DOMAIN f) = Restrict(g, {d} \cap DOMAIN g)
      PROVE  /\ d \in DOMAIN f <=> d \in DOMAIN g
             /\ d \in DOMAIN f => f[d] = g[d]
  <2>1. {d} \cap DOMAIN f = {d} \cap DOMAIN g
    <3>1. DOMAIN Restrict(f, {d} \cap DOMAIN f) = {d} \cap DOMAIN f
      BY DEF Restrict
    <3>2. DOMAIN Restrict(g, {d} \cap DOMAIN g) = {d} \cap DOMAIN g
      BY DEF Restrict
    <3>3. QED BY <1>2, <3>1, <3>2
  <2>2. ASSUME d \in DOMAIN f PROVE f[d] = g[d]
    <3>1. Restrict(f, {d} \cap DOMAIN f)[d] = f[d]
      BY <2>2 DEF Restrict
    <3>2. Restrict(g, {d} \cap DOMAIN g)[d] = g[d]
      BY <2>1, <2>2 DEF Restrict
    <3>3. QED BY <1>2, <3>1, <3>2
  <2>3. QED BY <2>1, <2>2
<1>3. /\ d \in DOMAIN a.weekly <=> d \in DOMAIN b.weekly
      /\ d \in DOMAIN a.weekly => a.weekly[d] = b.weekly[d]
  BY <1>1, <1>2
<1>4. /\ d \in DOMAIN a.overrides <=> d \in DOMAIN b.overrides
      /\ d \in DOMAIN a.overrides => a.overrides[d] = b.overrides[d]
  BY <1>1, <1>2
<1>5. QED BY <1>1, <1>3, <1>4

\* The hours of a date depend on nothing but what is shown of it.
LEMMA ShownHours ==
  ASSUME NEW a, NEW b, NEW usual, NEW d, Shown(a, d) = Shown(b, d)
  PROVE  DateHours(a, usual, d) = DateHours(b, usual, d)
<1>1. DayHours(a, usual, d) = DayHours(b, usual, d)
  BY ShownParts DEF DayHours
<1>2. QED BY <1>1, ShownParts DEF DateHours

\* Storing a Schedule keeps the hours of a date that is off by its own hours
\* exactly when it is one of the days off.
LEMMA SanitizedHours ==
  ASSUME NEW p \in Schedule, NEW usual, NEW d \in Day,
         d \in DOMAIN p.overrides => (d \in p.nonWorking <=> p.overrides[d] = Off)
  PROVE  DateHours(Sanitized(p), usual, d) = DateHours(p, usual, d)
<1>1. d \in Sanitized(p).nonWorking <=> d \in p.nonWorking
  BY SanitizedIsSchedule
<1>2. ExplicitDay(Sanitized(p), d) <=> ExplicitDay(p, d)
  BY SanitizedIsSchedule DEF ExplicitDay
<1>3. DayHours(Sanitized(p), usual, d) = DayHours(p, usual, d)
  BY <1>2, SanitizedIsSchedule DEF DayHours
<1>4. QED BY <1>1, <1>3 DEF DateHours

----------------------------------------------------------------------------
(* Schedules: the types.                                                   *)

PageStates == [pc : {"closed", "open", "admitted", "half", "saved"},
               view : Schedule, payload : Schedule]

SettingsStates == [pc : {"closed", "open", "half"}, default : Hours, weekly : DayMap]

RequestStates ==
  [pc : {"idle", "checked", "reading", "touched", "booked", "refused"},
   day : Day, slot : Slot, granted : BOOLEAN, fresh : BOOLEAN]

LEMMA ScheduleTypeParts ==
  ScheduleTypeOK <=>
    /\ exists \in BOOLEAN /\ schedule \in Schedule /\ member \in BOOLEAN /\ default \in Hours
    /\ page \in [Page -> PageStates]
    /\ settings \in [Settings -> SettingsStates]
    /\ request \in [Request -> RequestStates]
    /\ saves \in 0..MaxSaves /\ torn \in BOOLEAN
BY DEF ScheduleTypeOK, PageStates, SettingsStates, RequestStates

LEMMA ScheduleTypesNext ==
  ASSUME exists' \in BOOLEAN, schedule' \in Schedule, member' \in BOOLEAN, default' \in Hours,
         page' \in [Page -> PageStates], settings' \in [Settings -> SettingsStates],
         request' \in [Request -> RequestStates],
         saves' \in 0..MaxSaves, torn' \in BOOLEAN
  PROVE  ScheduleTypeOK'
BY DEF ScheduleTypeOK, PageStates, SettingsStates, RequestStates

LEMMA InitScheduleTypes == ASSUME ScheduleInit PROVE ScheduleTypeOK
<1>1. [d \in Day |-> Off] \in DayMap
  <2>1. Day \in SUBSET Day /\ [d \in Day |-> Off] \in [Day -> Hours \cup {Off}]
    OBVIOUS
  <2>2. QED BY <2>1, DayMapMade
<1>2. schedule \in Schedule
  <2>1. [Blank EXCEPT !.weekly = [d \in Day |-> Off]] \in Schedule
    BY <1>1, BlankIsSchedule DEF Schedule
  <2>2. QED BY <2>1, BlankIsSchedule DEF ScheduleInit
<1>3. page \in [Page -> PageStates]
  BY BlankIsSchedule DEF ScheduleInit, PageStates
<1>4. settings \in [Settings -> SettingsStates]
  BY FreeIsDayMap, SchedulesAssumption DEF ScheduleInit, SettingsStates
<1>5. request \in [Request -> RequestStates]
  <2>1. PICK d \in [Request -> Day], s \in [Request -> Slot] :
          request = [r \in Request |-> [pc |-> "idle", day |-> d[r], slot |-> s[r],
                                        granted |-> FALSE, fresh |-> FALSE]]
    BY DEF ScheduleInit
  <2>2. QED BY <2>1 DEF RequestStates
<1>6. saves \in 0..MaxSaves
  BY SchedulesAssumption DEF ScheduleInit
<1>7. QED
  BY <1>2, <1>3, <1>4, <1>5, <1>6, SchedulesAssumption, ScheduleTypeParts DEF ScheduleInit

\* What an opened page shows, of either kind.
LEMMA LoadedIsSchedule ==
  ASSUME ScheduleTypeOK,
         NEW view \in {[Blank EXCEPT !.default = default]} \cup
                        IF exists THEN {View(schedule)} ELSE {}
  PROVE  view \in Schedule
<1>1. [Blank EXCEPT !.default = default] \in Schedule
  BY BlankIsSchedule, ScheduleTypeParts DEF Schedule
<1>2. View(schedule) \in Schedule
  BY ViewIsSchedule, ScheduleTypeParts
<1>3. QED BY <1>1, <1>2

LEMMA StaleRequests ==
  ASSUME ScheduleTypeOK, MakeStale
  PROVE  /\ request' \in [Request -> RequestStates]
         /\ \A r \in Request : /\ ~request'[r].fresh /\ request'[r].pc = request[r].pc
                               /\ request'[r].day = request[r].day
                               /\ request'[r].slot = request[r].slot
                               /\ request'[r].granted = request[r].granted
BY ScheduleTypeParts DEF MakeStale, RequestStates

LEMMA WrittenSchedules ==
  ASSUME ScheduleTypeOK
  PROVE  /\ \A t \in Page : Sanitized(page[t].payload) \in Schedule
         /\ \A t \in Settings :
              /\ WeekSaved(t) \in Schedule
              /\ WeekSaved(t).weekly = settings[t].weekly
              /\ WeekSaved(t).default = settings[t].default
              /\ WeekSaved(t).overrides = schedule.overrides
              /\ WeekSaved(t).nonWorking = schedule.nonWorking
              /\ WeekSaved(t).explicit = schedule.explicit
              /\ Normalized(WeekSaved(t)) = WeekSaved(t)
<1>1. ASSUME NEW t \in Page PROVE Sanitized(page[t].payload) \in Schedule
  <2>1. page[t].payload \in Schedule
    BY ScheduleTypeParts DEF PageStates
  <2>2. QED BY <2>1, SanitizedIsSchedule
<1>2. ASSUME NEW t \in Settings
      PROVE  /\ WeekSaved(t) \in Schedule
             /\ WeekSaved(t).weekly = settings[t].weekly
             /\ WeekSaved(t).default = settings[t].default
             /\ WeekSaved(t).overrides = schedule.overrides
             /\ WeekSaved(t).nonWorking = schedule.nonWorking
             /\ WeekSaved(t).explicit = schedule.explicit
             /\ Normalized(WeekSaved(t)) = WeekSaved(t)
  <2> DEFINE s == [schedule EXCEPT !.default = settings[t].default,
                                   !.weekly = settings[t].weekly]
  <2>1. /\ s \in Schedule /\ s.weekly = settings[t].weekly
        /\ s.default = settings[t].default /\ s.overrides = schedule.overrides
        /\ s.nonWorking = schedule.nonWorking /\ s.explicit = schedule.explicit
    BY ScheduleTypeParts DEF SettingsStates, Schedule
  <2>2. WeekSaved(t) = Marked(s)
    BY DEF WeekSaved
  <2> HIDE DEF s
  <2>3. QED BY <2>1, <2>2, MarkedIsSchedule
<1>3. QED BY <1>1, <1>2

\* The steps of the Schedule pages.
LEMMA PageTypes ==
  ASSUME ScheduleTypeOK, NEW t \in Page,
         \/ OpenPage(t) \/ SavePage(t) \/ WriteSchedule(t)
         \/ WriteEntry(t) \/ Answer(t) \/ CutOff(t)
  PROVE  ScheduleTypeOK'
<1>1. /\ exists \in BOOLEAN /\ schedule \in Schedule /\ member \in BOOLEAN /\ default \in Hours
      /\ page \in [Page -> PageStates] /\ settings \in [Settings -> SettingsStates]
      /\ request \in [Request -> RequestStates]
      /\ saves \in 0..MaxSaves /\ torn \in BOOLEAN
  BY ScheduleTypeParts
<1>2. /\ page[t] \in PageStates /\ page[t].view \in Schedule /\ page[t].payload \in Schedule
      /\ page[t].payload.default \in Hours
  BY <1>1 DEF PageStates, Schedule
<1>3. CASE OpenPage(t)
  <2>1. PICK view \in {[Blank EXCEPT !.default = default]} \cup
                        IF exists THEN {View(schedule)} ELSE {} :
          page' = [page EXCEPT ![t].pc = "open", ![t].view = view]
    BY <1>3 DEF OpenPage
  <2>2. page' \in [Page -> PageStates]
    <3>1. view \in Schedule
      BY <2>1, LoadedIsSchedule
    <3> DEFINE z == [page[t] EXCEPT !.pc = "open", !.view = view]
    <3>2. z \in PageStates
      BY <1>2, <3>1 DEF PageStates
    <3>3. page' = [page EXCEPT ![t] = z]
      BY <1>1, <2>1 DEF PageStates
    <3> HIDE DEF z
    <3>4. QED BY <1>1, <3>2, <3>3
  <2>3. QED BY <1>1, <1>3, <2>2, ScheduleTypesNext DEF OpenPage, documents
<1>4. CASE SavePage(t)
  <2>1. PICK p \in Updates(page[t].view) :
          page' = [page EXCEPT ![t].pc = "admitted", ![t].payload = p]
    BY <1>4 DEF SavePage
  <2>2. p \in Schedule
    BY <1>2, UpdatesAreSchedules
  <2>3. page' \in [Page -> PageStates]
    <3> DEFINE z == [page[t] EXCEPT !.pc = "admitted", !.payload = p]
    <3>1. z \in PageStates
      BY <1>2, <2>2 DEF PageStates
    <3>2. page' = [page EXCEPT ![t] = z]
      BY <1>1, <2>1 DEF PageStates
    <3> HIDE DEF z
    <3>3. QED BY <1>1, <3>1, <3>2
  <2>4. saves' \in 0..MaxSaves
    <3>1. saves < MaxSaves /\ saves' = saves + 1
      BY <1>4 DEF SavePage, BeginSave
    <3>2. QED BY <1>1, <3>1, SchedulesAssumption
  <2>5. QED BY <1>1, <1>4, <2>3, <2>4, ScheduleTypesNext DEF SavePage, documents
<1>5. CASE WriteSchedule(t)
  <2>1. page' \in [Page -> PageStates]
    <3> DEFINE z == [page[t] EXCEPT !.pc = "half"]
    <3>1. z \in PageStates
      BY <1>2 DEF PageStates
    <3>2. page' = [page EXCEPT ![t] = z]
      BY <1>1, <1>5 DEF WriteSchedule, PageStates
    <3> HIDE DEF z
    <3>3. QED BY <1>1, <3>1, <3>2
  <2>2. torn' \in BOOLEAN
    BY <1>5 DEF WriteSchedule, MidSave
  <2>3. schedule' \in Schedule
    BY <1>5, WrittenSchedules DEF WriteSchedule
  <2>4. QED BY <1>1, <1>5, <2>1, <2>2, <2>3, StaleRequests, ScheduleTypesNext DEF WriteSchedule
<1>6. CASE WriteEntry(t)
  <2>1. page' \in [Page -> PageStates]
    <3> DEFINE z == [page[t] EXCEPT !.pc = "saved"]
    <3>1. z \in PageStates
      BY <1>2 DEF PageStates
    <3>2. page' = [page EXCEPT ![t] = z]
      BY <1>1, <1>6 DEF WriteEntry, PageStates
    <3> HIDE DEF z
    <3>3. QED BY <1>1, <3>1, <3>2
  <2>2. default' \in Hours
    BY <1>1, <1>2, <1>6 DEF WriteEntry
  <2>3. QED BY <1>1, <1>6, <2>1, <2>2, StaleRequests, ScheduleTypesNext DEF WriteEntry
<1>7. CASE Answer(t)
  <2> DEFINE v == View(Sanitized(page[t].payload))
             w == [v EXCEPT !.default = IF member THEN default ELSE @]
  <2>1. v \in Schedule
    BY WrittenSchedules, ViewIsSchedule
  <2>2. w \in Schedule
    BY <1>1, <2>1 DEF Schedule
  <2>3. page' = [page EXCEPT ![t].pc = "open", ![t].payload = Blank, ![t].view = w]
    BY <1>7 DEF Answer
  <2> HIDE DEF v, w
  <2>4. page' \in [Page -> PageStates]
    <3> DEFINE z == [page[t] EXCEPT !.pc = "open", !.payload = Blank, !.view = w]
    <3>1. z \in PageStates
      BY <1>2, <2>2, BlankIsSchedule DEF PageStates
    <3>2. page' = [page EXCEPT ![t] = z]
      BY <1>1, <2>3 DEF PageStates
    <3> HIDE DEF z
    <3>3. QED BY <1>1, <3>1, <3>2
  <2>5. QED BY <1>1, <1>7, <2>4, ScheduleTypesNext DEF Answer, documents
<1>8. CASE CutOff(t)
  <2>1. page' \in [Page -> PageStates]
    <3> DEFINE z == [page[t] EXCEPT !.pc = "open", !.payload = Blank]
    <3>1. z \in PageStates
      BY <1>2, BlankIsSchedule DEF PageStates
    <3>2. page' = [page EXCEPT ![t] = z]
      BY <1>1, <1>8 DEF CutOff, PageStates
    <3> HIDE DEF z
    <3>3. QED BY <1>1, <3>1, <3>2
  <2>2. torn' \in BOOLEAN
    BY <1>1, <1>8 DEF CutOff
  <2>3. QED BY <1>1, <1>8, <2>1, <2>2, ScheduleTypesNext DEF CutOff, documents
<1>9. QED BY <1>3, <1>4, <1>5, <1>6, <1>7, <1>8

\* The steps of the settings pages, of departures and of returns.
LEMMA SettingsTypes ==
  ASSUME ScheduleTypeOK,
         \/ \E t \in Settings : \/ OpenSettings(t) \/ SaveEntry(t)
                                \/ SaveSchedule(t) \/ CutOffSettings(t)
         \/ Leave \/ Join
  PROVE  ScheduleTypeOK'
<1>1. /\ exists \in BOOLEAN /\ schedule \in Schedule /\ member \in BOOLEAN /\ default \in Hours
      /\ page \in [Page -> PageStates] /\ settings \in [Settings -> SettingsStates]
      /\ request \in [Request -> RequestStates]
      /\ saves \in 0..MaxSaves /\ torn \in BOOLEAN
  BY ScheduleTypeParts
<1>2. CASE Leave \/ Join
  <2>1. default' \in Hours
    BY <1>2, SchedulesAssumption DEF Leave, Join
  <2>2. QED BY <1>1, <1>2, <2>1, StaleRequests, ScheduleTypesNext DEF Leave, Join
<1>3. ASSUME NEW t \in Settings, OpenSettings(t) PROVE ScheduleTypeOK'
  <2>1. PICK view \in {[Blank EXCEPT !.default = default]} \cup
                        IF exists THEN {View(schedule)} ELSE {} :
          settings' = [settings EXCEPT ![t] =
            [pc |-> "open", default |-> view.default, weekly |-> view.weekly]]
    BY <1>3 DEF OpenSettings
  <2>2. view.default \in Hours /\ view.weekly \in DayMap
    BY LoadedIsSchedule DEF Schedule
  <2>3. settings' \in [Settings -> SettingsStates]
    BY <1>1, <2>1, <2>2 DEF SettingsStates
  <2>4. QED BY <1>1, <1>3, <2>3, ScheduleTypesNext DEF OpenSettings, documents
<1>4. ASSUME NEW t \in Settings, SaveEntry(t) PROVE ScheduleTypeOK'
  <2>1. PICK hours \in Hours, edit \in Edits :
          /\ default' = hours
          /\ settings' = [settings EXCEPT ![t] =
               [pc |-> "half", default |-> hours, weekly |-> Put(settings[t].weekly, edit)]]
    BY <1>4 DEF SaveEntry, SentHours
  <2>2. Put(settings[t].weekly, edit) \in DayMap
    BY <1>1, EditsAssumption, PutIsDayMap DEF SettingsStates
  <2>3. settings' \in [Settings -> SettingsStates]
    BY <1>1, <2>1, <2>2 DEF SettingsStates
  <2>4. saves' \in 0..MaxSaves /\ torn' \in BOOLEAN
    <3>1. saves < MaxSaves /\ saves' = saves + 1 /\ torn' = MidSave
      BY <1>4 DEF SaveEntry, BeginSave
    <3>2. QED BY <1>1, <3>1, SchedulesAssumption DEF MidSave
  <2>5. QED
    BY <1>1, <1>4, <2>1, <2>3, <2>4, StaleRequests, ScheduleTypesNext DEF SaveEntry
<1>5. ASSUME NEW t \in Settings, SaveSchedule(t) PROVE ScheduleTypeOK'
  <2>1. settings' \in [Settings -> SettingsStates]
    BY <1>1, <1>5 DEF SaveSchedule, SettingsStates
  <2>2. schedule' \in Schedule
    BY <1>5, WrittenSchedules DEF SaveSchedule
  <2>3. QED BY <1>1, <1>5, <2>1, <2>2, StaleRequests, ScheduleTypesNext DEF SaveSchedule
<1>6. ASSUME NEW t \in Settings, CutOffSettings(t) PROVE ScheduleTypeOK'
  <2>1. settings' \in [Settings -> SettingsStates]
    BY <1>1, <1>6 DEF CutOffSettings, SettingsStates
  <2>2. QED BY <1>1, <1>6, <2>1, ScheduleTypesNext DEF CutOffSettings, documents
<1>7. QED BY <1>2, <1>3, <1>4, <1>5, <1>6

LEMMA RequestTypes ==
  ASSUME ScheduleTypeOK, NEW r \in Request, Ask(r) \/ Read(r) \/ Touch(r) \/ Commit(r)
  PROVE  ScheduleTypeOK'
<1>1. request \in [Request -> RequestStates] /\ request[r].granted \in BOOLEAN
      /\ request[r].fresh \in BOOLEAN
  BY ScheduleTypeParts DEF RequestStates
<1>2. Bookable \in BOOLEAN
  BY DEF Bookable
<1>3. request' \in [Request -> RequestStates]
  BY <1>1, <1>2 DEF Ask, Read, Touch, Commit, Untouched, RequestStates
<1>4. QED BY <1>3, ScheduleTypeParts, ScheduleTypesNext DEF Ask, Read, Touch, Commit, documents

LEMMA ScheduleTypesKept ==
  ASSUME ScheduleTypeOK, [ScheduleNext]_scheduleVars
  PROVE  ScheduleTypeOK'
<1>1. CASE UNCHANGED scheduleVars
  BY <1>1, ScheduleTypeParts, ScheduleTypesNext DEF scheduleVars, documents
<1>2. CASE ScheduleNext
  BY <1>2, PageTypes, SettingsTypes, RequestTypes DEF ScheduleNext
<1>3. QED BY <1>1, <1>2

----------------------------------------------------------------------------
(* Schedules: the invariant.                                               *)

\* Two steps write the Schedule.
LEMMA ScheduleWriters ==
  ASSUME [ScheduleNext]_scheduleVars
  PROVE  \/ schedule' = schedule
         \/ \E t \in Page : WriteSchedule(t)
         \/ \E t \in Settings : SaveSchedule(t)
<1>1. ASSUME NEW t \in Page, OpenPage(t) \/ SavePage(t) \/ WriteEntry(t) \/ Answer(t) \/ CutOff(t)
      PROVE  schedule' = schedule
  BY <1>1 DEF OpenPage, SavePage, WriteEntry, Answer, CutOff, documents
<1>2. ASSUME NEW t \in Settings, OpenSettings(t) \/ SaveEntry(t) \/ CutOffSettings(t)
      PROVE  schedule' = schedule
  BY <1>2 DEF OpenSettings, SaveEntry, CutOffSettings, documents
<1>3. ASSUME NEW r \in Request, Ask(r) \/ Read(r) \/ Touch(r) \/ Commit(r)
      PROVE  schedule' = schedule
  BY <1>3 DEF Ask, Read, Touch, Commit, documents
<1>4. QED BY <1>1, <1>2, <1>3 DEF ScheduleNext, scheduleVars, documents, Leave, Join

\* What a page sends is written so that days off and their hours agree.
LEMMA DaysOffKept ==
  ASSUME ScheduleTypeOK, DaysOffAgree, [ScheduleNext]_scheduleVars
  PROVE  DaysOffAgree'
<1>1. ASSUME NEW t \in Page, WriteSchedule(t) PROVE DaysOffAgree'
  <2>1. page[t].payload \in Schedule /\ schedule' = Sanitized(page[t].payload)
    BY <1>1, ScheduleTypeParts DEF PageStates, WriteSchedule
  <2>2. QED BY <2>1, SanitizedIsSchedule DEF DaysOffAgree
<1>2. ASSUME NEW t \in Settings, SaveSchedule(t) PROVE DaysOffAgree'
  <2>1. schedule'.overrides = schedule.overrides /\ schedule'.nonWorking = schedule.nonWorking
    BY <1>2, WrittenSchedules DEF SaveSchedule
  <2>2. QED BY <2>1 DEF DaysOffAgree
<1>3. CASE schedule' = schedule
  BY <1>3 DEF DaysOffAgree
<1>4. QED BY <1>1, <1>2, <1>3, ScheduleWriters

\* A write leaves no request with a grant that could be committed.
LEMMA WritesWithdrawGrants ==
  ASSUME ScheduleTypeOK, Unlocked, MakeStale
  PROVE  GrantsHold'
<1>1. \A r \in Request : request'[r].pc # "touched" /\ ~request'[r].fresh
  BY StaleRequests DEF Unlocked
<1>2. QED BY <1>1 DEF GrantsHold

LEMMA GrantsUntouched ==
  ASSUME GrantsHold, UNCHANGED documents,
         NEW r \in Request, \A q \in Request \ {r} : request'[q] = request[q],
         /\ request'[r].granted
         /\ request'[r].pc = "touched" \/ (request'[r].pc = "reading" /\ request'[r].fresh)
         => Bookable /\ request'[r].slot \in ServerHours(request'[r].day)
  PROVE  GrantsHold'
<1>1. Bookable' = Bookable /\ \A d : ServerHours(d)' = ServerHours(d)
  BY DEF documents, Bookable, ServerHours
<1>2. ASSUME NEW q \in Request,
             request'[q].granted,
             request'[q].pc = "touched" \/ (request'[q].pc = "reading" /\ request'[q].fresh)
      PROVE  Bookable' /\ request'[q].slot \in ServerHours(request'[q].day)
  <2>1. CASE q = r
    BY <1>1, <1>2, <2>1
  <2>2. CASE q # r
    BY <1>1, <1>2, <2>2 DEF GrantsHold
  <2>3. QED BY <2>1, <2>2
<1>3. \A q \in Request : ServerHours(request'[q].day) = ServerHours(request[q].day)'
  BY DEF documents, ServerHours
<1>4. QED BY <1>2, <1>3 DEF GrantsHold

LEMMA GrantsKept ==
  ASSUME ScheduleTypeOK, GrantsHold, [ScheduleNext]_scheduleVars
  PROVE  GrantsHold'
<1>1. CASE Unlocked /\ MakeStale
  BY <1>1, WritesWithdrawGrants
<1>2. CASE UNCHANGED <<documents, request>>
  <2>1. (Bookable' <=> Bookable) /\ \A d : ServerHours(d)' = ServerHours(d)
    BY <1>2 DEF documents, Bookable, ServerHours
  <2>2. \A q \in Request : ServerHours(request[q].day)' = ServerHours(request[q].day)
    BY <1>2 DEF documents, ServerHours
  <2>3. QED BY <1>2, <2>1, <2>2 DEF GrantsHold
<1>3. ASSUME NEW r \in Request, Ask(r) \/ Read(r) \/ Touch(r) \/ Commit(r)
      PROVE  GrantsHold'
  <2>1. request \in [Request -> RequestStates] /\ request[r] \in RequestStates
    BY ScheduleTypeParts
  <2>2. UNCHANGED documents
    BY <1>3 DEF Ask, Read, Touch, Commit
  <2>3. CASE Ask(r)
    <3>1. request'[r].pc = "checked" /\ \A q \in Request \ {r} : request'[q] = request[q]
      BY <2>1, <2>3 DEF Ask, RequestStates
    <3>2. QED BY <2>2, <3>1, GrantsUntouched
  <2>4. CASE Read(r)
    <3>1. /\ \A q \in Request \ {r} : request'[q] = request[q]
          /\ request'[r].slot = request[r].slot /\ request'[r].day = request[r].day
          /\ request'[r].granted =
               (Bookable /\ request[r].slot \in ServerHours(request[r].day))
      BY <2>1, <2>4 DEF Read, RequestStates
    <3>2. QED BY <2>2, <3>1, GrantsUntouched
  <2>5. CASE Touch(r)
    <3>1. /\ \A q \in Request \ {r} : request'[q] = request[q]
          /\ request'[r].slot = request[r].slot /\ request'[r].day = request[r].day
          /\ request'[r].granted = (request[r].granted /\ request[r].fresh)
          /\ request[r].pc = "reading"
      BY <2>1, <2>5 DEF Touch, Untouched, RequestStates
    <3>2. request'[r].granted => Bookable /\ request[r].slot \in ServerHours(request[r].day)
      BY <3>1 DEF GrantsHold
    <3>3. QED BY <2>2, <3>1, <3>2, GrantsUntouched
  <2>6. CASE Commit(r)
    <3>1. /\ \A q \in Request \ {r} : request'[q] = request[q]
          /\ ~request'[r].granted
      BY <2>1, <2>6 DEF Commit, RequestStates
    <3>2. QED BY <2>2, <3>1, GrantsUntouched
  <2>7. QED BY <1>3, <2>3, <2>4, <2>5, <2>6
<1>4. ASSUME NEW t \in Page,
             \/ OpenPage(t) \/ SavePage(t) \/ WriteSchedule(t)
             \/ WriteEntry(t) \/ Answer(t) \/ CutOff(t)
      PROVE  GrantsHold'
  BY <1>1, <1>2, <1>4 DEF OpenPage, SavePage, WriteSchedule, WriteEntry, Answer, CutOff
<1>5. ASSUME NEW t \in Settings,
             OpenSettings(t) \/ SaveEntry(t) \/ SaveSchedule(t) \/ CutOffSettings(t)
      PROVE  GrantsHold'
  BY <1>1, <1>2, <1>5 DEF OpenSettings, SaveEntry, SaveSchedule, CutOffSettings
<1>6. QED BY <1>1, <1>2, <1>3, <1>4, <1>5 DEF ScheduleNext, scheduleVars, Leave, Join

\* The steps of the Schedule pages and the two copies of the default hours.
LEMMA PageSavesKept ==
  ASSUME ScheduleTypeOK, SavesInOrder, NEW t \in Page,
         \/ OpenPage(t) \/ SavePage(t) \/ WriteSchedule(t)
         \/ WriteEntry(t) \/ Answer(t) \/ CutOff(t)
  PROVE  SavesInOrder'
<1>1. page \in [Page -> PageStates] /\ page[t] \in PageStates
      /\ page[t].payload \in Schedule
  BY ScheduleTypeParts DEF PageStates
<1>2. CASE OpenPage(t) \/ SavePage(t) \/ Answer(t) \/ CutOff(t)
  <2>1. CASE page[t].pc = "half"
    <3>1. torn'
      BY <1>2, <2>1 DEF OpenPage, SavePage, Answer, CutOff
    <3>2. QED BY <3>1 DEF SavesInOrder
  <2>2. CASE page[t].pc # "half"
    <3>1. /\ \A u \in Page \ {t} : page'[u] = page[u]
          /\ page'[t].pc # "half"
      BY <1>1, <1>2 DEF OpenPage, SavePage, Answer, CutOff, PageStates
    <3>2. UNCHANGED <<documents, settings>> /\ (~torn' => ~torn)
      <4>1. UNCHANGED <<documents, settings>>
        BY <1>2 DEF OpenPage, SavePage, Answer, CutOff
      <4>2. torn' = torn \/ torn' = (torn \/ page[t].pc = "half")
        BY <1>2 DEF OpenPage, SavePage, Answer, CutOff
      <4>3. torn \in BOOLEAN
        BY ScheduleTypeParts
      <4>4. QED BY <4>1, <4>2, <4>3
    <3>3. MidSave' <=> MidSave
      BY <2>2, <3>1, <3>2 DEF MidSave
    <3>4. QED BY <2>2, <3>1, <3>2, <3>3 DEF SavesInOrder, documents
  <2>3. QED BY <2>1, <2>2
<1>3. CASE WriteSchedule(t)
  <2> SUFFICES ASSUME ~torn' PROVE SavesInOrder'
    BY DEF SavesInOrder
  <2>1. /\ \A u \in Page \ {t} : page'[u] = page[u] /\ page[u].pc # "half"
        /\ page'[t].pc = "half" /\ page'[t].payload = page[t].payload
        /\ settings' = settings /\ \A u \in Settings : settings[u].pc # "half"
    BY <1>1, <1>3 DEF WriteSchedule, MidSave, PageStates
  <2>2. schedule'.default = page[t].payload.default
    BY <1>1, <1>3, SanitizedIsSchedule DEF WriteSchedule
  <2>3. MidSave'
    BY <2>1 DEF MidSave
  <2>4. QED BY <2>1, <2>2, <2>3 DEF SavesInOrder
<1>4. CASE WriteEntry(t)
  <2> SUFFICES ASSUME ~torn' PROVE SavesInOrder'
    BY DEF SavesInOrder
  <2>1. /\ \A u \in Page \ {t} : page'[u] = page[u]
        /\ page'[t].pc = "saved" /\ page[t].pc = "half"
        /\ settings' = settings /\ schedule' = schedule /\ member' = member
        /\ member => default' = page[t].payload.default
        /\ ~torn
    BY <1>1, <1>4 DEF WriteEntry, PageStates
  <2>2. /\ \A u \in Page : page'[u].pc # "half"
        /\ \A u \in Settings : settings[u].pc # "half"
        /\ schedule.default = page[t].payload.default
    BY <2>1 DEF SavesInOrder
  <2>3. QED BY <2>1, <2>2 DEF SavesInOrder
<1>5. QED BY <1>2, <1>3, <1>4

\* The steps of the settings pages.
LEMMA SettingsSavesKept ==
  ASSUME ScheduleTypeOK, SavesInOrder, NEW t \in Settings,
         OpenSettings(t) \/ SaveEntry(t) \/ SaveSchedule(t) \/ CutOffSettings(t)
  PROVE  SavesInOrder'
<1>1. settings \in [Settings -> SettingsStates] /\ settings[t] \in SettingsStates
  BY ScheduleTypeParts
<1>2. CASE OpenSettings(t)
  <2>1. /\ \A u \in Settings \ {t} : settings'[u] = settings[u]
        /\ settings'[t].pc = "open" /\ settings[t].pc # "half"
        /\ UNCHANGED <<documents, page, torn>>
    <3>1. PICK view : settings' = [settings EXCEPT ![t] =
                        [pc |-> "open", default |-> view.default, weekly |-> view.weekly]]
      BY <1>2 DEF OpenSettings
    <3>2. QED BY <1>1, <1>2, <3>1 DEF OpenSettings
  <2>2. MidSave' <=> MidSave
    BY <2>1 DEF MidSave
  <2>3. QED BY <2>1, <2>2 DEF SavesInOrder, documents
<1>3. CASE SaveEntry(t)
  <2> SUFFICES ASSUME ~torn' PROVE SavesInOrder'
    BY DEF SavesInOrder
  <2>1. PICK hours \in Hours, edit \in Edits :
          /\ default' = hours
          /\ settings' = [settings EXCEPT ![t] =
               [pc |-> "half", default |-> hours, weekly |-> Put(settings[t].weekly, edit)]]
    BY <1>3 DEF SaveEntry, SentHours
  <2>2. /\ settings'[t].pc = "half" /\ settings'[t].default = default'
        /\ \A u \in Settings \ {t} : settings'[u] = settings[u]
    BY <1>1, <2>1
  <2>3. /\ page' = page /\ schedule' = schedule /\ member' = member
        /\ \A u \in Page : page[u].pc # "half"
        /\ \A u \in Settings : settings[u].pc # "half"
    BY <1>3 DEF SaveEntry, MidSave
  <2>4. MidSave'
    BY <2>2 DEF MidSave
  <2>5. QED BY <2>2, <2>3, <2>4 DEF SavesInOrder
<1>4. CASE SaveSchedule(t)
  <2> SUFFICES ASSUME ~torn' PROVE SavesInOrder'
    BY DEF SavesInOrder
  <2>1. /\ settings'[t].pc = "open" /\ settings[t].pc = "half"
        /\ \A u \in Settings \ {t} : settings'[u] = settings[u]
        /\ page' = page /\ member' = member /\ default' = default /\ ~torn
    BY <1>1, <1>4 DEF SaveSchedule, SettingsStates
  <2>2. schedule'.default = settings[t].default
    BY <1>4, WrittenSchedules DEF SaveSchedule
  <2>3. /\ \A u \in Settings : settings'[u].pc # "half"
        /\ \A u \in Page : page[u].pc # "half"
        /\ member => default = settings[t].default
    BY <2>1 DEF SavesInOrder
  <2>4. QED BY <2>1, <2>2, <2>3 DEF SavesInOrder
<1>5. CASE CutOffSettings(t)
  BY <1>5 DEF CutOffSettings, SavesInOrder
<1>6. QED BY <1>2, <1>3, <1>4, <1>5

LEMMA SavesKept ==
  ASSUME ScheduleTypeOK, SavesInOrder, [ScheduleNext]_scheduleVars
  PROVE  SavesInOrder'
<1>1. CASE UNCHANGED <<documents, page, settings, torn>>
  BY <1>1 DEF documents, SavesInOrder, MidSave
<1>2. ASSUME NEW r \in Request, Ask(r) \/ Read(r) \/ Touch(r) \/ Commit(r)
      PROVE  SavesInOrder'
  BY <1>1, <1>2 DEF Ask, Read, Touch, Commit
<1>3. CASE Leave
  <2>1. ~member' /\ UNCHANGED <<schedule, page, settings, torn>>
    BY <1>3 DEF Leave
  <2>2. QED BY <2>1 DEF SavesInOrder
<1>4. CASE Join
  BY <1>4 DEF Join, SavesInOrder
<1>5. QED BY <1>1, <1>2, <1>3, <1>4, PageSavesKept, SettingsSavesKept DEF ScheduleNext, scheduleVars

LEMMA InitScheduleInv == ASSUME ScheduleInit PROVE ScheduleInv
<1>1. ScheduleTypeOK
  BY InitScheduleTypes
<1>2. /\ DOMAIN schedule.overrides = {} /\ schedule.default = Fallback /\ default = Fallback
  BY FreeIsDayMap DEF ScheduleInit, Blank
<1>3. /\ \A t \in Page : page[t].pc = "closed"
      /\ \A t \in Settings : settings[t].pc = "closed"
  BY DEF ScheduleInit
<1>4. \A r \in Request : ~request[r].granted
  BY DEF ScheduleInit
<1>5. QED BY <1>1, <1>2, <1>3, <1>4 DEF ScheduleInv, DaysOffAgree, GrantsHold, SavesInOrder

\* The invariant behind the hours holds in every state, however the writes of the
\* two pages, departures, returns and bookings interleave.
THEOREM ScheduleInvariance == ScheduleSpec => []ScheduleInv
<1>1. ScheduleInit => ScheduleInv
  BY InitScheduleInv
<1>2. ScheduleInv /\ [ScheduleNext]_scheduleVars => ScheduleInv'
  BY ScheduleTypesKept, DaysOffKept, GrantsKept, SavesKept DEF ScheduleInv
<1>3. QED BY <1>1, <1>2, PTL DEF ScheduleSpec

\* Every variable stays in its range; in particular no step of either page leaves
\* default hours that are a day off, in the Schedule or in the entry of the salon.
THEOREM ScheduleTypes == ScheduleSpec => []ScheduleTypeOK
<1>1. ScheduleInv => ScheduleTypeOK
  BY DEF ScheduleInv
<1>2. QED BY <1>1, ScheduleInvariance, PTL

\* The booking page, the card and the server give the same hours for every date,
\* for any number of pages, once a save has run alone and to its end.
THEOREM OfferedHolds == ScheduleSpec => []OfferedIsAccepted
<1>1. ASSUME ScheduleInv PROVE OfferedIsAccepted
  <2> SUFFICES ASSUME Bookable, ~MidSave, ~torn, NEW d \in Day
               PROVE  PageHours(d) = ServerHours(d) /\ CardHours(d) = ServerHours(d)
    BY DEF OfferedIsAccepted
  <2>1. /\ schedule \in Schedule /\ schedule.default = default
        /\ d \in DOMAIN schedule.overrides =>
             (d \in schedule.nonWorking <=> schedule.overrides[d] = Off)
    BY <1>1, ScheduleTypeParts DEF ScheduleInv, SavesInOrder, Bookable, DaysOffAgree
  <2>2. PageHours(d) = ServerHours(d)
    BY <2>1, ViewHours DEF PageHours, ServerHours
  <2>3. CardHours(d) = ServerHours(d)
    <3>1. PICK n : n = Normalized(schedule)
      OBVIOUS
    <3>2. /\ n.overrides = schedule.overrides /\ n.nonWorking = schedule.nonWorking
          /\ n.default = default
      BY <2>1, <3>1, NormalizedIsSchedule
    <3>3. d \in DOMAIN n.overrides => DayHours(n, default, d) = n.overrides[d]
      BY DEF DayHours
    <3>4. CardHours(d) = IF d \notin DOMAIN n.overrides /\ d \in n.nonWorking THEN Off
                         ELSE DayHours(n, default, d)
      BY <3>1, <3>2 DEF CardHours
    <3>5. ServerHours(d) = IF d \in n.nonWorking THEN Off ELSE DayHours(n, default, d)
      BY <3>1 DEF ServerHours, DateHours
    <3>6. QED BY <2>1, <3>2, <3>3, <3>4, <3>5
  <2>4. QED BY <2>2, <2>3
<1>2. QED BY <1>1, ScheduleInvariance, PTL

\* A booking is committed only while its barber works in the salon, at a time
\* within the hours of that day: assertWithinWorkingHours in the transaction still
\* holds when it commits.
THEOREM BookedHolds == ScheduleSpec => BookedInsideHours
<1>1. ASSUME ScheduleInv, [ScheduleNext]_scheduleVars,
             NEW r \in Request, request[r].pc # "booked", request'[r].pc = "booked"
      PROVE  Bookable /\ request[r].slot \in ServerHours(request[r].day)
  <2>1. /\ request \in [Request -> RequestStates] /\ request[r] \in RequestStates
        /\ ScheduleTypeOK /\ GrantsHold
    BY <1>1, ScheduleTypeParts DEF ScheduleInv
  <2>2. CASE \E q \in Request : Ask(q) \/ Read(q) \/ Touch(q) \/ Commit(q)
    <3>1. PICK q \in Request : Ask(q) \/ Read(q) \/ Touch(q) \/ Commit(q)
      BY <2>2
    <3>2. q = r
      BY <1>1, <2>1, <3>1 DEF Ask, Read, Touch, Commit
    <3>3. ~(Ask(q) \/ Read(q) \/ Touch(q))
      BY <1>1, <2>1, <3>2 DEF Ask, Read, Touch, RequestStates
    <3>4. request[r].pc = "touched" /\ request[r].granted
      BY <1>1, <2>1, <3>1, <3>2, <3>3 DEF Commit, RequestStates
    <3>5. QED BY <2>1, <3>4 DEF GrantsHold
  <2>3. ASSUME MakeStale PROVE FALSE
    BY <1>1, <2>1, <2>3, StaleRequests
  <2>4. ASSUME request' = request PROVE FALSE
    BY <1>1, <2>4
  <2>5. ASSUME NEW t \in Page,
               \/ OpenPage(t) \/ SavePage(t) \/ WriteSchedule(t)
               \/ WriteEntry(t) \/ Answer(t) \/ CutOff(t)
        PROVE  FALSE
    BY <2>3, <2>4, <2>5 DEF OpenPage, SavePage, WriteSchedule, WriteEntry, Answer, CutOff
  <2>6. ASSUME NEW t \in Settings,
               OpenSettings(t) \/ SaveEntry(t) \/ SaveSchedule(t) \/ CutOffSettings(t)
        PROVE  FALSE
    BY <2>3, <2>4, <2>6 DEF OpenSettings, SaveEntry, SaveSchedule, CutOffSettings
  <2>7. QED
    BY <1>1, <2>2, <2>3, <2>4, <2>5, <2>6 DEF ScheduleNext, scheduleVars, Leave, Join
<1>2. ScheduleInv /\ [ScheduleNext]_scheduleVars =>
        [\A r \in Request :
           request[r].pc # "booked" /\ request'[r].pc = "booked" =>
             Bookable /\ request[r].slot \in ServerHours(request[r].day)]_scheduleVars
  BY <1>1
<1>3. QED BY <1>2, ScheduleInvariance, PTL DEF ScheduleSpec, BookedInsideHours

\* Storing what the Schedule page or the settings page sends moves the booking hours
\* of no day for which it sends back what it was shown.
THEOREM UnchangedHolds == ScheduleSpec => UnchangedDaysKeepHours
<1>1. ASSUME ScheduleInv, [ScheduleNext]_scheduleVars, schedule' # schedule,
             NEW s \in Sent, NEW d \in Day, Shown(s, d) = Shown(View(schedule), d)
      PROVE  ServerHours(d)' = ServerHours(d)
  <2>1. ScheduleTypeOK /\ DaysOffAgree /\ schedule \in Schedule
    BY <1>1, ScheduleTypeParts DEF ScheduleInv
  <2>2. ServerHours(d) = DateHours(s, default, d)
    <3>1. ServerHours(d) = DateHours(View(schedule), default, d)
      BY <2>1, ViewHours DEF ServerHours
    <3>2. QED BY <1>1, <3>1, ShownHours
  <2>3. ASSUME NEW t \in Page, WriteSchedule(t) PROVE ServerHours(d)' = ServerHours(d)
    <3>1. /\ \A u \in Page \ {t} : page'[u] = page[u]
          /\ settings' = settings
          /\ schedule' = Sanitized(page[t].payload) /\ default' = default
      BY <2>1, <2>3, ScheduleTypeParts DEF WriteSchedule
    <3>2. s = page[t].payload /\ s \in Schedule
      BY <2>1, <3>1, ScheduleTypeParts DEF Sent, PageStates
    <3>3. /\ d \in DOMAIN s.overrides <=> d \in DOMAIN schedule.overrides
          /\ d \in DOMAIN s.overrides => s.overrides[d] = schedule.overrides[d]
          /\ d \in s.nonWorking <=> d \in schedule.nonWorking
      <4>1. PICK v : v = View(schedule)
        OBVIOUS
      <4>2. v.overrides = schedule.overrides /\ v.nonWorking = schedule.nonWorking
        BY <2>1, <4>1, ViewIsSchedule
      <4>3. Shown(s, d) = Shown(v, d)
        BY <1>1, <4>1
      <4>4. /\ d \in DOMAIN s.overrides <=> d \in DOMAIN v.overrides
            /\ d \in DOMAIN s.overrides => s.overrides[d] = v.overrides[d]
            /\ (d \in s.nonWorking) = (d \in v.nonWorking)
        BY <4>3, ShownParts
      <4>5. QED BY <4>2, <4>4
    <3>4. d \in DOMAIN s.overrides => (d \in s.nonWorking <=> s.overrides[d] = Off)
      BY <2>1, <3>3 DEF DaysOffAgree
    <3>5. ServerHours(d)' = DateHours(Sanitized(s), default, d)
      BY <3>1, <3>2, SanitizedIsSchedule DEF ServerHours
    <3>6. QED BY <2>2, <3>2, <3>4, <3>5, SanitizedHours
  <2>4. ASSUME NEW t \in Settings, SaveSchedule(t) PROVE ServerHours(d)' = ServerHours(d)
    <3>1. /\ \A u \in Settings \ {t} : settings'[u] = settings[u]
          /\ page' = page
          /\ schedule' = WeekSaved(t) /\ default' = default
      BY <2>1, <2>4, ScheduleTypeParts DEF SaveSchedule
    <3>2. s = [View(schedule) EXCEPT !.weekly = settings[t].weekly]
      BY <3>1 DEF Sent
    <3>3. /\ s.weekly = settings[t].weekly /\ s.overrides = schedule.overrides
          /\ s.nonWorking = schedule.nonWorking /\ s.explicit = schedule.explicit
      BY <2>1, <3>2, ViewIsSchedule DEF Schedule
    <3>4. PICK w : w = WeekSaved(t)
      OBVIOUS
    <3>5. /\ w.weekly = s.weekly /\ w.overrides = s.overrides
          /\ w.nonWorking = s.nonWorking /\ w.explicit = s.explicit /\ Normalized(w) = w
      BY <2>1, <3>3, <3>4, WrittenSchedules
    <3>6. DateHours(w, default, d) = DateHours(s, default, d)
      BY <3>5 DEF DateHours, DayHours, ExplicitDay
    <3>7. ServerHours(d)' = DateHours(w, default, d)
      BY <3>1, <3>4, <3>5 DEF ServerHours
    <3>8. QED BY <2>2, <3>6, <3>7
  <2>5. QED BY <1>1, <2>3, <2>4, ScheduleWriters
<1>2. ScheduleInv /\ [ScheduleNext]_scheduleVars =>
        [schedule' # schedule =>
           \A s \in Sent, d \in Day :
             Shown(s, d) = Shown(View(schedule), d)
               => ServerHours(d)' = ServerHours(d)]_scheduleVars
  BY <1>1
<1>3. QED BY <1>2, ScheduleInvariance, PTL DEF ScheduleSpec, UnchangedDaysKeepHours
=============================================================================
