--------------------------- MODULE WaitlistProofs ---------------------------
(***************************************************************************)
(* Proofs about Waitlist, for any entries, keys, slots and requests.       *)
(***************************************************************************)
EXTENDS Waitlist, TLAPS

EntryRecord == [status : Status, time : Slot \cup {NoTime}]

LEMMA InitIInv == Init => IInv
<1> SUFFICES ASSUME Init PROVE IInv
  OBVIOUS
<1>1. TypeOK
  BY DEF Init, TypeOK, Status
<1>2. OneOpenEntryPerKey /\ BookedOnceWhenConverted
  BY DEF Init, OneOpenEntryPerKey, BookedOnceWhenConverted, OpenStatus
<1>3. ClaimIsExclusive /\ CreationIsPrivate
  BY DEF Init, ClaimIsExclusive, CreationIsPrivate, Claims, Idle
<1>4. QED BY <1>1, <1>2, <1>3 DEF IInv

LEMMA IdleIsNoClaim == Idle.pc = "idle"
  BY DEF Idle

\* What a request keeps in mind about its entry.
TaskFits(r, t, status) ==
  /\ t \in {Idle} \cup Task
  /\ t # Idle /\ t.pc = "creating" => status = "unborn"
  /\ t # Idle /\ t.pc # "creating" => status # "unborn"

\* A request moves, and no entry does.
LEMMA TaskStep ==
  ASSUME IInv, NEW r \in Request, NEW t \in {Idle} \cup Task,
         task' = [task EXCEPT ![r] = t],
         t # Idle => TaskFits(r, t, entries[t.id].status),
         t # Idle /\ t.pc = "creating" => \A q \in Request : task[q] # Idle => task[q].id # t.id,
         t # Idle /\ t.pc \in {"claimed", "checked", "restoring"} =>
           /\ task[r] # Idle /\ Claims(r) /\ t.id = task[r].id
           /\ t.pc # "restoring" => task[r].pc # "restoring",
         UNCHANGED <<entries, made, past, stale, listed>>, taken' \subseteq Slot
  PROVE  IInv'
<1>1. task'[r] = t /\ \A q \in Request \ {r} : task'[q] = task[q]
  BY DEF IInv, TypeOK
<1>2. TypeOK'
  BY DEF IInv, TypeOK
<1>3. OneOpenEntryPerKey' /\ BookedOnceWhenConverted'
  BY DEF IInv, OneOpenEntryPerKey, BookedOnceWhenConverted
<1>4. ClaimIsExclusive'
  BY <1>1 DEF IInv, ClaimIsExclusive, Claims, At, Idle, TaskFits
<1>5. CreationIsPrivate'
  BY <1>1 DEF IInv, CreationIsPrivate, At, Idle, TaskFits
<1>6. QED BY <1>2, <1>3, <1>4, <1>5 DEF IInv

\* One entry gets a status that no claim rests on, and a request may end.
LEMMA EntryStep ==
  ASSUME IInv, NEW e \in Entry, NEW d \in EntryRecord,
         entries' = [entries EXCEPT ![e] = d],
         d.status \in OpenStatus => entries[e].status \in OpenStatus \/ ~OpenTwin(e),
         d.status # "unborn", d.status # "converted",
         task' = task \/ \E r \in Request : task' = [task EXCEPT ![r] = Idle],
         \A q \in Request : task'[q] # Idle /\ task'[q].id = e => task[q].pc # "creating",
         stale \subseteq stale', stale' \subseteq Entry,
         e \in stale' \/ /\ entries[e].status # "converted"
                         /\ \A q \in Request : task'[q] # Idle /\ task[q].id = e => ~Claims(q),
         UNCHANGED <<made, taken>>, past' = past, listed' \subseteq Entry
  PROVE  IInv'
<1>1. \A q \in Request : task'[q] = Idle \/ task'[q] = task[q]
  BY DEF IInv, TypeOK
<1>2. \A f \in Entry : entries'[f] = IF f = e THEN d ELSE entries[f]
  BY DEF IInv, TypeOK
<1>3. TypeOK'
  <2>1. task' \in [Request -> {Idle} \cup Task]
    BY DEF IInv, TypeOK
  <2>2. entries' \in [Entry -> EntryRecord]
    BY DEF IInv, TypeOK, EntryRecord
  <2>3. QED BY <2>1, <2>2 DEF IInv, TypeOK, EntryRecord
<1>4. OneOpenEntryPerKey'
  BY <1>2 DEF IInv, OneOpenEntryPerKey, OpenTwin
<1>5. BookedOnceWhenConverted'
  BY <1>2 DEF IInv, BookedOnceWhenConverted
<1>6. ClaimIsExclusive'
  BY <1>1, <1>2 DEF IInv, ClaimIsExclusive, Claims, At, Idle
<1>7. CreationIsPrivate'
  BY <1>1, <1>2 DEF IInv, CreationIsPrivate, At, Idle
<1>8. QED BY <1>3, <1>4, <1>5, <1>6, <1>7 DEF IInv

\* A handler that is one update: any status but "converting" may move on.
LEMMA UpdateStep ==
  ASSUME IInv, NEW e \in Entry, NEW d \in EntryRecord,
         entries' = [entries EXCEPT ![e] = d],
         entries[e].status \in OpenStatus,
         d.status \notin {"unborn", "converted", "converting"},
         UNCHANGED <<made, taken, past, task, stale>>, listed' \subseteq Entry
  PROVE  IInv'
<1>1. \A q \in Request : task[q] # Idle /\ task[q].id = e => task[q].pc # "creating"
  BY DEF IInv, CreationIsPrivate, At, OpenStatus
<1>2. e \in stale \/ \A q \in Request : task[q] # Idle /\ task[q].id = e => ~Claims(q)
  BY DEF IInv, ClaimIsExclusive, OpenStatus
<1>3. entries[e].status # "converted"
  BY DEF OpenStatus
<1>4. task' = task /\ past' = past /\ stale' = stale /\ stale' \subseteq Entry
  BY DEF IInv, TypeOK
<1>5. \A q \in Request : task'[q] # Idle /\ task'[q].id = e => task[q].pc # "creating"
  BY <1>1, <1>4
<1>6. e \in stale' \/ \A q \in Request : task'[q] # Idle /\ task[q].id = e => ~Claims(q)
  BY <1>2, <1>4
<1>7. QED BY <1>3, <1>4, <1>5, <1>6, EntryStep

LEMMA EntryFacts ==
  ASSUME IInv, NEW r \in Request, task[r] # Idle
  PROVE  /\ task[r] \in Task /\ task[r].id \in Entry
         /\ entries[task[r].id] \in EntryRecord
  BY DEF IInv, TypeOK, Task, EntryRecord

LEMMA StartStep ==
  ASSUME IInv, NEW r \in Request, NEW e \in Entry,
         StartCreate(r, e) \/ StartCancel(r, e) \/ StartMark(r, e) \/ StartNotify(r, e)
  PROVE  IInv'
<1>1. entries[e].time \in Slot \cup {NoTime} /\ taken \subseteq Slot
  BY DEF IInv, TypeOK
<1>2. CASE StartCreate(r, e)
  <2> DEFINE t == [pc |-> "creating", id |-> e, time |-> entries[e].time]
  <2>1. t \in Task /\ t.pc = "creating" /\ t.id = e
    BY <1>1 DEF Task
  <2>2. QED BY <1>1, <1>2, <2>1, TaskStep DEF StartCreate, Start, TaskFits
<1>3. CASE StartCancel(r, e)
  <2> DEFINE t == [pc |-> "cancelling", id |-> e, time |-> entries[e].time]
  <2>1. t \in Task /\ t.pc = "cancelling" /\ t.id = e
    BY <1>1 DEF Task
  <2>2. QED BY <1>1, <1>3, <2>1, TaskStep DEF StartCancel, Start, TaskFits
<1>4. CASE StartMark(r, e)
  <2> DEFINE t == [pc |-> "marking", id |-> e, time |-> entries[e].time]
  <2>1. t \in Task /\ t.pc = "marking" /\ t.id = e
    BY <1>1 DEF Task
  <2>2. QED BY <1>1, <1>4, <2>1, TaskStep DEF StartMark, Start, TaskFits
<1>5. CASE StartNotify(r, e)
  <2> DEFINE t == [pc |-> "notifying", id |-> e, time |-> entries[e].time]
  <2>1. t \in Task /\ t.pc = "notifying" /\ t.id = e
    BY <1>1 DEF Task
  <2>2. QED BY <1>1, <1>5, <2>1, TaskStep DEF StartNotify, Start, TaskFits
<1>6. QED BY <1>2, <1>3, <1>4, <1>5

\* A request that ends and leaves the entries alone.
LEMMA FinishStep ==
  ASSUME IInv, NEW r \in Request, Finish(r), UNCHANGED <<entries, made, taken, past, stale, listed>>
  PROVE  IInv'
  BY TaskStep DEF Finish, TaskFits, IInv, TypeOK

LEMMA CreateStep == ASSUME IInv, NEW r \in Request, FinishCreate(r) PROVE IInv'
<1>1. task[r] # Idle /\ task[r].pc = "creating"
  BY DEF FinishCreate, At, Idle
<1> DEFINE e == task[r].id
           d == [entries[e] EXCEPT !.status = "active"]
<1>2. CASE OpenTwin(e)
  BY <1>2, FinishStep DEF FinishCreate
<1>3. CASE ~OpenTwin(e)
  <2>1. e \in Entry /\ d \in EntryRecord /\ d.status = "active"
    BY <1>1, EntryFacts DEF EntryRecord, Status, OpenStatus
  <2>2. entries[e].status = "unborn"
        /\ \A q \in Request \ {r} : task[q] # Idle => task[q].id # e
    BY <1>1 DEF IInv, CreationIsPrivate, At
  <2>3. entries' = [entries EXCEPT ![e] = d] /\ task' = [task EXCEPT ![r] = Idle]
        /\ UNCHANGED <<made, taken, past, stale>>
    BY <1>3 DEF FinishCreate, SetStatus, Finish
  <2>4. task'[r] = Idle /\ \A q \in Request \ {r} : task'[q] = task[q]
    BY <2>3 DEF IInv, TypeOK
  <2>5. stale \subseteq Entry /\ listed' \subseteq Entry
    BY <1>3 DEF FinishCreate, IInv, TypeOK
  <2>6. \A q \in Request : task'[q] # Idle => q # r /\ task[q] # Idle /\ task[q].id # e
    BY <2>2, <2>4
  <2>7. \A q \in Request : task'[q] # Idle /\ task'[q].id = e => task[q].pc # "creating"
    BY <2>4, <2>6
  <2>8. QED BY <1>3, <2>1, <2>2, <2>3, <2>5, <2>6, <2>7, EntryStep
<1>4. QED BY <1>2, <1>3

\* A late save: either it is not late, or it marks its entry as stale.
LEMMA SaveStep ==
  ASSUME IInv, NEW r \in Request, NEW status \in {"cancelled", "notified"},
         task[r] # Idle, task[r].pc \in {"cancelling", "marking"},
         status = "notified" => ~OpenTwin(task[r].id),
         Save(r, task[r].id, status)
  PROVE  IInv'
<1> DEFINE e == task[r].id
           d == [entries[e] EXCEPT !.status = status]
<1>1. e \in Entry /\ d \in EntryRecord /\ d.status = status
  BY EntryFacts DEF EntryRecord, Status, OpenStatus, ClosedStatus
<1>2. entries' = [entries EXCEPT ![e] = d] /\ task' = [task EXCEPT ![r] = Idle]
      /\ UNCHANGED <<made, taken, past>>
  BY DEF Save, SetStatus, Finish
<1>3. \A q \in Request : task'[q] = IF q = r THEN Idle ELSE task[q]
  BY <1>2 DEF IInv, TypeOK
<1>4. stale \subseteq stale' /\ stale' \subseteq Entry
      /\ (e \in stale' \/ entries[e].status \in {"active", "notified"})
  BY <1>1 DEF Save, IInv, TypeOK
<1>5. \A q \in Request : task'[q] # Idle /\ task'[q].id = e => task[q].pc # "creating"
  BY <1>3 DEF IInv, CreationIsPrivate, At
<1>6. entries[e].status \in {"active", "notified"} =>
        e \in stale' \/ \A q \in Request : task'[q] # Idle /\ task[q].id = e => ~Claims(q)
  BY <1>3, <1>4 DEF IInv, ClaimIsExclusive
<1>7. d.status # "unborn" /\ d.status # "converted"
      /\ (d.status \in OpenStatus => ~OpenTwin(e))
  BY <1>1 DEF OpenStatus
<1>8. e \in stale' \/ /\ entries[e].status # "converted"
                      /\ \A q \in Request : task'[q] # Idle /\ task[q].id = e => ~Claims(q)
  BY <1>4, <1>6
<1>9. d.status \in OpenStatus => entries[e].status \in OpenStatus \/ ~OpenTwin(e)
  BY <1>7
<1>10. stale \subseteq stale' /\ stale' \subseteq Entry /\ listed' \subseteq Entry
  BY <1>4 DEF Save, IInv, TypeOK
<1>11. d.status # "unborn" /\ d.status # "converted"
  BY <1>7
<1>12. task' = task \/ \E q \in Request : task' = [task EXCEPT ![q] = Idle]
  BY <1>2
<1>13. QED
  <2> HIDE DEF d, e
  <2>1. QED BY <1>1, <1>2, <1>5, <1>8, <1>9, <1>10, <1>11, <1>12, EntryStep

LEMMA NotifyStep == ASSUME IInv, NEW r \in Request, FinishNotify(r) PROVE IInv'
<1>1. task[r] # Idle /\ task[r].pc = "notifying"
  BY DEF FinishNotify, At, Idle
<1> DEFINE e == task[r].id
           d == [entries[e] EXCEPT !.status = "notified"]
<1>2. CASE entries[e].status # "active"
  BY <1>2, FinishStep DEF FinishNotify
<1>3. CASE entries[e].status = "active"
  <2>1. e \in Entry /\ d \in EntryRecord /\ d.status = "notified"
    BY <1>1, EntryFacts DEF EntryRecord, Status, OpenStatus
  <2>2. entries' = [entries EXCEPT ![e] = d] /\ task' = [task EXCEPT ![r] = Idle]
        /\ UNCHANGED <<made, taken, past, stale>>
    BY <1>3 DEF FinishNotify, SetStatus, Finish
  <2>3. \A q \in Request : task'[q] = IF q = r THEN Idle ELSE task[q]
    BY <2>2 DEF IInv, TypeOK
  <2>4. \A q \in Request : task'[q] # Idle /\ task'[q].id = e => task[q].pc # "creating"
    BY <1>3, <2>3 DEF IInv, CreationIsPrivate, At
  <2>5. e \in stale \/ \A q \in Request : task'[q] # Idle /\ task[q].id = e => ~Claims(q)
    BY <1>3, <2>3 DEF IInv, ClaimIsExclusive
  <2>6. stale \subseteq Entry /\ entries[e].status \in OpenStatus /\ listed' \subseteq Entry
    BY <1>3 DEF FinishNotify, IInv, TypeOK, OpenStatus
  <2>7. QED BY <1>3, <2>1, <2>2, <2>4, <2>5, <2>6, EntryStep
<1>4. QED BY <1>2, <1>3

\* The claim: nobody else has one, since the entry was on offer.
LEMMA ClaimStep ==
  ASSUME IInv, NEW r \in Request, NEW e \in Entry, ClaimOffer(r, e)
  PROVE  IInv'
<1> DEFINE t == [pc |-> "claimed", id |-> e, time |-> entries[e].time]
           d == [entries[e] EXCEPT !.status = "converting"]
<1>1. task[r] = Idle /\ entries[e].status = "offered" /\ entries[e].time \in Slot
  BY DEF ClaimOffer, Start, IInv, TypeOK
<1>2. t \in Task /\ t.pc = "claimed" /\ t.id = e /\ d \in EntryRecord /\ d.status = "converting"
  BY <1>1 DEF IInv, TypeOK, Task, EntryRecord, Status
<1>3. \A q \in Request : task'[q] = IF q = r THEN t ELSE task[q]
  BY DEF ClaimOffer, Start, IInv, TypeOK
<1>4. \A f \in Entry : entries'[f] = IF f = e THEN d ELSE entries[f]
  BY DEF ClaimOffer, SetStatus, IInv, TypeOK
<1>5. made' = made /\ taken' = taken /\ past' = past /\ stale' = stale /\ listed' = listed
  BY DEF ClaimOffer
<1>6. TypeOK'
  <2>1. task' \in [Request -> {Idle} \cup Task]
    BY <1>2 DEF ClaimOffer, Start, IInv, TypeOK
  <2>2. entries' \in [Entry -> EntryRecord]
    BY <1>2 DEF ClaimOffer, SetStatus, IInv, TypeOK, EntryRecord
  <2>3. QED BY <2>1, <2>2, <1>5 DEF IInv, TypeOK, EntryRecord
<1>7. OneOpenEntryPerKey'
  BY <1>2, <1>4 DEF IInv, OneOpenEntryPerKey, OpenStatus
<1>8. BookedOnceWhenConverted'
  BY <1>1, <1>2, <1>4, <1>5 DEF IInv, BookedOnceWhenConverted
<1>9. e \in stale \/ \A q \in Request : Claims(q) => task[q].id # e
  BY <1>1 DEF IInv, ClaimIsExclusive
<1>10. ClaimIsExclusive'
  <2>1. \A q \in Request : Claims(q)' => q = r \/ (Claims(q) /\ task'[q] = task[q])
    BY <1>3 DEF Claims
  <2>2. task'[r] = t /\ Claims(r)' /\ ~At(r, "restoring")'
    BY <1>2, <1>3 DEF Claims, At
  <2>3. \A q \in Request : Claims(q) => q # r /\ task[q].id \in Entry
    BY <1>1, EntryFacts, IdleIsNoClaim DEF Claims
  <2>4. SUFFICES ASSUME NEW q \in Request, Claims(q)', task'[q].id \notin stale
                 PROVE  /\ entries'[task'[q].id].status \in
                             IF At(q, "restoring")' THEN {"converting", "converted"}
                                                    ELSE {"converting"}
                        /\ \A p \in Request \ {q} : Claims(p)' => task'[p].id # task'[q].id
    BY <1>5 DEF ClaimIsExclusive
  <2>5. CASE q = r
    BY <1>2, <1>4, <1>9, <2>1, <2>2, <2>4, <2>5
  <2>6. CASE q # r
    <3>1. Claims(q) /\ task'[q] = task[q] /\ task[q].id \in Entry /\ task[q].id # e
      BY <1>9, <2>1, <2>3, <2>4, <2>6
    <3>2. \A p \in Request \ {q} : Claims(p)' => task'[p].id # task[q].id
      BY <1>2, <2>1, <2>2, <2>4, <3>1 DEF IInv, ClaimIsExclusive
    <3>3. QED BY <1>4, <2>4, <3>1, <3>2 DEF IInv, ClaimIsExclusive, At
  <2>7. QED BY <2>5, <2>6
<1>11. CreationIsPrivate'
  <2>1. \A q \in Request \ {r} : task'[q] = task[q] /\ (task[q] # Idle => task[q].id \in Entry)
    BY <1>3, EntryFacts
  <2>2. task'[r] = t /\ task'[r].pc # "creating" /\ task'[r].id = e
    BY <1>2, <1>3
  <2>3. entries'[e].status # "unborn" /\ entries[e].status # "unborn"
    BY <1>1, <1>2, <1>4
  <2>4. \A f \in Entry : f # e => entries'[f] = entries[f]
    BY <1>4
  <2>5. \A q \in Request \ {r} : task[q] # Idle /\ At(q, "creating") => task[q].id # e
    BY <2>3 DEF IInv, CreationIsPrivate
  <2>6. QED BY <2>1, <2>2, <2>3, <2>4, <2>5 DEF IInv, CreationIsPrivate, At
<1>12. QED BY <1>6, <1>7, <1>8, <1>10, <1>11 DEF IInv

\* A request that keeps its claim and changes no entry.
LEMMA HoldStep ==
  ASSUME IInv, NEW r \in Request, NEW pc \in {"claimed", "checked", "restoring"},
         task[r] # Idle, task[r].pc \in {"claimed", "checked"},
         Goto(r, pc), UNCHANGED <<entries, made, taken, past, stale, listed>>
  PROVE  IInv'
<1> DEFINE t == [task[r] EXCEPT !.pc = pc]
<1>1. t \in Task /\ t.pc = pc /\ t.id = task[r].id /\ t # Idle
  BY EntryFacts DEF Task, Idle
<1>2. entries[t.id].status # "unborn"
  BY <1>1 DEF IInv, CreationIsPrivate, At
<1>3. Claims(r) /\ taken' \subseteq Slot
  BY DEF Claims, IInv, TypeOK
<1>4. task' = [task EXCEPT ![r] = t]
  BY DEF Goto, IInv, TypeOK
<1>5. TaskFits(r, t, entries[t.id].status)
  BY <1>1, <1>2 DEF TaskFits
<1>6. QED BY <1>1, <1>3, <1>4, <1>5, TaskStep

\* The commit: made counts one booking, exactly as the status says.
LEMMA ConvertStep == ASSUME IInv, NEW r \in Request, Convert(r) PROVE IInv'
<1> DEFINE e == task[r].id
           d == [entries[e] EXCEPT !.status = "converted"]
           t == [task[r] EXCEPT !.pc = "restoring"]
<1>1. task[r] # Idle /\ task[r].pc = "checked" /\ entries[e].status = "converting"
  BY DEF Convert, At, Idle
<1>2. e \in Entry /\ d \in EntryRecord /\ d.status = "converted"
  BY <1>1, EntryFacts DEF EntryRecord, Status, ClosedStatus
<1>3. t \in Task /\ t.pc = "restoring" /\ t.id = e /\ t # Idle
  BY <1>1, EntryFacts DEF Task, Idle
<1>4. \A q \in Request \ {r} : task'[q] = task[q]
  BY DEF Convert, Finish, Goto, IInv, TypeOK
<1>5. task'[r] = Idle \/ task'[r] = t
  BY DEF Convert, Finish, Goto, IInv, TypeOK
<1>6. \A f \in Entry : entries'[f] = IF f = e THEN d ELSE entries[f]
  BY DEF Convert, SetStatus, IInv, TypeOK
<1>7. \A f \in Entry : made'[f] = IF f = e THEN made[f] + 1 ELSE made[f]
  BY <1>2 DEF Convert, IInv, TypeOK
<1>8. past' = past /\ stale' = stale /\ listed' = listed
  BY DEF Convert
<1>9. TypeOK'
  <2>1. task' \in [Request -> {Idle} \cup Task]
    BY <1>3 DEF Convert, Finish, Goto, IInv, TypeOK
  <2>2. entries' \in [Entry -> EntryRecord]
    BY <1>2 DEF Convert, SetStatus, IInv, TypeOK, EntryRecord
  <2>3. taken' \subseteq Slot /\ made' \in [Entry -> Nat]
    <3>1. task[r].time \in Slot
      BY <1>1, EntryFacts DEF Task
    <3>2. made[e] + 1 \in Nat
      BY <1>2 DEF IInv, TypeOK
    <3>3. made' \in [Entry -> Nat]
      BY <3>2 DEF Convert, IInv, TypeOK
    <3>4. taken' \subseteq Slot
      BY <3>1 DEF Convert, IInv, TypeOK
    <3>5. QED BY <3>3, <3>4
  <2>4. QED BY <2>1, <2>2, <2>3, <1>8 DEF IInv, TypeOK, EntryRecord
<1>10. OneOpenEntryPerKey'
  BY <1>2, <1>6 DEF IInv, OneOpenEntryPerKey, OpenStatus
<1>11. BookedOnceWhenConverted'
  <2>1. e \in stale \/ made[e] = 0
    BY <1>1, <1>2 DEF IInv, BookedOnceWhenConverted
  <2>2. e \in stale \/ made'[e] = 1
    BY <1>2, <1>7, <2>1
  <2>3. \A f \in Entry \ {e} : made'[f] = made[f] /\ entries'[f] = entries[f]
    BY <1>6, <1>7
  <2>4. entries'[e].status = "converted"
    BY <1>2, <1>6
  <2>5. QED BY <1>8, <2>2, <2>3, <2>4 DEF IInv, BookedOnceWhenConverted
<1>12. e \in stale \/ \A q \in Request \ {r} : Claims(q) => task[q].id # e
  BY <1>1 DEF IInv, ClaimIsExclusive, Claims
<1>13. ClaimIsExclusive'
  <2> SUFFICES ASSUME NEW q \in Request, Claims(q)', task'[q].id \notin stale'
               PROVE  /\ entries'[task'[q].id].status \in
                           IF At(q, "restoring")' THEN {"converting", "converted"}
                                                  ELSE {"converting"}
                      /\ \A p \in Request \ {q} : Claims(p)' => task'[p].id # task'[q].id
    BY DEF ClaimIsExclusive
  <2>1. CASE q = r
    <3>1. task'[q] = t
      BY <1>5, <2>1, IdleIsNoClaim DEF Claims
    <3>2. \A p \in Request \ {q} : Claims(p)' => Claims(p) /\ task'[p].id = task[p].id
      BY <1>4, <2>1 DEF Claims
    <3>3. QED BY <1>2, <1>3, <1>6, <1>8, <1>12, <2>1, <3>1, <3>2 DEF At
  <2>2. CASE q # r
    <3>1. task'[q] = task[q] /\ Claims(q)
      BY <1>4, <2>2 DEF Claims
    <3>2. task[q].id # e /\ task[q].id \in Entry
      BY <1>8, <1>12, <2>2, <3>1, EntryFacts DEF Claims, Idle
    <3>3. \A p \in Request \ {q} : Claims(p)' => Claims(p) /\ task'[p].id = task[p].id
      BY <1>1, <1>3, <1>4, <1>5, IdleIsNoClaim DEF Claims
    <3>4. \A p \in Request \ {q} : Claims(p)' => task'[p].id # task[q].id
      BY <1>8, <3>1, <3>3 DEF IInv, ClaimIsExclusive
    <3>5. QED BY <1>6, <1>8, <3>1, <3>2, <3>4 DEF IInv, ClaimIsExclusive, At
  <2>3. QED BY <2>1, <2>2
<1>14. CreationIsPrivate'
  <2>1. \A q \in Request : task'[q] # Idle =>
          task[q] # Idle /\ task'[q].id = task[q].id
          /\ (task'[q].pc = "creating" <=> task[q].pc = "creating")
    BY <1>1, <1>3, <1>4, <1>5
  <2>2. \A q \in Request : task[q] # Idle => task[q].id \in Entry
    BY EntryFacts
  <2>3. \A f \in Entry : f # e => entries'[f] = entries[f]
    BY <1>6
  <2>4. entries'[e].status # "unborn" /\ entries[e].status # "unborn"
    BY <1>1, <1>2, <1>6
  <2>5. QED BY <2>1, <2>2, <2>3, <2>4 DEF IInv, CreationIsPrivate, At
<1>15. QED BY <1>9, <1>10, <1>11, <1>13, <1>14 DEF IInv

LEMMA RestoreStep == ASSUME IInv, NEW r \in Request, RestoreOffer(r) PROVE IInv'
<1>1. task[r] # Idle /\ task[r].pc = "restoring" /\ Claims(r)
  BY DEF RestoreOffer, At, Idle, Claims
<1> DEFINE e == task[r].id
           d == [entries[e] EXCEPT !.status = "offered"]
<1>2. CASE entries[e].status # "converting" \/ OpenTwin(e)
  BY <1>2, FinishStep DEF RestoreOffer
<1>3. CASE entries[e].status = "converting" /\ ~OpenTwin(e)
  <2>1. e \in Entry /\ d \in EntryRecord /\ d.status = "offered"
    BY <1>1, EntryFacts DEF EntryRecord, Status, OpenStatus
  <2>2. entries' = [entries EXCEPT ![e] = d] /\ task' = [task EXCEPT ![r] = Idle]
        /\ made' = made /\ taken' = taken /\ past' = past /\ stale' = stale
    BY <1>3 DEF RestoreOffer, SetStatus, Finish
  <2>3. \A q \in Request : task'[q] = IF q = r THEN Idle ELSE task[q]
    BY <2>2 DEF IInv, TypeOK
  <2>4. \A q \in Request : task'[q] # Idle /\ task'[q].id = e => task[q].pc # "creating"
    BY <1>3, <2>3 DEF IInv, CreationIsPrivate, At
  <2>5. e \in stale \/ \A q \in Request : task'[q] # Idle /\ task[q].id = e => ~Claims(q)
    BY <1>1, <2>3 DEF IInv, ClaimIsExclusive
  <2>6. stale \subseteq Entry /\ listed' \subseteq Entry
    BY <1>3 DEF RestoreOffer, IInv, TypeOK
  <2>7. QED
    <3> HIDE DEF e, d
    <3>1. QED BY <1>3, <2>1, <2>2, <2>4, <2>5, <2>6, EntryStep
<1>4. QED BY <1>2, <1>3

LEMMA Updates ==
  ASSUME IInv, NEW e \in Entry,
         \/ Decline(e) \/ Reject(e) \/ \E t \in Slot : Offer(e, t)
         \/ Expire(e) /\ entries[e].status \in OpenStatus
  PROVE  IInv'
<1>0. listed' \subseteq Entry
  BY DEF Decline, Reject, Expire, Offer, IInv, TypeOK
<1>1. CASE \E t \in Slot : Offer(e, t)
  <2>1. PICK t \in Slot : Offer(e, t)
    BY <1>1
  <2>2. [status |-> "offered", time |-> t] \in EntryRecord
    BY DEF EntryRecord, Status, OpenStatus
  <2>3. QED BY <1>0, <2>1, <2>2, UpdateStep DEF Offer, OpenStatus
<1>2. CASE \/ Decline(e) \/ Reject(e)
           \/ Expire(e) /\ entries[e].status \in OpenStatus
  <2>1. PICK status \in {"rejected", "expired"} :
          entries' = [entries EXCEPT ![e] = [entries[e] EXCEPT !.status = status]]
    BY <1>2 DEF Decline, Reject, Expire, SetStatus
  <2> DEFINE d == [entries[e] EXCEPT !.status = status]
  <2>2. d \in EntryRecord /\ d.status = status
    BY DEF IInv, TypeOK, EntryRecord, Status, ClosedStatus
  <2>3. entries[e].status \in OpenStatus /\ UNCHANGED <<made, taken, past, task, stale>>
    BY <1>2 DEF Decline, Reject, Expire, OpenStatus
  <2>4. QED BY <1>0, <2>1, <2>2, <2>3, UpdateStep
<1>3. QED BY <1>1, <1>2

\* What happens around the entries: other bookings, midnight and the job's list.
LEMMA OutsideStep ==
  ASSUME IInv, taken' \subseteq Slot, past' \in BOOLEAN, listed' \subseteq Entry,
         UNCHANGED <<entries, made, task, stale>>
  PROVE  IInv'
  BY DEF IInv, TypeOK, OneOpenEntryPerKey, BookedOnceWhenConverted, ClaimIsExclusive,
     CreationIsPrivate, OpenTwin, Claims, At

LEMMA NextIInv == IInv /\ [Next]_vars => IInv'
<1> SUFFICES ASSUME IInv, [Next]_vars PROVE IInv'
  OBVIOUS
<1>0. taken \subseteq Slot /\ past \in BOOLEAN /\ listed \subseteq Entry
  BY DEF IInv, TypeOK
<1>1. ASSUME NEW r \in Request, NEW e \in Entry,
             StartCreate(r, e) \/ StartCancel(r, e) \/ StartMark(r, e) \/ StartNotify(r, e)
      PROVE  IInv'
  BY <1>1, StartStep
<1>2. ASSUME NEW r \in Request, NEW e \in Entry, ClaimOffer(r, e) PROVE IInv'
  BY <1>2, ClaimStep
<1>3. ASSUME NEW r \in Request,
             FinishCreate(r) \/ FinishNotify(r) \/ Convert(r) \/ RestoreOffer(r)
      PROVE  IInv'
  BY <1>3, CreateStep, NotifyStep, ConvertStep, RestoreStep
<1>4. ASSUME NEW r \in Request, SaveCancel(r) PROVE IInv'
  <2>1. task[r] # Idle /\ task[r].pc = "cancelling"
    BY <1>4 DEF SaveCancel, At, Idle
  <2>2. QED BY <1>4, <2>1, SaveStep DEF SaveCancel
<1>5. ASSUME NEW r \in Request, SaveMark(r) PROVE IInv'
  <2>1. task[r] # Idle /\ task[r].pc = "marking"
    BY <1>5 DEF SaveMark, At, Idle
  <2>2. CASE OpenTwin(task[r].id)
    BY <1>5, <2>2, FinishStep DEF SaveMark
  <2>3. CASE ~OpenTwin(task[r].id)
    BY <1>5, <2>1, <2>3, SaveStep DEF SaveMark
  <2>4. QED BY <2>2, <2>3
<1>6. ASSUME NEW r \in Request,
             CheckConversion(r) \/ FailConversion(r) \/ RetryConversion(r)
      PROVE  IInv'
  <2>1. task[r] # Idle /\ task[r].pc \in {"claimed", "checked"}
    BY <1>6, IdleIsNoClaim DEF CheckConversion, FailConversion, RetryConversion, At
  <2>2. UNCHANGED <<entries, made, taken, past, stale, listed>>
    BY <1>6 DEF CheckConversion, FailConversion, RetryConversion
  <2>3. PICK pc \in {"claimed", "checked", "restoring"} : Goto(r, pc)
    BY <1>6 DEF CheckConversion, FailConversion, RetryConversion
  <2>4. QED BY <2>1, <2>2, <2>3, HoldStep
<1>7. ASSUME NEW r \in Request, Abandon(r) PROVE IInv'
  BY <1>7, FinishStep DEF Abandon
<1>8. ASSUME NEW e \in Entry,
             Decline(e) \/ Reject(e) \/ Expire(e) \/ \E t \in Slot : Offer(e, t)
      PROVE  IInv'
  <2>1. CASE Expire(e) /\ entries[e].status \notin OpenStatus
    BY <1>0, <2>1, OutsideStep DEF Expire
  <2>2. QED BY <1>8, <2>1, Updates
<1>9. ASSUME NEW t \in Slot, BookElsewhere(t) \/ FreeSlot(t) PROVE IInv'
  BY <1>0, <1>9, OutsideStep DEF BookElsewhere, FreeSlot
<1>10. CASE DayEnds
  BY <1>0, <1>10, OutsideStep DEF DayEnds
<1>11. CASE ListPast \/ LoseLease \/ UNCHANGED vars
  BY <1>0, <1>11, OutsideStep DEF ListPast, ListOpen, LoseLease, vars
<1>12. QED
  BY <1>1, <1>2, <1>3, <1>4, <1>5, <1>6, <1>7, <1>8, <1>9, <1>10, <1>11 DEF Next

\* Reachable states satisfy the inductive invariant.
THEOREM WaitlistInvariance == Spec => []IInv
<1>1. QED BY InitIInv, NextIInv, PTL DEF Spec

\* No key ever has two open entries, whatever reopens one.
THEOREM OneOpenEntry == Spec => []OneOpenEntryPerKey
<1>1. IInv => OneOpenEntryPerKey
  BY DEF IInv
<1>2. QED BY <1>1, WaitlistInvariance, PTL

\* An entry no late save hit has a booking exactly when it says "converted".
THEOREM BookingMatchesStatus == Spec => []BookedOnceWhenConverted
<1>1. IInv => BookedOnceWhenConverted
  BY DEF IInv
<1>2. QED BY <1>1, WaitlistInvariance, PTL

LEMMA ClosedStep ==
  ASSUME IInv, [Next]_vars, NEW e \in Entry \ stale', entries[e].status \in ClosedStatus
  PROVE  entries'[e].status = entries[e].status
<1> USE DEF SetStatus, OpenStatus, ClosedStatus
<1>0. entries \in [Entry -> EntryRecord]
  BY DEF IInv, TypeOK, EntryRecord
<1>1. ASSUME NEW r \in Request, FinishCreate(r) PROVE entries'[e].status = entries[e].status
  <2>1. entries[task[r].id].status = "unborn"
    BY <1>1 DEF FinishCreate, At, Idle, IInv, CreationIsPrivate
  <2>2. QED BY <1>0, <1>1, <2>1 DEF FinishCreate
<1>2. ASSUME NEW r \in Request, SaveCancel(r) \/ SaveMark(r)
      PROVE  entries'[e].status = entries[e].status
  BY <1>0, <1>2 DEF SaveCancel, SaveMark, Save
<1>3. ASSUME NEW r \in Request, FinishNotify(r) \/ RestoreOffer(r) \/ Convert(r)
      PROVE  entries'[e].status = entries[e].status
  BY <1>0, <1>3 DEF FinishNotify, RestoreOffer, Convert
<1>4. ASSUME NEW r \in Request, NEW f \in Entry, ClaimOffer(r, f)
      PROVE  entries'[e].status = entries[e].status
  BY <1>0, <1>4 DEF ClaimOffer
<1>5. ASSUME NEW f \in Entry,
             Decline(f) \/ Reject(f) \/ Expire(f) \/ \E t \in Slot : Offer(f, t)
      PROVE  entries'[e].status = entries[e].status
  BY <1>0, <1>5 DEF Decline, Reject, Expire, Offer
<1>6. QED
  BY <1>1, <1>2, <1>3, <1>4, <1>5
  DEF Next, vars, StartCreate, StartCancel, StartMark, StartNotify, CheckConversion,
      FailConversion, RetryConversion, Abandon, BookElsewhere, FreeSlot, DayEnds, ListPast, ListOpen,
      LoseLease

\* A closed entry no late save hit keeps its status for good.
THEOREM ClosedStaysClosed == Spec => ClosedIsFinal
<1>1. IInv /\ [Next]_vars =>
        [\A e \in Entry \ stale' :
           entries[e].status \in ClosedStatus => entries'[e].status = entries[e].status]_vars
  BY ClosedStep
<1>2. QED BY <1>1, WaitlistInvariance, PTL DEF Spec, ClosedIsFinal

\* Entries, slots and requests keep their type.
THEOREM WaitlistTypes == Spec => []TypeOK
<1>1. IInv => TypeOK
  BY DEF IInv
<1>2. QED BY <1>1, WaitlistInvariance, PTL
=============================================================================
