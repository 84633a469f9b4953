----------------------- MODULE EventRegistrationProofs -----------------------
(***************************************************************************)
(* Proofs about EventRegistration, for any finite set of users, any        *)
(* requests and any limits.                                                *)
(***************************************************************************)
EXTENDS EventRegistration, FiniteSetTheorems, TLAPS

LEMMA ApprovedIsFinite ==
  IsFiniteSet(Approved) /\ Cardinality(Approved) \in Nat
<1>1. Approved \subseteq User /\ IsFiniteSet(User)
  BY EventAssumption DEF Approved
<1>2. QED BY <1>1, FS_Subset, FS_CardinalityType

LEMMA InitIInv == Init => IInv
<1> SUFFICES ASSUME Init PROVE IInv
  OBVIOUS
<1>1. TypeOK
  BY EventAssumption DEF Init, TypeOK, NoRegistration, Registration, RegistrationWith, Status, Open, Attendance
<1>2. TasksSawLimit
  <2>1. PICK m \in Limits : event.max = m /\ uncapped = (m = 0)
    BY DEF Init
  <2>2. ~uncapped => event.max > 0
    <3>1. ~uncapped => m # 0
      BY <2>1, Zenon
    <3>2. QED BY <2>1, <3>1, EventAssumption
  <2>3. \A r \in Request : task[r].pc = "idle"
    BY DEF Init, Idle
  <2>4. QED BY <2>2, <2>3 DEF TasksSawLimit
<1>3. Approved = {}
  BY DEF Init, Approved, NoRegistration
<1>4. SeatsAreCounted /\ CounterWithinLimit
  BY <1>3, FS_EmptySet, EventAssumption DEF Init, SeatsAreCounted, CounterWithinLimit
<1>5. QED BY <1>1, <1>2, <1>4 DEF IInv

LEMMA FreshFits ==
  ASSUME NEW status \in Status
  PROVE  Fresh(status) \in Registration /\ Fresh(status).status = status
BY DEF Fresh, Registration, RegistrationWith, Attendance

\* A request begins or ends, and nothing is written.
LEMMA TaskStep ==
  ASSUME IInv, NEW r \in Request, NEW t \in {Idle} \cup Task,
         task' = [task EXCEPT ![r] = t],
         ~uncapped => (t.pc \in {"registering", "waitlisting", "approving"} => t.max > 0),
         UNCHANGED <<event, reg, leaked, uncapped>>
  PROVE  IInv'
<1>1. TypeOK'
  BY DEF IInv, TypeOK
<1>2. TasksSawLimit'
  BY DEF IInv, TypeOK, TasksSawLimit
<1>3. SeatsAreCounted' /\ CounterWithinLimit'
  BY DEF IInv, SeatsAreCounted, CounterWithinLimit, Approved
<1>4. QED BY <1>1, <1>2, <1>3 DEF IInv

LEMMA EndStep ==
  ASSUME IInv, NEW r \in Request, Answer(r)
  PROVE  IInv'
BY TaskStep DEF Answer, Finish, Idle

\* One registration is written and a request ends; a place that is given up is
\* counted as leaked, none is taken.
LEMMA SaveStep ==
  ASSUME IInv, NEW r \in Request, NEW u \in User, NEW d \in Registration,
         reg' = [reg EXCEPT ![u] = d],
         d.status = "approved" => reg[u].status = "approved",
         leaked' = IF ~uncapped /\ reg[u].status = "approved" /\ d.status # "approved"
                     THEN leaked + 1 ELSE leaked,
         Finish(r), UNCHANGED <<event, uncapped>>
  PROVE  IInv'
<1>1. TypeOK'
  BY DEF IInv, TypeOK, Finish
<1>2. TasksSawLimit'
  BY DEF IInv, TypeOK, TasksSawLimit, Finish, Idle
<1>3. CounterWithinLimit'
  BY DEF IInv, CounterWithinLimit
<1>4. SeatsAreCounted'
  <2>1. CASE reg[u].status = "approved" /\ d.status # "approved"
    <3>1. u \in Approved /\ Approved' = Approved \ {u}
      BY <2>1 DEF Approved, IInv, TypeOK
    <3>2. Cardinality(Approved') = Cardinality(Approved) - 1
      BY <3>1, ApprovedIsFinite, FS_RemoveElement
    <3>3. QED BY <2>1, <3>2, ApprovedIsFinite DEF SeatsAreCounted, IInv, TypeOK
  <2>2. CASE ~(reg[u].status = "approved" /\ d.status # "approved")
    <3>1. Approved' = Approved
      BY <2>2 DEF Approved, IInv, TypeOK
    <3>2. QED BY <2>2, <3>1 DEF SeatsAreCounted, IInv
  <2>3. QED BY <2>1, <2>2
<1>5. QED BY <1>1, <1>2, <1>3, <1>4 DEF IInv

\* What document.save() leaves behind: a registration, approved only if it was.
LEMMA SavedDocument ==
  ASSUME IInv, NEW r \in Request, NEW new, Save(r, new), task[r] \in Task,
         DOMAIN new \subseteq {"status", "attendance", "attended"},
         "status" \in DOMAIN new => new.status \in Status \ {"approved"},
         "attendance" \in DOMAIN new => new.attendance \in Attendance,
         "attended" \in DOMAIN new => new.attended \in BOOLEAN
  PROVE  IInv'
<1> DEFINE u == task[r].id
           mod == {f \in DOMAIN new : new[f] # task[r].read[f]}
           doc == [f \in DOMAIN reg[u] |-> IF f \in mod THEN new[f] ELSE reg[u][f]]
<1>1. u \in User /\ reg[u] \in Registration
  BY DEF Task, IInv, TypeOK
<1>2. DOMAIN reg[u] = {"status", "attendance", "attended"}
  BY <1>1 DEF Registration, RegistrationWith
<1>3. /\ doc.status \in Status /\ doc.attendance \in Attendance /\ doc.attended \in BOOLEAN
      /\ doc.status = "approved" => reg[u].status = "approved"
  BY <1>1, <1>2 DEF Registration, RegistrationWith
<1>4. doc \in Registration
  <2>1. doc = [status |-> doc.status, attendance |-> doc.attendance, attended |-> doc.attended]
    BY <1>2
  <2> HIDE DEF doc
  <2>2. QED BY <1>3, <2>1 DEF Registration, RegistrationWith
<1>5. QED
  <2>1. /\ reg' = [reg EXCEPT ![u] = doc]
        /\ leaked' = IF ~uncapped /\ reg[u].status = "approved" /\ doc.status # "approved"
                       THEN leaked + 1 ELSE leaked
        /\ Finish(r) /\ UNCHANGED <<event, uncapped>>
    BY DEF Save
  <2> HIDE DEF u, doc
  <2>2. QED BY <1>1, <1>3, <1>4, <2>1, SaveStep

LEMMA PcOfTask ==
  ASSUME TypeOK, NEW r \in Request, task[r].pc # "idle"
  PROVE  task[r] \in Task
BY DEF TypeOK, Idle

LEMMA StartsKeepIInv ==
  ASSUME IInv, NEW r \in Request, NEW u \in User,
         \/ StartRegister(r, u) \/ StartCancel(r, u) \/ StartApprove(r, u)
         \/ StartWaitlist(r, u) \/ StartReject(r, u)
         \/ StartAttend(r, u) \/ StartMiss(r, u)
  PROVE  IInv'
<1> USE DEF Start
<1>0. reg[u] \in Registration /\ event.max \in Nat /\ (~uncapped => event.max > 0)
  BY DEF IInv, TypeOK, TasksSawLimit
<1>1. CASE StartRegister(r, u)
  <2> DEFINE t == [pc |-> "registering", id |-> u, read |-> reg[u], max |-> event.max]
  <2>1. t \in Task
    BY <1>0, <1>1 DEF Task, StartRegister, Registration, RegistrationWith
  <2>2. QED BY <1>0, <1>1, <2>1, TaskStep DEF StartRegister
<1>2. CASE StartWaitlist(r, u)
  <2> DEFINE t == [pc |-> "waitlisting", id |-> u, read |-> reg[u], max |-> event.max]
  <2>1. t \in Task
    BY <1>0, <1>2 DEF Task, StartWaitlist, Registration, RegistrationWith
  <2>2. QED BY <1>0, <1>2, <2>1, TaskStep DEF StartWaitlist
<1>3. CASE StartApprove(r, u)
  <2> DEFINE t == [pc |-> "approving", id |-> u, max |-> event.max]
  <2>1. t \in Task
    BY <1>0 DEF Task
  <2>2. QED BY <1>0, <1>3, <2>1, TaskStep DEF StartApprove
<1>4. CASE StartCancel(r, u)
  <2> DEFINE t == [pc |-> "cancelling", id |-> u, read |-> [status |-> reg[u].status]]
  <2>1. t \in Task
    BY <1>4 DEF Task, StartCancel
  <2>2. QED BY <1>4, <2>1, TaskStep DEF StartCancel
<1>5. CASE StartReject(r, u)
  <2> DEFINE t == [pc |-> "rejecting", id |-> u, read |-> [status |-> reg[u].status]]
  <2>1. t \in Task
    BY <1>5 DEF Task, StartReject
  <2>2. QED BY <1>5, <2>1, TaskStep DEF StartReject
<1>6. CASE StartAttend(r, u)
  <2> DEFINE t == [pc |-> "attending", id |-> u, read |-> reg[u]]
  <2>1. t \in Task
    BY <1>0, <1>6 DEF Task, StartAttend, Registration, RegistrationWith
  <2>2. QED BY <1>6, <2>1, TaskStep DEF StartAttend
<1>7. CASE StartMiss(r, u)
  <2> DEFINE t == [pc |-> "missing", id |-> u, read |-> reg[u]]
  <2>1. t \in Task
    BY <1>0, <1>7 DEF Task, StartMiss, Registration, RegistrationWith
  <2>2. QED BY <1>7, <2>1, TaskStep DEF StartMiss
<1>8. QED BY <1>1, <1>2, <1>3, <1>4, <1>5, <1>6, <1>7

LEMMA SavesKeepIInv ==
  ASSUME IInv, NEW r \in Request,
         FinishCancel(r) \/ FinishWaitlist(r) \/ FinishReject(r) \/ FinishAttend(r) \/ FinishMiss(r)
  PROVE  IInv'
<1>1. task[r] \in Task
  BY PcOfTask DEF IInv, At, FinishCancel, FinishWaitlist, FinishReject, FinishAttend, FinishMiss
<1>2. CASE FinishCancel(r)
  BY <1>1, <1>2, SavedDocument DEF FinishCancel, Status, Open
<1>3. CASE FinishReject(r)
  BY <1>1, <1>3, SavedDocument DEF FinishReject, Status, Open
<1>4. CASE FinishWaitlist(r)
  BY <1>1, <1>4, SavedDocument DEF FinishWaitlist, Fresh, Status, Open, Attendance
<1>5. CASE FinishAttend(r) \/ FinishMiss(r)
  BY <1>1, <1>5, SavedDocument DEF FinishAttend, FinishMiss, Attendance
<1>6. QED BY <1>2, <1>3, <1>4, <1>5

LEMMA RegisterKeepsIInv ==
  ASSUME IInv, NEW r \in Request, FinishRegister(r)
  PROVE  IInv'
<1> DEFINE status == IF FullAt(task[r].max) THEN "waitlisted" ELSE "pending"
<1>1. task[r] \in Task /\ task[r].id \in User
  BY PcOfTask DEF IInv, At, FinishRegister, Task
<1>2. status \in Status \ {"approved"}
  BY DEF Status, Open
<1>3. CASE task[r].read.status = "cancelled"
  <2>1. Save(r, Fresh(status))
    BY <1>3 DEF FinishRegister
  <2>2. QED BY <1>1, <1>2, <2>1, SavedDocument DEF Fresh, Attendance
<1>4. CASE task[r].read.status # "cancelled" /\ reg[task[r].id].status = "none"
  <2>1. /\ reg' = [reg EXCEPT ![task[r].id] = Fresh(status)]
        /\ Finish(r) /\ UNCHANGED <<event, leaked, uncapped>>
    BY <1>4 DEF FinishRegister
  <2> HIDE DEF status
  <2>2. QED BY <1>1, <1>2, <1>4, <2>1, FreshFits, SaveStep
<1>5. CASE task[r].read.status # "cancelled" /\ reg[task[r].id].status # "none"
  BY <1>5, EndStep DEF FinishRegister, Answer
<1>6. QED BY <1>3, <1>4, <1>5

LEMMA ApproveKeepsIInv ==
  ASSUME IInv, NEW r \in Request, Approve(r)
  PROVE  IInv'
<1> DEFINE u == task[r].id
<1>1. u \in User /\ reg[u].status # "approved" /\ (~uncapped => task[r].max > 0)
  BY PcOfTask DEF IInv, At, Approve, Task, Open, TasksSawLimit
<1>2. /\ reg' = [reg EXCEPT ![u] = Fresh("approved")]
      /\ Finish(r) /\ UNCHANGED <<leaked, uncapped>>
      /\ Fresh("approved") \in Registration /\ Fresh("approved").status = "approved"
  BY FreshFits DEF Approve, Status
<1>3. /\ event' = event \/ (event' = [event EXCEPT !.count = @ + 1] /\ event.count < event.max)
      /\ ~uncapped => event' = [event EXCEPT !.count = @ + 1] /\ event.count < event.max
  BY <1>1 DEF Approve
<1>4. TypeOK'
  BY <1>1, <1>2, <1>3 DEF IInv, TypeOK, Finish
<1>5. TasksSawLimit'
  BY <1>2, <1>3 DEF IInv, TypeOK, TasksSawLimit, Finish, Idle
<1>6. CounterWithinLimit'
  BY <1>3 DEF IInv, TypeOK, CounterWithinLimit
<1>7. SeatsAreCounted'
  <2>1. u \notin Approved /\ Approved' = Approved \cup {u}
    BY <1>1, <1>2 DEF Approved, IInv, TypeOK
  <2>2. Cardinality(Approved') = Cardinality(Approved) + 1
    BY <2>1, ApprovedIsFinite, FS_AddElement
  <2>3. QED BY <1>2, <1>3, <2>2, ApprovedIsFinite DEF SeatsAreCounted, IInv, TypeOK
<1>8. QED BY <1>4, <1>5, <1>6, <1>7 DEF IInv

LEMMA ReleaseKeepsIInv ==
  ASSUME IInv, NEW r \in Request, Release(r)
  PROVE  IInv'
<1> DEFINE u == task[r].id
<1>1. u \in User /\ reg[u].status = "approved"
  BY PcOfTask DEF IInv, At, Release, Task
<1>2. /\ reg' = [reg EXCEPT ![u] = Fresh("waitlisted")]
      /\ event' = [event EXCEPT !.count = @ - 1] /\ event.count > 0
      /\ Finish(r) /\ UNCHANGED <<leaked, uncapped>>
      /\ Fresh("waitlisted") \in Registration /\ Fresh("waitlisted").status = "waitlisted"
  BY FreshFits DEF Release, Status, Open
<1>3. TypeOK'
  BY <1>1, <1>2 DEF IInv, TypeOK, Finish
<1>4. TasksSawLimit'
  BY <1>2 DEF IInv, TypeOK, TasksSawLimit, Finish, Idle
<1>5. CounterWithinLimit'
  BY <1>2 DEF IInv, TypeOK, CounterWithinLimit
<1>6. SeatsAreCounted'
  <2>1. u \in Approved /\ Approved' = Approved \ {u}
    BY <1>1, <1>2 DEF Approved, IInv, TypeOK
  <2>2. Cardinality(Approved') = Cardinality(Approved) - 1
    BY <2>1, ApprovedIsFinite, FS_RemoveElement
  <2>3. QED BY <1>2, <2>2, ApprovedIsFinite DEF SeatsAreCounted, IInv, TypeOK
<1>7. QED BY <1>3, <1>4, <1>5, <1>6 DEF IInv

LEMMA EventKeepsIInv ==
  ASSUME IInv, CancelEvent \/ \E m \in Limits, s \in BOOLEAN : UpdateEvent(m, s)
  PROVE  IInv'
<1>1. CASE CancelEvent
  BY <1>1 DEF CancelEvent, IInv, TypeOK, TasksSawLimit, SeatsAreCounted, CounterWithinLimit, Approved
<1>2. ASSUME NEW m \in Limits, NEW s \in BOOLEAN, UpdateEvent(m, s) PROVE IInv'
  <2>0. m \in Nat
    BY EventAssumption
  <2>1. TypeOK'
    BY <1>2, <2>0 DEF UpdateEvent, IInv, TypeOK
  <2>2. TasksSawLimit'
    <3>1. ~uncapped' => ~uncapped /\ m # 0
      BY <1>2, Zenon DEF UpdateEvent
    <3>2. event'.max = m /\ task' = task
      BY <1>2 DEF UpdateEvent, IInv, TypeOK
    <3>3. QED BY <2>0, <3>1, <3>2 DEF IInv, TasksSawLimit
  <2>3. CounterWithinLimit'
    BY <1>2, <2>0 DEF UpdateEvent, IInv, TypeOK, CounterWithinLimit
  <2>4. SeatsAreCounted'
    BY <1>2, <2>0 DEF UpdateEvent, IInv, TypeOK, SeatsAreCounted, Approved
  <2>5. QED BY <2>1, <2>2, <2>3, <2>4 DEF IInv
<1>3. QED BY <1>1, <1>2

LEMMA NextIInv == IInv /\ [Next]_vars => IInv'
<1> SUFFICES ASSUME IInv, [Next]_vars PROVE IInv'
  OBVIOUS
<1>1. CASE UNCHANGED vars
  BY <1>1 DEF vars, IInv, TypeOK, TasksSawLimit, SeatsAreCounted, CounterWithinLimit, Approved
<1>2. ASSUME NEW r \in Request, RefuseApprove(r) \/ RefuseRelease(r) \/ Abandon(r) PROVE IInv'
  BY <1>2, EndStep DEF RefuseApprove, RefuseRelease, Abandon
<1>3. CASE Next
  BY <1>2, <1>3, EventAssumption, StartsKeepIInv, SavesKeepIInv, RegisterKeepsIInv,
     ApproveKeepsIInv, ReleaseKeepsIInv, EventKeepsIInv DEF Next
<1>4. QED BY <1>1, <1>3

----------------------------------------------------------------------------
\* Every reachable state satisfies the inductive invariant: an event that always
\* had a limit is seen with one by every request, its counter is the approved
\* participants and the leaked places, and stays within the limit.
THEOREM EventInvariance == Spec => []IInv
<1>1. QED BY InitIInv, NextIInv, PTL DEF Spec

\* The collections and the requests in flight keep their shape; the counter
\* never falls below zero.
THEOREM EventTypes == Spec => []TypeOK
<1>1. IInv => TypeOK
  BY DEF IInv
<1>2. QED BY <1>1, EventInvariance, PTL

\* Each place that was approved and not returned is counted exactly once.
THEOREM PlacesAreCounted == Spec => []SeatsAreCounted
<1>1. IInv => SeatsAreCounted
  BY DEF IInv
<1>2. QED BY <1>1, EventInvariance, PTL

\* The counter stays within the limit in force, also after the limit is lowered.
THEOREM CounterStaysWithinLimit == Spec => []CounterWithinLimit
<1>1. IInv => CounterWithinLimit
  BY DEF IInv
<1>2. QED BY <1>1, EventInvariance, PTL

\* No number of requests approves more participants than the limit allows, for
\* an event that always had one.
THEOREM CapacityHolds == Spec => []NeverOverCapacity
<1>1. IInv => NeverOverCapacity
  BY ApprovedIsFinite
  DEF IInv, TypeOK, TasksSawLimit, SeatsAreCounted, CounterWithinLimit, NeverOverCapacity
<1>2. QED BY <1>1, EventInvariance, PTL

----------------------------------------------------------------------------
\* What document.save() does to a registration whose copy was up to date, or to
\* any other user's: nothing but the assignment.
LEMMA TimelySave ==
  ASSUME IInv, NEW r \in Request, NEW new, Save(r, new), NEW u \in User, ~EndsLate(u),
         task[r] \in Task, task[r].pc # "approving",
         DOMAIN new \subseteq DOMAIN task[r].read,
         DOMAIN task[r].read \subseteq {"status", "attendance", "attended"}
  PROVE  \/ reg'[u] = reg[u]
         \/ /\ u = task[r].id
            /\ \A f \in DOMAIN task[r].read : task[r].read[f] = reg[u][f]
            /\ reg'[u] = [f \in DOMAIN reg[u] |-> IF f \in DOMAIN new THEN new[f] ELSE reg[u][f]]
<1> DEFINE mod == {f \in DOMAIN new : new[f] # task[r].read[f]}
           doc == [f \in DOMAIN reg[task[r].id] |->
                     IF f \in mod THEN new[f] ELSE reg[task[r].id][f]]
<1>1. /\ reg' = [reg EXCEPT ![task[r].id] = doc]
      /\ task'[r] = Idle
      /\ reg \in [User -> Registration]
  BY DEF Save, Finish, IInv, TypeOK
<1>2. CASE u # task[r].id
  BY <1>1, <1>2
<1>3. CASE u = task[r].id
  <2>1. task[r].pc # "idle"
    BY DEF Task
  <2>2. \A f \in DOMAIN task[r].read : task[r].read[f] = reg[u][f]
    BY <1>1, <1>3, <2>1 DEF EndsLate
  <2>3. doc = [f \in DOMAIN reg[u] |-> IF f \in DOMAIN new THEN new[f] ELSE reg[u][f]]
    BY <1>3, <2>2
  <2>4. reg'[u] = doc
    BY <1>1, <1>3
  <2>5. QED BY <1>3, <2>2, <2>3, <2>4
<1>4. QED BY <1>2, <1>3

\* What a step may do to one registration, unless it ends a request whose copy
\* is out of date.
Timely(old, new) ==
  /\ old.status = "rejected" => new.status = "rejected"
  /\ AttendanceAgrees(old) => AttendanceAgrees(new)

LEMMA TimelySteps ==
  ASSUME IInv, [Next]_vars, NEW u \in User, ~EndsLate(u)
  PROVE  Timely(reg[u], reg'[u])
<1> USE DEF Timely, AttendanceAgrees
<1>0. reg \in [User -> Registration] /\ reg[u] \in Registration
  BY DEF IInv, TypeOK
<1>1. CASE UNCHANGED reg
  BY <1>1
<1>2. ASSUME NEW r \in Request, FinishCancel(r) \/ FinishReject(r) PROVE Timely(reg[u], reg'[u])
  <2>1. /\ task[r] \in Task /\ task[r].pc # "approving"
        /\ task[r].read \in [status : Open]
    BY <1>2, PcOfTask DEF IInv, At, FinishCancel, FinishReject, Task
  <2>2. \/ reg'[u] = reg[u]
        \/ /\ task[r].read.status = reg[u].status
           /\ reg'[u] = [reg[u] EXCEPT !.status = "cancelled"] \/ reg'[u] = [reg[u] EXCEPT !.status = "rejected"]
    BY <1>0, <1>2, <2>1, TimelySave DEF FinishCancel, FinishReject, Registration, RegistrationWith
  <2>3. QED BY <1>0, <2>1, <2>2 DEF Open, Registration, RegistrationWith
<1>3. ASSUME NEW r \in Request, NEW status \in Open, Save(r, Fresh(status)),
             task[r].pc \in {"registering", "waitlisting"}
      PROVE  Timely(reg[u], reg'[u])
  <2>1. /\ task[r] \in Task /\ task[r].pc # "approving"
        /\ task[r].read \in RegistrationWith({"none", "cancelled"} \cup Open \cup {"approved"})
    BY <1>3, PcOfTask DEF IInv, Task, RegistrationWith
  <2>2. \/ reg'[u] = reg[u]
        \/ /\ task[r].read.status = reg[u].status
           /\ reg'[u] = [f \in DOMAIN reg[u] |-> IF f \in DOMAIN Fresh(status) THEN Fresh(status)[f] ELSE reg[u][f]]
    <3>1. /\ DOMAIN task[r].read = {"status", "attendance", "attended"}
          /\ DOMAIN Fresh(status) = {"status", "attendance", "attended"}
      BY <2>1 DEF Fresh, RegistrationWith
    <3>2. QED BY <1>3, <2>1, <3>1, TimelySave
  <2>3. CASE reg'[u] # reg[u]
    <3>1. reg'[u].status = status /\ reg'[u].attendance = "pending" /\ reg'[u].attended = FALSE
      BY <1>0, <2>2, <2>3 DEF Fresh, Registration, RegistrationWith
    <3>2. reg[u].status # "rejected"
      BY <2>1, <2>2, <2>3 DEF RegistrationWith, Open
    <3>3. QED BY <3>1, <3>2
  <2>4. QED BY <2>3
<1>4. ASSUME NEW r \in Request, FinishAttend(r) \/ FinishMiss(r) PROVE Timely(reg[u], reg'[u])
  <2>1. /\ task[r] \in Task /\ task[r].pc # "approving"
        /\ task[r].read \in RegistrationWith({"approved"})
    BY <1>4, PcOfTask DEF IInv, At, FinishAttend, FinishMiss, Task
  <2>2. DOMAIN task[r].read = {"status", "attendance", "attended"}
    BY <2>1 DEF RegistrationWith
  <2>3. ASSUME NEW mark \in Attendance, NEW present \in BOOLEAN, present <=> mark = "attended",
               Save(r, [attendance |-> mark, attended |-> present])
        PROVE  Timely(reg[u], reg'[u])
    <3> DEFINE new == [attendance |-> mark, attended |-> present]
    <3>1. DOMAIN new = {"attendance", "attended"}
      OBVIOUS
    <3>2. \/ reg'[u] = reg[u]
          \/ /\ task[r].read.status = reg[u].status
             /\ reg'[u] = [f \in DOMAIN reg[u] |-> IF f \in DOMAIN new THEN new[f] ELSE reg[u][f]]
      <4> HIDE DEF new
      <4>1. Save(r, new)
        BY <2>3 DEF new
      <4>2. QED BY <2>1, <2>2, <3>1, <4>1, TimelySave
    <3>3. CASE reg'[u] # reg[u]
      <4>1. /\ reg'[u].status = reg[u].status
            /\ reg'[u].attendance = mark /\ reg'[u].attended = present
        BY <1>0, <3>2, <3>3 DEF Registration, RegistrationWith
      <4>2. reg[u].status = "approved"
        BY <2>1, <3>2, <3>3 DEF RegistrationWith
      <4>3. QED BY <2>3, <4>1, <4>2
    <3>4. QED BY <3>3
  <2>4. QED BY <1>4, <2>3 DEF FinishAttend, FinishMiss, Attendance
<1>5. ASSUME NEW r \in Request, NEW status \in Status, Finish(r),
             reg' = [reg EXCEPT ![task[r].id] = Fresh(status)],
             reg[task[r].id].status # "rejected"
      PROVE  Timely(reg[u], reg'[u])
  BY <1>0, <1>5 DEF Fresh
<1>6. ASSUME NEW r \in Request, FinishRegister(r) PROVE Timely(reg[u], reg'[u])
  <2> DEFINE status == IF FullAt(task[r].max) THEN "waitlisted" ELSE "pending"
  <2>1. status \in Open /\ status \in Status /\ task[r].pc = "registering"
    BY <1>6 DEF Open, Status, FinishRegister, At
  <2>2. \/ Save(r, Fresh(status))
        \/ /\ reg' = [reg EXCEPT ![task[r].id] = Fresh(status)]
           /\ reg[task[r].id].status = "none" /\ Finish(r)
        \/ UNCHANGED reg
    BY <1>6 DEF FinishRegister
  <2> HIDE DEF status
  <2>3. QED BY <1>1, <1>3, <1>5, <2>1, <2>2
<1>7. ASSUME NEW r \in Request, Approve(r) \/ Release(r) PROVE Timely(reg[u], reg'[u])
  BY <1>5, <1>7 DEF Approve, Release, Status, Open
<1>8. ASSUME NEW r \in Request, FinishWaitlist(r) PROVE Timely(reg[u], reg'[u])
  BY <1>3, <1>8 DEF FinishWaitlist, At, Open
<1>9. QED
  BY <1>1, <1>2, <1>4, <1>6, <1>7, <1>8
  DEF Next, vars, Start, Answer, StartRegister, StartCancel, StartApprove, StartWaitlist,
      StartReject, StartAttend, StartMiss, RefuseApprove, RefuseRelease, Abandon,
      UpdateEvent, CancelEvent

\* A rejection is only ever undone by a request that read the registration
\* before it was rejected.
THEOREM RejectionStands == Spec => RejectedIsFinal
<1>1. IInv /\ [Next]_vars =>
        [\A u \in User : reg[u].status = "rejected" => reg'[u].status = "rejected" \/ EndsLate(u)]_vars
  BY TimelySteps DEF Timely
<1>2. QED BY <1>1, EventInvariance, PTL DEF Spec, RejectedIsFinal

\* The attendance fields fall out of agreement only by a save of an old copy.
THEOREM AttendanceHolds == Spec => AttendanceStaysTrue
<1>1. IInv /\ [Next]_vars =>
        [\A u \in User : AttendanceAgrees(reg[u]) => AttendanceAgrees(reg'[u]) \/ EndsLate(u)]_vars
  BY TimelySteps DEF Timely
<1>2. QED BY <1>1, EventInvariance, PTL DEF Spec, AttendanceStaysTrue
=============================================================================
