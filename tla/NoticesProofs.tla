--------------------------- MODULE NoticesProofs ---------------------------
(***************************************************************************)
(* Proofs about Notices, for any bookings, registrations, recipients and   *)
(* numbers of processes.                                                   *)
(*                                                                         *)
(* What has been notified, sent or stored stays so; the invariant says of  *)
(* each process that the facts it will write down are among those, so no   *)
(* step of another process can take them away.                             *)
(***************************************************************************)
EXTENDS Notices, TLAPS

USE NoticesAssumption DEF Subject, Process

\* The task of one process after a step that does not touch it.
LEMMA TaskStays ==
  ASSUME IInv, NEW p \in Process, task'[p] = task[p], notified \subseteq notified',
         \A n \in Notice : dispatch[n].status = "sent" => dispatch'[n].status = "sent",
         \A n \in Notice : dispatch[n].status # "none" => dispatch'[n].status # "none",
         \A n \in Notice : subject[SubjectOf[n]].status # "none" =>
           subject'[SubjectOf[n]].manual = subject[SubjectOf[n]].manual
  PROVE  TaskIsTrue(p)'
<1>1. CASE task[p] = Idle
  BY <1>1 DEF TaskIsTrue
<1>2. CASE task[p] # Idle
  <2>1. task[p] \in Task
    BY <1>2 DEF IInv, TypeOK
  <2> DEFINE n == task[p].notice
  <2>2. n \in Notice
    BY <2>1 DEF Task
  <2>3. TaskIsTrue(p)
    BY DEF IInv
  <2>4. Told(n) /\ (KindOf[n] = "created" => dispatch[n].status # "none") => Told(n)'
    BY <2>2 DEF Told, IInv
  <2>5. QED
    BY <1>2, <2>2, <2>3, <2>4 DEF TaskIsTrue, Siblings, Reminds
<1>3. QED BY <1>1, <1>2

\* The same facts keep what was sent true.
LEMMA SentStays ==
  ASSUME IInv, notified \subseteq notified',
         \A n \in Notice : dispatch'[n].status = "sent" => dispatch[n].status = "sent" \/ Told(n),
         \A n \in Notice : dispatch'[n].status = "sent" => dispatch[n].status # "none",
         \A n \in Notice : subject[SubjectOf[n]].status # "none" =>
           subject'[SubjectOf[n]].manual = subject[SubjectOf[n]].manual
  PROVE  SentIsNotified'
<1> SUFFICES ASSUME NEW n \in Notice, dispatch'[n].status = "sent"
             PROVE  Told(n)'
  BY DEF SentIsNotified
<1>1. Told(n)
  BY DEF IInv, SentIsNotified
<1>2. KindOf[n] = "created" => subject[SubjectOf[n]].status # "none"
  BY DEF IInv
<1>3. QED BY <1>1, <1>2 DEF Told

LEMMA InitKeepsIInv == Init => IInv
<1> SUFFICES ASSUME Init PROVE IInv
  OBVIOUS
<1>1. TypeOK
  BY DEF Init, TypeOK, NoDispatch, Stored, Dispatch, Field
<1>2. SentIsNotified /\ FieldMeansSent
  BY DEF Init, SentIsNotified, FieldMeansSent, NoDispatch
<1>3. QED
  BY <1>1, <1>2 DEF IInv, Init, TaskIsTrue, NoDispatch

----------------------------------------------------------------------------
\* Steps that leave the processes and the notices alone.
LEMMA SubjectKeepsIInv ==
  ASSUME IInv, UNCHANGED <<dispatch, notified, task>>, TypeOK',
         \A s \in Subject :
           /\ subject[s].status # "none" =>
                subject'[s].status # "none" /\ subject'[s].manual = subject[s].manual
           /\ subject'[s].reminded \subseteq subject[s].reminded
  PROVE  IInv'
<1>1. \A n \in Notice : SubjectOf[n] \in Subject
  OBVIOUS
<1>2. \A n \in Notice : subject[SubjectOf[n]].status # "none" =>
        subject'[SubjectOf[n]].manual = subject[SubjectOf[n]].manual
  BY <1>1
<1>3. \A p \in Process : TaskIsTrue(p)'
  BY <1>2, TaskStays
<1>4. SentIsNotified'
  BY <1>2, SentStays DEF IInv, SentIsNotified
<1>5. FieldMeansSent'
  BY <1>1 DEF IInv, FieldMeansSent
<1>6. \A n \in Notice : KindOf[n] = "created" /\ dispatch'[n].status # "none" =>
        subject'[SubjectOf[n]].status # "none"
  BY <1>1 DEF IInv
<1>7. QED BY <1>3, <1>4, <1>5, <1>6 DEF IInv

LEMMA ChangeKeepsIInv ==
  ASSUME IInv, UNCHANGED <<now, dispatch, notified, task>>,
         NEW s \in Subject, NEW r \in Stored, subject' = [subject EXCEPT ![s] = r],
         subject[s].status # "none" => r.status # "none" /\ r.manual = subject[s].manual,
         r.reminded \subseteq subject[s].reminded
  PROVE  IInv'
<1>t. TypeOK
  BY DEF IInv
<1>1. TypeOK'
  BY <1>t DEF TypeOK
<1>2. \A x \in Subject : subject'[x] = IF x = s THEN r ELSE subject[x]
  BY <1>t DEF TypeOK
<1>3. QED BY <1>1, <1>2, SubjectKeepsIInv

LEMMA LifeKeepsIInv ==
  ASSUME IInv,
         \/ Tick
         \/ \E r \in Registration : Register(r) \/ \E start \in Starts : MoveEvent(r, start)
         \/ \E s \in Subject : Accept(s) \/ End(s)
         \/ \E b \in Booking, start \in Starts : Move(b, start)
  PROVE  IInv'
<1>t. TypeOK
  BY DEF IInv
<1>s. \A s \in Subject : subject[s] \in Stored
  BY <1>t DEF TypeOK
<1>1. CASE Tick
  <2>1. TypeOK'
    BY <1>1, <1>t DEF Tick, TypeOK
  <2>2. QED BY <1>1, <2>1, SubjectKeepsIInv DEF Tick
<1>2. ASSUME NEW s \in Subject, NEW v \in {"waiting", "accepted", "over"},
             subject' = [subject EXCEPT ![s].status = v],
             UNCHANGED <<now, dispatch, notified, task>>
      PROVE  IInv'
  <2> DEFINE r == [subject[s] EXCEPT !.status = v]
  <2>1. subject[s] \in Stored
    BY <1>s
  <2>2. /\ r \in Stored /\ r.status # "none"
        /\ r.manual = subject[s].manual /\ r.reminded = subject[s].reminded
    BY <2>1 DEF Stored
  <2>3. subject' = [subject EXCEPT ![s] = r]
    BY <1>2, <1>t DEF TypeOK
  <2> HIDE DEF r
  <2>4. QED BY <1>2, <2>2, <2>3, ChangeKeepsIInv
<1>3. ASSUME NEW s \in Subject, NEW start \in Nat, NEW field \in {{}, subject[s].reminded},
             subject' = [subject EXCEPT ![s].start = start, ![s].reminded = field],
             UNCHANGED <<now, dispatch, notified, task>>
      PROVE  IInv'
  <2> DEFINE r == [subject[s] EXCEPT !.start = start, !.reminded = field]
  <2>1. subject[s] \in Stored
    BY <1>s
  <2>2. field \in SUBSET Field /\ field \subseteq subject[s].reminded
    BY <2>1 DEF Stored
  <2>3. /\ r \in Stored /\ r.status = subject[s].status
        /\ r.manual = subject[s].manual /\ r.reminded = field
    BY <2>1, <2>2 DEF Stored
  <2>4. subject' = [subject EXCEPT ![s] = r]
    BY <1>3, <1>t DEF TypeOK
  <2> HIDE DEF r
  <2>5. QED BY <1>3, <2>2, <2>3, <2>4, ChangeKeepsIInv
<1>4. CASE \E r \in Registration : Register(r)
  BY <1>2, <1>4 DEF Register
<1>5. CASE \E r \in Registration, start \in Starts : MoveEvent(r, start)
  <2>1. PICK r \in Registration, start \in Starts : MoveEvent(r, start)
    BY <1>5
  <2> DEFINE new == [subject[r] EXCEPT !.start = start]
  <2>2. r \in Subject /\ start \in Nat /\ subject[r] \in Stored
    BY <1>s
  <2>3. /\ new \in Stored /\ new.status = subject[r].status
        /\ new.manual = subject[r].manual /\ new.reminded = subject[r].reminded
    BY <2>2 DEF Stored
  <2>4. subject' = [subject EXCEPT ![r] = new]
    BY <2>1, <1>t DEF MoveEvent, TypeOK
  <2> HIDE DEF new
  <2>5. QED BY <2>1, <2>2, <2>3, <2>4, ChangeKeepsIInv DEF MoveEvent
<1>6. CASE \E s \in Subject : Accept(s)
  <2>1. PICK s \in Subject : Accept(s)
    BY <1>6
  <2>2. QED BY <2>1, <1>2 DEF Accept
<1>7. CASE \E s \in Subject : End(s)
  <2>1. PICK s \in Subject : End(s)
    BY <1>7
  <2>2. QED BY <2>1, <1>2 DEF End
<1>8. CASE \E b \in Booking, start \in Starts : Move(b, start)
  <2>1. PICK b \in Booking, start \in Starts : Move(b, start)
    BY <1>8
  <2>2. QED BY <2>1, <1>3 DEF Move
<1>9. QED BY <1>1, <1>4, <1>5, <1>6, <1>7, <1>8

\* The booking did not exist, so no dispatch of its notice did, and no process
\* was about to write anything of it.
LEMMA CreateKeepsIInv ==
  ASSUME IInv, NEW q \in Request, NEW n \in Notice, NEW start \in Starts,
         NEW manual \in BOOLEAN, Create(q, n, start, manual)
  PROVE  IInv'
<1> DEFINE b == SubjectOf[n]
<1>t. TypeOK
  BY DEF IInv
<1>1. b \in Subject /\ q \in Process /\ dispatch[n].status = "none"
  <2>1. subject[b].status = "none" /\ KindOf[n] = "created"
    BY DEF Create
  <2>2. QED BY <2>1 DEF IInv
<1>2. TypeOK'
  <2>1. subject' \in [Subject -> Stored]
    <3> DEFINE new == [subject[b] EXCEPT !.status = IF manual THEN "accepted" ELSE "waiting",
                                         !.start = start, !.manual = manual]
    <3>1. subject[b] \in Stored
      BY <1>1, <1>t DEF TypeOK
    <3>2. new \in Stored
      BY <3>1 DEF Stored
    <3>3. subject' = [subject EXCEPT ![b] = new]
      BY <1>1, <1>t DEF Create, TypeOK
    <3> HIDE DEF new
    <3>4. QED BY <1>1, <1>t, <3>2, <3>3 DEF TypeOK
  <2>2. dispatch' \in [Notice -> Dispatch]
    <3>1. dispatch' = [dispatch EXCEPT ![n].status = "pending"]
      BY DEF Create
    <3>2. dispatch \in [Notice -> Dispatch]
      BY <1>t DEF TypeOK
    <3>3. QED BY <3>1, <3>2 DEF Dispatch
  <2>3. task' \in [Process -> Task \cup {Idle}]
    BY <1>1, <1>t DEF Create, TypeOK, Task, Stored, Dispatch
  <2>4. QED BY <2>1, <2>2, <2>3, <1>t DEF Create, TypeOK
<1>3. \A s \in Subject : subject[s].status # "none" => subject'[s] = subject[s]
  BY <1>t DEF Create, TypeOK
<1>4. \A m \in Notice : m # n => dispatch'[m] = dispatch[m]
  BY <1>t DEF Create, TypeOK
<1>5. dispatch'[n].status = "pending" /\ notified' = notified
  BY <1>t DEF Create, TypeOK
<1>6. \A m \in Notice : SubjectOf[m] \in Subject
  OBVIOUS
<1>7. ASSUME NEW p \in Process PROVE TaskIsTrue(p)'
  <2>1. CASE p = q
    <3>1. task'[p] = [pc |-> "listed", notice |-> n, at |-> now, left |-> {n}, any |-> FALSE]
      BY <2>1, <1>1, <1>t DEF Create, TypeOK
    <3>2. QED BY <3>1, <1>5 DEF TaskIsTrue, Siblings
  <2>2. CASE p # q
    <3>1. task'[p] = task[p]
      BY <2>2, <1>t DEF Create, TypeOK
    <3>2. QED BY <3>1, <1>1, <1>3, <1>4, <1>5, <1>6, TaskStays
  <2>3. QED BY <2>1, <2>2
<1>8. SentIsNotified'
  <2>1. \A m \in Notice : dispatch'[m].status = "sent" => dispatch[m].status = "sent"
    BY <1>4, <1>5
  <2>2. QED BY <2>1, <1>3, <1>5, <1>6, SentStays DEF IInv, SentIsNotified
<1>9. FieldMeansSent'
  <2>1. \A s \in Subject : subject'[s].reminded = subject[s].reminded
    BY <1>t DEF Create, TypeOK
  <2>2. KindOf[n] = "created"
    BY DEF Create
  <2>3. \A s \in Subject : "created" \notin subject[s].reminded
    <3>1. \A s \in Subject : subject[s].reminded \subseteq Field
      BY <1>t DEF TypeOK, Stored
    <3>2. QED BY <3>1 DEF Field
  <2>4. QED BY <2>1, <2>2, <2>3, <1>4, <1>5, <1>6 DEF IInv, FieldMeansSent
<1>10. \A m \in Notice : KindOf[m] = "created" /\ dispatch'[m].status # "none" =>
         subject'[SubjectOf[m]].status # "none"
  <2>1. subject'[b].status # "none"
    BY <1>1, <1>t DEF Create, TypeOK
  <2>2. QED BY <2>1, <1>3, <1>4, <1>6 DEF IInv
<1>11. QED BY <1>2, <1>7, <1>8, <1>9, <1>10 DEF IInv

----------------------------------------------------------------------------
\* Steps of one process that write at most its own task.
LEMMA TaskKeepsIInv ==
  ASSUME IInv, UNCHANGED <<subject, dispatch>>, notified \subseteq notified', TypeOK',
         \A p \in Process : task'[p] # task[p] => TaskIsTrue(p)'
  PROVE  IInv'
<1>1. \A p \in Process : TaskIsTrue(p)'
  BY TaskStays
<1>2. SentIsNotified'
  BY SentStays DEF IInv, SentIsNotified
<1>3. FieldMeansSent'
  BY DEF IInv, FieldMeansSent
<1>4. QED BY <1>1, <1>2, <1>3 DEF IInv

\* The records a process can hold, and what a step that writes one keeps.
LEMMA TaskTypes ==
  ASSUME TypeOK, NEW p \in Process, NEW t \in Task \cup {Idle},
         task' = [task EXCEPT ![p] = t], UNCHANGED <<now, subject, dispatch>>,
         notified' \in SUBSET Notice
  PROVE  TypeOK' /\ task'[p] = t /\ \A q \in Process : q # p => task'[q] = task[q]
BY DEF TypeOK

LEMMA BeginKeepsIInv ==
  ASSUME IInv, NEW w \in Worker, NEW n \in Notice,
         StartRecovery(w, n) \/ StartReminders(w, n) \/ StartEventReminders(w, n)
  PROVE  IInv'
<1>t. TypeOK
  BY DEF IInv
<1>1. PICK left \in SUBSET Siblings(n) : Begin(w, n, left)
  BY DEF StartRecovery, StartReminders, StartEventReminders, Siblings
<1>2. KindOf[n] = "created" => dispatch[n].status # "none"
  BY DEF StartRecovery, StartReminders, StartEventReminders, Claimable, Reminds
<1> DEFINE t == [pc |-> "listed", notice |-> n, at |-> now, left |-> left, any |-> FALSE]
<1>3. t \in Task
  BY <1>1, <1>t DEF Task, Siblings, TypeOK
<1>4. \A p \in Process : task'[p] \in {t, Idle, task[p]}
  BY <1>1, <1>t DEF Begin, TypeOK
<1>5. task' \in [Process -> Task \cup {Idle}]
  <2>1. \A p \in Process : task'[p] \in Task \cup {Idle}
    BY <1>3, <1>4, <1>t DEF TypeOK
  <2>2. task' = [p \in Process |-> task'[p]]
    BY <1>1 DEF Begin
  <2>3. QED BY <2>1, <2>2
<1>6. TypeOK'
  BY <1>5, <1>1, <1>t DEF Begin, TypeOK
<1>7. ASSUME NEW p \in Process, task'[p] # task[p] PROVE TaskIsTrue(p)'
  <2>1. CASE task'[p] = t
    <3>1. dispatch' = dispatch
      BY <1>1 DEF Begin
    <3>2. QED BY <2>1, <3>1, <1>2, <1>1 DEF TaskIsTrue, Siblings
  <2>2. CASE task'[p] = Idle
    BY <2>2 DEF TaskIsTrue
  <2>3. QED BY <2>1, <2>2, <1>4, <1>7
<1>8. QED BY <1>1, <1>6, <1>7, TaskKeepsIInv DEF Begin

LEMMA ReadKeepsIInv ==
  ASSUME IInv, NEW p \in Process, NEW n \in Notice,
         PassOver(p, n) \/ Check(p, n) \/ NotifyAgain(p, n) \/ Trouble(p, n) \/ Crash(p)
  PROVE  IInv'
<1>t. TypeOK
  BY DEF IInv
<1>u. UNCHANGED <<now, subject, dispatch, notified>> /\ notified \in SUBSET Notice
  BY <1>t DEF PassOver, Check, NotifyAgain, Trouble, Crash, TypeOK
<1>a. task[p] # Idle /\ task[p] \in Task
  BY <1>t DEF PassOver, Check, NotifyAgain, Trouble, Crash, On, TypeOK
<1>b. TaskIsTrue(p)
  BY DEF IInv
<1>1. ASSUME NEW t \in Task \cup {Idle}, task' = [task EXCEPT ![p] = t],
             t # Idle =>
               /\ t.left \subseteq Siblings(t.notice)
               /\ KindOf[t.notice] = "created" => dispatch[t.notice].status # "none"
               /\ t.pc = "marking" => Told(t.notice)
               /\ t.pc = "finalizing" =>
                    Reminds(t.notice)
                      \/ (KindOf[t.notice] = "event" /\ dispatch[t.notice].status = "sent")
      PROVE  IInv'
  <2>1. TypeOK' /\ task'[p] = t /\ \A q \in Process : q # p => task'[q] = task[q]
    BY <1>1, <1>t, <1>u, TaskTypes
  <2>2. TaskIsTrue(p)'
    BY <2>1, <1>1, <1>u DEF TaskIsTrue, Siblings, Told, Reminds
  <2>3. QED BY <2>1, <2>2, <1>u, TaskKeepsIInv
<1>2. CASE task' = [task EXCEPT ![p] = Idle]
  BY <1>1, <1>2
<1>3. CASE PassOver(p, n) /\ Reminds(n) /\ task' # [task EXCEPT ![p] = Idle]
  <2> DEFINE left == task[p].left \ {n}
             t == [task[p] EXCEPT !.pc = IF left = {} THEN "finalizing" ELSE "listed",
                                  !.notice = n, !.left = left]
  <2>1. n \in Siblings(task[p].notice) /\ left \subseteq Siblings(task[p].notice)
    BY <1>3, <1>a, <1>b DEF PassOver, TaskIsTrue
  <2>2. left \subseteq Siblings(n)
    BY <2>1 DEF Siblings
  <2>3. task' = [task EXCEPT ![p] = t]
    BY <1>3, <1>a, <1>t DEF PassOver, TypeOK
  <2>4. t \in Task
    BY <1>a, <2>2 DEF Task, Siblings
  <2>5. t.notice = n /\ t.left = left /\ t.pc # "marking"
    BY <1>a, <2>2 DEF Task
  <2>6. KindOf[n] # "created"
    BY <1>3 DEF Reminds
  <2> HIDE DEF t
  <2>7. QED BY <1>1, <1>3, <2>2, <2>3, <2>4, <2>5, <2>6
<1>4. CASE PassOver(p, n) /\ ~Reminds(n) /\ task' # [task EXCEPT ![p] = Idle]
  <2> DEFINE t == [task[p] EXCEPT !.pc = "finalizing", !.notice = n]
  <2>1. KindOf[n] = "event" /\ dispatch[n].status = "sent"
    BY <1>4 DEF PassOver, Rest
  <2>2. task' = [task EXCEPT ![p] = t]
    BY <1>4, <1>a, <1>t DEF PassOver, TypeOK, Rest
  <2>3. task[p].left \subseteq Siblings(n)
    BY <1>4, <1>a, <1>b DEF PassOver, TaskIsTrue, Siblings
  <2>4. t \in Task /\ t.notice = n /\ t.left = task[p].left /\ t.pc = "finalizing"
    BY <1>a DEF Task
  <2> HIDE DEF t
  <2>5. QED BY <1>1, <2>1, <2>2, <2>3, <2>4
<1>5. ASSUME NEW pc \in {"failing", "notifying", "marking"},
             task' = [task EXCEPT ![p].pc = pc], pc = "marking" => Told(task[p].notice)
      PROVE  IInv'
  <2> DEFINE t == [task[p] EXCEPT !.pc = pc]
  <2>1. task' = [task EXCEPT ![p] = t]
    BY <1>5, <1>a, <1>t DEF TypeOK
  <2>2. t \in Task /\ t.notice = task[p].notice /\ t.left = task[p].left /\ t.pc = pc
    BY <1>a DEF Task
  <2> HIDE DEF t
  <2>3. QED BY <1>1, <1>5, <1>a, <1>b, <2>1, <2>2 DEF TaskIsTrue
<1>6. CASE Check(p, n)
  <2>1. task[p].notice = n
    BY <1>6 DEF Check, On
  <2> DEFINE pc == CASE KindOf[n] = "created" /\ subject[SubjectOf[n]].manual -> "marking"
                     [] KindOf[n] = "created" -> "notifying"
                     [] ~Due(n, task[p].at) -> "failing"
                     [] KindOf[n] = "event" /\ n \in notified -> "marking"
                     [] OTHER -> "notifying"
  <2>2. task' = [task EXCEPT ![p].pc = pc]
    BY <1>6 DEF Check
  <2>3. pc \in {"failing", "notifying", "marking"} /\ (pc = "marking" => Told(n))
    BY DEF Told
  <2> HIDE DEF pc
  <2>4. QED BY <1>5, <2>1, <2>2, <2>3
<1>7. CASE NotifyAgain(p, n) \/ Trouble(p, n)
  BY <1>2, <1>5, <1>7 DEF NotifyAgain, Trouble, Rest
<1>8. QED BY <1>2, <1>3, <1>4, <1>6, <1>7 DEF Crash, Rest

----------------------------------------------------------------------------
\* Steps that write one dispatch.
LEMMA DispatchKeepsIInv ==
  ASSUME IInv, UNCHANGED <<now, subject, notified>>,
         NEW n \in Notice, NEW d \in Dispatch, dispatch' = [dispatch EXCEPT ![n] = d],
         dispatch[n].status # "none" => d.status # "none", d.status = "sent" => Told(n),
         dispatch[n].status = "sent" => d.status = "sent",
         KindOf[n] = "created" => dispatch[n].status # "none",
         task' \in [Process -> Task \cup {Idle}],
         \A p \in Process : task'[p] # task[p] => TaskIsTrue(p)'
  PROVE  IInv'
<1>t. TypeOK
  BY DEF IInv
<1>1. TypeOK'
  BY <1>t DEF TypeOK
<1>2. \A m \in Notice : dispatch'[m] = IF m = n THEN d ELSE dispatch[m]
  BY <1>t DEF TypeOK
<1>3. \A p \in Process : TaskIsTrue(p)'
  BY <1>2, TaskStays
<1>4. SentIsNotified'
  <2>1. \A m \in Notice : dispatch'[m].status = "sent" => Told(m)
    BY <1>2 DEF IInv, SentIsNotified
  <2>2. QED BY <2>1 DEF SentIsNotified, Told
<1>5. FieldMeansSent'
  BY <1>2 DEF IInv, FieldMeansSent
<1>6. \A m \in Notice : KindOf[m] = "created" /\ dispatch'[m].status # "none" =>
        subject'[SubjectOf[m]].status # "none"
  BY <1>2 DEF IInv
<1>7. QED BY <1>1, <1>3, <1>4, <1>5, <1>6 DEF IInv

LEMMA AgeKeepsIInv ==
  ASSUME IInv, NEW n \in Notice, Age(n)
  PROVE  IInv'
<1>t. TypeOK
  BY DEF IInv
<1> DEFINE d == [dispatch[n] EXCEPT !.fresh = FALSE]
<1>1. dispatch[n] \in Dispatch /\ task \in [Process -> Task \cup {Idle}]
  BY <1>t DEF TypeOK
<1>2. d \in Dispatch /\ d.status = dispatch[n].status
  BY <1>1 DEF Dispatch
<1>3. dispatch' = [dispatch EXCEPT ![n] = d]
  BY <1>t DEF Age, TypeOK
<1>4. dispatch[n].status \in {"claimed", "failed"} /\ UNCHANGED <<now, subject, notified, task>>
  BY DEF Age
<1> HIDE DEF d
<1>5. QED BY <1>1, <1>2, <1>3, <1>4, DispatchKeepsIInv

LEMMA ClaimKeepsIInv ==
  ASSUME IInv, NEW p \in Process, NEW n \in Notice, Claim(p, n)
  PROVE  IInv'
<1>t. TypeOK
  BY DEF IInv
<1>a. task[p] # Idle /\ task[p] \in Task
  BY <1>t DEF Claim, TypeOK
<1> DEFINE d == [status |-> "claimed", by |-> p, fresh |-> TRUE]
           t == [task[p] EXCEPT !.pc = "claimed", !.notice = n]
<1>1. d \in Dispatch /\ dispatch' = [dispatch EXCEPT ![n] = d] /\ d.status = "claimed"
  BY DEF Claim, Dispatch
<1>2. t \in Task /\ t.notice = n /\ t.left = task[p].left /\ t.pc = "claimed"
  BY <1>a DEF Task
<1>3. task' = [task EXCEPT ![p] = t]
  BY <1>a, <1>t DEF Claim, TypeOK
<1>4. task' \in [Process -> Task \cup {Idle}]
  BY <1>2, <1>3, <1>t DEF TypeOK
<1>5. Claimable(n) /\ UNCHANGED <<now, subject, notified>>
  BY DEF Claim
<1>6. dispatch[n].status # "sent" /\ (KindOf[n] = "created" => dispatch[n].status # "none")
  BY <1>5 DEF Claimable
<1>7. t.left \subseteq Siblings(n)
  BY <1>2, <1>a DEF IInv, TaskIsTrue, Siblings, Claim
<1>8. dispatch'[n].status = "claimed"
  BY <1>1, <1>t DEF TypeOK
<1> HIDE DEF d, t
<1>9. ASSUME NEW q \in Process, task'[q] # task[q] PROVE TaskIsTrue(q)'
  <2>1. q = p /\ task'[q] = t
    BY <1>3, <1>9, <1>t DEF TypeOK
  <2>2. QED BY <2>1, <1>2, <1>7, <1>8 DEF TaskIsTrue, Siblings
<1>10. QED BY <1>1, <1>4, <1>5, <1>6, <1>9, DispatchKeepsIInv

\* Marking writes what the task says, and the task goes on without it.
LEMMA MarkKeepsIInv ==
  ASSUME IInv, NEW p \in Process, NEW n \in Notice, MarkSent(p, n) \/ MarkFailed(p, n)
  PROVE  IInv'
<1>t. TypeOK
  BY DEF IInv
<1>a. task[p] # Idle /\ task[p] \in Task /\ task[p].notice = n
  BY <1>t DEF MarkSent, MarkFailed, On, TypeOK
<1>b. UNCHANGED <<now, subject, notified>>
  BY DEF MarkSent, MarkFailed
<1>c. /\ task[p].left \subseteq Siblings(n)
      /\ KindOf[n] = "created" => dispatch[n].status # "none"
      /\ task[p].pc = "marking" => Told(n)
  BY <1>a DEF IInv, TaskIsTrue
<1>1. PICK d \in Dispatch :
        /\ dispatch' = [dispatch EXCEPT ![n] = d]
        /\ d = dispatch[n] \/ (HoldsClaim(p, n) /\ d.status \in {"sent", "failed"})
        /\ HoldsClaim(p, n) /\ MarkSent(p, n) => d.status = "sent"
        /\ HoldsClaim(p, n) /\ d.status = "sent" => Told(n)
  <2>1. dispatch[n] \in Dispatch /\ [dispatch EXCEPT ![n] = dispatch[n]] = dispatch
    BY <1>t DEF TypeOK
  <2>2. CASE ~HoldsClaim(p, n)
    <3>1. dispatch' = dispatch
      BY <2>2 DEF MarkSent, MarkFailed
    <3>2. QED BY <2>1, <2>2, <3>1
  <2>3. CASE HoldsClaim(p, n) /\ MarkFailed(p, n) /\ ~MarkSent(p, n)
    <3> DEFINE e == [status |-> "failed", by |-> "nobody", fresh |-> TRUE]
    <3>1. e \in Dispatch /\ e.status = "failed"
      BY DEF Dispatch
    <3>2. dispatch' = [dispatch EXCEPT ![n] = e]
      BY <2>3 DEF MarkFailed
    <3> HIDE DEF e
    <3>3. QED BY <2>3, <3>1, <3>2
  <2>4. CASE HoldsClaim(p, n) /\ MarkSent(p, n)
    <3> DEFINE e == [status |-> "sent", by |-> "nobody", fresh |-> FALSE]
    <3>1. e \in Dispatch /\ e.status = "sent"
      BY DEF Dispatch
    <3>2. dispatch' = [dispatch EXCEPT ![n] = e]
      BY <2>4 DEF MarkSent
    <3>3. Told(n)
      BY <2>4, <1>c DEF MarkSent, On
    <3> HIDE DEF e
    <3>4. QED BY <2>4, <3>1, <3>2, <3>3
  <2>5. QED BY <2>2, <2>3, <2>4
<1>d. d.status = "sent" => Told(n)
  BY <1>1 DEF IInv, SentIsNotified
<1>2. dispatch'[n] = d
  BY <1>1, <1>t DEF TypeOK
<1>3. ASSUME NEW t \in Task \cup {Idle}, task' = [task EXCEPT ![p] = t],
             t # Idle => /\ t.notice = n /\ t.left \subseteq task[p].left
                         /\ t.pc \in {"listed", "finalizing"}
                         /\ t.pc = "finalizing" =>
                              Reminds(n) \/ (KindOf[n] = "event" /\ d.status = "sent")
      PROVE  IInv'
  <2>1. task' \in [Process -> Task \cup {Idle}]
    BY <1>3, <1>t DEF TypeOK
  <2>2. ASSUME NEW q \in Process, task'[q] # task[q] PROVE TaskIsTrue(q)'
    <3>1. q = p /\ task'[q] = t
      BY <1>3, <2>2, <1>t DEF TypeOK
    <3>2. KindOf[n] = "created" => d.status # "none"
      BY <1>1, <1>c
    <3>3. QED BY <3>1, <3>2, <1>2, <1>3, <1>c DEF TaskIsTrue, Siblings, Reminds
  <2>3. dispatch[n].status = "sent" => d.status = "sent"
    BY <1>1 DEF HoldsClaim
  <2>4. dispatch[n].status # "none" => d.status # "none"
    BY <1>1
  <2>5. QED BY <1>1, <1>b, <1>c, <1>d, <2>1, <2>2, <2>3, <2>4, DispatchKeepsIInv
<1>4. CASE task' = [task EXCEPT ![p] = Idle]
  BY <1>3, <1>4
<1>5. ASSUME NEW any \in BOOLEAN, Proceed(p, any), Reminds(n) PROVE IInv'
  <2> DEFINE left == task[p].left \ {n}
             pc == IF left # {} THEN "listed" ELSE "finalizing"
             t == [task[p] EXCEPT !.pc = pc, !.left = left, !.any = any]
  <2>1. t \in Task /\ t.notice = n /\ t.left = left /\ t.pc = pc
    BY <1>a DEF Task
  <2>2. task' = [task EXCEPT ![p] = t] \/ task' = [task EXCEPT ![p] = Idle]
    BY <1>5, <1>a, <1>t DEF Proceed, TypeOK
  <2>3. left \subseteq task[p].left /\ pc \in {"listed", "finalizing"}
    OBVIOUS
  <2> HIDE DEF t, left, pc
  <2>4. QED BY <1>3, <1>4, <1>5, <2>1, <2>2, <2>3
<1>6. task[p].any \in BOOLEAN
  BY <1>a DEF Task
<1>7. CASE MarkFailed(p, n)
  BY <1>4, <1>5, <1>6, <1>7 DEF MarkFailed, Rest
<1>8. CASE MarkSent(p, n) /\ Reminds(n)
  <2> DEFINE any == task[p].any \/ HoldsClaim(p, n)
  <2>1. any \in BOOLEAN
    BY <1>6 DEF HoldsClaim
  <2>2. Proceed(p, any)
    BY <1>8 DEF MarkSent, Reminds
  <2>3. Reminds(n)
    BY <1>8
  <2> HIDE DEF any
  <2>4. QED BY <1>5, <2>1, <2>2, <2>3, Zenon
<1>9. CASE MarkSent(p, n) /\ ~Reminds(n) /\ KindOf[n] = "event" /\ HoldsClaim(p, n)
  <2> DEFINE t == [task[p] EXCEPT !.pc = "finalizing"]
  <2>1. task' = [task EXCEPT ![p] = t]
    BY <1>9, <1>a, <1>t DEF MarkSent, TypeOK
  <2>2. t \in Task /\ t.notice = n /\ t.left = task[p].left /\ t.pc = "finalizing"
    BY <1>a DEF Task
  <2>3. d.status = "sent"
    BY <1>1, <1>9
  <2> HIDE DEF t
  <2>4. QED BY <1>3, <1>9, <2>1, <2>2, <2>3
<1>10. CASE MarkSent(p, n) /\ ~Reminds(n) /\ ~(KindOf[n] = "event" /\ HoldsClaim(p, n))
  BY <1>4, <1>10 DEF MarkSent, Rest
<1>11. QED BY <1>7, <1>8, <1>9, <1>10

LEMMA NotifyKeepsIInv ==
  ASSUME IInv, NEW p \in Process, NEW n \in Notice, Notify(p, n)
  PROVE  IInv'
<1>t. TypeOK
  BY DEF IInv
<1>a. task[p] # Idle /\ task[p] \in Task /\ task[p].notice = n
  BY <1>t DEF Notify, On, TypeOK
<1> DEFINE t == [task[p] EXCEPT !.pc = "marking"]
<1>1. t \in Task /\ t.notice = n /\ t.left = task[p].left /\ t.pc = "marking"
  BY <1>a DEF Task
<1>2. task' = [task EXCEPT ![p] = t]
  BY <1>a, <1>t DEF Notify, TypeOK
<1> HIDE DEF t
<1>3. UNCHANGED <<now, subject, dispatch>> /\ notified' = notified \cup {n}
  BY DEF Notify
<1>4. notified' \in SUBSET Notice /\ notified \subseteq notified'
  BY <1>3, <1>t DEF TypeOK
<1>5. TypeOK' /\ task'[p] = t /\ \A q \in Process : q # p => task'[q] = task[q]
  BY <1>t, <1>1, <1>2, <1>3, <1>4, TaskTypes
<1>6. TaskIsTrue(p)
  BY DEF IInv
<1>7. TaskIsTrue(p)'
  BY <1>a, <1>1, <1>3, <1>5, <1>6 DEF TaskIsTrue, Told, Siblings
<1>8. QED BY <1>3, <1>4, <1>5, <1>7, TaskKeepsIInv

LEMMA FinalizeKeepsIInv ==
  ASSUME IInv, NEW p \in Process, NEW n \in Notice, Finalize(p, n)
  PROVE  IInv'
<1>t. TypeOK
  BY DEF IInv
<1>a. task[p] # Idle /\ task[p].notice = n /\ task[p].pc = "finalizing"
  BY DEF Finalize, On
<1>b. Reminds(n) \/ (KindOf[n] = "event" /\ dispatch[n].status = "sent")
  BY <1>a DEF IInv, TaskIsTrue
<1>c. UNCHANGED <<now, dispatch, notified>> /\ task' = [task EXCEPT ![p] = Idle]
  BY DEF Finalize, Rest
<1> DEFINE s == SubjectOf[n]
           r == [subject[s] EXCEPT !.reminded = @ \cup {KindOf[n]}]
<1>1. s \in Subject /\ subject[s] \in Stored
  BY <1>t DEF TypeOK
<1>2. KindOf[n] \in Field
  BY <1>b DEF Reminds, Field
<1>3. /\ r \in Stored /\ r.status = subject[s].status /\ r.manual = subject[s].manual
      /\ r.reminded = subject[s].reminded \cup {KindOf[n]}
  BY <1>1, <1>2 DEF Stored
<1>4. \/ subject' = subject
      \/ /\ subject' = [subject EXCEPT ![s] = r]
         /\ Reminds(n) => \A m \in Siblings(n) : dispatch[m].status = "sent"
  BY <1>t DEF Finalize, TypeOK
<1> HIDE DEF r
<1>5. TypeOK'
  <2>1. subject' \in [Subject -> Stored]
    BY <1>t, <1>3, <1>4 DEF TypeOK
  <2>2. QED BY <2>1, <1>t, <1>c DEF TypeOK
<1>6. \A x \in Subject : subject'[x].status = subject[x].status
                           /\ subject'[x].manual = subject[x].manual
  BY <1>3, <1>4, <1>t DEF TypeOK
<1>7. \A m \in Notice : SubjectOf[m] \in Subject
  OBVIOUS
<1>8. ASSUME NEW q \in Process PROVE TaskIsTrue(q)'
  <2>1. CASE q = p
    BY <2>1, <1>c, <1>t DEF TaskIsTrue, TypeOK
  <2>2. CASE q # p
    <3>1. task'[q] = task[q]
      BY <2>2, <1>c, <1>t DEF TypeOK
    <3>2. QED BY <3>1, <1>c, <1>6, <1>7, TaskStays
  <2>3. QED BY <2>1, <2>2
<1>9. SentIsNotified'
  BY <1>c, <1>6, <1>7, SentStays DEF IInv, SentIsNotified
<1>10. FieldMeansSent'
  <2> SUFFICES ASSUME NEW m \in Notice, KindOf[m] \in subject'[SubjectOf[m]].reminded
               PROVE  dispatch[m].status = "sent" /\ m \in notified
    BY <1>c DEF FieldMeansSent
  <2>1. CASE KindOf[m] \in subject[SubjectOf[m]].reminded
    BY <2>1 DEF IInv, FieldMeansSent
  <2>2. CASE KindOf[m] \notin subject[SubjectOf[m]].reminded
    <3>1. SubjectOf[m] = s /\ KindOf[m] = KindOf[n]
      BY <2>2, <1>3, <1>4, <1>7, <1>t DEF TypeOK
    <3>2. subject' # subject
      BY <2>2
    <3>3. dispatch[m].status = "sent"
      BY <3>1, <3>2, <1>4, <1>b DEF Siblings, Reminds
    <3>4. KindOf[m] # "created"
      BY <3>1, <1>b DEF Reminds
    <3>5. QED BY <3>3, <3>4 DEF IInv, SentIsNotified, Told
  <2>3. QED BY <2>1, <2>2
<1>11. \A m \in Notice : KindOf[m] = "created" /\ dispatch'[m].status # "none" =>
         subject'[SubjectOf[m]].status # "none"
  BY <1>c, <1>6, <1>7 DEF IInv
<1>12. QED BY <1>5, <1>8, <1>9, <1>10, <1>11 DEF IInv

----------------------------------------------------------------------------
LEMMA StepKeepsIInv == IInv /\ [Next]_vars => IInv'
<1> SUFFICES ASSUME IInv, [Next]_vars PROVE IInv'
  OBVIOUS
<1>1. CASE Tick \/ Subjects
  BY <1>1, LifeKeepsIInv, CreateKeepsIInv DEF Subjects
<1>2. CASE Runs
  BY <1>2, BeginKeepsIInv DEF Runs
<1>3. CASE \E n \in Notice : Age(n)
  BY <1>3, AgeKeepsIInv
<1>4. CASE \E p \in Process : Advance(p) \/ Crash(p) \/ \E n \in Notice : Trouble(p, n)
  <2>1. PICK p \in Process : Advance(p) \/ Crash(p) \/ \E n \in Notice : Trouble(p, n)
    BY <1>4
  <2>2. CASE Advance(p)
    BY <2>2, ReadKeepsIInv, ClaimKeepsIInv, MarkKeepsIInv, NotifyKeepsIInv,
       FinalizeKeepsIInv DEF Advance
  <2>3. CASE Crash(p) /\ Notice # {}
    BY <2>3, ReadKeepsIInv
  <2>4. CASE Crash(p) /\ Notice = {}
    <3>1. task[p] \in Task /\ task[p] # Idle
      BY <2>4 DEF Crash, IInv, TypeOK
    <3>2. QED BY <3>1, <2>4 DEF Task
  <2>5. CASE \E n \in Notice : Trouble(p, n)
    BY <2>5, ReadKeepsIInv
  <2>6. QED BY <2>1, <2>2, <2>3, <2>4, <2>5
<1>5. CASE UNCHANGED vars
  <2>1. TypeOK'
    BY <1>5 DEF vars, IInv, TypeOK
  <2>2. QED BY <1>5, <2>1, TaskKeepsIInv DEF vars
<1>6. QED BY <1>1, <1>2, <1>3, <1>4, <1>5 DEF Next

\* Every reachable state satisfies the invariant: nothing is marked that has not
\* happened.
THEOREM NoticesInvariance == Spec => []IInv
<1>1. QED BY InitKeepsIInv, StepKeepsIInv, PTL DEF Spec

\* Bookings, dispatches and tasks keep their shape.
THEOREM NoticesTypes == Spec => []TypeOK
<1>1. IInv => TypeOK
  BY DEF IInv
<1>2. QED BY <1>1, NoticesInvariance, PTL

\* A dispatch is marked as sent only after its notification was written.
THEOREM SentMeansNotified == Spec => []SentIsNotified
<1>1. IInv => SentIsNotified
  BY DEF IInv
<1>2. QED BY <1>1, NoticesInvariance, PTL

\* The reminder field stops the job only when every recipient was reminded.
THEOREM FieldsAreEarned == Spec => []FieldMeansSent
<1>1. IInv => FieldMeansSent
  BY DEF IInv
<1>2. QED BY <1>1, NoticesInvariance, PTL

\* How one step changes a dispatch.
LEMMA DispatchSteps ==
  ASSUME IInv, [Next]_vars, NEW n \in Notice, dispatch'[n] # dispatch[n]
  PROVE  \/ dispatch[n].status = "none" /\ KindOf[n] = "created"
         \/ dispatch'[n] = [dispatch[n] EXCEPT !.fresh = FALSE]
              /\ dispatch'[n].status = dispatch[n].status
         \/ Claimable(n)
         \/ \E p \in Process : HoldsClaim(p, n) /\ (On(p, n, "marking") \/ On(p, n, "failing"))
<1>t. TypeOK
  BY DEF IInv
<1>0. Next
  BY DEF vars
<1>1. CASE Tick \/ Subjects
  <2>1. PICK q \in Request, m \in Notice, start \in Starts, manual \in BOOLEAN :
          Create(q, m, start, manual)
    BY <1>1 DEF Tick, Subjects, Register, MoveEvent, Accept, End, Move
  <2>2. m = n
    BY <2>1, <1>t DEF Create, TypeOK
  <2>3. KindOf[n] = "created" /\ subject[SubjectOf[n]].status = "none"
    BY <2>1, <2>2 DEF Create
  <2>4. QED BY <2>3 DEF IInv
<1>2. CASE Runs
  BY <1>2 DEF Runs, StartRecovery, StartReminders, StartEventReminders, Begin
<1>3. CASE \E m \in Notice : Age(m)
  <2>1. Age(n)
    BY <1>3, <1>t DEF Age, TypeOK
  <2>2. dispatch[n] \in Dispatch
    BY <1>t DEF TypeOK
  <2>3. dispatch'[n] = [dispatch[n] EXCEPT !.fresh = FALSE]
    BY <2>1, <1>t DEF Age, TypeOK
  <2>4. QED BY <2>2, <2>3 DEF Dispatch
<1>4. CASE \E p \in Process : Advance(p) \/ Crash(p) \/ \E m \in Notice : Trouble(p, m)
  <2>1. PICK p \in Process, m \in Notice : Claim(p, m) \/ MarkFailed(p, m) \/ MarkSent(p, m)
    BY <1>4 DEF Advance, PassOver, Check, Notify, NotifyAgain, Finalize, Crash, Trouble
  <2>2. m = n
    BY <2>1, <1>t DEF Claim, MarkFailed, MarkSent, TypeOK
  <2>3. CASE Claim(p, n)
    BY <2>3 DEF Claim
  <2>4. CASE MarkFailed(p, n) \/ MarkSent(p, n)
    BY <2>4 DEF MarkFailed, MarkSent
  <2>5. QED BY <2>1, <2>2, <2>3, <2>4
<1>5. QED BY <1>0, <1>1, <1>2, <1>3, <1>4 DEF Next

\* Only the process that made a claim ends it while the claim is fresh.
THEOREM ClaimsAreKept == Spec => FreshClaimIsKept
<1>1. ASSUME IInv, [Next]_vars, NEW n \in Notice,
             dispatch[n].status = "claimed", dispatch[n].fresh, dispatch'[n] # dispatch[n]
      PROVE  \/ dispatch'[n] = [dispatch[n] EXCEPT !.fresh = FALSE]
             \/ On(dispatch[n].by, n, "marking") \/ On(dispatch[n].by, n, "failing")
  BY <1>1, DispatchSteps DEF Claimable, HoldsClaim
<1>2. IInv /\ [Next]_vars =>
        [\A n \in Notice :
           dispatch[n].status = "claimed" /\ dispatch[n].fresh /\ dispatch'[n] # dispatch[n] =>
             \/ dispatch'[n] = [dispatch[n] EXCEPT !.fresh = FALSE]
             \/ On(dispatch[n].by, n, "marking") \/ On(dispatch[n].by, n, "failing")]_vars
  BY <1>1
<1>3. QED BY <1>2, NoticesInvariance, PTL DEF Spec, FreshClaimIsKept

\* What was sent is not sent again.
THEOREM SentStaysSent == Spec => SentIsFinal
<1>1. ASSUME IInv, [Next]_vars, NEW n \in Notice, dispatch[n].status = "sent"
      PROVE  dispatch'[n].status = "sent"
  BY <1>1, DispatchSteps DEF Claimable, HoldsClaim
<1>2. IInv /\ [Next]_vars =>
        [\A n \in Notice : dispatch[n].status = "sent" => dispatch'[n].status = "sent"]_vars
  BY <1>1
<1>3. QED BY <1>2, NoticesInvariance, PTL DEF Spec, SentIsFinal
=============================================================================
