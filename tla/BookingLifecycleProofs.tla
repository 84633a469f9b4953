----------------------- MODULE BookingLifecycleProofs -----------------------
(* Safety of the booking lifecycle for any number of bookings, requests and  *)
(* minutes.                                                                  *)
EXTENDS BookingLifecycle, TLAPS

-----------------------------------------------------------------------------
(* Type correctness *)

LEMMA InitTypeOK == Init => TypeOK
  BY ConstantsAssumption
     DEF Init, TypeOK, Unborn, BookingRecord, Status, IdleSweep, Minute

\* A task that is not idle is a Task record.
LEMMA BusyTask ==
  ASSUME TypeOK, NEW r \in Request, task[r] # Idle
  PROVE  task[r] \in Task
  BY DEF TypeOK

\* A request past "idle" carries a task.
LEMMA Loaded ==
  ASSUME TypeOK, NEW r \in Request, task[r].pc \in {"loaded", "validated"}
  PROVE  /\ task[r] # Idle
         /\ task[r] \in Task
         /\ Booked(r) \in Booking
         /\ task[r].target \in Minute
  BY DEF TypeOK, Idle, Task, Booked

LEMMA NewTaskType ==
  ASSUME NEW op \in StatusOp \cup OutcomeOp \cup SlotOp \cup SaveOp, NEW b \in Booking,
         NEW from \in Minute, NEW target \in Minute, NEW at \in 0 .. Horizon
  PROVE  /\ NewTask(op, b, from, target, at) \in Task
         /\ NewTask(op, b, from, target, at) # Idle
         /\ NewTask(op, b, from, target, at).op = op
         /\ NewTask(op, b, from, target, at).id = b
         /\ NewTask(op, b, from, target, at).pc = "loaded"
  BY DEF NewTask, Task, Idle

LEMMA ZeroMinute == 0 \in Minute /\ 0 \in 0 .. Horizon
  BY ConstantsAssumption DEF ConstantsAssumption, Minute

\* Every way a request starts: it puts one task, loaded, on an idle request.
StartsTask(r) ==
  \E t \in Task :
    /\ t # Idle
    /\ t.pc = "loaded"
    /\ t.op = "create" => /\ bookings[t.id].status = "unborn"
                          /\ \A q \in Request : task[q] # Idle => task[q].id # t.id
    /\ t.op # "create" => bookings[t.id].status # "unborn"
    /\ Start(r, t)

LEMMA StartOfCreate ==
  ASSUME NEW r \in Request, NEW b \in Booking, NEW s \in Minute, StartCreate(r, b, s)
  PROVE  StartsTask(r)
<1> DEFINE t == NewTask("create", b, 0, s, 0)
<1>1. t \in Task /\ t # Idle /\ t.op = "create" /\ t.id = b /\ t.pc = "loaded"
  BY NewTaskType, ZeroMinute DEF SlotOp
<1>2. /\ bookings[b].status = "unborn"
      /\ \A q \in Request : task[q] # Idle => task[q].id # b
      /\ Start(r, t)
  BY DEF StartCreate
<1> HIDE DEF t
<1> QED
  BY <1>1, <1>2 DEF StartsTask

LEMMA StartOfOther ==
  ASSUME NEW r \in Request, NEW b \in Booking,
         NEW op \in StatusOp \cup OutcomeOp \cup SlotOp \cup SaveOp, op # "create",
         NEW from \in Minute, NEW target \in Minute, NEW at \in 0 .. Horizon,
         bookings[b].status # "unborn",
         Start(r, NewTask(op, b, from, target, at))
  PROVE  StartsTask(r)
<1> DEFINE t == NewTask(op, b, from, target, at)
<1>1. t \in Task /\ t # Idle /\ t.op = op /\ t.id = b /\ t.pc = "loaded"
  BY NewTaskType
<1>2. Start(r, t)
  OBVIOUS
<1> HIDE DEF t
<1> QED
  BY <1>1, <1>2 DEF StartsTask

LEMMA StartOfOthers ==
  ASSUME TypeOK, UnbornIsBlank, NEW r \in Request, NEW b \in Booking,
         \/ \E s \in Minute : StartRequest(r, b, s)
         \/ \E op \in StatusOp : StartStatus(r, b, op)
         \/ \E op \in OutcomeOp : StartOutcome(r, b, op)
         \/ \E d \in DelayChoices : StartDelay(r, b, d)
         \/ StartEdit(r, b)
         \/ StartAcceptRequest(r, b)
         \/ StartRejectRequest(r, b)
  PROVE  StartsTask(r)
<1>0. bookings[b].start \in Minute /\ now \in 0 .. Horizon
  BY DEF TypeOK, BookingRecord
<1>1. CASE \E s \in Minute : StartRequest(r, b, s)
  BY <1>1, StartOfOther, ZeroMinute DEF StartRequest, SaveOp, Blocking, BlockingStatus
<1>2. CASE \E op \in StatusOp : StartStatus(r, b, op)
  <2>1. PICK op \in StatusOp : StartStatus(r, b, op)
    BY <1>2
  <2>2. bookings[b].status # "unborn" /\ op # "create"
    BY <2>1 DEF StartStatus, AllowedFrom, StatusOp
  <2> QED
    BY <2>1, <2>2, StartOfOther, ZeroMinute DEF StartStatus
<1>3. CASE \E op \in OutcomeOp : StartOutcome(r, b, op)
  <2>1. PICK op \in OutcomeOp : StartOutcome(r, b, op)
    BY <1>3
  <2>2. bookings[b].status # "unborn" /\ op # "create"
    BY <2>1 DEF StartOutcome, CanMarkOutcome, OutcomeOp
  <2> QED
    BY <1>0, <2>1, <2>2, StartOfOther, ZeroMinute DEF StartOutcome
<1>4. CASE \E d \in DelayChoices : StartDelay(r, b, d)
  BY <1>0, <1>4, StartOfOther, ZeroMinute DEF StartDelay, SlotOp
<1>5. CASE StartEdit(r, b)
  BY <1>0, <1>5, StartOfOther, ZeroMinute DEF StartEdit, SlotOp, Blocking, BlockingStatus
<1>6. CASE StartAcceptRequest(r, b)
  BY <1>6, StartOfOther, ZeroMinute DEF StartAcceptRequest, SlotOp, UnbornIsBlank
<1>7. CASE StartRejectRequest(r, b)
  BY <1>7, StartOfOther, ZeroMinute DEF StartRejectRequest, SaveOp, UnbornIsBlank
<1> QED
  BY <1>1, <1>2, <1>3, <1>4, <1>5, <1>6, <1>7

-----------------------------------------------------------------------------
(* The holds *)

LEMMA SlotIsNat ==
  ASSUME NEW b \in Booking, NEW s \in Minute
  PROVE  Slot(b, s) \subseteq Nat
  BY ConstantsAssumption DEF ConstantsAssumption, Slot, Minute

\* What a write to the holds must keep.
Protected == HoldsCoverBlocking /\ OneHolderPerMinute /\ UnbornIsBlank

LEMMA MoveProtected ==
  ASSUME TypeOK, TypeOK', Protected, NEW b \in Booking, NEW to \in Minute,
         bookings[b].status # "unborn",
         MoveHolds(b, bookings[b].start, to),
         bookings'[b].status = bookings[b].status,
         bookings'[b].start = to,
         \A c \in Booking \ {b} : bookings'[c] = bookings[c]
  PROVE  Protected'
<1> DEFINE old == Slot(b, bookings[b].start)
           new == Slot(b, to)
<1>1. /\ ~ HeldByOther(b, new \ old)
      /\ holds' = (holds \cup ({b} \X (new \ old))) \ ({b} \X (old \ new))
  BY DEF MoveHolds
<1>2. holds \subseteq Booking \X Nat /\ holds' \subseteq Booking \X Nat
  BY DEF TypeOK
<1>3. \A c \in Booking : Blocking(c) => Covered(c)
  BY DEF Protected, HoldsCoverBlocking
<1>4. \A c \in Booking \ {b} : \A m : <<c, m>> \in holds' <=> <<c, m>> \in holds
  BY <1>1
<1>5. \A m \in Nat :
        <<b, m>> \in holds' <=>
          \/ <<b, m>> \in holds /\ m \notin old \ new
          \/ m \in new \ old
  BY <1>1
<1>6. ASSUME NEW c \in Booking, Blocking(c)'
      PROVE  Covered(c)'
  <2>1. CASE c = b
    <3>1. Covered(b)
      BY <1>3, <1>6, <2>1 DEF Blocking
    <3>2. \A m \in Nat : <<b, m>> \in holds <=> m \in old
      BY <3>1, <1>2, SlotIsNat DEF Covered
    <3>3. \A m \in Nat : <<b, m>> \in holds' <=> m \in new
      BY <3>2, <1>5
    <3>4. Slot(b, to) \subseteq Nat
      BY SlotIsNat
    <3> QED
      BY <2>1, <3>3, <3>4, <1>2 DEF Covered, Slot
  <2>2. CASE c # b
    <3>1. Covered(c) /\ bookings'[c] = bookings[c]
      BY <1>3, <1>6, <2>2 DEF Blocking
    <3> QED
      BY <2>2, <3>1, <1>4, <1>2 DEF Covered, Slot
  <2> QED
    BY <2>1, <2>2
<1>7. HoldsCoverBlocking'
  BY <1>6 DEF HoldsCoverBlocking
<1>8. OneHolderPerMinute'
  <2>1. \A g, h \in holds : SameBarber(g[1], h[1]) /\ g[2] = h[2] => g = h
    BY DEF Protected, OneHolderPerMinute
  <2>2. \A h \in holds' : h \in holds \/ (h[1] = b /\ h[2] \in new \ old)
    BY <1>1
  <2>3. \A h \in holds : h[1] # b /\ SameBarber(b, h[1]) => h[2] \notin new \ old
    BY <1>1 DEF HeldByOther
  <2> SUFFICES ASSUME NEW g \in holds', NEW h \in holds',
                      SameBarber(g[1], h[1]), g[2] = h[2]
               PROVE  g = h
    BY DEF OneHolderPerMinute, SameBarber
  <2>4. g \in Booking \X Nat /\ h \in Booking \X Nat
    BY <1>2
  <2>5. g = h <=> g[1] = h[1] /\ g[2] = h[2]
    BY <2>4
  <2> QED
    BY <2>1, <2>2, <2>3, <2>5 DEF SameBarber
<1>9. UnbornIsBlank'
  BY <1>1 DEF Protected, UnbornIsBlank
<1> QED
  BY <1>7, <1>8, <1>9 DEF Protected

LEMMA CreateProtected ==
  ASSUME TypeOK, TypeOK', Protected, NEW b \in Booking, NEW s \in Minute,
         bookings[b].status = "unborn",
         CreateHolds(b, Slot(b, s)),
         bookings'[b].status # "unborn",
         bookings'[b].start = s,
         \A c \in Booking \ {b} : bookings'[c] = bookings[c]
  PROVE  Protected'
<1>1. /\ \A h \in holds : h[1] # b /\ ~ (SameBarber(b, h[1]) /\ h[2] \in Slot(b, s))
      /\ holds' = holds \cup ({b} \X Slot(b, s))
  BY DEF CreateHolds, HeldByOther, Protected, UnbornIsBlank
<1>2. holds \subseteq Booking \X Nat /\ holds' \subseteq Booking \X Nat
  BY DEF TypeOK
<1>3. HoldsCoverBlocking'
  <2> SUFFICES ASSUME NEW c \in Booking, Blocking(c)'
               PROVE  Covered(c)'
    BY DEF HoldsCoverBlocking
  <2>1. CASE c = b
    BY <1>1, <2>1 DEF Covered, Slot
  <2>2. CASE c # b
    <3>1. Covered(c) /\ bookings'[c] = bookings[c]
      BY <2>2 DEF Protected, HoldsCoverBlocking, Blocking
    <3> QED
      BY <1>1, <2>2, <3>1 DEF Covered, Slot
  <2> QED
    BY <2>1, <2>2
<1>4. OneHolderPerMinute'
  <2> SUFFICES ASSUME NEW g \in holds', NEW h \in holds',
                      SameBarber(g[1], h[1]), g[2] = h[2]
               PROVE  g = h
    BY DEF OneHolderPerMinute, SameBarber
  <2>1. g = h <=> g[1] = h[1] /\ g[2] = h[2]
    BY <1>2
  <2>2. \A k \in holds' : k \in holds \/ (k[1] = b /\ k[2] \in Slot(b, s))
    BY <1>1
  <2> QED
    BY <1>1, <2>1, <2>2 DEF Protected, OneHolderPerMinute, SameBarber
<1>5. UnbornIsBlank'
  BY <1>1 DEF Protected, UnbornIsBlank
<1> QED
  BY <1>3, <1>4, <1>5 DEF Protected

LEMMA ReleaseProtected ==
  ASSUME TypeOK, TypeOK', Protected, NEW b \in Booking,
         bookings'[b].status \in TerminalStatus,
         ReleaseHolds(b),
         \A c \in Booking \ {b} : bookings'[c] = bookings[c]
  PROVE  Protected'
<1>1. holds' = {h \in holds : h[1] # b}
  BY DEF ReleaseHolds
<1>2. HoldsCoverBlocking'
  <2> SUFFICES ASSUME NEW c \in Booking, Blocking(c)'
               PROVE  Covered(c)'
    BY DEF HoldsCoverBlocking
  <2>1. c # b
    BY DEF Blocking, BlockingStatus, TerminalStatus
  <2>2. Covered(c) /\ bookings'[c] = bookings[c]
    BY <2>1 DEF Protected, HoldsCoverBlocking, Blocking
  <2> QED
    BY <1>1, <2>1, <2>2 DEF Covered, Slot
<1>3. OneHolderPerMinute'
  BY <1>1 DEF Protected, OneHolderPerMinute, SameBarber
<1>4. UnbornIsBlank'
  BY <1>1 DEF Protected, UnbornIsBlank, TerminalStatus
<1> QED
  BY <1>2, <1>3, <1>4 DEF Protected

\* Writes that leave the holds, every start and what blocks alone.
LEMMA SameHoldsProtected ==
  ASSUME Protected, holds' = holds,
         \A c \in Booking :
           /\ bookings'[c].start = bookings[c].start
           /\ Blocking(c)' <=> Blocking(c)
           /\ bookings'[c].status = "unborn" =>
                bookings[c].status = "unborn" /\ bookings'[c].req = bookings[c].req
  PROVE  Protected'
<1>1. HoldsCoverBlocking'
  BY DEF Protected, HoldsCoverBlocking, Covered, Slot
<1>2. OneHolderPerMinute'
  BY DEF Protected, OneHolderPerMinute, SameBarber
<1>3. UnbornIsBlank'
  BY DEF Protected, UnbornIsBlank
<1> QED
  BY <1>1, <1>2, <1>3 DEF Protected

-----------------------------------------------------------------------------
(* The requests in flight *)

\* No booking is born but the one a finishing request creates, none is unborn
\* again.
LEMMA FinishTaskInv ==
  ASSUME TypeOK, TaskInv, NEW r \in Request, task[r] # Idle, Finish(r),
         \A b \in Booking :
           \/ bookings'[b].status = "unborn" <=> bookings[b].status = "unborn"
           \/ Doing(r, "create") /\ b = Booked(r) /\ bookings'[b].status # "unborn"
  PROVE  TaskInv'
<1>1. task' = [task EXCEPT ![r] = Idle]
  BY DEF Finish
<1>2. \A q \in Request : task'[q] # Idle => q # r /\ task'[q] = task[q]
  BY <1>1 DEF TypeOK
<1>3. \A q \in Request : task[q] # Idle => task[q].id \in Booking
  BY DEF TypeOK, Task
<1> SUFFICES ASSUME NEW q \in Request, task'[q] # Idle
             PROVE  /\ Doing(q, "create")' => bookings'[Booked(q)'].status = "unborn"
                    /\ \A p \in Request :
                         Doing(q, "create")' /\ task'[p] # Idle /\ Booked(p)' = Booked(q)' => p = q
                    /\ ~ Doing(q, "create")' => bookings'[Booked(q)'].status # "unborn"
  BY DEF TaskInv, Doing
<1>4. q # r /\ task[q] = task'[q]
  BY <1>2
<1> QED
  BY <1>2, <1>3, <1>4 DEF TaskInv, Doing, Booked

LEMMA StartTaskInv ==
  ASSUME TypeOK, TaskInv, NEW r \in Request, StartsTask(r)
  PROVE  TaskInv'
<1>1. PICK t \in Task :
        /\ t # Idle
        /\ t.op = "create" => /\ bookings[t.id].status = "unborn"
                              /\ \A q \in Request : task[q] # Idle => task[q].id # t.id
        /\ t.op # "create" => bookings[t.id].status # "unborn"
        /\ task[r] = Idle
        /\ task' = [task EXCEPT ![r] = t]
        /\ bookings' = bookings
  BY DEF StartsTask, Start
<1>2. task'[r] = t /\ \A q \in Request \ {r} : task'[q] = task[q]
  BY <1>1 DEF TypeOK
<1> SUFFICES ASSUME NEW q \in Request, task'[q] # Idle
             PROVE  /\ Doing(q, "create")' => bookings'[Booked(q)'].status = "unborn"
                    /\ \A p \in Request :
                         Doing(q, "create")' /\ task'[p] # Idle /\ Booked(p)' = Booked(q)' => p = q
                    /\ ~ Doing(q, "create")' => bookings'[Booked(q)'].status # "unborn"
  BY DEF TaskInv, Doing
<1>3. CASE q = r
  BY <1>1, <1>2, <1>3 DEF Doing, Booked
<1>4. CASE q # r
  <2>1. task'[q] = task[q]
    BY <1>2, <1>4
  <2>2. Doing(q, "create") => bookings[Booked(q)].status = "unborn" /\ task[q].id # t.id
    BY <1>1, <1>2, <1>4 DEF TaskInv, Doing, Booked
  <2> QED
    BY <1>1, <1>2, <1>4, <2>1, <2>2 DEF TaskInv, Doing, Booked
<1> QED
  BY <1>3, <1>4

\* Steps that end no request and leave every request's booking as it was.
LEMMA SameTaskInv ==
  ASSUME TaskInv,
         \A q \in Request :
           /\ task'[q] # Idle <=> task[q] # Idle
           /\ task[q] # Idle => task'[q].op = task[q].op /\ task'[q].id = task[q].id
                                /\ task[q].id \in Booking,
         \A b \in Booking : bookings'[b].status = "unborn" <=> bookings[b].status = "unborn"
  PROVE  TaskInv'
  BY DEF TaskInv, Doing, Booked

-----------------------------------------------------------------------------
(* Every action *)

LEMMA Commits ==
  ASSUME IInv, NEW r \in Request,
         \/ CommitCreate(r)
         \/ CommitStatus(r)
         \/ CommitOutcome(r)
         \/ CommitEdit(r)
         \/ CommitDelay(r)
         \/ CommitAcceptRequest(r)
         \/ SaveRequest(r)
         \/ SaveRejectRequest(r)
  PROVE  IInv'
<1> DEFINE b == Booked(r)
           s == task[r].target
<1>1. /\ task[r] # Idle
      /\ task[r] \in Task
      /\ b \in Booking
      /\ s \in Minute
      /\ Finish(r)
      /\ sweep' = sweep
      /\ now' = now
  BY Loaded DEF IInv, CommitCreate, CommitStatus, CommitOutcome, CommitEdit, CommitDelay,
                CommitAcceptRequest, SaveRequest, SaveRejectRequest
<1>2. TypeOK /\ Protected /\ TaskInv
  BY DEF IInv, Protected
<1>3. /\ bookings \in [Booking -> BookingRecord]
      /\ holds \subseteq Booking \X Nat
      /\ task' \in [Request -> {Idle} \cup Task]
  BY <1>1 DEF IInv, TypeOK, Finish
<1>4. Slot(b, s) \subseteq Nat
  BY <1>1, SlotIsNat
<1> SUFFICES TypeOK' /\ Protected' /\ TaskInv'
  BY DEF IInv, Protected
<1>a. ASSUME bookings' \in [Booking -> BookingRecord], holds' \subseteq Booking \X Nat
      PROVE  TypeOK'
  BY <1>a, <1>1, <1>2, <1>3 DEF TypeOK
<1>b. ~ Doing(r, "create") => bookings[b].status # "unborn"
  BY <1>1, <1>2 DEF TaskInv
<1> HIDE DEF b, s
<1>5. CASE CommitCreate(r)
  <2>1. /\ Doing(r, "create")
        /\ CreateHolds(b, Slot(b, s))
        /\ bookings' = [bookings EXCEPT ![b] =
             [Unborn EXCEPT !.status = IF b \in Manual THEN "accepted" ELSE "pending",
                            !.start = s]]
    BY <1>5 DEF CommitCreate, b, s
  <2>2. TypeOK'
    BY <1>1, <1>3, <1>4, <1>a, <2>1, ZeroMinute
       DEF Unborn, BookingRecord, Status, BlockingStatus, CreateHolds
  <2>3. /\ bookings[b].status = "unborn"
        /\ bookings'[b].status \in {"pending", "accepted"}
        /\ bookings'[b].start = s
        /\ \A c \in Booking \ {b} : bookings'[c] = bookings[c]
    BY <1>1, <1>2, <1>3, <2>1 DEF TaskInv, Unborn, b
  <2>4. Protected'
    BY <1>1, <1>2, <2>1, <2>2, <2>3, CreateProtected
  <2>5. TaskInv'
    BY <1>1, <1>2, <2>1, <2>3, FinishTaskInv DEF b
  <2> QED
    BY <2>2, <2>4, <2>5
<1>6. CASE CommitStatus(r)
  <2> DEFINE op == task[r].op
  <2>1. /\ op \in StatusOp
        /\ bookings[b].status \in AllowedFrom(op)
        /\ bookings' = [bookings EXCEPT ![b].status = StatusAfter(op)]
        /\ IF StatusAfter(op) \in TerminalStatus THEN ReleaseHolds(b) ELSE UNCHANGED holds
    BY <1>6 DEF CommitStatus, b
  <2>2. /\ StatusAfter(op) \in {"accepted"} \cup TerminalStatus
        /\ bookings[b].status \in BlockingStatus
    BY <2>1 DEF StatusAfter, AllowedFrom, StatusOp, BlockingStatus, TerminalStatus
  <2> HIDE DEF op
  <2>3. /\ bookings'[b] = [bookings[b] EXCEPT !.status = StatusAfter(op)]
        /\ \A c \in Booking \ {b} : bookings'[c] = bookings[c]
    BY <1>1, <1>3, <2>1
  <2>4. bookings'[b].status = StatusAfter(op) /\ bookings'[b].start = bookings[b].start
    BY <1>1, <1>3, <2>3 DEF BookingRecord
  <2>5. TypeOK'
    BY <1>1, <1>3, <1>a, <2>1, <2>2
       DEF BookingRecord, Status, BlockingStatus, ReleaseHolds
  <2>6. Protected'
    <3>1. CASE StatusAfter(op) \in TerminalStatus
      BY <1>1, <1>2, <2>1, <2>3, <2>4, <2>5, <3>1, ReleaseProtected
    <3>2. CASE StatusAfter(op) \notin TerminalStatus
      <4>1. holds' = holds /\ bookings'[b].status = "accepted"
        BY <2>1, <2>2, <2>4, <3>2
      <4> QED
        BY <1>2, <2>2, <2>3, <2>4, <4>1, SameHoldsProtected DEF Blocking, BlockingStatus
    <3> QED
      BY <3>1, <3>2
  <2>7. TaskInv'
    BY <1>1, <1>2, <2>2, <2>3, <2>4, FinishTaskInv DEF BlockingStatus, TerminalStatus
  <2> QED
    BY <2>5, <2>6, <2>7
<1>7. CASE CommitOutcome(r)
  <2>1. /\ task[r].op \in OutcomeOp
        /\ bookings[b].status = "accepted"
        /\ bookings' = [bookings EXCEPT ![b].status = task[r].op]
        /\ ReleaseHolds(b)
    BY <1>7 DEF CommitOutcome, CanMarkOutcome, b
  <2>2. task[r].op \in TerminalStatus
    BY <2>1 DEF OutcomeOp, TerminalStatus
  <2>3. /\ bookings'[b].status = task[r].op
        /\ \A c \in Booking \ {b} : bookings'[c] = bookings[c]
    BY <1>1, <1>3, <2>1 DEF BookingRecord
  <2>4. TypeOK'
    BY <1>1, <1>3, <1>a, <2>1, <2>2 DEF BookingRecord, Status, ReleaseHolds
  <2>5. Protected'
    BY <1>1, <1>2, <2>1, <2>2, <2>3, <2>4, ReleaseProtected
  <2>6. TaskInv'
    BY <1>1, <1>2, <2>1, <2>2, <2>3, FinishTaskInv DEF TerminalStatus
  <2> QED
    BY <2>4, <2>5, <2>6
<1>8. CASE CommitEdit(r) \/ CommitDelay(r) \/ CommitAcceptRequest(r)
  <2>1. MoveHolds(b, bookings[b].start, s)
    BY <1>8 DEF CommitEdit, CommitDelay, CommitAcceptRequest, b, s
  <2>2. /\ bookings' \in [Booking -> BookingRecord]
        /\ bookings'[b].status = bookings[b].status
        /\ bookings'[b].start = s
        /\ \A c \in Booking \ {b} : bookings'[c] = bookings[c]
    BY <1>1, <1>3, <1>8
       DEF CommitEdit, CommitDelay, CommitAcceptRequest, BookingRecord, b, s
  <2>3. bookings[b].status # "unborn"
    BY <1>8, <1>b DEF CommitEdit, CommitDelay, CommitAcceptRequest, Doing
  <2>4. TypeOK'
    BY <1>1, <1>3, <1>4, <1>a, <2>1, <2>2 DEF MoveHolds
  <2>5. Protected'
    BY <1>1, <1>2, <2>1, <2>2, <2>3, <2>4, MoveProtected
  <2>6. TaskInv'
    BY <1>1, <1>2, <2>2, FinishTaskInv
  <2> QED
    BY <2>4, <2>5, <2>6
<1>9. CASE SaveRequest(r) \/ SaveRejectRequest(r)
  <2>1. /\ bookings' \in [Booking -> BookingRecord]
        /\ bookings'[b].status = bookings[b].status
        /\ bookings'[b].start = bookings[b].start
        /\ \A c \in Booking \ {b} : bookings'[c] = bookings[c]
        /\ holds' = holds
    BY <1>1, <1>3, <1>9 DEF SaveRequest, SaveRejectRequest, BookingRecord, b, s
  <2>2. bookings[b].status # "unborn"
    BY <1>9, <1>b DEF SaveRequest, SaveRejectRequest, Doing
  <2>3. TypeOK'
    BY <1>3, <1>a, <2>1
  <2>4. Protected'
    BY <1>2, <2>1, <2>2, SameHoldsProtected DEF Blocking
  <2>5. TaskInv'
    BY <1>1, <1>2, <2>1, FinishTaskInv
  <2> QED
    BY <2>3, <2>4, <2>5
<1> QED
  BY <1>5, <1>6, <1>7, <1>8, <1>9

LEMMA Starts ==
  ASSUME IInv, NEW r \in Request, StartsTask(r)
  PROVE  IInv'
<1>1. PICK t \in Task : Start(r, t)
  BY DEF StartsTask
<1>2. UNCHANGED <<bookings, holds, sweep, now>> /\ task' = [task EXCEPT ![r] = t]
  BY <1>1 DEF Start
<1>3. TypeOK'
  BY <1>2 DEF IInv, TypeOK
<1>4. Protected'
  BY <1>2, SameHoldsProtected DEF IInv, Protected, Blocking
<1>5. TaskInv'
  BY StartTaskInv DEF IInv
<1> QED
  BY <1>3, <1>4, <1>5 DEF IInv, Protected

LEMMA Waits ==
  ASSUME IInv, NEW r \in Request, Validate(r) \/ Retry(r)
  PROVE  IInv'
<1>1. task[r] # Idle /\ task[r] \in Task /\ Booked(r) \in Booking /\ task[r].target \in Minute
  BY Loaded DEF IInv, Validate, Retry
<1>2. UNCHANGED <<bookings, holds, sweep, now>>
  BY DEF Validate, Retry
<1>3. TargetNow(r) \in Minute
  BY <1>1 DEF TargetNow, IInv, TypeOK, BookingRecord
<1>4. \E pc \in {"loaded", "validated"}, s \in Minute :
        task' = [task EXCEPT ![r] = [task[r] EXCEPT !.pc = pc, !.target = s]]
  <2>1. CASE Validate(r)
    BY <1>1, <1>3, <2>1 DEF Validate, IInv, TypeOK, Task
  <2>2. CASE Retry(r)
    <3>1. task' = [task EXCEPT ![r].pc = "loaded"]
      BY <2>2 DEF Retry
    <3>2. [task[r] EXCEPT !.pc = "loaded"]
            = [task[r] EXCEPT !.pc = "loaded", !.target = task[r].target]
      BY <1>1 DEF Task
    <3> QED
      BY <1>1, <3>1, <3>2 DEF IInv, TypeOK
  <2> QED
    BY <2>1, <2>2
<1>5. PICK pc \in {"loaded", "validated"}, s \in Minute :
        task' = [task EXCEPT ![r] = [task[r] EXCEPT !.pc = pc, !.target = s]]
  BY <1>4
<1> DEFINE t == [task[r] EXCEPT !.pc = pc, !.target = s]
<1>6. t \in Task /\ t # Idle /\ t.op = task[r].op /\ t.id = task[r].id
  BY <1>1, <1>5 DEF Task, Idle
<1>7. task'[r] = t /\ \A q \in Request \ {r} : task'[q] = task[q]
  BY <1>5 DEF IInv, TypeOK
<1> HIDE DEF t
<1>8. TypeOK'
  BY <1>2, <1>5, <1>6 DEF IInv, TypeOK, t
<1>9. Protected'
  BY <1>2, SameHoldsProtected DEF IInv, Protected, Blocking
<1>10. \A q \in Request :
          /\ task'[q] # Idle <=> task[q] # Idle
          /\ task[q] # Idle => task'[q].op = task[q].op /\ task'[q].id = task[q].id
                               /\ task[q].id \in Booking
  BY <1>1, <1>6, <1>7 DEF IInv, TypeOK, Task
<1>11. TaskInv'
  BY <1>2, <1>10, SameTaskInv DEF IInv
<1> QED
  BY <1>8, <1>9, <1>11 DEF IInv, Protected

LEMMA Abandons ==
  ASSUME IInv, NEW r \in Request, Abandon(r)
  PROVE  IInv'
<1>1. UNCHANGED <<bookings, holds, sweep, now>> /\ task[r] # Idle /\ Finish(r)
  BY DEF Abandon
<1>2. TypeOK'
  BY <1>1 DEF IInv, TypeOK, Finish
<1>3. Protected'
  BY <1>1, SameHoldsProtected DEF IInv, Protected, Blocking
<1>4. TaskInv'
  BY <1>1, FinishTaskInv DEF IInv
<1> QED
  BY <1>2, <1>3, <1>4 DEF IInv, Protected

LEMMA UnchangedTasks ==
  ASSUME TypeOK, TaskInv, task' = task,
         \A b \in Booking : bookings'[b].status = "unborn" <=> bookings[b].status = "unborn"
  PROVE  TaskInv'
<1>1. \A q \in Request : task[q] # Idle => task[q].id \in Booking
  BY DEF TypeOK, Task
<1> QED
  BY <1>1, SameTaskInv

LEMMA Sweeps ==
  ASSUME IInv, NEW w \in Sweeper, SweepStep(w)
  PROVE  IInv'
<1>1. CASE StartSweep(w) \/ ReadBatch(w) \/ EndBatch(w)
  <2>1. UNCHANGED <<bookings, holds, task, now>>
    BY <1>1 DEF StartSweep, ReadBatch, EndBatch
  <2>2. TypeOK'
    <3>1. CASE StartSweep(w)
      BY <2>1, <3>1 DEF StartSweep, IInv, TypeOK
    <3>2. CASE ReadBatch(w)
      BY <2>1, <3>2 DEF ReadBatch, IInv, TypeOK
    <3>3. CASE EndBatch(w)
      BY <2>1, <3>3, ZeroMinute DEF EndBatch, IdleSweep, IInv, TypeOK
    <3> QED
      BY <1>1, <3>1, <3>2, <3>3
  <2>3. Protected'
    BY <2>1, SameHoldsProtected DEF IInv, Protected, Blocking
  <2>4. TaskInv'
    BY <2>1, UnchangedTasks DEF IInv
  <2> QED
    BY <2>2, <2>3, <2>4 DEF IInv, Protected
<1>2. ASSUME NEW b \in Booking, SweepOne(w, b)
      PROVE  IInv'
  <2>1. sweep' \in [Sweeper -> [pc    : {"idle", "scan", "work"},
                                at    : 0 .. Horizon,
                                batch : SUBSET Booking,
                                full  : BOOLEAN,
                                any   : BOOLEAN]]
    BY <1>2 DEF SweepOne, IInv, TypeOK
  <2>2. CASE ShouldExpire(b, sweep[w].at)
    <3>1. /\ bookings' = [bookings EXCEPT ![b].status = "expired"]
          /\ ReleaseHolds(b)
          /\ UNCHANGED <<task, now>>
          /\ bookings[b].status = "pending"
      BY <1>2, <2>2 DEF SweepOne, ShouldExpire
    <3>2. /\ bookings'[b].status = "expired"
          /\ \A c \in Booking \ {b} : bookings'[c] = bookings[c]
      BY <3>1 DEF IInv, TypeOK, BookingRecord
    <3>3. TypeOK'
      BY <2>1, <3>1 DEF IInv, TypeOK, BookingRecord, Status, TerminalStatus, ReleaseHolds
    <3>4. Protected'
      BY <3>1, <3>2, <3>3, ReleaseProtected DEF IInv, Protected, TerminalStatus
    <3>5. TaskInv'
      BY <3>1, <3>2, UnchangedTasks DEF IInv
    <3> QED
      BY <3>3, <3>4, <3>5 DEF IInv, Protected
  <2>3. CASE ~ ShouldExpire(b, sweep[w].at)
    <3>1. UNCHANGED <<bookings, holds, task, now>>
      BY <1>2, <2>3 DEF SweepOne
    <3>2. TypeOK'
      BY <2>1, <3>1 DEF IInv, TypeOK
    <3>3. Protected'
      BY <3>1, SameHoldsProtected DEF IInv, Protected, Blocking
    <3>4. TaskInv'
      BY <3>1, UnchangedTasks DEF IInv
    <3> QED
      BY <3>2, <3>3, <3>4 DEF IInv, Protected
  <2> QED
    BY <2>2, <2>3
<1> QED
  BY <1>1, <1>2 DEF SweepStep

LEMMA TickOrStutter ==
  ASSUME IInv, Tick \/ UNCHANGED vars
  PROVE  IInv'
<1>1. UNCHANGED <<bookings, holds, task, sweep>>
  BY DEF Tick, vars
<1>2. TypeOK'
  BY <1>1, ConstantsAssumption DEF Tick, vars, IInv, TypeOK, ConstantsAssumption
<1>3. Protected'
  BY <1>1, SameHoldsProtected DEF IInv, Protected, Blocking
<1>4. TaskInv'
  BY <1>1, UnchangedTasks DEF IInv
<1> QED
  BY <1>2, <1>3, <1>4 DEF IInv, Protected

LEMMA Requests ==
  ASSUME IInv, NEW r \in Request, RequestStep(r)
  PROVE  IInv'
<1>1. CASE \E b \in Booking :
             \/ \E s \in Minute : StartCreate(r, b, s) \/ StartRequest(r, b, s)
             \/ \E op \in StatusOp : StartStatus(r, b, op)
             \/ \E op \in OutcomeOp : StartOutcome(r, b, op)
             \/ \E d \in DelayChoices : StartDelay(r, b, d)
             \/ StartEdit(r, b)
             \/ StartAcceptRequest(r, b)
             \/ StartRejectRequest(r, b)
  <2>1. StartsTask(r)
    BY <1>1, StartOfCreate, StartOfOthers DEF IInv
  <2> QED
    BY <2>1, Starts
<1>2. CASE Validate(r) \/ Retry(r)
  BY <1>2, Waits
<1>3. CASE Abandon(r)
  BY <1>3, Abandons
<1>4. CASE \/ CommitCreate(r)
           \/ CommitStatus(r)
           \/ CommitOutcome(r)
           \/ CommitEdit(r)
           \/ CommitDelay(r)
           \/ CommitAcceptRequest(r)
           \/ SaveRequest(r)
           \/ SaveRejectRequest(r)
  BY <1>4, Commits
<1> QED
  BY <1>1, <1>2, <1>3, <1>4 DEF RequestStep

LEMMA InitIInv == Init => IInv
  BY InitTypeOK
     DEF Init, IInv, HoldsCoverBlocking, Blocking, BlockingStatus, OneHolderPerMinute,
         UnbornIsBlank, TaskInv, Doing, Unborn, Idle

LEMMA StepIInv == IInv /\ [Next]_vars => IInv'
  BY Requests, Sweeps, TickOrStutter DEF Next

\* The inductive invariant holds in every run.
THEOREM Invariance == Spec => []IInv
  BY InitIInv, StepIInv, PTL DEF Spec

\* Every variable keeps its type.
THEOREM TypeCorrect == Spec => []TypeOK
<1>1. IInv => TypeOK
  BY DEF IInv
<1> QED
  BY <1>1, Invariance, PTL

\* A booking that is pending or accepted always holds exactly its minutes.
THEOREM HoldsAlwaysCover == Spec => []HoldsCoverBlocking
<1>1. IInv => HoldsCoverBlocking
  BY DEF IInv
<1> QED
  BY <1>1, Invariance, PTL

LEMMA NoDoubleBookingFromIInv == IInv => NoDoubleBooking
<1> SUFFICES ASSUME IInv, NEW b \in Booking, NEW c \in Booking,
                    b # c, SameBarber(b, c), Blocking(b), Blocking(c),
                    NEW m \in Slot(b, bookings[b].start),
                    m \in Slot(c, bookings[c].start)
             PROVE  FALSE
  BY DEF NoDoubleBooking
<1>1. <<b, m>> \in holds /\ <<c, m>> \in holds
  BY DEF IInv, HoldsCoverBlocking, Covered
<1>2. <<b, m>> = <<c, m>>
  BY <1>1 DEF IInv, OneHolderPerMinute, SameBarber
<1> QED
  BY <1>2

\* No barber is ever promised twice for a minute.
THEOREM NeverDoubleBooked == Spec => []NoDoubleBooking
  BY Invariance, NoDoubleBookingFromIInv, PTL

-----------------------------------------------------------------------------
(* What one step does to the bookings *)

\* One booking changes at most, and its status only moves forward.
Forward(b) ==
  \/ bookings'[b].status = bookings[b].status
  \/ bookings[b].status = "unborn" /\ bookings'[b].status \in BlockingStatus
  \/ bookings[b].status \in BlockingStatus
       /\ bookings'[b].status \in BlockingStatus \cup TerminalStatus
       /\ bookings'[b].start = bookings[b].start

Touches(b) == Forward(b) /\ \A c \in Booking \ {b} : bookings'[c] = bookings[c]

LEMMA CommitTouches ==
  ASSUME IInv, NEW r \in Request,
         \/ CommitCreate(r)
         \/ CommitStatus(r)
         \/ CommitOutcome(r)
         \/ CommitEdit(r)
         \/ CommitDelay(r)
         \/ CommitAcceptRequest(r)
         \/ SaveRequest(r)
         \/ SaveRejectRequest(r)
  PROVE  Touches(Booked(r)) /\ Booked(r) \in Booking
<1> DEFINE b == Booked(r)
<1>1. task[r] # Idle /\ b \in Booking
  BY Loaded DEF IInv, CommitCreate, CommitStatus, CommitOutcome, CommitEdit, CommitDelay,
                CommitAcceptRequest, SaveRequest, SaveRejectRequest
<1>2. bookings \in [Booking -> BookingRecord]
  BY DEF IInv, TypeOK
<1> HIDE DEF b
<1>3. CASE CommitCreate(r)
  <2>1. bookings[b].status = "unborn"
    BY <1>1, <1>3 DEF CommitCreate, IInv, TaskInv, b
  <2> QED
    BY <1>1, <1>2, <1>3, <2>1
       DEF CommitCreate, Touches, Forward, Unborn, BlockingStatus, b
<1>4. CASE CommitStatus(r)
  <2>1. /\ bookings[b].status \in BlockingStatus
        /\ StatusAfter(task[r].op) \in BlockingStatus \cup TerminalStatus
        /\ bookings' = [bookings EXCEPT ![b].status = StatusAfter(task[r].op)]
    BY <1>4 DEF CommitStatus, AllowedFrom, StatusAfter, StatusOp, BlockingStatus,
                TerminalStatus, b
  <2> QED
    BY <1>1, <1>2, <2>1 DEF Touches, Forward, BookingRecord, b
<1>5. CASE CommitOutcome(r)
  <2>1. /\ bookings[b].status \in BlockingStatus
        /\ task[r].op \in TerminalStatus
        /\ bookings' = [bookings EXCEPT ![b].status = task[r].op]
    BY <1>5 DEF CommitOutcome, CanMarkOutcome, OutcomeOp, BlockingStatus, TerminalStatus, b
  <2> QED
    BY <1>1, <1>2, <2>1 DEF Touches, Forward, BookingRecord, b
<1>6. CASE \/ CommitEdit(r) \/ CommitDelay(r) \/ CommitAcceptRequest(r)
           \/ SaveRequest(r) \/ SaveRejectRequest(r)
  BY <1>1, <1>2, <1>6
     DEF CommitEdit, CommitDelay, CommitAcceptRequest, SaveRequest, SaveRejectRequest,
         Touches, Forward, BookingRecord, b
<1> QED
  BY <1>1, <1>3, <1>4, <1>5, <1>6 DEF b

LEMMA StepTouches ==
  ASSUME IInv, [Next]_vars
  PROVE  bookings' = bookings \/ \E b \in Booking : Touches(b)
<1>1. ASSUME NEW r \in Request, RequestStep(r)
      PROVE  bookings' = bookings \/ \E b \in Booking : Touches(b)
  <2>1. CASE \E b \in Booking :
               \/ \E s \in Minute : StartCreate(r, b, s) \/ StartRequest(r, b, s)
               \/ \E op \in StatusOp : StartStatus(r, b, op)
               \/ \E op \in OutcomeOp : StartOutcome(r, b, op)
               \/ \E d \in DelayChoices : StartDelay(r, b, d)
               \/ StartEdit(r, b)
               \/ StartAcceptRequest(r, b)
               \/ StartRejectRequest(r, b)
    BY <2>1 DEF StartCreate, StartRequest, StartStatus, StartOutcome, StartDelay, StartEdit,
                StartAcceptRequest, StartRejectRequest, Start
  <2>2. CASE Validate(r) \/ Retry(r) \/ Abandon(r)
    BY <2>2 DEF Validate, Retry, Abandon
  <2> QED
    BY <1>1, <2>1, <2>2, CommitTouches DEF RequestStep
<1>2. ASSUME NEW w \in Sweeper, SweepStep(w)
      PROVE  bookings' = bookings \/ \E b \in Booking : Touches(b)
  <2>1. ASSUME NEW b \in Booking, SweepOne(w, b)
        PROVE  bookings' = bookings \/ Touches(b)
    BY <2>1 DEF SweepOne, ShouldExpire, Touches, Forward, IInv, TypeOK, BookingRecord,
                BlockingStatus, TerminalStatus
  <2> QED
    BY <1>2, <2>1 DEF SweepStep, StartSweep, ReadBatch, EndBatch
<1> QED
  BY <1>1, <1>2 DEF Next, Tick, vars

\* No request, however stale, changes the status of a finished booking.
THEOREM FinishedForGood == Spec => TerminalIsFinal
<1>1. ASSUME IInv, [Next]_vars
      PROVE  \A b \in Booking :
               bookings[b].status \in TerminalStatus =>
                 bookings'[b].status = bookings[b].status
  BY <1>1, StepTouches DEF Touches, Forward, BlockingStatus, TerminalStatus
<1>2. IInv /\ [Next]_vars =>
        [\A b \in Booking :
           bookings[b].status \in TerminalStatus =>
             bookings'[b].status = bookings[b].status]_vars
  BY <1>1
<1> QED
  BY <1>2, Invariance, PTL DEF Spec, TerminalIsFinal

-----------------------------------------------------------------------------
(* The lifecycle implements the calendar *)

LEMMA InitCalendar == Init => Calendar!Init
  BY DEF Init, Calendar!Init, EntryMap, Phase, Blocking, BlockingStatus, Unborn

LEMMA EntryOf ==
  ASSUME NEW b \in Booking
  PROVE  /\ EntryMap[b].phase = Phase(b)
         /\ EntryMap[b].start = IF Blocking(b) THEN bookings[b].start ELSE 0
         /\ Phase(b) = "live" <=> Blocking(b)
  BY DEF EntryMap, Phase, Blocking, BlockingStatus

LEMMA StepCalendar ==
  ASSUME IInv, IInv', [Next]_vars
  PROVE  [Calendar!Next]_EntryMap
<1>1. CASE bookings' = bookings
  BY <1>1 DEF EntryMap, Phase, Blocking
<1>2. ASSUME NEW b \in Booking, Touches(b)
      PROVE  [Calendar!Next]_EntryMap
  <2> DEFINE s == bookings'[b].start
  <2>1. \A c \in Booking \ {b} : EntryMap'[c] = EntryMap[c]
    BY <1>2 DEF EntryMap, Phase, Blocking, Touches
  <2>2. s \in Minute
    BY DEF IInv, TypeOK, BookingRecord
  <2>3. CASE Blocking(b)'
    <3>1. Calendar!Room(b, s)
      <4> SUFFICES ASSUME NEW c \in Booking \ {b}, BarberOf[c] = BarberOf[b], Calendar!Live(c)
                   PROVE  Calendar!Minutes(c, EntryMap[c].start) \cap Calendar!Minutes(b, s) = {}
        BY DEF Calendar!Room
      <4>1. Blocking(c) /\ EntryMap[c].start = bookings[c].start
        BY EntryOf DEF Calendar!Live
      <4>2. bookings'[c] = bookings[c]
        BY <1>2 DEF Touches
      <4>3. NoDoubleBooking'
        BY NoDoubleBookingFromIInv, PTL
      <4>4. Slot(b, s) \cap Slot(c, bookings[c].start) = {}
        BY <2>3, <4>1, <4>2, <4>3 DEF NoDoubleBooking, SameBarber, Blocking, Slot
      <4> QED
        BY <4>1, <4>4 DEF Slot, Calendar!Minutes
    <3>2. EntryMap'[b] = [phase |-> "live", start |-> s]
      BY <2>3 DEF EntryMap, Phase, Blocking, BlockingStatus
    <3>3. EntryMap' = [EntryMap EXCEPT ![b] = [phase |-> "live", start |-> s]]
      BY <2>1, <3>2 DEF EntryMap
    <3>4. EntryMap[b].phase \in {"none", "live"}
      BY <1>2, <2>3 DEF Touches, Forward, EntryMap, Phase, Blocking, BlockingStatus
    <3>5. Calendar!Take(b, s)
      BY <3>1, <3>3 DEF Calendar!Take
    <3>6. Calendar!Book(b) \/ Calendar!Move(b)
      BY <2>2, <3>4, <3>5 DEF Calendar!Book, Calendar!Move, Calendar!Live
    <3> QED
      BY <3>6 DEF Calendar!Next
  <2>4. CASE ~ Blocking(b)' /\ Blocking(b)
    <3>1. bookings'[b].status \in TerminalStatus
      BY <1>2, <2>4 DEF Touches, Forward, Blocking, BlockingStatus
    <3>2. EntryMap'[b] = [phase |-> "closed", start |-> 0]
      BY <2>4, <3>1 DEF EntryMap, Phase, Blocking, BlockingStatus, TerminalStatus
    <3>3. EntryMap' = [EntryMap EXCEPT ![b] = [phase |-> "closed", start |-> 0]]
      BY <2>1, <3>2 DEF EntryMap
    <3>4. Calendar!Close(b)
      BY <2>4, <3>3, EntryOf DEF Calendar!Close, Calendar!Live
    <3> QED
      BY <3>4 DEF Calendar!Next
  <2>5. CASE ~ Blocking(b)' /\ ~ Blocking(b)
    <3>1. bookings'[b].status = bookings[b].status
      BY <1>2, <2>5 DEF Touches, Forward, Blocking
    <3>2. EntryMap'[b] = EntryMap[b]
      BY <2>5, <3>1 DEF EntryMap, Phase, Blocking
    <3>3. EntryMap' = EntryMap
      BY <2>1, <3>2 DEF EntryMap
    <3> QED
      BY <3>3
  <2> QED
    BY <2>3, <2>4, <2>5
<1> QED
  BY <1>1, <1>2, StepTouches

\* Every run of the lifecycle is, minute for minute, a run of the calendar.
THEOREM Refinement == Spec => ImplementsCalendar
<1>1. IInv /\ IInv' /\ [Next]_vars => [Calendar!Next]_EntryMap
  BY StepCalendar
<1> QED
  BY <1>1, InitCalendar, Invariance, PTL DEF Spec, ImplementsCalendar, Calendar!Spec

-----------------------------------------------------------------------------
(* What a request or the job captured before it writes *)

\* A captured clock is not ahead of the clock, and a delay in flight wants its
\* captured start plus an amount the platform allows.
GoodTask(t) == t.at <= now /\ (t.op = "delay" => t.target - t.from \in DelayChoices)

Captured ==
  /\ \A r \in Request : task[r] # Idle => GoodTask(task[r])
  /\ \A w \in Sweeper : sweep[w].at <= now

LEMMA StartCaptures ==
  ASSUME TypeOK, Captured, NEW r \in Request, NEW t \in Task, t # Idle, GoodTask(t), Start(r, t)
  PROVE  Captured'
<1>1. /\ task' = [task EXCEPT ![r] = t]
      /\ UNCHANGED <<sweep, now>>
  BY DEF Start
<1>2. task'[r] = t /\ \A q \in Request \ {r} : task'[q] = task[q]
  BY <1>1 DEF TypeOK
<1> QED
  BY <1>1, <1>2 DEF Captured, GoodTask

LEMMA NewTaskCaptures ==
  ASSUME TypeOK, Captured, NEW r \in Request, NEW b \in Booking,
         NEW op \in StatusOp \cup OutcomeOp \cup SlotOp \cup SaveOp,
         NEW from \in Minute, NEW target \in Minute, NEW at \in 0 .. Horizon,
         at <= now, op = "delay" => target - from \in DelayChoices,
         Start(r, NewTask(op, b, from, target, at))
  PROVE  Captured'
<1> DEFINE t == NewTask(op, b, from, target, at)
<1>1. t \in Task /\ t # Idle
  BY NewTaskType
<1>2. GoodTask(t)
  BY DEF GoodTask, NewTask
<1>3. Start(r, t)
  OBVIOUS
<1> HIDE DEF t
<1> QED
  BY <1>1, <1>2, <1>3, StartCaptures

LEMMA StartsCapture ==
  ASSUME TypeOK, Captured, NEW r \in Request, NEW b \in Booking,
         \/ \E s \in Minute : StartCreate(r, b, s) \/ StartRequest(r, b, s)
         \/ \E op \in StatusOp : StartStatus(r, b, op)
         \/ \E op \in OutcomeOp : StartOutcome(r, b, op)
         \/ \E d \in DelayChoices : StartDelay(r, b, d)
         \/ StartEdit(r, b)
         \/ StartAcceptRequest(r, b)
         \/ StartRejectRequest(r, b)
  PROVE  Captured'
<1>0. bookings[b].start \in Minute /\ now \in 0 .. Horizon /\ 0 <= now
  BY ConstantsAssumption DEF ConstantsAssumption, TypeOK, BookingRecord
<1>1. CASE \E s \in Minute : StartCreate(r, b, s) \/ StartRequest(r, b, s)
  BY <1>0, <1>1, NewTaskCaptures, ZeroMinute DEF StartCreate, StartRequest, SlotOp, SaveOp
<1>2. CASE \E op \in StatusOp : StartStatus(r, b, op)
  BY <1>0, <1>2, NewTaskCaptures, ZeroMinute DEF StartStatus, StatusOp
<1>3. CASE \E op \in OutcomeOp : StartOutcome(r, b, op)
  BY <1>0, <1>3, NewTaskCaptures, ZeroMinute DEF StartOutcome, OutcomeOp
<1>4. CASE \E d \in DelayChoices : StartDelay(r, b, d)
  <2>1. PICK d \in DelayChoices : StartDelay(r, b, d)
    BY <1>4
  <2> DEFINE old == bookings[b].start
  <2>2. /\ old + d \in Minute
        /\ Start(r, NewTask("delay", b, old, old + d, 0))
    BY <2>1 DEF StartDelay
  <2>3. d \in Nat /\ old \in Nat
    BY <1>0, ConstantsAssumption DEF ConstantsAssumption, Minute
  <2>4. (old + d) - old = d
    BY <2>3
  <2> QED
    BY <1>0, <2>2, <2>4, NewTaskCaptures, ZeroMinute DEF SlotOp
<1>5. CASE StartEdit(r, b)
  BY <1>0, <1>5, NewTaskCaptures, ZeroMinute DEF StartEdit, SlotOp
<1>6. CASE StartAcceptRequest(r, b) \/ StartRejectRequest(r, b)
  BY <1>0, <1>6, NewTaskCaptures, ZeroMinute
     DEF StartAcceptRequest, StartRejectRequest, SlotOp, SaveOp
<1> QED
  BY <1>1, <1>2, <1>3, <1>4, <1>5, <1>6

LEMMA RequestCaptures ==
  ASSUME IInv, Captured, NEW r \in Request, RequestStep(r)
  PROVE  Captured'
<1>0. TypeOK
  BY DEF IInv
<1>1. CASE \E b \in Booking :
             \/ \E s \in Minute : StartCreate(r, b, s) \/ StartRequest(r, b, s)
             \/ \E op \in StatusOp : StartStatus(r, b, op)
             \/ \E op \in OutcomeOp : StartOutcome(r, b, op)
             \/ \E d \in DelayChoices : StartDelay(r, b, d)
             \/ StartEdit(r, b)
             \/ StartAcceptRequest(r, b)
             \/ StartRejectRequest(r, b)
  BY <1>0, <1>1, StartsCapture
<1>2. CASE Validate(r) \/ Retry(r)
  <2>1. task[r].pc \in {"loaded", "validated"} /\ UNCHANGED <<sweep, now>>
    BY <1>2 DEF Validate, Retry
  <2>2. task[r] # Idle /\ task[r] \in Task
    BY <1>0, <2>1, Loaded
  <2>3. \A q \in Request \ {r} : task'[q] = task[q]
    BY <1>0, <1>2 DEF Validate, Retry, TypeOK
  <2>4. /\ task'[r].at = task[r].at
        /\ task'[r].op = task[r].op
        /\ task'[r].from = task[r].from
        /\ task[r].op = "delay" => task'[r].target = task[r].target
    BY <1>0, <1>2, <2>2 DEF Validate, Retry, TargetNow, TypeOK, Task
  <2>5. GoodTask(task[r])
    BY <2>2 DEF Captured
  <2> QED
    BY <2>1, <2>3, <2>4, <2>5 DEF Captured, GoodTask
<1>3. CASE \/ Abandon(r)
           \/ CommitCreate(r)
           \/ CommitStatus(r)
           \/ CommitOutcome(r)
           \/ CommitEdit(r)
           \/ CommitDelay(r)
           \/ CommitAcceptRequest(r)
           \/ SaveRequest(r)
           \/ SaveRejectRequest(r)
  <2>1. Finish(r) /\ UNCHANGED <<sweep, now>>
    BY <1>3 DEF Abandon, CommitCreate, CommitStatus, CommitOutcome, CommitEdit, CommitDelay,
                CommitAcceptRequest, SaveRequest, SaveRejectRequest
  <2>2. task'[r] = Idle /\ \A q \in Request \ {r} : task'[q] = task[q]
    BY <1>0, <2>1 DEF Finish, TypeOK
  <2> QED
    BY <2>1, <2>2 DEF Captured, GoodTask
<1> QED
  BY <1>1, <1>2, <1>3 DEF RequestStep

LEMMA SweepCaptures ==
  ASSUME IInv, Captured, NEW w \in Sweeper, SweepStep(w)
  PROVE  Captured'
<1>0. /\ TypeOK
      /\ now \in 0 .. Horizon /\ 0 <= now /\ now <= now
  BY ConstantsAssumption DEF ConstantsAssumption, IInv, TypeOK
<1>1. UNCHANGED <<task, now>>
  BY DEF SweepStep, StartSweep, ReadBatch, SweepOne, EndBatch
<1>2. \A v \in Sweeper \ {w} : sweep'[v] = sweep[v]
  BY <1>0 DEF SweepStep, StartSweep, ReadBatch, SweepOne, EndBatch, TypeOK
<1>3. sweep'[w].at \in {0, now, sweep[w].at}
  <2>1. CASE StartSweep(w)
    BY <1>0, <2>1 DEF StartSweep, TypeOK
  <2>2. CASE ReadBatch(w)
    BY <1>0, <2>2 DEF ReadBatch, TypeOK
  <2>3. ASSUME NEW b \in Booking, SweepOne(w, b)
        PROVE  sweep'[w].at = sweep[w].at
    BY <1>0, <2>3 DEF SweepOne, TypeOK
  <2>4. CASE EndBatch(w)
    BY <1>0, <2>4 DEF EndBatch, IdleSweep, TypeOK
  <2> QED
    BY <2>1, <2>2, <2>3, <2>4 DEF SweepStep
<1> QED
  BY <1>0, <1>1, <1>2, <1>3 DEF Captured, GoodTask

LEMMA StepCaptures ==
  ASSUME IInv, Captured, [Next]_vars
  PROVE  Captured'
<1>1. CASE Tick
  <2>1. /\ now \in Int /\ now' = now + 1
        /\ UNCHANGED <<task, sweep>>
    BY <1>1, ConstantsAssumption DEF ConstantsAssumption, Tick, IInv, TypeOK
  <2>2. \A r \in Request : task[r] # Idle => task[r].at \in Int
    BY ConstantsAssumption DEF ConstantsAssumption, IInv, TypeOK, Task
  <2>3. \A w \in Sweeper : sweep[w].at \in Int
    BY ConstantsAssumption DEF ConstantsAssumption, IInv, TypeOK
  <2> QED
    BY <2>1, <2>2, <2>3 DEF Captured, GoodTask
<1>2. CASE UNCHANGED vars
  BY <1>2 DEF vars, Captured, GoodTask
<1> QED
  BY <1>1, <1>2, RequestCaptures, SweepCaptures DEF Next

LEMMA CapturedAlways == Spec => [](IInv /\ Captured)
<1>1. Init => Captured
  BY ConstantsAssumption DEF ConstantsAssumption, Init, Captured, Idle, IdleSweep
<1> QED
  BY <1>1, StepCaptures, Invariance, PTL DEF Spec

\* A booking that does not exist yet is not delayed.
UnbornIsPrompt == \A b \in Booking : bookings[b].status = "unborn" => ~ bookings[b].delayed

LEMMA StepPrompt ==
  ASSUME IInv, UnbornIsPrompt, [Next]_vars
  PROVE  UnbornIsPrompt'
<1> SUFFICES ASSUME NEW b \in Booking, bookings'[b].status = "unborn"
             PROVE  ~ bookings'[b].delayed
  BY DEF UnbornIsPrompt
<1>0. bookings \in [Booking -> BookingRecord]
  BY DEF IInv, TypeOK
<1>1. CASE bookings'[b] = bookings[b]
  BY <1>1 DEF UnbornIsPrompt
<1>2. ASSUME NEW r \in Request,
             \/ CommitCreate(r)
             \/ CommitStatus(r)
             \/ CommitOutcome(r)
             \/ CommitEdit(r)
             \/ CommitDelay(r)
             \/ CommitAcceptRequest(r)
             \/ SaveRequest(r)
             \/ SaveRejectRequest(r)
      PROVE  bookings'[b] = bookings[b]
  <2>1. Touches(Booked(r))
    BY <1>2, CommitTouches
  <2>2. task[r] # Idle /\ Booked(r) \in Booking
    BY <1>2, Loaded DEF IInv, CommitCreate, CommitStatus, CommitOutcome, CommitEdit,
                        CommitDelay, CommitAcceptRequest, SaveRequest, SaveRejectRequest
  <2>3. bookings'[Booked(r)].status # "unborn"
    <3>1. CASE CommitCreate(r)
      BY <1>0, <2>2, <3>1 DEF CommitCreate, Unborn
    <3>2. CASE ~ CommitCreate(r)
      <4>1. ~ Doing(r, "create")
        BY <1>2, <2>2, <3>2
           DEF CommitStatus, CommitOutcome, CommitEdit, CommitDelay, CommitAcceptRequest,
               SaveRequest, SaveRejectRequest, Doing, StatusOp, OutcomeOp
      <4>2. bookings[Booked(r)].status # "unborn"
        BY <2>2, <4>1 DEF IInv, TaskInv
      <4> QED
        BY <2>1, <4>2 DEF Touches, Forward, BlockingStatus, TerminalStatus
    <3> QED
      BY <3>1, <3>2
  <2> QED
    BY <2>1, <2>3 DEF Touches
<1>3. ASSUME NEW w \in Sweeper, NEW c \in Booking, SweepOne(w, c)
      PROVE  bookings'[b] = bookings[b]
  BY <1>0, <1>3 DEF SweepOne, BookingRecord
<1>4. ASSUME NEW r \in Request, RequestStep(r)
      PROVE  bookings'[b] = bookings[b]
  <2>1. \/ bookings' = bookings
        \/ CommitCreate(r)
        \/ CommitStatus(r)
        \/ CommitOutcome(r)
        \/ CommitEdit(r)
        \/ CommitDelay(r)
        \/ CommitAcceptRequest(r)
        \/ SaveRequest(r)
        \/ SaveRejectRequest(r)
    BY <1>4 DEF RequestStep, StartCreate, StartRequest, StartStatus, StartOutcome, StartDelay,
                StartEdit, StartAcceptRequest, StartRejectRequest, Start, Validate, Retry,
                Abandon
  <2> QED
    BY <1>2, <2>1
<1>5. ASSUME NEW w \in Sweeper, SweepStep(w)
      PROVE  bookings'[b] = bookings[b]
  <2>1. bookings' = bookings \/ \E c \in Booking : SweepOne(w, c)
    BY <1>5 DEF SweepStep, StartSweep, ReadBatch, EndBatch
  <2> QED
    BY <1>3, <2>1
<1>6. ASSUME Tick \/ UNCHANGED vars
      PROVE  bookings'[b] = bookings[b]
  BY <1>6 DEF Tick, vars
<1> QED
  BY <1>1, <1>4, <1>5, <1>6 DEF Next

LEMMA PromptAlways == Spec => []UnbornIsPrompt
<1>1. Init => UnbornIsPrompt
  BY DEF Init, UnbornIsPrompt, Unborn
<1> QED
  BY <1>1, StepPrompt, Invariance, PTL DEF Spec

\* Why a step may record an outcome, expire a booking or mark it as delayed.
Ended(b)   == bookings[b].status = "accepted" /\ Ends(b, bookings[b].start) <= now
Missed(b)  == bookings[b].status = "pending" /\ bookings[b].start < now
Shifted(b) == /\ bookings'[b].delayed
              /\ bookings'[b].start - bookings[b].start \in DelayChoices

Justified(b) ==
  /\ bookings'[b].status \in OutcomeOp => bookings[b].status \in OutcomeOp \/ Ended(b)
  /\ bookings'[b].status = "expired" => bookings[b].status = "expired" \/ Missed(b)
  /\ bookings'[b].delayed # bookings[b].delayed => Shifted(b)

\* A write that records no outcome, no expiry and no delay needs no reason.
LEMMA PlainWrite ==
  ASSUME NEW b \in Booking,
         bookings'[b].status = bookings[b].status
           \/ bookings'[b].status \notin OutcomeOp \cup {"expired"},
         bookings'[b].delayed = bookings[b].delayed
  PROVE  Justified(b)
  BY DEF Justified

LEMMA CommitJustified ==
  ASSUME IInv, Captured, UnbornIsPrompt, NEW r \in Request, NEW b \in Booking,
         \/ CommitCreate(r)
         \/ CommitStatus(r)
         \/ CommitOutcome(r)
         \/ CommitEdit(r)
         \/ CommitDelay(r)
         \/ CommitAcceptRequest(r)
         \/ SaveRequest(r)
         \/ SaveRejectRequest(r)
  PROVE  Justified(b)
<1>1. task[r] # Idle /\ task[r] \in Task /\ Booked(r) \in Booking
  BY Loaded DEF IInv, CommitCreate, CommitStatus, CommitOutcome, CommitEdit, CommitDelay,
                CommitAcceptRequest, SaveRequest, SaveRejectRequest
<1>2. bookings \in [Booking -> BookingRecord]
  BY DEF IInv, TypeOK
<1>3. GoodTask(task[r])
  BY <1>1 DEF Captured
<1>4. CASE b # Booked(r)
  <2>1. bookings'[b] = bookings[b]
    BY <1>4, CommitTouches DEF Touches
  <2> QED
    BY <2>1, PlainWrite
<1>5. CASE b = Booked(r)
  <2>1. CASE CommitCreate(r)
    <3>1. bookings[b].status = "unborn"
      BY <1>1, <1>5, <2>1 DEF CommitCreate, IInv, TaskInv
    <3>2. /\ bookings'[b].status \in {"accepted", "pending"}
          /\ bookings'[b].delayed = FALSE
      BY <1>2, <1>5, <2>1 DEF CommitCreate, Unborn
    <3>3. bookings[b].delayed = FALSE
      BY <1>2, <3>1 DEF UnbornIsPrompt, BookingRecord
    <3> QED
      BY <3>2, <3>3, PlainWrite DEF OutcomeOp
  <2>2. CASE CommitStatus(r)
    <3>1. /\ bookings'[b].status = StatusAfter(task[r].op)
          /\ bookings'[b].delayed = bookings[b].delayed
      BY <1>2, <1>5, <2>2 DEF CommitStatus, BookingRecord
    <3>2. StatusAfter(task[r].op) \notin OutcomeOp \cup {"expired"}
      BY DEF StatusAfter, OutcomeOp
    <3> QED
      BY <3>1, <3>2, PlainWrite
  <2>3. CASE CommitOutcome(r)
    <3>1. /\ bookings'[b].status = task[r].op /\ task[r].op \in OutcomeOp
          /\ bookings'[b].delayed = bookings[b].delayed
          /\ bookings[b].status = "accepted"
          /\ Ends(b, bookings[b].start) <= task[r].at
      BY <1>2, <1>5, <2>3 DEF CommitOutcome, CanMarkOutcome, BookingRecord
    <3>2. Ends(b, bookings[b].start) \in Int /\ task[r].at \in Int /\ now \in Int
      BY <1>1, <1>2, ConstantsAssumption
         DEF ConstantsAssumption, Ends, BookingRecord, Minute, Task, IInv, TypeOK
    <3>3. Ended(b)
      BY <1>3, <3>1, <3>2 DEF GoodTask, Ended
    <3> QED
      BY <3>1, <3>3 DEF Justified, OutcomeOp
  <2>4. CASE CommitDelay(r)
    <3>1. /\ bookings'[b].status = bookings[b].status
          /\ bookings'[b].delayed = TRUE
          /\ bookings'[b].start = task[r].target
          /\ bookings[b].start = task[r].from
          /\ task[r].op = "delay"
      BY <1>2, <1>5, <2>4 DEF CommitDelay, Doing, BookingRecord
    <3>2. Shifted(b)
      BY <1>3, <3>1 DEF GoodTask, Shifted
    <3> QED
      BY <3>1, <3>2 DEF Justified
  <2>5. CASE \/ CommitEdit(r) \/ CommitAcceptRequest(r)
             \/ SaveRequest(r) \/ SaveRejectRequest(r)
    <3>1. /\ bookings'[b].status = bookings[b].status
          /\ bookings'[b].delayed = bookings[b].delayed
      BY <1>2, <1>5, <2>5
         DEF CommitEdit, CommitAcceptRequest, SaveRequest, SaveRejectRequest, BookingRecord
    <3> QED
      BY <3>1, PlainWrite
  <2> QED
    BY <2>1, <2>2, <2>3, <2>4, <2>5
<1> QED
  BY <1>4, <1>5

LEMMA SweepJustified ==
  ASSUME IInv, Captured, NEW w \in Sweeper, SweepStep(w), NEW b \in Booking
  PROVE  Justified(b)
<1>1. CASE bookings' = bookings
  BY <1>1, PlainWrite
<1>2. ASSUME NEW c \in Booking, SweepOne(w, c), bookings' # bookings
      PROVE  Justified(b)
  <2>1. /\ ShouldExpire(c, sweep[w].at)
        /\ bookings' = [bookings EXCEPT ![c].status = "expired"]
    BY <1>2 DEF SweepOne
  <2>2. /\ bookings \in [Booking -> BookingRecord]
        /\ sweep[w].at \in Int /\ now \in Int /\ sweep[w].at <= now
    BY ConstantsAssumption DEF ConstantsAssumption, IInv, TypeOK, Captured
  <2>3. bookings[c].start \in Int
    BY <2>2, ConstantsAssumption DEF ConstantsAssumption, BookingRecord, Minute
  <2>4. Missed(c)
    BY <2>1, <2>2, <2>3 DEF ShouldExpire, Missed
  <2>5. CASE b # c
    BY <2>1, <2>2, <2>5, PlainWrite
  <2>6. CASE b = c
    <3>1. bookings'[b].status = "expired" /\ bookings'[b].delayed = bookings[b].delayed
      BY <2>1, <2>2, <2>6 DEF BookingRecord
    <3> QED
      BY <2>4, <2>6, <3>1 DEF Justified, OutcomeOp
  <2> QED
    BY <2>5, <2>6
<1>3. bookings' = bookings \/ \E c \in Booking : SweepOne(w, c)
  BY DEF SweepStep, StartSweep, ReadBatch, EndBatch
<1> QED
  BY <1>1, <1>2, <1>3

LEMMA StepJustified ==
  ASSUME IInv, Captured, UnbornIsPrompt, [Next]_vars, NEW b \in Booking
  PROVE  Justified(b)
<1>1. ASSUME NEW r \in Request, RequestStep(r)
      PROVE  Justified(b)
  <2>1. CASE \/ CommitCreate(r)
             \/ CommitStatus(r)
             \/ CommitOutcome(r)
             \/ CommitEdit(r)
             \/ CommitDelay(r)
             \/ CommitAcceptRequest(r)
             \/ SaveRequest(r)
             \/ SaveRejectRequest(r)
    BY <2>1, CommitJustified
  <2>2. CASE bookings' = bookings
    BY <2>2, PlainWrite
  <2>3. \/ bookings' = bookings
        \/ CommitCreate(r)
        \/ CommitStatus(r)
        \/ CommitOutcome(r)
        \/ CommitEdit(r)
        \/ CommitDelay(r)
        \/ CommitAcceptRequest(r)
        \/ SaveRequest(r)
        \/ SaveRejectRequest(r)
    BY <1>1 DEF RequestStep, StartCreate, StartRequest, StartStatus, StartOutcome, StartDelay,
                StartEdit, StartAcceptRequest, StartRejectRequest, Start, Validate, Retry,
                Abandon
  <2> QED
    BY <2>1, <2>2, <2>3
<1>2. CASE Tick \/ UNCHANGED vars
  <2>1. bookings' = bookings
    BY <1>2 DEF Tick, vars
  <2> QED
    BY <2>1, PlainWrite
<1> QED
  BY <1>1, <1>2, SweepJustified DEF Next

\* A no-show or a late cancellation is recorded only for an accepted booking
\* whose slot, as it is then, is over.
THEOREM OutcomesAreDue == Spec => OutcomeOnlyAfterEnd
<1>1. ASSUME IInv, Captured, UnbornIsPrompt, [Next]_vars
      PROVE  \A b \in Booking :
               bookings'[b].status \in OutcomeOp /\ bookings[b].status \notin OutcomeOp
                 => bookings[b].status = "accepted" /\ Ends(b, bookings[b].start) <= now
  BY <1>1, StepJustified DEF Justified, Ended
<1>2. IInv /\ Captured /\ UnbornIsPrompt /\ [Next]_vars =>
        [\A b \in Booking :
           bookings'[b].status \in OutcomeOp /\ bookings[b].status \notin OutcomeOp
             => bookings[b].status = "accepted" /\ Ends(b, bookings[b].start) <= now]_vars
  BY <1>1
<1> QED
  BY <1>2, CapturedAlways, PromptAlways, PTL DEF Spec, OutcomeOnlyAfterEnd

\* The expiration job expires only what is pending and missed as it writes.
THEOREM ExpiriesAreDue == Spec => ExpiryOnlyWhenMissed
<1>1. ASSUME IInv, Captured, UnbornIsPrompt, [Next]_vars
      PROVE  \A b \in Booking :
               bookings'[b].status = "expired" /\ bookings[b].status # "expired"
                 => bookings[b].status = "pending" /\ bookings[b].start < now
  BY <1>1, StepJustified DEF Justified, Missed
<1>2. IInv /\ Captured /\ UnbornIsPrompt /\ [Next]_vars =>
        [\A b \in Booking :
           bookings'[b].status = "expired" /\ bookings[b].status # "expired"
             => bookings[b].status = "pending" /\ bookings[b].start < now]_vars
  BY <1>1
<1> QED
  BY <1>2, CapturedAlways, PromptAlways, PTL DEF Spec, ExpiryOnlyWhenMissed

\* A delay shifts the start that is current, by an allowed amount, once.
THEOREM DelaysShiftTheStart == Spec => DelayShiftsCurrentStart
<1>1. ASSUME IInv, Captured, UnbornIsPrompt, [Next]_vars
      PROVE  \A b \in Booking :
               bookings'[b].delayed # bookings[b].delayed
                 => /\ bookings'[b].delayed
                    /\ bookings'[b].start - bookings[b].start \in DelayChoices
  BY <1>1, StepJustified DEF Justified, Shifted
<1>2. IInv /\ Captured /\ UnbornIsPrompt /\ [Next]_vars =>
        [\A b \in Booking :
           bookings'[b].delayed # bookings[b].delayed
             => /\ bookings'[b].delayed
                /\ bookings'[b].start - bookings[b].start \in DelayChoices]_vars
  BY <1>1
<1> QED
  BY <1>2, CapturedAlways, PromptAlways, PTL DEF Spec, DelayShiftsCurrentStart
=============================================================================
