------------------------- MODULE SubscriptionProofs -------------------------
(***************************************************************************)
(* Proofs about SalonSeats, the subscription of a salon with its seats and *)
(* members, and about SubscriptionPayments, which pays for it.             *)
(*                                                                         *)
(* Barbers are any finite set; requests, attempts, keys, events, numbers   *)
(* of seats and lengths of the periods are any, and the clock runs as far  *)
(* as it likes.  The second half rests on the first: the payments keep the *)
(* invariant of the seats because each of their steps is a step of seats.  *)
(***************************************************************************)
EXTENDS SubscriptionPayments, FiniteSetTheorems, SequenceTheorems, TLAPS

Subscription == [status : Status, seatCount : Nat, activeSeatCount : Nat,
                 end : Nat, trialEndsAt : Nat]

LEMMA ActiveIsFinite ==
  IsFiniteSet(Active) /\ Cardinality(Active) \in Nat
<1>1. Active \subseteq Barber /\ IsFiniteSet(Barber)
  BY SeatsAssumption DEF Active
<1>2. QED BY <1>1, FS_Subset, FS_CardinalityType

LEMMA InitIInv == Init => IInv
<1> SUFFICES ASSUME Init PROVE IInv
  OBVIOUS
<1>1. TypeOK
  BY DEF Init, MembershipInit, TypeOK, MembershipTypeOK, NoSubscription, Status, PaidStatuses,
         JoinStatus, EntryStatus
<1>2. Active = {}
  BY DEF Init, Active
<1>3. SeatsAreCounted /\ SeatsWithinPlan
  BY <1>2, FS_EmptySet DEF Init, SeatsAreCounted, SeatsWithinPlan, NoSubscription
<1>4. AcceptedIsMember /\ FormerMembersLoseSeats
  BY <1>2 DEF Init, MembershipInit, AcceptedIsMember, Member, FormerMembersLoseSeats, Former
<1>5. \A r \in Request : ~At(r, "reducing")
  BY DEF Init, At, Idle
<1>6. job.pc # "expiring"
  BY DEF Init, Idle
<1>7. QED BY <1>1, <1>3, <1>4, <1>5, <1>6 DEF IInv, Init

\* The subscription is written with as many seats as are in use, or more.
LEMMA SubscriptionStep ==
  ASSUME IInv, NEW s \in Subscription, sub' = s,
         s.activeSeatCount = sub.activeSeatCount,
         s.activeSeatCount <= s.seatCount,
         s.status # "none" \/ s = sub,
         now' = now, job' = job \/ job' = Idle,
         UNCHANGED <<owner, seat, task, stray, memberVars>>
  PROVE  IInv'
<1>1. TypeOK'
  BY DEF IInv, TypeOK, MembershipTypeOK, memberVars, Subscription, Status, PaidStatuses
<1>2. SeatsAreCounted' /\ SeatsWithinPlan'
  BY DEF IInv, SeatsAreCounted, SeatsWithinPlan, Active
<1>3. AcceptedIsMember' /\ FormerMembersLoseSeats'
  BY DEF IInv, AcceptedIsMember, FormerMembersLoseSeats, Former, Active, Member, memberVars
<1>4. /\ ~Exists' => sub' = NoSubscription
      /\ \A r \in Request : At(r, "reducing")' => Exists'
      /\ job'.pc = "expiring" => job'.at <= now'
  BY DEF IInv, Exists, At, Idle
<1>5. QED BY <1>1, <1>2, <1>3, <1>4 DEF IInv

LEMMA SubscriptionStepsKeepIInv ==
  ASSUME IInv,
         \/ CreateTrial \/ CancelSubscription \/ FinishExpiration
         \/ \E n \in SeatCounts : Extend(n) \/ BuySeats(n) \/ PlatformSeatCount(n)
  PROVE  IInv'
<1>0. sub \in Subscription /\ now \in Nat /\ TrialLength \in Nat /\ MonthLength \in Nat
      /\ sub.activeSeatCount <= sub.seatCount /\ SeatCounts \subseteq Nat
  BY SeatsAssumption DEF IInv, TypeOK, Subscription, SeatsAreCounted, SeatsWithinPlan
<1>1. CASE CreateTrial
  <2> DEFINE s == [status |-> "trialing", seatCount |-> 1, activeSeatCount |-> 0,
                   end |-> now + TrialLength, trialEndsAt |-> now + TrialLength]
  <2>1. s \in Subscription
    BY <1>0 DEF Subscription, Status, PaidStatuses
  <2>2. sub.activeSeatCount = 0
    BY <1>1 DEF CreateTrial, IInv, NoSubscription
  <2>3. QED BY <1>1, <2>1, <2>2, SubscriptionStep DEF CreateTrial, OnlySub
<1>2. CASE CancelSubscription
  <2> DEFINE s == [sub EXCEPT !.status = "cancelled"]
  <2>1. s \in Subscription
    BY <1>0 DEF Subscription, Status
  <2>2. QED BY <1>0, <1>2, <2>1, SubscriptionStep DEF CancelSubscription, OnlySub, Subscription
<1>3. CASE FinishExpiration
  <2> DEFINE s == IF IsOver(sub, job.at) THEN [sub EXCEPT !.status = "expired"] ELSE sub
  <2>1. s \in Subscription /\ s.activeSeatCount = sub.activeSeatCount /\ s.seatCount = sub.seatCount
        /\ (s.status # "none" \/ s = sub)
    BY <1>0 DEF Subscription, Status
  <2>2. sub' = s /\ job' = Idle /\ UNCHANGED <<now, owner, seat, task, stray, memberVars>>
    BY <1>3 DEF FinishExpiration, OnlyJob
  <2> HIDE DEF s
  <2>3. QED BY <1>0, <2>1, <2>2, SubscriptionStep
<1>4. ASSUME NEW n \in SeatCounts, Extend(n) PROVE IInv'
  <2> DEFINE start == IF sub.status \in PaidStatuses /\ sub.end > now THEN sub.end ELSE now
             s == [sub EXCEPT !.status = "active", !.seatCount = n, !.end = start + MonthLength]
  <2>0. start + MonthLength \in Nat
    BY <1>0 DEF Subscription
  <2>2. sub' = s /\ sub.activeSeatCount <= n /\ OnlySub
    BY <1>4 DEF Extend
  <2> HIDE DEF start
  <2>1. s \in Subscription /\ s.activeSeatCount = sub.activeSeatCount /\ s.seatCount = n /\ s.status = "active"
    BY <1>0, <2>0 DEF Subscription, Status, PaidStatuses
  <2> HIDE DEF s
  <2>3. QED BY <2>1, <2>2, SubscriptionStep DEF OnlySub
<1>5. ASSUME NEW n \in SeatCounts, BuySeats(n) \/ PlatformSeatCount(n) PROVE IInv'
  <2> DEFINE s == [sub EXCEPT !.seatCount = n]
  <2>1. s \in Subscription /\ s.activeSeatCount = sub.activeSeatCount /\ s.seatCount = n /\ s.status = sub.status
    BY <1>0 DEF Subscription
  <2>2. sub' = s /\ sub.activeSeatCount <= n /\ OnlySub /\ sub.status # "none"
    BY <1>5 DEF BuySeats, PlatformSeatCount, SetSeatCount, IsActive, Exists, PaidStatuses
  <2> HIDE DEF s
  <2>3. QED BY <2>1, <2>2, SubscriptionStep DEF OnlySub
<1>6. QED BY <1>1, <1>2, <1>3, <1>4, <1>5

\* Steps of the clock and of the job's beginning and end.
LEMMA ClockStepsKeepIInv ==
  ASSUME IInv, Tick \/ StartExpiration \/ CrashExpiration
  PROVE  IInv'
<1>1. TypeOK'
  BY DEF IInv, TypeOK, MembershipTypeOK, memberVars, Tick, StartExpiration, CrashExpiration, OnlyJob, Idle
<1>2. SeatsAreCounted' /\ SeatsWithinPlan' /\ AcceptedIsMember' /\ FormerMembersLoseSeats'
  BY DEF IInv, SeatsAreCounted, SeatsWithinPlan, AcceptedIsMember, FormerMembersLoseSeats, Former,
         Active, Member, memberVars, Tick, StartExpiration, CrashExpiration, OnlyJob
<1>3. /\ ~Exists' => sub' = NoSubscription
      /\ \A r \in Request : At(r, "reducing")' => Exists'
  BY DEF IInv, Exists, At, Tick, StartExpiration, CrashExpiration, OnlyJob
<1>4. job'.pc = "expiring" => job'.at <= now'
  BY DEF IInv, TypeOK, Tick, StartExpiration, CrashExpiration, OnlyJob, Idle
<1>5. QED BY <1>1, <1>2, <1>3, <1>4 DEF IInv

\* Nobody leaves by the steps of a join request.
LEMMA MembershipKeepsIInv ==
  ASSUME IInv, Membership
  PROVE  IInv'
<1>1. PICK b \in Barber : JoinSteps(b)
  BY DEF Membership
<1>2. TypeOK'
  BY <1>1 DEF IInv, TypeOK, MembershipTypeOK, Membership, JoinSteps, RequestJoin, CancelJoin,
              AcceptJoin, RejectJoin, JoinStatus, EntryStatus
<1>3. AcceptedIsMember'
  BY <1>1 DEF IInv, TypeOK, MembershipTypeOK, AcceptedIsMember, Member, JoinSteps, RequestJoin,
              CancelJoin, AcceptJoin, RejectJoin
<1>4. \A c \in Barber : Member(c) => Member(c)'
  BY <1>1 DEF IInv, TypeOK, MembershipTypeOK, Member, JoinSteps, RequestJoin,
              CancelJoin, AcceptJoin, RejectJoin
<1>5. FormerMembersLoseSeats'
  BY <1>4 DEF IInv, FormerMembersLoseSeats, Former, Active, Membership
<1>6. SeatsAreCounted' /\ SeatsWithinPlan'
  BY DEF IInv, SeatsAreCounted, SeatsWithinPlan, Active, Membership
<1>7. /\ ~Exists' => sub' = NoSubscription
      /\ \A r \in Request : At(r, "reducing")' => Exists'
      /\ job'.pc = "expiring" => job'.at <= now'
  BY DEF IInv, Exists, At, Membership
<1>8. QED BY <1>2, <1>3, <1>5, <1>6, <1>7 DEF IInv

----------------------------------------------------------------------------
\* Nothing but a task is written, and no removal ends.
LEMMA TaskStep ==
  ASSUME IInv, NEW r \in Request, NEW t \in {Idle} \cup Task,
         task' = [task EXCEPT ![r] = t],
         task[r].pc \in {"listing", "revoking"} =>
           t.pc \in {"listing", "revoking"} /\ t.barber = task[r].barber,
         t.pc = "reducing" => Exists,
         UNCHANGED <<now, owner, sub, seat, job, stray, memberVars>>
  PROVE  IInv'
<1>1. TypeOK'
  BY DEF IInv, TypeOK, MembershipTypeOK, memberVars
<1>2. SeatsAreCounted' /\ SeatsWithinPlan' /\ AcceptedIsMember'
  BY DEF IInv, SeatsAreCounted, SeatsWithinPlan, AcceptedIsMember, Active, Member, memberVars
<1>3. FormerMembersLoseSeats'
  <2>1. Former' = Former
    BY DEF Former, Active, Member, memberVars
  <2>2. \A q \in Request : task[q].pc \in {"listing", "revoking"} =>
          task'[q].pc \in {"listing", "revoking"} /\ task'[q].barber = task[q].barber
    BY DEF IInv, TypeOK
  <2>3. QED BY <2>1, <2>2 DEF IInv, FormerMembersLoseSeats
<1>4. /\ ~Exists' => sub' = NoSubscription
      /\ \A q \in Request : At(q, "reducing")' => Exists'
      /\ job'.pc = "expiring" => job'.at <= now'
  BY DEF IInv, TypeOK, Exists, At
<1>5. QED BY <1>1, <1>2, <1>3, <1>4 DEF IInv

LEMMA StartsKeepIInv ==
  ASSUME IInv, NEW r \in Request,
         \/ \E b \in Barber : StartAssign(r, b) \/ StartPlatformAssign(r, b) \/ StartRevoke(r, b)
         \/ \E n \in SeatCounts : StartReduce(r, n)
  PROVE  IInv'
<1>1. task[r].pc = "idle"
  BY DEF Start, Idle, StartAssign, StartPlatformAssign, StartRevoke, StartReduce
<1>2. ASSUME NEW b \in Barber, StartAssign(r, b) \/ StartPlatformAssign(r, b) PROVE IInv'
  <2>1. [pc |-> "assigning", barber |-> b] \in Task
    BY DEF Task
  <2>2. QED BY <1>1, <1>2, <2>1, TaskStep DEF Start, StartAssign, StartPlatformAssign, memberVars
<1>3. ASSUME NEW b \in Barber, StartRevoke(r, b) PROVE IInv'
  <2>1. [pc |-> "revoking", barber |-> b] \in Task
    BY DEF Task
  <2>2. QED BY <1>1, <1>3, <2>1, TaskStep DEF Start, StartRevoke, memberVars
<1>4. ASSUME NEW n \in SeatCounts, StartReduce(r, n) PROVE IInv'
  <2>1. [pc |-> "reducing", seatCount |-> n] \in Task
    BY SeatsAssumption DEF Task
  <2>2. QED BY <1>1, <1>4, <2>1, TaskStep DEF Start, StartReduce, memberVars
<1>5. QED BY <1>2, <1>3, <1>4

\* Whoever goes is looked after by the request that goes on to list the seats.
LEMMA StartRemovalKeepsIInv ==
  ASSUME IInv, NEW r \in Request, NEW b \in Barber, StartRemoval(r, b)
  PROVE  IInv'
<1> DEFINE t == [pc |-> "listing", barber |-> b]
<1>1. t \in Task /\ task[r].pc = "idle" /\ task' = [task EXCEPT ![r] = t]
  BY DEF Task, StartRemoval, Start, Idle
<1>2. TypeOK'
  BY <1>1 DEF IInv, TypeOK, MembershipTypeOK, StartRemoval, Start, EndMembership, JoinStatus, EntryStatus
<1>3. AcceptedIsMember'
  BY DEF IInv, TypeOK, MembershipTypeOK, AcceptedIsMember, Member, StartRemoval, EndMembership
<1>4. SeatsAreCounted' /\ SeatsWithinPlan'
  BY DEF IInv, SeatsAreCounted, SeatsWithinPlan, Active, StartRemoval, Start
<1>5. FormerMembersLoseSeats'
  <2>1. Former' \subseteq Former \cup {b}
    BY DEF Former, Active, Member, StartRemoval, Start, EndMembership, IInv, TypeOK, MembershipTypeOK
  <2>2. task'[r].pc = "listing" /\ task'[r].barber = b
    BY <1>1 DEF IInv, TypeOK
  <2>3. \A q \in Request : task[q].pc \in {"listing", "revoking"} => task'[q] = task[q]
    BY <1>1 DEF IInv, TypeOK
  <2>4. stray' = stray
    BY DEF StartRemoval, Start
  <2>5. QED BY <2>1, <2>2, <2>3, <2>4 DEF IInv, FormerMembersLoseSeats
<1>6. /\ ~Exists' => sub' = NoSubscription
      /\ \A q \in Request : At(q, "reducing")' => Exists'
      /\ job'.pc = "expiring" => job'.at <= now'
  BY <1>1 DEF IInv, TypeOK, Exists, At, StartRemoval, Start
<1>7. QED BY <1>2, <1>3, <1>4, <1>5, <1>6 DEF IInv

\* A request ends, with the counter right.  Barbers whose removal the request was
\* are not left with a seat unless they are stray.
LEMMA FinishStep ==
  ASSUME IInv, NEW r \in Request, Finish(r),
         NEW s \in Subscription, sub' = s,
         s.status = sub.status, s.activeSeatCount <= s.seatCount,
         ~Exists => s = sub,
         seat' \in [Barber -> {"none", "active", "revoked"}],
         Cardinality(Active') = s.activeSeatCount,
         stray' \subseteq Barber,
         \A c \in Former' \ stray' :
           /\ c \in Former \ stray
           /\ (task[r].pc \in {"listing", "revoking"} => task[r].barber # c)
  PROVE  IInv'
<1>1. TypeOK'
  BY DEF IInv, TypeOK, MembershipTypeOK, memberVars, Finish, Subscription
<1>2. SeatsAreCounted' /\ SeatsWithinPlan'
  BY DEF SeatsAreCounted, SeatsWithinPlan
<1>3. AcceptedIsMember'
  BY DEF IInv, AcceptedIsMember, Member, Finish, memberVars
<1>4. FormerMembersLoseSeats'
  <2>1. \A q \in Request \ {r} : task'[q] = task[q]
    BY DEF IInv, TypeOK, Finish
  <2>2. QED BY <2>1 DEF IInv, FormerMembersLoseSeats
<1>5. /\ ~Exists' => sub' = NoSubscription
      /\ \A q \in Request : At(q, "reducing")' => Exists'
      /\ job'.pc = "expiring" => job'.at <= now'
  BY DEF IInv, TypeOK, Exists, At, Finish, Idle
<1>6. QED BY <1>1, <1>2, <1>3, <1>4, <1>5 DEF IInv

\* The same when no seat changes.
LEMMA QuietFinish ==
  ASSUME IInv, NEW r \in Request, Finish(r),
         NEW s \in Subscription, sub' = s,
         s.status = sub.status, s.activeSeatCount <= s.seatCount,
         s.activeSeatCount = sub.activeSeatCount,
         ~Exists => s = sub,
         UNCHANGED seat,
         stray' \subseteq Barber, stray \subseteq stray',
         task[r].pc \in {"listing", "revoking"} => task[r].barber \notin Former \ stray'
  PROVE  IInv'
<1>1. Active' = Active /\ Former' = Former
  BY DEF Active, Former, Member, Finish, memberVars
<1>2. Cardinality(Active') = s.activeSeatCount
  BY <1>1 DEF IInv, SeatsAreCounted
<1>3. seat' \in [Barber -> {"none", "active", "revoked"}]
  BY DEF IInv, TypeOK
<1>4. \A c \in Former' \ stray' :
           /\ c \in Former \ stray
           /\ (task[r].pc \in {"listing", "revoking"} => task[r].barber # c)
  BY <1>1
<1>5. QED BY <1>2, <1>3, <1>4, FinishStep

LEMMA FinishesKeepIInv ==
  ASSUME IInv, NEW r \in Request,
         FinishAssign(r) \/ ListSeats(r) \/ FinishRevoke(r) \/ FinishReduce(r) \/ Abandon(r)
  PROVE  IInv'
<1>0. /\ sub \in Subscription /\ sub.activeSeatCount <= sub.seatCount
      /\ \A c \in Barber : seat[c] \in {"none", "active", "revoked"}
      /\ stray \subseteq Barber /\ Former \subseteq Barber
  BY DEF IInv, TypeOK, Subscription, SeatsAreCounted, SeatsWithinPlan, Former, Active
<1>1. task[r].pc # "idle"
  BY DEF FinishAssign, ListSeats, FinishRevoke, FinishReduce, Abandon, At, IInv, TypeOK, Task, Idle
<1>2. task[r] \in Task
  BY <1>1 DEF IInv, TypeOK, Idle
\* A request ends and nothing else is written.
<1>3. ASSUME Finish(r), UNCHANGED <<sub, seat, stray>>,
             task[r].pc \in {"listing", "revoking"} => seat[task[r].barber] # "active"
      PROVE  IInv'
  <2>1. task[r].pc \in {"listing", "revoking"} => task[r].barber \notin Former
    BY <1>3 DEF Former, Active
  <2>2. QED BY <1>0, <1>3, <2>1, QuietFinish
<1>4. CASE FinishAssign(r)
  <2> DEFINE b == task[r].barber
             s == [sub EXCEPT !.activeSeatCount = @ + 1]
  <2>1. task[r].pc = "assigning" /\ b \in Barber
    BY <1>2, <1>4 DEF FinishAssign, At, Task
  <2>2. CASE seat[b] = "active" \/ sub.activeSeatCount >= sub.seatCount
    BY <1>3, <1>4, <2>1, <2>2 DEF FinishAssign, Answer
  <2>3. CASE ~(seat[b] = "active" \/ sub.activeSeatCount >= sub.seatCount)
    <3>1. /\ sub' = s /\ Finish(r)
          /\ seat' = [seat EXCEPT ![b] = "active"]
          /\ stray' = IF Member(b) THEN stray ELSE stray \cup {b}
      BY <1>4, <2>3 DEF FinishAssign
    <3>2. /\ s \in Subscription /\ s.status = sub.status /\ s.seatCount = sub.seatCount
          /\ s.activeSeatCount = sub.activeSeatCount + 1
          /\ s.activeSeatCount <= s.seatCount
      BY <1>0, <2>3 DEF Subscription
    <3>3. Exists
      BY <2>3 DEF IInv, NoSubscription
    <3>4. \A c \in Former' \ stray' : c \in Former \ stray
      BY <3>1 DEF Former, Active, Member, Finish, memberVars, IInv, TypeOK
    <3>5. Active' = Active \cup {b} /\ b \notin Active
      BY <2>1, <2>3, <3>1 DEF Active, IInv, TypeOK
    <3>6. Cardinality(Active') = s.activeSeatCount
      <4>1. Cardinality(Active') = Cardinality(Active) + 1
        BY <3>5, ActiveIsFinite, FS_AddElement
      <4>2. QED BY <3>2, <4>1 DEF IInv, SeatsAreCounted
    <3>7. seat' \in [Barber -> {"none", "active", "revoked"}] /\ stray' \subseteq Barber
      BY <1>0, <2>1, <3>1 DEF IInv, TypeOK
    <3> HIDE DEF s
    <3>8. QED BY <2>1, <3>1, <3>2, <3>3, <3>4, <3>6, <3>7, FinishStep
  <2>4. QED BY <2>2, <2>3
<1>5. CASE ListSeats(r)
  <2>1. task[r].pc = "listing" /\ task[r].barber \in Barber
    BY <1>2, <1>5 DEF ListSeats, At, Task
  <2>2. CASE seat[task[r].barber] = "active"
    <3> DEFINE t == [task[r] EXCEPT !.pc = "revoking"]
    <3>1. t \in Task /\ t.pc = "revoking" /\ t.barber = task[r].barber
      BY <1>2, <2>1 DEF Task
    <3>2. task' = [task EXCEPT ![r] = t] /\ UNCHANGED <<now, owner, sub, seat, job, stray, memberVars>>
      BY <1>5, <2>2 DEF ListSeats
    <3> HIDE DEF t
    <3>3. QED BY <3>1, <3>2, TaskStep
  <2>3. CASE seat[task[r].barber] # "active"
    BY <1>3, <1>5, <2>1, <2>3 DEF ListSeats, Answer
  <2>4. QED BY <2>2, <2>3
<1>6. CASE FinishRevoke(r)
  <2> DEFINE b == task[r].barber
             s == [sub EXCEPT !.activeSeatCount = @ - 1]
  <2>1. task[r].pc = "revoking" /\ b \in Barber
    BY <1>2, <1>6 DEF FinishRevoke, At, Task
  <2>2. seat[b] = "active" => sub.activeSeatCount > 0
    <3>1. SUFFICES ASSUME seat[b] = "active" PROVE sub.activeSeatCount # 0
      BY <1>0 DEF Subscription
    <3>2. b \in Active
      BY <2>1, <3>1 DEF Active
    <3>3. Cardinality(Active) # 0
      BY <3>2, ActiveIsFinite, FS_EmptySet
    <3>4. QED BY <3>3 DEF IInv, SeatsAreCounted
  <2>3. CASE seat[b] # "active"
    BY <1>3, <1>6, <2>1, <2>3 DEF FinishRevoke, Answer
  <2>4. CASE seat[b] = "active"
    <3>1. /\ sub' = s /\ Finish(r)
          /\ seat' = [seat EXCEPT ![b] = "revoked"]
          /\ stray' = stray \ {b}
      BY <1>6, <2>2, <2>4 DEF FinishRevoke
    <3>2. /\ s \in Subscription /\ s.status = sub.status /\ s.seatCount = sub.seatCount
          /\ s.activeSeatCount = sub.activeSeatCount - 1
          /\ s.activeSeatCount <= s.seatCount
      BY <1>0, <2>2, <2>4 DEF Subscription
    <3>3. Exists
      BY <2>2, <2>4 DEF IInv, NoSubscription
    <3>4. \A c \in Former' \ stray' : c \in Former \ stray /\ c # b
      BY <2>1, <3>1 DEF Former, Active, Member, Finish, memberVars, IInv, TypeOK
    <3>5. Active' = Active \ {b} /\ b \in Active
      BY <2>1, <2>4, <3>1 DEF Active, IInv, TypeOK
    <3>6. Cardinality(Active') = s.activeSeatCount
      BY <3>2, <3>5, ActiveIsFinite, FS_RemoveElement DEF IInv, SeatsAreCounted
    <3>7. seat' \in [Barber -> {"none", "active", "revoked"}] /\ stray' \subseteq Barber
      BY <1>0, <2>1, <3>1 DEF IInv, TypeOK
    <3> HIDE DEF s
    <3>8. QED BY <2>1, <3>1, <3>2, <3>3, <3>4, <3>6, <3>7, FinishStep
  <2>5. QED BY <2>3, <2>4
<1>7. CASE FinishReduce(r)
  <2> DEFINE n == task[r].seatCount
             s == IF sub.activeSeatCount <= n THEN [sub EXCEPT !.seatCount = n] ELSE sub
  <2>1. task[r].pc = "reducing" /\ n \in Nat /\ Exists
    BY <1>2, <1>7 DEF FinishReduce, At, Task, IInv
  <2>2. sub' = s /\ Finish(r) /\ UNCHANGED <<seat, stray>>
    BY <1>0, <1>7, <2>1 DEF FinishReduce, SetSeatCount, Subscription
  <2>3. /\ s \in Subscription /\ s.status = sub.status
        /\ s.activeSeatCount = sub.activeSeatCount
        /\ s.activeSeatCount <= s.seatCount
    BY <1>0, <2>1 DEF Subscription
  <2> HIDE DEF s
  <2>4. QED BY <1>0, <2>1, <2>2, <2>3, QuietFinish
<1>8. CASE Abandon(r)
  <2>1. /\ Finish(r) /\ UNCHANGED <<sub, seat>>
        /\ stray' = stray \cup {c \in Former : /\ task[r].pc \in {"listing", "revoking"}
                                              /\ task[r].barber = c}
    BY <1>8 DEF Abandon
  <2>2. /\ stray' \subseteq Barber /\ stray \subseteq stray'
        /\ (task[r].pc \in {"listing", "revoking"} => task[r].barber \notin Former \ stray')
    BY <1>0, <2>1
  <2>3. QED BY <1>0, <2>1, <2>2, QuietFinish
<1>9. QED BY <1>4, <1>5, <1>6, <1>7, <1>8

----------------------------------------------------------------------------
LEMMA StepKeepsIInv == ASSUME IInv, [Next]_seatVars PROVE IInv'
<1>1. CASE Membership
  BY <1>1, MembershipKeepsIInv
<1>2. CASE Tick \/ StartExpiration \/ CrashExpiration
  BY <1>2, ClockStepsKeepIInv
<1>3. CASE \/ CreateTrial \/ CancelSubscription \/ FinishExpiration
           \/ \E n \in SeatCounts : Extend(n) \/ BuySeats(n) \/ PlatformSeatCount(n)
  BY <1>3, SubscriptionStepsKeepIInv
<1>4. CASE \E r \in Request :
             \/ \E b \in Barber : StartAssign(r, b) \/ StartPlatformAssign(r, b) \/ StartRevoke(r, b)
             \/ \E n \in SeatCounts : StartReduce(r, n)
  BY <1>4, StartsKeepIInv
<1>5. CASE \E r \in Request : \E b \in Barber : StartRemoval(r, b)
  BY <1>5, StartRemovalKeepsIInv
<1>6. CASE \E r \in Request : FinishAssign(r) \/ ListSeats(r) \/ FinishRevoke(r)
                              \/ FinishReduce(r) \/ Abandon(r)
  BY <1>6, FinishesKeepIInv
<1>7. CASE UNCHANGED seatVars
  BY <1>7 DEF IInv, TypeOK, MembershipTypeOK, seatVars, SeatsAreCounted, SeatsWithinPlan, Active,
              AcceptedIsMember, Member, FormerMembersLoseSeats, Former, Exists, At
<1>8. QED BY <1>1, <1>2, <1>3, <1>4, <1>5, <1>6, <1>7 DEF Next

\* The inductive invariant.
THEOREM SeatsInvariance == Spec => []IInv
<1>1. IInv /\ [Next]_seatVars => IInv'
  BY StepKeepsIInv
<1>2. QED BY <1>1, InitIInv, PTL DEF Spec

\* The documents stay within their schemas.
THEOREM SeatsTypes == Spec => []TypeOK
BY SeatsInvariance, PTL DEF IInv

\* The counter is the number of active seats.
THEOREM SeatsCounted == Spec => []SeatsAreCounted
BY SeatsInvariance, PTL DEF IInv

\* No more seats are in use than were bought.
THEOREM PlanHolds == Spec => []SeatsWithinPlan
BY SeatsInvariance, PTL DEF IInv

\* Members are those whose request is accepted.
THEOREM MembersAreAccepted == Spec => []AcceptedIsMember
BY SeatsInvariance, PTL DEF IInv

\* A seat outlives the membership only by a stale assignment or a removal that
\* stopped half way.
THEOREM FormerMembersHold == Spec => []FormerMembersLoseSeats
BY SeatsInvariance, PTL DEF IInv

\* Only the expiration job expires, by a clock that is not ahead of now.
THEOREM ExpirationHolds == Spec => ExpiredOnlyWhenOver
<1>1. IInv /\ [Next]_seatVars =>
        [sub'.status = "expired" /\ sub.status # "expired" => IsOver(sub, now)]_seatVars
  <2> SUFFICES ASSUME IInv, Next, sub'.status = "expired", sub.status # "expired"
               PROVE  IsOver(sub, now)
    OBVIOUS
  <2>1. sub \in Subscription /\ now \in Nat
    BY DEF IInv, TypeOK, Subscription
  <2>2. sub' # sub
    OBVIOUS
  <2>3. CASE FinishExpiration
    <3>1. IsOver(sub, job.at) /\ job.pc = "expiring"
      BY <2>2, <2>3 DEF FinishExpiration
    <3>2. job.at \in Nat /\ job.at <= now
      BY <3>1 DEF IInv, TypeOK, Idle
    <3>3. QED BY <2>1, <3>1, <3>2 DEF IsOver, Subscription
  <2>4. CASE CreateTrial \/ CancelSubscription \/ \E n \in SeatCounts : Extend(n)
    <3>1. CASE CreateTrial
      BY <3>1 DEF CreateTrial
    <3>2. CASE CancelSubscription
      BY <2>1, <3>2 DEF CancelSubscription, Subscription
    <3>3. ASSUME NEW n \in SeatCounts, Extend(n) PROVE FALSE
      <4> DEFINE start == IF sub.status \in PaidStatuses /\ sub.end > now THEN sub.end ELSE now
      <4>1. sub' = [sub EXCEPT !.status = "active", !.seatCount = n, !.end = start + MonthLength]
        BY <3>3 DEF Extend
      <4> HIDE DEF start
      <4>2. QED BY <2>1, <4>1 DEF Subscription
    <3>4. QED BY <2>4, <3>1, <3>2, <3>3
  <2>5. CASE \E n \in SeatCounts : BuySeats(n) \/ PlatformSeatCount(n)
    BY <2>1, <2>5 DEF BuySeats, PlatformSeatCount, SetSeatCount, Subscription
  <2>6. CASE \E r \in Request : FinishAssign(r) \/ FinishRevoke(r) \/ FinishReduce(r)
    BY <2>1, <2>2, <2>6 DEF FinishAssign, FinishRevoke, FinishReduce, SetSeatCount, Answer, Subscription
  <2>7. QED
    BY <2>2, <2>3, <2>4, <2>5, <2>6
    DEF Next, Tick, Membership, StartExpiration, CrashExpiration, OnlyJob, Start, StartAssign, StartPlatformAssign,
        StartRevoke, StartRemoval, StartReduce, ListSeats, Answer, Abandon
<1>2. QED BY <1>1, SeatsInvariance, PTL DEF Spec, ExpiredOnlyWhenOver

----------------------------------------------------------------------------
\* The payments' own part of the invariant.
PInv ==
  /\ PaymentTypeOK
  /\ AppliedOnce
  /\ PaidIsApplied
  /\ AccountedOnce
  /\ \A a \in Attempt : attempt[a].status # "none" => attempt[a].seatCount \in SeatCounts
  /\ \A q \in Payer : paying[q].pc = "cancelling" => attempt[paying[q].attempt].status # "none"

AttemptRecord ==
  [status : {"none"} \cup OpenStatuses \cup Settled, provider : Provider, action : Action,
   seatCount : Nat, expiresAt : Nat, events : Seq(Event)]

LEMMA InitPInv == ASSUME PaymentsInit PROVE PInv
<1>1. NoAttempt \in AttemptRecord
  BY DEF NoAttempt, AttemptRecord, Provider, Action
<1>2. PaymentTypeOK
  BY <1>1 DEF PaymentsInit, PaymentTypeOK, AttemptRecord
<1>3. \A x \in Attempt \cup Key : applied[x] = 0
  BY DEF PaymentsInit
<1>4. \A a \in Attempt : attempt[a].status = "none" /\ records[a] = 0
  BY DEF PaymentsInit, NoAttempt
<1>5. AppliedOnce /\ AccountedOnce
  BY <1>3, <1>4 DEF AppliedOnce, AccountedOnce
<1>6. PaidIsApplied
  BY <1>3, <1>4 DEF PaidIsApplied, PaymentsInit
<1>7. \A q \in Payer : paying[q].pc # "cancelling"
  BY DEF PaymentsInit, Idle
<1>8. QED BY <1>2, <1>4, <1>5, <1>6, <1>7 DEF PInv

\* A step that leaves the attempts and what they did.
LEMMA RequestStep ==
  ASSUME PInv, UNCHANGED <<attempt, records, operation, applied>>,
         paying' \in [Payer -> {Idle} \cup PaymentTask],
         \A q \in Payer : \/ paying'[q] = paying[q]
                          \/ paying'[q].pc # "cancelling"
                          \/ attempt[paying'[q].attempt].status # "none"
  PROVE  PInv'
<1>1. PaymentTypeOK'
  BY DEF PInv, PaymentTypeOK
<1>2. AppliedOnce' /\ AccountedOnce'
  BY DEF PInv, AppliedOnce, AccountedOnce
<1>3. PaidIsApplied'
  BY DEF PInv, PaidIsApplied
<1>4. QED BY <1>1, <1>2, <1>3 DEF PInv

\* A step that writes one attempt; x is what took effect with it.
LEMMA AttemptStep ==
  ASSUME PInv, NEW a \in Attempt, NEW v \in AttemptRecord,
         attempt' = [attempt EXCEPT ![a] = v],
         v.status # "none", v.seatCount \in SeatCounts,
         records' \in [Attempt -> Nat], applied' \in [Attempt \cup Key -> Nat],
         \A b \in Attempt \ {a} : records'[b] = records[b],
         \A x \in (Attempt \cup Key) \ {a} : applied'[x] = applied[x],
         applied'[a] <= 1,
         v.status \in {"paid", "refunded"} => applied'[a] = 1,
         applied'[a] = 1 => v.status \in {"paid", "refunded", "cancelled"},
         records'[a] <= applied'[a],
         applied'[a] = 1 /\ v.action = "renew" => records'[a] = 1,
         UNCHANGED operation,
         paying' \in [Payer -> {Idle} \cup PaymentTask],
         \A q \in Payer : paying'[q] = paying[q] \/ paying'[q].pc # "cancelling"
  PROVE  PInv'
<1>1. PaymentTypeOK'
  BY DEF PInv, PaymentTypeOK, AttemptRecord
<1>2. attempt'[a] = v /\ \A b \in Attempt \ {a} : attempt'[b] = attempt[b]
  BY DEF PInv, PaymentTypeOK
<1>3. a \notin Key
  BY PaymentsAssumption
<1>4. AppliedOnce'
  BY DEF PInv, AppliedOnce
<1>5. AccountedOnce'
  BY <1>2 DEF PInv, AccountedOnce
<1>6. PaidIsApplied'
  BY <1>2, <1>3 DEF PInv, PaidIsApplied
<1>7. \A b \in Attempt : attempt'[b].status # "none" => attempt'[b].seatCount \in SeatCounts
  BY <1>2 DEF PInv
<1>8. \A q \in Payer : paying'[q].pc = "cancelling" => attempt'[paying'[q].attempt].status # "none"
  <2> SUFFICES ASSUME NEW q \in Payer, paying'[q].pc = "cancelling"
               PROVE  attempt'[paying'[q].attempt].status # "none"
    OBVIOUS
  <2>1. paying'[q] = paying[q] /\ paying[q].attempt \in Attempt
    <3>1. paying'[q] = paying[q] /\ paying[q] \in {Idle} \cup PaymentTask /\ paying[q].pc = "cancelling"
      BY DEF PInv, PaymentTypeOK
    <3>2. QED BY <3>1 DEF PaymentTask, Idle
  <2>2. QED BY <1>2, <2>1 DEF PInv
<1>9. QED BY <1>1, <1>4, <1>5, <1>6, <1>7, <1>8 DEF PInv

\* What a record of PInv looks like from outside.
LEMMA AttemptFacts ==
  ASSUME PInv, NEW a \in Attempt
  PROVE  /\ attempt[a] \in AttemptRecord
         /\ attempt \in [Attempt -> AttemptRecord]
         /\ records \in [Attempt -> Nat] /\ applied \in [Attempt \cup Key -> Nat]
         /\ attempt[a].status \notin {"paid", "refunded", "cancelled"} =>
              applied[a] = 0 /\ records[a] = 0
<1>1. /\ attempt \in [Attempt -> AttemptRecord]
      /\ records \in [Attempt -> Nat] /\ applied \in [Attempt \cup Key -> Nat]
  BY DEF PInv, PaymentTypeOK, AttemptRecord
<1>2. records[a] \in Nat /\ applied[a] \in Nat /\ applied[a] <= 1 /\ records[a] <= applied[a]
  BY <1>1 DEF PInv, AppliedOnce, AccountedOnce
<1>3. applied[a] = 1 => attempt[a].status \in {"paid", "refunded", "cancelled"}
  BY DEF PInv, PaidIsApplied
<1>4. QED BY <1>1, <1>2, <1>3

LEMMA RequestStepsKeepPInv ==
  ASSUME PInv, NEW q \in Payer,
         \/ \E action \in Action, n \in SeatCounts : StartIntent(q, action, n)
         \/ \E a \in Attempt : StartCancel(q, a)
         \/ AbandonPayment(q)
  PROVE  PInv'
<1>1. paying \in [Payer -> {Idle} \cup PaymentTask]
  BY DEF PInv, PaymentTypeOK
<1>2. CASE \E action \in Action, n \in SeatCounts : StartIntent(q, action, n)
  <2>1. PICK action \in Action, n \in SeatCounts : StartIntent(q, action, n)
    BY <1>2
  <2> DEFINE t == [pc |-> "preparing", action |-> action, seatCount |-> n]
  <2>2. t \in PaymentTask /\ t.pc # "cancelling" /\ paying' = [paying EXCEPT ![q] = t]
    BY <2>1 DEF StartIntent, PaymentTask
  <2> HIDE DEF t
  <2>3. QED BY <1>1, <2>1, <2>2, RequestStep DEF StartIntent
<1>3. CASE \E a \in Attempt : StartCancel(q, a)
  <2>1. PICK a \in Attempt : StartCancel(q, a)
    BY <1>3
  <2> DEFINE t == [pc |-> "cancelling", attempt |-> a]
  <2>2. /\ t \in PaymentTask /\ attempt[t.attempt].status # "none"
        /\ paying' = [paying EXCEPT ![q] = t]
    BY <2>1 DEF StartCancel, PaymentTask
  <2> HIDE DEF t
  <2>3. QED BY <1>1, <2>1, <2>2, RequestStep DEF StartCancel
<1>4. CASE AbandonPayment(q)
  <2>1. paying' = [paying EXCEPT ![q] = Idle] /\ Idle.pc # "cancelling"
    BY <1>4 DEF AbandonPayment, Idle
  <2>2. QED BY <1>1, <1>4, <2>1, RequestStep DEF AbandonPayment
<1>5. QED BY <1>2, <1>3, <1>4

LEMMA FinishIntentKeepsPInv ==
  ASSUME PInv, now \in Nat, NEW q \in Payer, NEW a \in Attempt, FinishIntent(q, a)
  PROVE  PInv'
<1>1. PICK provider \in {"manual", "mock"} :
        attempt' = [attempt EXCEPT ![a] =
          [status    |-> IF provider = "manual" THEN "pending" ELSE "requires_action",
           provider  |-> provider,
           action    |-> paying[q].action,
           seatCount |-> paying[q].seatCount,
           expiresAt |-> now + 1,
           events    |-> <<>>]]
  BY DEF FinishIntent
<1> DEFINE v == [status    |-> IF provider = "manual" THEN "pending" ELSE "requires_action",
                 provider  |-> provider,
                 action    |-> paying[q].action,
                 seatCount |-> paying[q].seatCount,
                 expiresAt |-> now + 1,
                 events    |-> <<>>]
<1>2. paying \in [Payer -> {Idle} \cup PaymentTask]
  BY DEF PInv, PaymentTypeOK
<1>3. paying[q].action \in Action /\ paying[q].seatCount \in SeatCounts
  BY <1>2 DEF FinishIntent, PaymentTask, Idle
<1>4. /\ v \in AttemptRecord /\ v.seatCount \in SeatCounts
      /\ v.status \in {"pending", "requires_action"}
  <2>1. (IF provider = "manual" THEN "pending" ELSE "requires_action") \in OpenStatuses
    BY DEF OpenStatuses
  <2>2. provider \in Provider /\ now + 1 \in Nat /\ paying[q].seatCount \in Nat
        /\ <<>> \in Seq(Event)
    <3>1. provider \in Provider
      BY DEF Provider
    <3>2. now + 1 \in Nat
      OBVIOUS
    <3>3. paying[q].seatCount \in Nat
      BY <1>3, SeatsAssumption
    <3>4. <<>> \in Seq(Event)
      OBVIOUS
    <3>5. QED BY <3>1, <3>2, <3>3, <3>4
  <2>3. QED BY <1>3, <2>1, <2>2 DEF AttemptRecord, OpenStatuses
<1>5. attempt' = [attempt EXCEPT ![a] = v]
  BY <1>1
<1>6. applied[a] = 0 /\ records[a] = 0
  BY AttemptFacts DEF FinishIntent
<1>7. paying' = [paying EXCEPT ![q] = Idle] /\ Idle.pc # "cancelling"
  BY DEF FinishIntent, Idle
<1>8. UNCHANGED <<records, operation, applied>>
  BY DEF FinishIntent
<1> HIDE DEF v
<1>9. /\ records' \in [Attempt -> Nat] /\ applied' \in [Attempt \cup Key -> Nat]
      /\ \A b \in Attempt \ {a} : records'[b] = records[b]
      /\ \A x \in (Attempt \cup Key) \ {a} : applied'[x] = applied[x]
      /\ applied'[a] = 0 /\ records'[a] = 0 /\ operation' = operation
  BY <1>6, <1>8, AttemptFacts
<1>10. /\ paying' \in [Payer -> {Idle} \cup PaymentTask]
       /\ \A p \in Payer : paying'[p] = paying[p] \/ paying'[p].pc # "cancelling"
  BY <1>2, <1>7
<1>11. /\ v.status \notin {"none", "paid", "refunded"}
       /\ applied'[a] # 1 /\ applied'[a] <= 1 /\ records'[a] <= applied'[a]
  BY <1>4, <1>9
<1>12. QED BY <1>4, <1>5, <1>9, <1>10, <1>11, AttemptStep

\* A change of status alone.
LEMMA StatusStep ==
  ASSUME PInv, NEW a \in Attempt, NEW s \in Settled, NEW es \in Seq(Event),
         attempt' = [attempt EXCEPT ![a].status = s, ![a].events = es],
         attempt[a].status # "none",
         \/ s = attempt[a].status
         \/ s = "cancelled"
         \/ attempt[a].status \in OpenStatuses /\ s = "failed"
         \/ attempt[a].status = "paid" /\ s = "refunded",
         UNCHANGED <<records, operation, applied>>,
         paying' \in [Payer -> {Idle} \cup PaymentTask],
         \A q \in Payer : paying'[q] = paying[q] \/ paying'[q].pc # "cancelling"
  PROVE  PInv'
<1> DEFINE v == [attempt[a] EXCEPT !.status = s, !.events = es]
<1>1. /\ attempt[a] \in AttemptRecord /\ attempt \in [Attempt -> AttemptRecord]
      /\ records \in [Attempt -> Nat] /\ applied \in [Attempt \cup Key -> Nat]
  BY AttemptFacts
<1>2. /\ v \in AttemptRecord /\ v.status = s /\ v.action = attempt[a].action
      /\ v.seatCount = attempt[a].seatCount
  <2>1. \A r \in AttemptRecord :
          /\ [r EXCEPT !.status = s, !.events = es] \in AttemptRecord
          /\ [r EXCEPT !.status = s, !.events = es].status = s
          /\ [r EXCEPT !.status = s, !.events = es].action = r.action
          /\ [r EXCEPT !.status = s, !.events = es].seatCount = r.seatCount
    BY DEF AttemptRecord
  <2>2. QED BY <1>1, <2>1
<1>3. attempt' = [attempt EXCEPT ![a] = v]
  BY <1>1 DEF AttemptRecord
<1>4. v.seatCount \in SeatCounts /\ v.status # "none"
  BY <1>2 DEF PInv, Settled
<1>5. /\ applied[a] \in Nat /\ records[a] \in Nat /\ applied[a] <= 1
      /\ records[a] <= applied[a]
      /\ applied[a] = 1 /\ v.action = "renew" => records[a] = 1
  BY <1>1, <1>2 DEF PInv, AppliedOnce, AccountedOnce
<1>6. /\ s \in {"paid", "refunded"} => applied[a] = 1
      /\ applied[a] = 1 => s \in {"paid", "refunded", "cancelled"}
  BY DEF PInv, PaidIsApplied, OpenStatuses
<1>7. /\ records' \in [Attempt -> Nat] /\ applied' \in [Attempt \cup Key -> Nat]
      /\ \A b \in Attempt \ {a} : records'[b] = records[b]
      /\ \A x \in (Attempt \cup Key) \ {a} : applied'[x] = applied[x]
      /\ applied'[a] <= 1 /\ records'[a] <= applied'[a]
      /\ v.status \in {"paid", "refunded"} => applied'[a] = 1
      /\ applied'[a] = 1 => v.status \in {"paid", "refunded", "cancelled"}
      /\ applied'[a] = 1 /\ v.action = "renew" => records'[a] = 1
  BY <1>1, <1>2, <1>5, <1>6
<1> HIDE DEF v
<1>8. QED BY <1>2, <1>3, <1>4, <1>7, AttemptStep

LEMMA RememberedType ==
  ASSUME PInv, NEW a \in Attempt, NEW e \in Event
  PROVE  Remembered(a, e) \in Seq(Event)
<1> DEFINE all == Append(attempt[a].events, e)
           m   == IF Len(all) > EventMemory THEN Len(all) - EventMemory + 1 ELSE 1
<1>1. attempt[a].events \in Seq(Event)
  BY AttemptFacts DEF AttemptRecord
<1>2. all \in Seq(Event)
  BY <1>1, AppendProperties
<1>3. Len(all) \in Nat /\ \A i \in 1 .. Len(all) : all[i] \in Event
  BY <1>2
<1> HIDE DEF all
<1>4. m \in Int /\ m >= 1
  BY <1>3, PaymentsAssumption
<1> HIDE DEF m
<1>5. \A i \in m .. Len(all) : all[i] \in Event
  BY <1>3, <1>4
<1>6. SubSeq(all, m, Len(all)) \in Seq(Event)
  BY <1>3, <1>4, <1>5, SubSeqProperties
<1>7. QED BY <1>6 DEF Remembered, all, m

LEMMA StatusStepsKeepPInv ==
  ASSUME PInv,
         \/ \E q \in Payer : FinishCancel(q)
         \/ \E a \in Attempt, e \in Event : RepeatedEvent(a, e) \/ OtherEvent(a, e)
  PROVE  PInv'
<1>0. paying \in [Payer -> {Idle} \cup PaymentTask]
  BY DEF PInv, PaymentTypeOK
<1>1. CASE \E q \in Payer : FinishCancel(q)
  <2>1. PICK q \in Payer : FinishCancel(q)
    BY <1>1
  <2>2. paying[q].attempt \in Attempt
    BY <1>0, <2>1 DEF FinishCancel, PaymentTask, Idle
  <2> DEFINE a == paying[q].attempt
             es == attempt[a].events
  <2>3. attempt[a].status # "none" /\ "cancelled" \in Settled
    BY <2>1 DEF FinishCancel, PInv, Settled
  <2>4. es \in Seq(Event) /\ attempt \in [Attempt -> AttemptRecord]
    BY <2>2, AttemptFacts DEF AttemptRecord
  <2>5. attempt' = [attempt EXCEPT ![a].status = "cancelled", ![a].events = es]
    BY <2>1, <2>2, <2>4 DEF FinishCancel, SetStatus, AttemptRecord
  <2>6. /\ paying' \in [Payer -> {Idle} \cup PaymentTask]
        /\ \A p \in Payer : paying'[p] = paying[p] \/ paying'[p].pc # "cancelling"
        /\ UNCHANGED <<records, operation, applied>>
    BY <1>0, <2>1 DEF FinishCancel, Idle
  <2> HIDE DEF es, a
  <2>7. a \in Attempt
    BY <2>2 DEF a
  <2>8. QED BY <2>3, <2>4, <2>5, <2>6, <2>7, StatusStep
<1>2. CASE \E a \in Attempt, e \in Event : RepeatedEvent(a, e) \/ OtherEvent(a, e)
  <2>1. PICK a \in Attempt, e \in Event : RepeatedEvent(a, e) \/ OtherEvent(a, e)
    BY <1>2
  <2> DEFINE es == Remembered(a, e)
             s  == EventStatus[e]
  <2>2. es \in Seq(Event) /\ s \in {"paid", "failed", "refunded"} /\ s \in Settled
    BY RememberedType, PaymentsAssumption DEF Settled
  <2>3. /\ attempt' = [attempt EXCEPT ![a].status = s, ![a].events = es]
        /\ UNCHANGED <<records, operation, applied, paying>>
    BY <2>1 DEF RepeatedEvent, OtherEvent, Settle
  <2>4. \/ s = attempt[a].status
        \/ attempt[a].status \in OpenStatuses /\ s = "failed"
        \/ attempt[a].status = "paid" /\ s = "refunded"
    BY <2>1 DEF RepeatedEvent, OtherEvent, Transition, OpenStatuses
  <2>5. attempt[a].status # "none"
    BY <2>2, <2>4 DEF OpenStatuses
  <2> HIDE DEF es, s
  <2>6. QED BY <1>0, <2>2, <2>3, <2>4, <2>5, StatusStep
<1>3. QED BY <1>1, <1>2

\* An open attempt takes effect; its record may be missing for bought seats.
LEMMA PaidStep ==
  ASSUME PInv, NEW a \in Attempt, Open(a), NEW es \in Seq(Event),
         attempt' = [attempt EXCEPT ![a].status = "paid", ![a].events = es],
         Took(a),
         \/ records' = [records EXCEPT ![a] = @ + 1]
         \/ records' = records /\ attempt[a].action # "renew",
         UNCHANGED <<operation, paying>>
  PROVE  PInv'
<1> DEFINE v == [attempt[a] EXCEPT !.status = "paid", !.events = es]
<1>1. /\ attempt[a] \in AttemptRecord /\ attempt \in [Attempt -> AttemptRecord]
      /\ records \in [Attempt -> Nat] /\ applied \in [Attempt \cup Key -> Nat]
      /\ applied[a] = 0 /\ records[a] = 0
  BY AttemptFacts DEF Open, OpenStatuses
<1>2. /\ v \in AttemptRecord /\ v.status = "paid" /\ v.action = attempt[a].action
      /\ v.seatCount = attempt[a].seatCount
  <2>1. \A r \in AttemptRecord :
          /\ [r EXCEPT !.status = "paid", !.events = es] \in AttemptRecord
          /\ [r EXCEPT !.status = "paid", !.events = es].status = "paid"
          /\ [r EXCEPT !.status = "paid", !.events = es].action = r.action
          /\ [r EXCEPT !.status = "paid", !.events = es].seatCount = r.seatCount
    BY DEF AttemptRecord, Settled
  <2>2. QED BY <1>1, <2>1
<1>3. attempt' = [attempt EXCEPT ![a] = v]
  BY <1>1 DEF AttemptRecord
<1>4. v.seatCount \in SeatCounts
  BY <1>2 DEF PInv, Open, OpenStatuses
<1>5. /\ records' \in [Attempt -> Nat] /\ applied' \in [Attempt \cup Key -> Nat]
      /\ \A b \in Attempt \ {a} : records'[b] = records[b]
      /\ \A x \in (Attempt \cup Key) \ {a} : applied'[x] = applied[x]
      /\ applied'[a] = 1
  BY <1>1 DEF Took
<1>6. records'[a] = 1 \/ (records'[a] = 0 /\ v.action # "renew")
  BY <1>1, <1>2
<1>7. /\ paying' \in [Payer -> {Idle} \cup PaymentTask]
      /\ \A p \in Payer : paying'[p] = paying[p]
  BY DEF PInv, PaymentTypeOK
<1> HIDE DEF v
<1>8. /\ applied'[a] <= 1 /\ records'[a] <= applied'[a]
      /\ v.status \in {"paid", "refunded", "cancelled"} /\ v.status # "none"
      /\ v.action = "renew" => records'[a] = 1
  BY <1>2, <1>5, <1>6
<1>9. QED BY <1>2, <1>3, <1>4, <1>5, <1>7, <1>8, AttemptStep

LEMMA PaidStepsKeepPInv ==
  ASSUME PInv, NEW a \in Attempt,
         \/ ConfirmAttempt(a) \/ ConfirmSalonPayment(a) \/ ConfirmSeatUpdate(a)
         \/ \E e \in Event : PaidEvent(a, e)
  PROVE  PInv'
<1>1. CASE ConfirmSeatUpdate(a)
  <2> DEFINE es == attempt[a].events
  <2>1. es \in Seq(Event) /\ attempt \in [Attempt -> AttemptRecord]
    BY AttemptFacts DEF AttemptRecord
  <2>2. attempt' = [attempt EXCEPT ![a].status = "paid", ![a].events = es]
    BY <1>1, <2>1 DEF ConfirmSeatUpdate, SetStatus, AttemptRecord
  <2> HIDE DEF es
  <2>3. QED BY <1>1, <2>1, <2>2, PaidStep DEF ConfirmSeatUpdate
<1>2. CASE ~ConfirmSeatUpdate(a)
  <2>1. PICK es \in Seq(Event) : Open(a) /\ Finalize(a, es)
    <3>1. attempt[a].events \in Seq(Event)
      BY AttemptFacts DEF AttemptRecord
    <3>2. QED BY <1>2, <3>1, RememberedType
                 DEF ConfirmAttempt, ConfirmSalonPayment, PaidEvent
  <2>2. QED BY <2>1, PaidStep DEF Finalize, Settle
<1>3. QED BY <1>1, <1>2

LEMMA ActivateKeepsPInv ==
  ASSUME PInv, NEW k \in Key, NEW n \in SeatCounts, Activate(k, n)
  PROVE  PInv'
<1>1. /\ applied \in [Attempt \cup Key -> Nat] /\ applied[k] <= 1
      /\ k \notin operation /\ applied[k] # 1
      /\ applied' = [applied EXCEPT ![k] = @ + 1]
  BY DEF PInv, PaymentTypeOK, AppliedOnce, PaidIsApplied, Activate, Took
<1>2. /\ applied' \in [Attempt \cup Key -> Nat] /\ applied'[k] = 1
      /\ \A x \in (Attempt \cup Key) \ {k} : applied'[x] = applied[x]
  BY <1>1
<1>3. UNCHANGED <<attempt, records, paying>> /\ operation' = operation \cup {k}
  BY DEF Activate
<1>4. PaymentTypeOK'
  BY <1>2, <1>3 DEF PInv, PaymentTypeOK
<1>5. \A a \in Attempt : applied'[a] = applied[a]
  BY <1>2, PaymentsAssumption
<1>6. AppliedOnce'
  BY <1>2 DEF PInv, AppliedOnce
<1>7. PaidIsApplied' /\ AccountedOnce'
  BY <1>2, <1>3, <1>5 DEF PInv, PaidIsApplied, AccountedOnce
<1>8. QED BY <1>3, <1>4, <1>6, <1>7 DEF PInv

----------------------------------------------------------------------------
\* A step of the payments is a step of the seats or leaves them alone.
LEMMA StepsAreSeatSteps ==
  ASSUME PaymentsInv, [PaymentsNext]_vars
  PROVE  [Next]_seatVars
<1>1. CASE UNCHANGED vars
  BY <1>1 DEF vars, seatVars
<1>2. CASE Next
  BY <1>2
<1>3. CASE \E q \in Payer :
             \/ \E action \in Action, n \in SeatCounts : StartIntent(q, action, n)
             \/ \E a \in Attempt : FinishIntent(q, a) \/ StartCancel(q, a)
             \/ FinishCancel(q)
             \/ AbandonPayment(q)
  BY <1>3 DEF StartIntent, FinishIntent, StartCancel, FinishCancel, AbandonPayment, seatVars
<1>4. CASE \E a \in Attempt, e \in Event : RepeatedEvent(a, e) \/ OtherEvent(a, e)
  BY <1>4 DEF RepeatedEvent, OtherEvent, seatVars
<1>5. CASE \E a \in Attempt : \/ ConfirmAttempt(a)
                              \/ ConfirmSalonPayment(a)
                              \/ ConfirmSeatUpdate(a)
                              \/ \E e \in Event : PaidEvent(a, e)
  <2>1. PICK a \in Attempt : /\ Open(a)
                             /\ \/ Extend(attempt[a].seatCount)
                                \/ BuySeats(attempt[a].seatCount)
    BY <1>5 DEF ConfirmAttempt, ConfirmSalonPayment, ConfirmSeatUpdate, PaidEvent, Finalize
  <2>2. attempt[a].seatCount \in SeatCounts
    BY <2>1 DEF PaymentsInv, Open, OpenStatuses
  <2>3. QED BY <2>1, <2>2 DEF Next
<1>6. CASE \E k \in Key, n \in SeatCounts : Activate(k, n)
  BY <1>6 DEF Activate, Next
<1>7. QED BY <1>1, <1>2, <1>3, <1>4, <1>5, <1>6 DEF PaymentsNext, PaymentSteps

LEMMA PaymentsInvSplits == PaymentsInv <=> IInv /\ PInv
BY DEF PaymentsInv, PInv

LEMMA StepKeepsPaymentsInv ==
  ASSUME PaymentsInv, [PaymentsNext]_vars
  PROVE  PaymentsInv'
<1>1. IInv'
  BY PaymentsInvSplits, StepsAreSeatSteps, StepKeepsIInv
<1>2. PInv /\ now \in Nat
  BY PaymentsInvSplits DEF IInv, TypeOK
<1>3. PInv'
  <2>1. CASE UNCHANGED <<attempt, records, operation, paying, applied>>
    BY <1>2, <2>1 DEF PInv, PaymentTypeOK, AppliedOnce, PaidIsApplied, AccountedOnce
  <2>2. CASE \E q \in Payer :
               \/ \E action \in Action, n \in SeatCounts : StartIntent(q, action, n)
               \/ \E a \in Attempt : StartCancel(q, a)
               \/ AbandonPayment(q)
    BY <1>2, <2>2, RequestStepsKeepPInv
  <2>3. CASE \E q \in Payer, a \in Attempt : FinishIntent(q, a)
    BY <1>2, <2>3, FinishIntentKeepsPInv
  <2>4. CASE \/ \E q \in Payer : FinishCancel(q)
             \/ \E a \in Attempt, e \in Event : RepeatedEvent(a, e) \/ OtherEvent(a, e)
    BY <1>2, <2>4, StatusStepsKeepPInv
  <2>5. CASE \E a \in Attempt : \/ ConfirmAttempt(a)
                                \/ ConfirmSalonPayment(a)
                                \/ ConfirmSeatUpdate(a)
                                \/ \E e \in Event : PaidEvent(a, e)
    BY <1>2, <2>5, PaidStepsKeepPInv
  <2>6. CASE \E k \in Key, n \in SeatCounts : Activate(k, n)
    BY <1>2, <2>6, ActivateKeepsPInv
  <2>7. QED BY <2>1, <2>2, <2>3, <2>4, <2>5, <2>6 DEF PaymentsNext, PaymentSteps, vars
<1>4. PaymentsInv' <=> IInv' /\ PInv'
  BY PaymentsInvSplits, PTL
<1>5. QED BY <1>1, <1>3, <1>4

LEMMA InitPaymentsInv == ASSUME PaymentsInit PROVE PaymentsInv
<1>1. IInv
  BY InitIInv DEF PaymentsInit
<1>2. QED BY <1>1, InitPInv, PaymentsInvSplits

----------------------------------------------------------------------------
\* The inductive invariant: that of the seats, and what the payments keep.
THEOREM PaymentsInvariance == PaymentsSpec => []PaymentsInv
<1>1. PaymentsInit => PaymentsInv
  BY InitPaymentsInv
<1>2. PaymentsInv /\ [PaymentsNext]_vars => PaymentsInv'
  BY StepKeepsPaymentsInv
<1>3. QED BY <1>1, <1>2, PTL DEF PaymentsSpec

\* The documents stay within their schemas.
THEOREM PaymentsTypes == PaymentsSpec => [](TypeOK /\ PaymentTypeOK)
<1>1. PaymentsInv => TypeOK /\ PaymentTypeOK
  BY DEF PaymentsInv, IInv
<1>2. QED BY <1>1, PaymentsInvariance, PTL

\* No payment and no activation takes effect twice, however it is confirmed.
THEOREM PaymentsApplyOnce == PaymentsSpec => []AppliedOnce
BY PaymentsInvariance, PTL DEF PaymentsInv

\* What is paid took effect, and what took effect is paid, refunded or was
\* cancelled by a stale request.
THEOREM PaidTakesEffect == PaymentsSpec => []PaidIsApplied
BY PaymentsInvariance, PTL DEF PaymentsInv

\* A renewal that took effect has one record in the accounts.
THEOREM PaymentsAreAccounted == PaymentsSpec => []AccountedOnce
BY PaymentsInvariance, PTL DEF PaymentsInv

\* However payments are confirmed, the subscription and its seats behave as
\* SalonSeats says, fairness included: the payments refine it.
THEOREM PaymentsRefineSeats == PaymentsSpec => SeatsSpec
<1>1. PaymentsInit => Init
  BY DEF PaymentsInit
<1>2. PaymentsInv /\ [PaymentsNext]_vars => [Next]_seatVars
  BY StepsAreSeatSteps
<1>3. QED
  BY <1>1, <1>2, PaymentsInvariance, PTL DEF PaymentsSpec, SeatsSpec, Spec

\* A status changes as the table of transitions allows, or by a cancellation that
\* had read the attempt as pending.
THEOREM StatusHolds == PaymentsSpec => StatusFollowsTable
<1> DEFINE Follows(a) ==
      LET old == attempt[a].status
          new == attempt'[a].status
      IN \/ new = old
         \/ old = "none"
         \/ <<old, new>> \in Transition
         \/ /\ new = "cancelled"
            /\ \E q \in Payer : paying[q] = [pc |-> "cancelling", attempt |-> a]
<1>1. PaymentsInv /\ [PaymentsNext]_vars => [\A a \in Attempt : Follows(a)]_vars
  <2> SUFFICES ASSUME PaymentsInv, PaymentsNext, NEW a \in Attempt
               PROVE  Follows(a)
    OBVIOUS
  <2>0. /\ attempt \in [Attempt -> AttemptRecord]
        /\ paying \in [Payer -> {Idle} \cup PaymentTask]
    BY DEF PaymentsInv, PaymentTypeOK, AttemptRecord
  <2>1. CASE UNCHANGED attempt
    BY <2>1
  <2>2. CASE \E q \in Payer, b \in Attempt : FinishIntent(q, b)
    BY <2>0, <2>2 DEF FinishIntent
  <2>3. CASE \E q \in Payer : FinishCancel(q)
    <3>1. PICK q \in Payer : FinishCancel(q)
      BY <2>3
    <3>2. paying[q] = [pc |-> "cancelling", attempt |-> paying[q].attempt]
      BY <2>0, <3>1 DEF FinishCancel, PaymentTask, Idle
    <3>3. attempt' = [attempt EXCEPT ![paying[q].attempt].status = "cancelled"]
      BY <3>1 DEF FinishCancel, SetStatus
    <3>4. CASE a = paying[q].attempt
      BY <2>0, <3>2, <3>3, <3>4 DEF AttemptRecord
    <3>5. CASE a # paying[q].attempt
      BY <2>0, <3>3, <3>5
    <3>6. QED BY <3>4, <3>5
  <2>4. CASE \E b \in Attempt, e \in Event : RepeatedEvent(b, e) \/ OtherEvent(b, e)
    <3>1. PICK b \in Attempt, e \in Event : RepeatedEvent(b, e) \/ OtherEvent(b, e)
      BY <2>4
    <3>2. PICK s, es : /\ attempt' = [attempt EXCEPT ![b].status = s, ![b].events = es]
                       /\ s = attempt[b].status \/ <<attempt[b].status, s>> \in Transition
      BY <3>1 DEF RepeatedEvent, OtherEvent, Settle
    <3>3. QED BY <2>0, <3>2 DEF AttemptRecord
  <2>5. CASE \E b \in Attempt : \/ ConfirmAttempt(b)
                                \/ ConfirmSalonPayment(b)
                                \/ ConfirmSeatUpdate(b)
                                \/ \E e \in Event : PaidEvent(b, e)
    <3>1. PICK b \in Attempt : /\ Open(b)
                               /\ \/ SetStatus(b, "paid")
                                  \/ \E es : Settle(b, "paid", es)
      BY <2>5 DEF ConfirmAttempt, ConfirmSalonPayment, ConfirmSeatUpdate, PaidEvent, Finalize
    <3>2. <<attempt[b].status, "paid">> \in Transition
      BY <3>1 DEF Open, OpenStatuses, Transition
    <3>3. attempt'[b].status = "paid" /\ \A c \in Attempt : c # b => attempt'[c] = attempt[c]
      BY <2>0, <3>1 DEF SetStatus, Settle, AttemptRecord
    <3>4. QED BY <3>2, <3>3
  <2>6. QED
    BY <2>1, <2>2, <2>3, <2>4, <2>5
    DEF PaymentsNext, PaymentSteps, StartIntent, StartCancel, AbandonPayment, Activate
<1>2. QED BY <1>1, PaymentsInvariance, PTL DEF PaymentsSpec, StatusFollowsTable
=============================================================================
