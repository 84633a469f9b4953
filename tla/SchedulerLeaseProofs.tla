------------------------ MODULE SchedulerLeaseProofs ------------------------
(***************************************************************************)
(* Proofs about SchedulerLease, for any number of instances, any clock     *)
(* skew and any lease duration: fencing does not depend on time at all.    *)
(***************************************************************************)
EXTENDS SchedulerLease, SequenceTheorems, TLAPS

LeaseDoc == [owner : Runner \cup {NoOne}, token : Nat, expiry : Nat, seq : Nat]

LEMMA FreshType == Fresh \in Local
  BY DEF Fresh, Local

LEMMA InitIInv == Init => IInv
<1> SUFFICES ASSUME Init PROVE IInv
  OBVIOUS
<1>1. TypeOK
  <2>1. lease \in LeaseDoc
    BY DEF Init, NoLease, LeaseDoc
  <2>2. local \in [Runner -> Local]
    BY FreshType DEF Init
  <2>3. now \in 0 .. Horizon /\ log \in Seq(Entry)
    BY ConstantsAssumption DEF Init, ConstantsAssumption
  <2>4. QED BY <2>1, <2>2, <2>3 DEF TypeOK, LeaseDoc
<1>2. \A r \in Runner : local[r] = Fresh
  BY DEF Init
<1>3. lease.token = 0 /\ lease.seq = 0 /\ log = <<>> /\ Len(log) = 0
  BY DEF Init, NoLease
<1>4. OneRunnerPerToken /\ OpenWriteOwns /\ HolderAgrees /\ WriteInRun /\ TokenBound
  BY <1>2, <1>3 DEF Fresh, OneRunnerPerToken, OpenWriteOwns, HolderAgrees, WriteInRun, TokenBound, Engaged
<1>5. LogIsFenced /\ SequenceCountsLog /\ LogBound
  BY <1>3 DEF LogIsFenced, SequenceCountsLog, LogBound
<1>6. QED BY <1>1, <1>4, <1>5 DEF IInv

LEMMA LogEntry ==
  ASSUME TypeOK, NEW i \in 1 .. Len(log)
  PROVE  log[i] \in Entry
<1>1. log \in Seq(Entry)
  BY DEF TypeOK
<1>2. QED BY <1>1

\* What a runner may do to its own state without touching who owns the lease:
\* it keeps its token or forgets everything, and does not become engaged.
Quiet(r, l) ==
  /\ l \in Local
  /\ \/ l.token = local[r].token
     \/ l.token = 0 /\ l.pc = "idle"
  /\ l.pc \in {"acquired", "running", "draining", "releasing"} => Engaged(r) /\ l.token = local[r].token
  /\ l.write # "none" => l.pc = "running"
  /\ l.write = "open" => Owns(r)

LEMMA QuietStep ==
  ASSUME IInv, NEW r \in Runner, NEW l, Quiet(r, l), local' = [local EXCEPT ![r] = l],
         lease' \in LeaseDoc,
         lease'.owner = lease.owner, lease'.token = lease.token, lease'.seq = lease.seq,
         log' = log, now' \in 0 .. Horizon
  PROVE  IInv'
<1> USE DEF IInv
<1>1. \A s \in Runner : local'[s] = IF s = r THEN l ELSE local[s]
  BY DEF TypeOK
<1>2. TypeOK'
  <2>1. local' \in [Runner -> Local]
    BY DEF TypeOK, Quiet
  <2>2. QED BY <2>1 DEF TypeOK, LeaseDoc
<1>3. \A s \in Runner : Engaged(s)' => Engaged(s) /\ local'[s].token = local[s].token
  BY <1>1 DEF Engaged, Quiet
<1>4. OneRunnerPerToken'
  BY <1>3 DEF OneRunnerPerToken
<1>5. OpenWriteOwns'
  <2> SUFFICES ASSUME NEW s \in Runner, local'[s].write = "open" PROVE Owns(s)'
    BY DEF OpenWriteOwns
  <2>1. CASE s # r
    BY <2>1, <1>1 DEF OpenWriteOwns, Owns
  <2>2. CASE s = r
    BY <2>2, <1>1 DEF Quiet, Owns
  <2>3. QED BY <2>1, <2>2
<1>6. TokenBound'
  BY <1>1 DEF TokenBound, Quiet, TypeOK
<1>7. HolderAgrees'
  BY <1>3 DEF HolderAgrees
<1>8. WriteInRun'
  BY <1>1 DEF WriteInRun, Quiet
<1>9. LogIsFenced' /\ SequenceCountsLog' /\ LogBound'
  BY DEF LogIsFenced, SequenceCountsLog, LogBound
<1>10. QED BY <1>2, <1>4, <1>5, <1>6, <1>7, <1>8, <1>9

\* The lease goes to r under a token that nobody has.
LEMMA NewToken ==
  ASSUME IInv, NEW r \in Runner, NEW k \in Nat, k = lease.token + 1,
         local[r].write = "none",
         NEW l \in Local, l.token = k, l.pc = "acquired", l.write = "none",
         local' = [local EXCEPT ![r] = l],
         lease' \in LeaseDoc, lease'.owner = r, lease'.token = k,
         lease'.seq = Len(log), ~ Locked,
         log' = log, now' = now
  PROVE  IInv'
<1> USE DEF IInv
<1>1. \A s \in Runner : local'[s] = IF s = r THEN l ELSE local[s]
  BY DEF TypeOK
<1>2. TypeOK'
  BY DEF TypeOK, LeaseDoc
<1>3. \A s \in Runner : s # r => local'[s].token < k
  <2> SUFFICES ASSUME NEW s \in Runner, s # r PROVE local[s].token < k
    BY <1>1
  <2>1. local[s] \in Local /\ lease.token \in Nat /\ local[s].token <= lease.token
    BY DEF TypeOK, TokenBound
  <2>2. QED BY <2>1 DEF Local
<1>4. OneRunnerPerToken'
  <2> SUFFICES ASSUME NEW s \in Runner, NEW t \in Runner, Engaged(s)', Engaged(t)',
                      local'[s].token = local'[t].token
               PROVE  s = t
    BY DEF OneRunnerPerToken
  <2>1. CASE s # r /\ t # r
    BY <2>1, <1>1 DEF OneRunnerPerToken, Engaged
  <2>2. CASE s = r \/ t = r
    BY <2>2, <1>1, <1>3
  <2>3. QED BY <2>1, <2>2
<1>5. OpenWriteOwns'
  BY <1>1 DEF OpenWriteOwns, Locked
<1>6. TokenBound'
  <2> SUFFICES ASSUME NEW s \in Runner PROVE local'[s].token <= k
    BY DEF TokenBound
  <2>1. local'[s] \in Local
    BY <1>2 DEF TypeOK
  <2>2. QED BY <2>1, <1>1, <1>3 DEF Local
<1>7. HolderAgrees'
  <2> SUFFICES ASSUME NEW s \in Runner, Engaged(s)'
               PROVE  local'[s].token > 0 /\ (local'[s].token = lease'.token => lease'.owner = s)
    BY DEF HolderAgrees
  <2>1. CASE s = r
    BY <2>1, <1>1 DEF TypeOK
  <2>2. CASE s # r
    BY <2>2, <1>1, <1>3 DEF HolderAgrees, Engaged
  <2>3. QED BY <2>1, <2>2
<1>8. WriteInRun'
  BY <1>1 DEF WriteInRun
<1>9. LogBound'
  <2> SUFFICES ASSUME NEW i \in 1 .. Len(log) 
               PROVE  0 < log[i].in /\ log[i].in <= k /\ log[i].in # k
    BY DEF LogBound
  <2>1. log[i].in \in Nat /\ lease.token \in Nat
    BY LogEntry DEF TypeOK, Entry
  <2>2. QED BY <2>1 DEF LogBound
<1>10. LogIsFenced' /\ SequenceCountsLog'
  BY DEF LogIsFenced, SequenceCountsLog
<1>11. QED BY <1>2, <1>4, <1>5, <1>6, <1>7, <1>8, <1>9, <1>10

LEMMA CommitStep == ASSUME IInv, NEW r \in Runner, CommitWrite(r) PROVE IInv'
<1> USE DEF IInv
<1> DEFINE w == [local[r] EXCEPT !.write = "none", !.writeAt = 0]
<1> DEFINE e == [by |-> r, in |-> local[r].token]
<1>1. /\ w \in Local /\ w.token = local[r].token /\ w.pc = local[r].pc /\ w.write = "none"
      /\ local[r] \in Local
  <2>1. local[r] \in Local
    BY DEF TypeOK
  <2>2. QED BY <2>1 DEF Local
<1>2. \A s \in Runner : local'[s] = IF s = r THEN w ELSE local[s]
  BY DEF CommitWrite, SetLocal, TypeOK
<1>3. Owns(r) /\ local[r].pc = "running" /\ 0 < local[r].token
  BY DEF CommitWrite, OpenWriteOwns, WriteInRun, HolderAgrees, Engaged
<1>4. lease' \in LeaseDoc /\ lease'.owner = lease.owner /\ lease'.token = lease.token
      /\ lease'.seq = lease.seq + 1
  BY DEF CommitWrite, TypeOK, LeaseDoc
<1>5. e \in Entry
  BY <1>1 DEF Local, Entry
<1>6. /\ log' \in Seq(Entry)
      /\ Len(log') = Len(log) + 1
      /\ \A i \in 1 .. Len(log) : log'[i] = log[i]
      /\ log'[Len(log) + 1] = e
      /\ Len(log) \in Nat
  BY <1>5 DEF CommitWrite, TypeOK
<1> HIDE DEF w, e
<1>7. TypeOK'
  <2>1. local' \in [Runner -> Local]
    BY <1>1 DEF CommitWrite, SetLocal, TypeOK, w
  <2>2. now' = now
    BY DEF CommitWrite
  <2>3. QED BY <1>4, <1>6, <2>1, <2>2 DEF TypeOK, LeaseDoc
<1>8. OneRunnerPerToken' /\ WriteInRun' /\ HolderAgrees' /\ TokenBound' /\ OpenWriteOwns'
  BY <1>1, <1>2, <1>4 DEF OneRunnerPerToken, WriteInRun, HolderAgrees, TokenBound,
                          OpenWriteOwns, Owns, Engaged
<1>9. e.in = lease.token /\ e.by = lease.owner
  BY <1>3 DEF e, Owns
<1>10. LogBound'
  <2> SUFFICES ASSUME NEW i \in 1 .. (Len(log) + 1)
               PROVE  /\ 0 < log'[i].in /\ log'[i].in <= lease.token
                      /\ log'[i].in = lease.token => log'[i].by = lease.owner
    BY <1>4, <1>6 DEF LogBound
  <2>1. CASE i \in 1 .. Len(log)
    BY <2>1, <1>6 DEF LogBound
  <2>2. CASE i = Len(log) + 1
    <3>1. log'[i] = e /\ lease.token \in Nat /\ lease.token > 0
      BY <2>2, <1>3, <1>6 DEF Owns, TypeOK
    <3>2. QED BY <3>1, <1>9
  <2>3. QED BY <2>1, <2>2, <1>6
<1>11. LogIsFenced'
  <2> SUFFICES ASSUME NEW i \in 1 .. (Len(log) + 1), NEW j \in 1 .. (Len(log) + 1), i < j
               PROVE  log'[i].in < log'[j].in \/ log'[i] = log'[j]
    BY <1>6 DEF LogIsFenced
  <2>1. CASE j \in 1 .. Len(log)
    BY <2>1, <1>6 DEF LogIsFenced
  <2>2. CASE j = Len(log) + 1
    <3>1. i \in 1 .. Len(log) /\ log'[i] = log[i] /\ log'[j] = e
      BY <2>2, <1>6
    <3>2. log[i] \in Entry /\ lease.token \in Nat /\ log[i].in \in Nat
      BY <3>1, LogEntry DEF TypeOK, Entry
    <3>3. CASE log[i].in = lease.token
      <4>1. log[i].by = e.by /\ log[i].in = e.in
        BY <3>1, <3>3, <1>9 DEF LogBound
      <4>2. log[i] = e
        BY <4>1, <3>2, <1>5 DEF Entry
      <4>3. QED BY <4>2, <3>1
    <3>4. CASE log[i].in # lease.token
      <4>1. log[i].in <= lease.token
        BY <3>1 DEF LogBound
      <4>2. log[i].in < e.in
        BY <4>1, <3>2, <3>4, <1>9
      <4>3. QED BY <4>2, <3>1
    <3>5. QED BY <3>3, <3>4
  <2>3. QED BY <1>6, <2>1, <2>2
<1>12. SequenceCountsLog'
  BY <1>4, <1>6 DEF SequenceCountsLog
<1>13. QED BY <1>7, <1>8, <1>10, <1>11, <1>12

LEMMA CreateStep == ASSUME IInv, NEW r \in Runner, CreateLease(r) PROVE IInv'
<1>1. CASE lease.token = 0
  <2> DEFINE l == [local[r] EXCEPT !.pc = "acquired", !.token = 1]
  <2>1. local[r] \in Local /\ local[r].pc = "create" /\ local[r].at + TTL \in Nat
    <3>1. local[r] \in Local /\ local[r].pc = "create"
      BY DEF IInv, TypeOK, CreateLease
    <3>2. QED BY <3>1, ConstantsAssumption DEF ConstantsAssumption, Local
  <2>2. local[r].write = "none"
    BY <2>1 DEF IInv, WriteInRun
  <2>3. l \in Local /\ l.token = 1 /\ l.pc = "acquired" /\ l.write = "none"
    BY <2>1, <2>2 DEF Local
  <2>4. Len(log) = 0
    <3>1. Len(log) \in Nat
      BY DEF IInv, TypeOK
    <3>2. Len(log) > 0 => log[1].in \in Nat /\ 0 < log[1].in /\ log[1].in <= 0
      BY <1>1, <3>1, LogEntry DEF IInv, LogBound, Entry
    <3>3. QED BY <3>1, <3>2
  <2>5. ~ Locked
    <3> SUFFICES ASSUME NEW s \in Runner, local[s].write = "open" PROVE FALSE
      BY DEF Locked
    <3>1. local[s].token > 0 /\ local[s].token <= 0
      BY <1>1 DEF IInv, WriteInRun, HolderAgrees, TokenBound, Engaged
    <3>2. local[s].token \in Nat
      BY DEF IInv, TypeOK, Local
    <3>3. QED BY <3>1, <3>2
  <2>6. /\ lease' = [owner |-> r, token |-> 1, expiry |-> local[r].at + TTL, seq |-> 0]
        /\ local' = [local EXCEPT ![r] = l]
        /\ log' = log /\ now' = now
    BY <1>1 DEF CreateLease, SetLocal
  <2>7. lease' \in LeaseDoc /\ lease'.owner = r /\ lease'.token = 1 /\ lease'.seq = 0
    BY <2>1, <2>6 DEF LeaseDoc
  <2>8. 1 \in Nat /\ 1 = lease.token + 1
    BY <1>1
  <2>9. lease'.seq = Len(log)
    BY <2>4, <2>7
  <2> HIDE DEF l
  <2>10. QED BY <2>2, <2>3, <2>5, <2>6, <2>7, <2>8, <2>9, NewToken
<1>2. CASE lease.token # 0
  <2>1. Quiet(r, Ended(local[r])) /\ local' = [local EXCEPT ![r] = Ended(local[r])]
    BY <1>2, FreshType DEF CreateLease, SetLocal, IInv, TypeOK, WriteInRun, Quiet, Ended, Local, Fresh
  <2>2. lease' = lease /\ lease \in LeaseDoc /\ log' = log /\ now' = now /\ now \in 0 .. Horizon
    BY <1>2 DEF CreateLease, IInv, TypeOK, LeaseDoc
  <2>3. QED BY <2>1, <2>2, QuietStep
<1>3. QED BY <1>1, <1>2

LEMMA TakeOverStep == ASSUME IInv, NEW r \in Runner, TakeOver(r) PROVE IInv'
<1>1. CASE StillFree(r)
  <2> DEFINE k == lease.token + 1
  <2> DEFINE e == local[r].at + TTL
  <2> DEFINE l == [local[r] EXCEPT !.pc = "acquired", !.token = k]
  <2>1. local[r] \in Local /\ local[r].pc = "claim" /\ lease \in LeaseDoc
    BY DEF IInv, TypeOK, TakeOver, LeaseDoc
  <2>2. local[r].write = "none"
    BY <2>1 DEF IInv, WriteInRun
  <2>3. e \in Nat /\ k \in Nat /\ k = lease.token + 1
    BY <2>1, ConstantsAssumption DEF ConstantsAssumption, Local, LeaseDoc
  <2>4. /\ lease' = [lease EXCEPT !.owner = r, !.token = k, !.expiry = e]
        /\ local' = [local EXCEPT ![r] = l]
        /\ log' = log /\ now' = now /\ ~ Locked
    BY <1>1 DEF TakeOver, SetLocal
  <2> HIDE DEF k, e
  <2>5. l \in Local /\ l.token = k /\ l.pc = "acquired" /\ l.write = "none"
    BY <2>1, <2>2, <2>3 DEF Local
  <2>6. lease' \in LeaseDoc /\ lease'.owner = r /\ lease'.token = k /\ lease'.seq = lease.seq
    BY <2>1, <2>3, <2>4 DEF LeaseDoc
  <2>7. lease'.seq = Len(log)
    BY <2>6 DEF IInv, SequenceCountsLog
  <2> HIDE DEF l
  <2>8. QED BY <2>2, <2>3, <2>4, <2>5, <2>6, <2>7, NewToken
<1>2. CASE ~ StillFree(r)
  <2>1. Quiet(r, Ended(local[r])) /\ local' = [local EXCEPT ![r] = Ended(local[r])]
    BY <1>2, FreshType DEF TakeOver, SetLocal, IInv, TypeOK, WriteInRun, Quiet, Ended, Local, Fresh
  <2>2. lease' = lease /\ lease \in LeaseDoc /\ log' = log /\ now' = now /\ now \in 0 .. Horizon
    BY <1>2 DEF TakeOver, IInv, TypeOK, LeaseDoc
  <2>3. QED BY <2>1, <2>2, QuietStep
<1>3. QED BY <1>1, <1>2

\* The steps of a runner that leave the lease document alone.
LEMMA LocalStep ==
  ASSUME IInv, NEW r \in Runner, NEW l, Quiet(r, l), SetLocal(r, l), UNCHANGED <<lease, log, now>>
  PROVE  IInv'
<1>1. lease \in LeaseDoc /\ now \in 0 .. Horizon
  BY DEF IInv, TypeOK, LeaseDoc
<1>2. QED BY <1>1, QuietStep DEF SetLocal

LEMMA RunnerFacts ==
  ASSUME IInv, NEW r \in Runner
  PROVE  /\ local[r] \in Local /\ Clock(r) \in Nat /\ Clock(r) + RenewDelay \in Nat
         /\ local[r].write # "none" => local[r].pc = "running"
         /\ local[r].write = "open" => Owns(r)
         /\ lease \in LeaseDoc /\ lease.owner \in Runner \cup {NoOne} /\ lease.token \in Nat
<1>1. now \in Nat /\ Skew[r] \in Nat /\ RenewDelay \in Nat
  BY ConstantsAssumption DEF IInv, TypeOK, ConstantsAssumption
<1>2. Clock(r) \in Nat /\ Clock(r) + RenewDelay \in Nat
  BY <1>1 DEF Clock
<1>3. QED BY <1>2 DEF IInv, TypeOK, WriteInRun, OpenWriteOwns, LeaseDoc

\* A tick that ends keeps the token it knows and writes nothing.
LEMMA EndedFacts ==
  ASSUME IInv, NEW r \in Runner
  PROVE  /\ Ended(local[r]) \in Local
         /\ Ended(local[r]).token = local[r].token
         /\ Ended(local[r]).pc = "idle"
         /\ Ended(local[r]).write = local[r].write
  BY RunnerFacts DEF Local, Ended, Fresh

LEMMA AcquireStep == ASSUME IInv, NEW r \in Runner, Acquire(r) PROVE IInv'
<1> USE RunnerFacts
<1>1. CASE StartTick(r)
  <2>1. Quiet(r, [local[r] EXCEPT !.pc = "read", !.at = Clock(r)])
    BY <1>1 DEF StartTick, Quiet, Local
  <2>2. QED BY <1>1, <2>1, LocalStep DEF StartTick
<1>2. CASE ReadLease(r)
  <2>1. Quiet(r, [local[r] EXCEPT !.pc = "create"])
    BY <1>2 DEF ReadLease, Quiet, Local
  <2>2. Quiet(r, Ended(local[r]))
    BY <1>2, EndedFacts DEF ReadLease, Quiet
  <2>3. [owner |-> lease.owner, token |-> lease.token] \in [owner : Runner \cup {NoOne}, token : Nat]
    OBVIOUS
  <2>4. Quiet(r, [local[r] EXCEPT
             !.pc = "claim", !.seen = [owner |-> lease.owner, token |-> lease.token]])
    BY <1>2, <2>3 DEF ReadLease, Quiet, Local
  <2>5. QED BY <1>2, <2>1, <2>2, <2>4, LocalStep DEF ReadLease
<1>3. CASE CreateLease(r)
  BY <1>3, CreateStep
<1>4. CASE TakeOver(r)
  BY <1>4, TakeOverStep
<1>5. CASE FailAcquire(r)
  <2>1. Quiet(r, Ended(local[r]))
    BY <1>5, EndedFacts DEF FailAcquire, Quiet
  <2>2. QED BY <1>5, <2>1, LocalStep DEF FailAcquire
<1>6. CASE BeginJob(r)
  <2>1. Fresh.seen \in [owner : Runner \cup {NoOne}, token : Nat]
    BY DEF Fresh
  <2>2. Quiet(r, [local[r] EXCEPT
            !.pc = "running", !.at = 0, !.seen = Fresh.seen, !.lost = FALSE,
            !.renewal = "timer", !.renewAt = Clock(r) + RenewDelay])
    BY <1>6, <2>1 DEF BeginJob, Quiet, Local, Engaged
  <2>3. Quiet(r, Ended(local[r]))
    BY <1>6 DEF BeginJob, Quiet, Local, Ended, Fresh
  <2>4. QED BY <1>6, <2>2, <2>3, LocalStep DEF BeginJob
<1>7. QED BY <1>1, <1>2, <1>3, <1>4, <1>5, <1>6 DEF Acquire

\* NoTimer and Aborted change nothing that Quiet looks at.
LEMMA AbortedIsQuiet ==
  ASSUME IInv, NEW r \in Runner, NEW l, Quiet(r, l)
  PROVE  Quiet(r, NoTimer(l)) /\ Quiet(r, Aborted(l))
<1>1. ASSUME NEW k, Quiet(r, k) PROVE Quiet(r, NoTimer(k))
  <2> DEFINE q == [k EXCEPT !.renewal = "none", !.renewAt = 0]
  <2>1. k \in Local
    BY <1>1 DEF Quiet
  <2>2. q \in Local /\ q.token = k.token /\ q.pc = k.pc /\ q.write = k.write
    BY <2>1 DEF Local
  <2> HIDE DEF q
  <2>3. Quiet(r, q)
    BY <1>1, <2>2 DEF Quiet
  <2>4. QED BY <1>1, <2>3 DEF NoTimer, q
<1>2. Quiet(r, [l EXCEPT !.lost = TRUE])
  BY DEF Quiet, Local
<1>3. QED BY <1>1, <1>2 DEF Aborted

LEMMA SelfIsQuiet == ASSUME IInv, NEW r \in Runner PROVE Quiet(r, local[r])
  BY RunnerFacts DEF Quiet, Engaged

LEMMA RenewalStep == ASSUME IInv, NEW r \in Runner, Renewal(r) PROVE IInv'
<1> USE RunnerFacts
<1> DEFINE answered == [local[r] EXCEPT !.renewal = "none", !.renewAt = 0]
<1>1. Quiet(r, answered) /\ Quiet(r, Aborted(answered))
  <2>1. Quiet(r, answered)
    BY DEF Quiet, Local, Engaged
  <2>2. QED BY <2>1, AbortedIsQuiet
<1>2. CASE SendRenewal(r)
  <2>1. Quiet(r, [local[r] EXCEPT !.renewal = "sent", !.renewAt = Clock(r)])
    BY DEF Quiet, Local, Engaged
  <2>2. QED BY <1>2, <2>1, LocalStep DEF SendRenewal
<1>3. CASE FailRenewal(r)
  BY <1>1, <1>3, LocalStep DEF FailRenewal
<1>4. CASE LandRenewal(r)
  <2> DEFINE rearmed == [answered EXCEPT !.renewal = "timer", !.renewAt = Clock(r) + RenewDelay]
  <2>1. Quiet(r, rearmed)
    BY DEF Quiet, Local, Engaged
  <2>2. PICK l : Quiet(r, l) /\ SetLocal(r, l)
    <3> HIDE DEF answered
    <3>1. \/ SetLocal(r, rearmed) \/ SetLocal(r, answered) \/ SetLocal(r, Aborted(answered))
      BY <1>4 DEF LandRenewal, answered
    <3>2. QED BY <3>1, <1>1, <2>1
  <2>3. /\ lease' \in LeaseDoc /\ lease'.owner = lease.owner /\ lease'.token = lease.token
        /\ lease'.seq = lease.seq
    <3>1. local[r].renewAt + TTL \in Nat
      BY ConstantsAssumption DEF ConstantsAssumption, Local
    <3>2. lease' = lease \/ lease' = [lease EXCEPT !.expiry = local[r].renewAt + TTL]
      BY <1>4 DEF LandRenewal
    <3>3. QED BY <3>1, <3>2 DEF LeaseDoc
  <2>4. log' = log /\ now' \in 0 .. Horizon
    BY <1>4 DEF LandRenewal, IInv, TypeOK
  <2>5. QED BY <2>2, <2>3, <2>4, QuietStep DEF SetLocal
<1>5. QED BY <1>2, <1>3, <1>4 DEF Renewal

LEMMA JobStep == ASSUME IInv, NEW r \in Runner, Job(r) PROVE IInv'
<1> USE RunnerFacts
<1> DEFINE closed == [local[r] EXCEPT !.write = "none", !.writeAt = 0]
<1>1. Quiet(r, closed) /\ Quiet(r, Aborted(closed)) /\ Quiet(r, Aborted(local[r]))
  <2>1. Quiet(r, closed)
    BY DEF Quiet, Local, Engaged
  <2>2. QED BY <2>1, SelfIsQuiet, AbortedIsQuiet
<1>2. CASE AssertOwned(r)
  BY <1>1, <1>2, LocalStep DEF AssertOwned
<1>3. CASE AskWrite(r)
  <2>1. Quiet(r, [local[r] EXCEPT !.write = "asked", !.writeAt = Clock(r)])
    BY <1>3 DEF AskWrite, Quiet, Local, Engaged
  <2>2. QED BY <1>3, <2>1, LocalStep DEF AskWrite
<1>4. CASE OpenWrite(r)
  <2>1. CASE Owns(r)
    <3>1. Quiet(r, [local[r] EXCEPT !.write = "open", !.writeAt = 0])
      BY <1>4, <2>1 DEF OpenWrite, Quiet, Local, Engaged
    <3>2. QED BY <1>1, <1>4, <3>1, LocalStep DEF OpenWrite
  <2>2. CASE ~ Owns(r)
    BY <1>1, <1>4, <2>2, LocalStep DEF OpenWrite
  <2>3. QED BY <2>1, <2>2
<1>5. CASE CommitWrite(r)
  BY <1>5, CommitStep
<1>6. CASE AbortWrite(r)
  BY <1>1, <1>6, LocalStep DEF AbortWrite
<1>7. QED BY <1>2, <1>3, <1>4, <1>5, <1>6 DEF Job

LEMMA FinishStep == ASSUME IInv, NEW r \in Runner, Finish(r) PROVE IInv'
<1> USE RunnerFacts
<1>1. CASE EndJob(r)
  <2>1. Quiet(r, [local[r] EXCEPT !.pc = "draining"])
    BY <1>1 DEF EndJob, Quiet, Local, Engaged
  <2>2. QED BY <1>1, <2>1, AbortedIsQuiet, LocalStep DEF EndJob
<1>2. CASE BeginRelease(r)
  <2>1. Quiet(r, [local[r] EXCEPT !.pc = "releasing", !.at = Clock(r)])
    BY <1>2 DEF BeginRelease, Quiet, Local, Engaged
  <2>2. QED BY <1>2, <2>1, LocalStep DEF BeginRelease
<1>3. (LandRelease(r) \/ FailRelease(r)) => Quiet(r, Ended(local[r]))
  BY DEF LandRelease, FailRelease, Quiet, Local, Ended, Fresh
<1>4. CASE LandRelease(r)
  <2>1. local[r].at \in Nat
    BY DEF Local
  <2>2. /\ lease' \in LeaseDoc /\ lease'.owner = lease.owner /\ lease'.token = lease.token
        /\ lease'.seq = lease.seq
    BY <1>4, <2>1 DEF LandRelease, LeaseDoc
  <2>3. log' = log /\ now' \in 0 .. Horizon
    BY <1>4 DEF LandRelease, IInv, TypeOK
  <2>4. local' = [local EXCEPT ![r] = Ended(local[r])]
    BY <1>4 DEF LandRelease, SetLocal
  <2>5. QED BY <1>3, <1>4, <2>2, <2>3, <2>4, QuietStep
<1>5. CASE FailRelease(r)
  BY <1>3, <1>5, LocalStep DEF FailRelease
<1>6. QED BY <1>1, <1>2, <1>4, <1>5 DEF Finish

LEMMA InstanceStep == ASSUME IInv, NEW r \in Runner, Instance(r) PROVE IInv'
<1> USE RunnerFacts
<1>1. Quiet(r, [local[r] EXCEPT !.mode = "stopping"]) /\ Quiet(r, [local[r] EXCEPT !.mode = "off"])
  BY DEF Quiet, Local, Engaged
<1>2. Quiet(r, Fresh)
  BY FreshType DEF Quiet, Fresh
<1>3. QED BY <1>1, <1>2, LocalStep DEF Instance, RequestStop, FinishStop, Crash

LEMMA TickStep == ASSUME IInv, Tick PROVE IInv'
<1>1. TypeOK'
  <2>1. now' \in 0 .. Horizon
    BY ConstantsAssumption DEF ConstantsAssumption, IInv, TypeOK, Tick
  <2>2. QED BY <2>1 DEF IInv, TypeOK, Tick
<1>2. UNCHANGED <<lease, log, local>>
  BY DEF Tick
<1>3. QED
  BY <1>1, <1>2 DEF IInv, OneRunnerPerToken, LogIsFenced, OpenWriteOwns, SequenceCountsLog,
                    TokenBound, HolderAgrees, LogBound, WriteInRun, Engaged, Owns

LEMMA StutterStep == ASSUME IInv, UNCHANGED vars PROVE IInv'
  BY DEF IInv, vars, TypeOK, OneRunnerPerToken, LogIsFenced, OpenWriteOwns, SequenceCountsLog,
         TokenBound, HolderAgrees, LogBound, WriteInRun, Engaged, Owns

LEMMA NextIInv == ASSUME IInv, [Next]_vars PROVE IInv'
<1>1. ASSUME NEW r \in Runner, Acquire(r) \/ Renewal(r) \/ Job(r) \/ Finish(r) \/ Instance(r)
      PROVE  IInv'
  BY <1>1, AcquireStep, RenewalStep, JobStep, FinishStep, InstanceStep
<1>2. QED BY <1>1, TickStep, StutterStep DEF Next

\* The lease document, the log of the fenced writes and the runners always fit
\* together as IInv says.
THEOREM LeaseInvariance == Spec => []IInv
<1>1. QED BY InitIInv, NextIInv, PTL DEF Spec

\* Two instances never work under the same fencing token.
THEOREM TokensAreExclusive == Spec => []OneRunnerPerToken
<1>1. IInv => OneRunnerPerToken
  BY DEF IInv
<1>2. QED BY <1>1, LeaseInvariance, PTL

\* The committed fenced writes never go back to a replaced owner.
THEOREM WritesAreFenced == Spec => []LogIsFenced
<1>1. IInv => LogIsFenced
  BY DEF IInv
<1>2. QED BY <1>1, LeaseInvariance, PTL

-----------------------------------------------------------------------------
(* Refinement *)

\* What a step of the lease is for the fenced log.
LEMMA FencedLogStep == ASSUME IInv, [Next]_vars PROVE [Fenced!Next]_(Fenced!vars)
<1> DEFINE Same == lease'.token = lease.token /\ lease'.owner = lease.owner /\ log' = log
<1>1. Same => UNCHANGED Fenced!vars
  BY DEF Fenced!vars
<1>2. ASSUME NEW r \in Runner, Acquire(r) PROVE Same \/ Fenced!BeginEpoch(r)
  <2> USE RunnerFacts
  <2>1. CASE CreateLease(r)
    BY <2>1 DEF CreateLease, Fenced!BeginEpoch
  <2>2. CASE TakeOver(r)
    BY <2>2 DEF TakeOver, Fenced!BeginEpoch, LeaseDoc
  <2>3. QED BY <1>2, <2>1, <2>2 DEF Acquire, StartTick, ReadLease, FailAcquire, BeginJob
<1>3. ASSUME NEW r \in Runner, Renewal(r) PROVE Same
  <2> USE RunnerFacts
  <2>1. QED BY <1>3 DEF Renewal, SendRenewal, LandRenewal, FailRenewal, LeaseDoc
<1>4. ASSUME NEW r \in Runner, Job(r) PROVE Same \/ Fenced!Write
  <2> USE RunnerFacts
  <2>1. CASE CommitWrite(r)
    <3>1. Owns(r) /\ lease.token > 0
      BY <2>1 DEF CommitWrite, IInv, HolderAgrees, Engaged, Owns
    <3>2. QED BY <2>1, <3>1 DEF CommitWrite, Fenced!Write, Owns, LeaseDoc
  <2>2. QED BY <1>4, <2>1 DEF Job, AssertOwned, AskWrite, OpenWrite, AbortWrite
<1>5. ASSUME NEW r \in Runner, Finish(r) PROVE Same
  <2> USE RunnerFacts
  <2>1. QED BY <1>5 DEF Finish, EndJob, BeginRelease, LandRelease, FailRelease, LeaseDoc
<1>6. ASSUME NEW r \in Runner, Instance(r) PROVE Same
  BY <1>6 DEF Instance, RequestStop, FinishStop, Crash
<1>7. Tick \/ UNCHANGED vars => Same
  BY DEF Tick, vars
<1> HIDE DEF Same
<1>8. QED BY <1>1, <1>2, <1>3, <1>4, <1>5, <1>6, <1>7 DEF Next, Fenced!Next

\* The lease implements the fenced log: one owner per epoch, and no write in an
\* epoch that is over.
THEOREM LeaseRefinement == Spec => ImplementsFencedLog
<1>1. Init => Fenced!Init
  BY DEF Init, Fenced!Init, NoLease
<1>2. IInv /\ [Next]_vars => [Fenced!Next]_(Fenced!vars)
  BY FencedLogStep
<1>3. QED BY <1>1, <1>2, LeaseInvariance, PTL DEF Spec, ImplementsFencedLog, Fenced!Spec

-----------------------------------------------------------------------------
(* The clock *)

\* A clock that was captured is not ahead of the clock it was read from.
CapturedIsPast == \A r \in Runner : local[r].at <= Clock(r)

LEMMA CapturedInit == Init => CapturedIsPast
<1> SUFFICES ASSUME Init, NEW r \in Runner PROVE local[r].at <= Clock(r)
  BY DEF CapturedIsPast
<1>1. Skew[r] \in Nat /\ now = 0 /\ local[r].at = 0
  BY ConstantsAssumption DEF ConstantsAssumption, Init, Fresh
<1>2. QED BY <1>1 DEF Clock

\* What a step of r may leave in the captured clock of r.
Recaptured(r) == local'[r].at \in {local[r].at, 0, Clock(r)}

LEMMA RunnerRecaptures ==
  ASSUME IInv, NEW r \in Runner, Acquire(r) \/ Renewal(r) \/ Job(r) \/ Finish(r) \/ Instance(r)
  PROVE  /\ Recaptured(r)
         /\ \A s \in Runner : s # r => local'[s] = local[s]
         /\ now' = now
<1>1. local \in [Runner -> Local] /\ local[r] \in Local
  BY RunnerFacts DEF IInv, TypeOK
<1>2. ASSUME NEW l, SetLocal(r, l), l.at \in {local[r].at, 0, Clock(r)}
      PROVE  Recaptured(r) /\ \A s \in Runner : s # r => local'[s] = local[s]
  BY <1>1, <1>2 DEF SetLocal, Recaptured
<1>3. ASSUME NEW l \in Local
      PROVE  NoTimer(l).at = l.at /\ Aborted(l).at = l.at /\ Ended(l).at = 0
  BY DEF NoTimer, Aborted, Ended, Local
<1>4. Ended(local[r]).at = 0 /\ Fresh.at = 0
  BY <1>1, <1>3 DEF Fresh
<1>5. CASE Acquire(r)
  <2>1. CASE StartTick(r)
    <3>1. [local[r] EXCEPT !.pc = "read", !.at = Clock(r)].at = Clock(r)
      BY <1>1 DEF Local
    <3>2. QED BY <2>1, <3>1, <1>2 DEF StartTick
  <2>2. CASE ReadLease(r)
    <3>1. [local[r] EXCEPT !.pc = "create"].at = local[r].at
      BY <1>1 DEF Local
    <3>2. [local[r] EXCEPT !.pc = "claim",
             !.seen = [owner |-> lease.owner, token |-> lease.token]].at = local[r].at
      BY <1>1 DEF Local
    <3>3. QED BY <2>2, <3>1, <3>2, <1>2, <1>4 DEF ReadLease
  <2>3. CASE CreateLease(r)
    <3>1. [local[r] EXCEPT !.pc = "acquired", !.token = 1].at = local[r].at
      BY <1>1 DEF Local
    <3>2. QED BY <2>3, <3>1, <1>2, <1>4 DEF CreateLease
  <2>4. CASE TakeOver(r)
    <3>1. [local[r] EXCEPT !.pc = "acquired", !.token = lease.token + 1].at = local[r].at
      BY <1>1 DEF Local
    <3>2. QED BY <2>4, <3>1, <1>2, <1>4 DEF TakeOver
  <2>5. CASE FailAcquire(r)
    BY <2>5, <1>2, <1>4 DEF FailAcquire
  <2>6. CASE BeginJob(r)
    <3>1. [local[r] EXCEPT
            !.pc = "running", !.at = 0, !.seen = Fresh.seen, !.lost = FALSE,
            !.renewal = "timer", !.renewAt = Clock(r) + RenewDelay].at = 0
      BY <1>1 DEF Local
    <3>2. QED BY <2>6, <3>1, <1>2, <1>4 DEF BeginJob
  <2>7. QED BY <1>5, <2>1, <2>2, <2>3, <2>4, <2>5, <2>6
           DEF Acquire, StartTick, ReadLease, CreateLease, TakeOver, FailAcquire, BeginJob
<1>6. CASE Renewal(r)
  <2> DEFINE answered == [local[r] EXCEPT !.renewal = "none", !.renewAt = 0]
  <2> DEFINE rearmed == [answered EXCEPT !.renewal = "timer", !.renewAt = Clock(r) + RenewDelay]
  <2>1. answered \in Local /\ answered.at = local[r].at /\ rearmed.at = local[r].at
    BY <1>1 DEF Local
  <2>2. Aborted(answered).at = local[r].at
    BY <2>1, <1>3
  <2>3. [local[r] EXCEPT !.renewal = "sent", !.renewAt = Clock(r)].at = local[r].at
    BY <1>1 DEF Local
  <2>4. CASE SendRenewal(r)
    BY <2>4, <2>3, <1>2 DEF SendRenewal
  <2>5. CASE LandRenewal(r)
    <3>1. SetLocal(r, rearmed) \/ SetLocal(r, answered) \/ SetLocal(r, Aborted(answered))
      BY <2>5 DEF LandRenewal
    <3> HIDE DEF answered, rearmed
    <3>2. QED BY <2>1, <2>2, <2>5, <3>1, <1>2 DEF LandRenewal
  <2>6. CASE FailRenewal(r)
    BY <2>6, <2>2, <1>2 DEF FailRenewal
  <2>7. QED BY <1>6, <2>4, <2>5, <2>6 DEF Renewal, SendRenewal, LandRenewal, FailRenewal
<1>7. CASE Job(r)
  <2> DEFINE closed == [local[r] EXCEPT !.write = "none", !.writeAt = 0]
  <2>1. closed \in Local /\ closed.at = local[r].at
    BY <1>1 DEF Local
  <2>2. /\ [local[r] EXCEPT !.write = "open", !.writeAt = 0].at = local[r].at
        /\ [local[r] EXCEPT !.write = "asked", !.writeAt = Clock(r)].at = local[r].at
    BY <1>1 DEF Local
  <2>3. Aborted(closed).at = local[r].at /\ Aborted(local[r]).at = local[r].at
    BY <1>1, <1>3, <2>1
  <2> HIDE DEF closed
  <2>4. \/ SetLocal(r, closed) \/ SetLocal(r, Aborted(closed)) \/ SetLocal(r, Aborted(local[r]))
        \/ SetLocal(r, [local[r] EXCEPT !.write = "open", !.writeAt = 0])
        \/ SetLocal(r, [local[r] EXCEPT !.write = "asked", !.writeAt = Clock(r)])
    BY <1>7 DEF Job, AssertOwned, AskWrite, OpenWrite, CommitWrite, AbortWrite, closed
  <2>5. now' = now
    BY <1>7 DEF Job, AssertOwned, AskWrite, OpenWrite, CommitWrite, AbortWrite
  <2>6. QED BY <2>1, <2>2, <2>3, <2>4, <2>5, <1>2
<1>8. CASE Finish(r)
  <2> DEFINE drained == [local[r] EXCEPT !.pc = "draining"]
  <2>1. drained \in Local /\ drained.at = local[r].at
    BY <1>1 DEF Local
  <2>2. NoTimer(drained).at = local[r].at
    BY <2>1, <1>3
  <2>3. [local[r] EXCEPT !.pc = "releasing", !.at = Clock(r)].at = Clock(r)
    BY <1>1 DEF Local
  <2> HIDE DEF drained
  <2>4. \/ SetLocal(r, NoTimer(drained)) \/ SetLocal(r, Ended(local[r]))
        \/ SetLocal(r, [local[r] EXCEPT !.pc = "releasing", !.at = Clock(r)])
    BY <1>8 DEF Finish, EndJob, BeginRelease, LandRelease, FailRelease, drained
  <2>5. now' = now
    BY <1>8 DEF Finish, EndJob, BeginRelease, LandRelease, FailRelease
  <2>6. QED BY <2>2, <2>3, <2>4, <2>5, <1>2, <1>4
<1>9. CASE Instance(r)
  <2>1. /\ [local[r] EXCEPT !.mode = "stopping"].at = local[r].at
        /\ [local[r] EXCEPT !.mode = "off"].at = local[r].at
    BY <1>1 DEF Local
  <2>2. QED BY <2>1, <1>2, <1>4, <1>9 DEF Instance, RequestStop, FinishStop, Crash
<1>10. QED BY <1>5, <1>6, <1>7, <1>8, <1>9

LEMMA CapturedStep == ASSUME IInv, CapturedIsPast, [Next]_vars PROVE CapturedIsPast'
<1> SUFFICES ASSUME NEW s \in Runner PROVE local'[s].at <= Clock(s)'
  BY DEF CapturedIsPast
<1>1. /\ Clock(s) \in Nat /\ local[s].at \in Nat /\ local[s].at <= Clock(s)
      /\ now \in Nat /\ Skew[s] \in Nat
  BY RunnerFacts, ConstantsAssumption DEF CapturedIsPast, Local, ConstantsAssumption, IInv, TypeOK
<1>2. CASE Tick \/ UNCHANGED vars
  <2>1. local' = local /\ (now' = now \/ now' = now + 1)
    BY <1>2 DEF Tick, vars
  <2>2. QED BY <1>1, <2>1 DEF Clock
<1>3. ASSUME NEW r \in Runner, Acquire(r) \/ Renewal(r) \/ Job(r) \/ Finish(r) \/ Instance(r)
      PROVE  local'[s].at <= Clock(s)'
  <2>1. now' = now /\ local'[s].at \in {local[s].at, 0, Clock(s)}
    BY <1>3, RunnerRecaptures DEF Recaptured
  <2>2. QED BY <1>1, <2>1 DEF Clock
<1>4. QED BY <1>2, <1>3 DEF Next

\* A lease changes hands only when it has expired by the clock of the instance
\* that takes it.
THEOREM TakeoverOnlyAfterExpiry == Spec => OnlyExpiredLeaseIsTaken
<1> DEFINE Taken ==
      lease'.token # lease.token => lease.token = 0 \/ lease.expiry <= Clock(lease'.owner)
<1>1. IInv /\ CapturedIsPast /\ [Next]_vars => Taken
  <2> SUFFICES ASSUME IInv, CapturedIsPast, [Next]_vars, lease'.token # lease.token,
                      lease.token # 0
               PROVE  lease.expiry <= Clock(lease'.owner)
    OBVIOUS
  <2>1. PICK r \in Runner : TakeOver(r) /\ StillFree(r)
    <3>1. ASSUME NEW r \in Runner, LandRenewal(r) \/ LandRelease(r) \/ CommitWrite(r)
          PROVE  lease'.token = lease.token
      BY <3>1, RunnerFacts DEF LandRenewal, LandRelease, CommitWrite, LeaseDoc
    <3>2. QED
      BY <3>1 DEF Next, vars, Acquire, Renewal, Job, Finish, Instance, StartTick, ReadLease,
                  CreateLease, TakeOver, FailAcquire, BeginJob, SendRenewal, FailRenewal,
                  AssertOwned, AskWrite, OpenWrite, AbortWrite, EndJob, BeginRelease,
                  FailRelease, RequestStop, FinishStop, Crash, Tick
  <2>2. lease'.owner = r /\ lease.expiry <= local[r].at /\ lease.expiry \in Nat
    BY <2>1, RunnerFacts DEF TakeOver, StillFree, LeaseDoc
  <2>3. local[r].at <= Clock(r) /\ local[r].at \in Nat /\ Clock(r) \in Nat
    BY RunnerFacts DEF CapturedIsPast, Local
  <2>4. QED BY <2>2, <2>3
<1>2. Spec => []CapturedIsPast
  BY CapturedInit, CapturedStep, LeaseInvariance, PTL DEF Spec
<1>3. Spec => [][Taken]_vars
  BY <1>1, <1>2, LeaseInvariance, PTL DEF Spec
<1>4. QED BY <1>3 DEF OnlyExpiredLeaseIsTaken

\* Lease, log, runners and clock keep their type.
THEOREM LeaseTypes == Spec => []TypeOK
<1>1. IInv => TypeOK
  BY DEF IInv
<1>2. QED BY <1>1, LeaseInvariance, PTL

-----------------------------------------------------------------------------
(* Renewals and stop *)

\* A renewal is due or on its way only while its tick runs, or drains; and an
\* instance that has stopped has no tick.
RenewsInTick(l) ==
  /\ l.renewal = "timer" => l.pc = "running"
  /\ l.renewal = "sent" => l.pc \in {"running", "draining"}
  /\ l.mode = "off" => l.pc = "idle"

RenewalsInTick == \A r \in Runner : RenewsInTick(local[r])

\* What a step of r makes of its renewal: it is sent now, or was on its way.
Renews(r, l) ==
  /\ RenewsInTick(l)
  /\ l.renewal = "sent" =>
       \/ l.renewAt = Clock(r)
       \/ local[r].renewal = "sent" /\ l.renewAt = local[r].renewAt

LEMMA RunnerRenews ==
  ASSUME IInv, NEW r \in Runner, RenewsInTick(local[r]),
         Acquire(r) \/ Renewal(r) \/ Job(r) \/ Finish(r) \/ Instance(r)
  PROVE  /\ Renews(r, local'[r])
         /\ \A s \in Runner : s # r => local'[s] = local[s]
<1>1. local \in [Runner -> Local] /\ local[r] \in Local
  BY RunnerFacts DEF IInv, TypeOK
<1>2. ASSUME NEW l, SetLocal(r, l), Renews(r, l)
      PROVE  Renews(r, local'[r]) /\ \A s \in Runner : s # r => local'[s] = local[s]
  BY <1>1, <1>2 DEF SetLocal
<1>3. ASSUME NEW l \in Local, Renews(r, l)
      PROVE  Renews(r, NoTimer(l)) /\ Renews(r, Aborted(l))
  BY <1>3 DEF NoTimer, Aborted, Renews, RenewsInTick, Local
<1>4. Renews(r, Fresh)
  BY DEF Fresh, Renews, RenewsInTick
<1>5. ASSUME local[r].renewal = "none"
      PROVE  Renews(r, Ended(local[r]))
  BY <1>1, <1>5 DEF Ended, Renews, RenewsInTick, Local
<1>6. CASE Acquire(r)
  <2>1. CASE StartTick(r)
    <3>1. Renews(r, [local[r] EXCEPT !.pc = "read", !.at = Clock(r)])
      BY <1>1, <2>1 DEF StartTick, Renews, RenewsInTick, Local
    <3>2. QED BY <2>1, <3>1, <1>2 DEF StartTick
  <2>2. CASE ReadLease(r)
    <3>1. Renews(r, [local[r] EXCEPT !.pc = "create"])
      BY <1>1, <2>2 DEF ReadLease, Renews, RenewsInTick, Local
    <3>2. Renews(r, [local[r] EXCEPT !.pc = "claim",
             !.seen = [owner |-> lease.owner, token |-> lease.token]])
      BY <1>1, <2>2 DEF ReadLease, Renews, RenewsInTick, Local
    <3>3. Renews(r, Ended(local[r]))
      BY <1>1, <1>5, <2>2 DEF ReadLease, Renews, RenewsInTick, Local
    <3>4. QED BY <2>2, <3>1, <3>2, <3>3, <1>2 DEF ReadLease
  <2>3. CASE CreateLease(r)
    <3>1. Renews(r, [local[r] EXCEPT !.pc = "acquired", !.token = 1])
      BY <1>1, <2>3 DEF CreateLease, Renews, RenewsInTick, Local
    <3>2. Renews(r, Ended(local[r]))
      BY <1>1, <1>5, <2>3 DEF CreateLease, Renews, RenewsInTick, Local
    <3>3. QED BY <2>3, <3>1, <3>2, <1>2 DEF CreateLease
  <2>4. CASE TakeOver(r)
    <3>1. Renews(r, [local[r] EXCEPT !.pc = "acquired", !.token = lease.token + 1])
      BY <1>1, <2>4 DEF TakeOver, Renews, RenewsInTick, Local
    <3>2. Renews(r, Ended(local[r]))
      BY <1>1, <1>5, <2>4 DEF TakeOver, Renews, RenewsInTick, Local
    <3>3. QED BY <2>4, <3>1, <3>2, <1>2 DEF TakeOver
  <2>5. CASE FailAcquire(r)
    <3>1. Renews(r, Ended(local[r]))
      BY <1>1, <1>5, <2>5 DEF FailAcquire, Renews, RenewsInTick, Local
    <3>2. QED BY <2>5, <3>1, <1>2 DEF FailAcquire
  <2>6. CASE BeginJob(r)
    <3>1. Renews(r, [local[r] EXCEPT
            !.pc = "running", !.at = 0, !.seen = Fresh.seen, !.lost = FALSE,
            !.renewal = "timer", !.renewAt = Clock(r) + RenewDelay])
      BY <1>1, <2>6 DEF BeginJob, Renews, RenewsInTick, Local
    <3>2. Renews(r, Ended(local[r]))
      BY <1>1, <1>5, <2>6 DEF BeginJob, Renews, RenewsInTick, Local
    <3>3. QED BY <2>6, <3>1, <3>2, <1>2 DEF BeginJob
  <2>7. QED BY <1>6, <2>1, <2>2, <2>3, <2>4, <2>5, <2>6 DEF Acquire
<1>7. CASE Renewal(r)
  <2> DEFINE answered == [local[r] EXCEPT !.renewal = "none", !.renewAt = 0]
  <2> DEFINE rearmed == [answered EXCEPT !.renewal = "timer", !.renewAt = Clock(r) + RenewDelay]
  <2>1. answered \in Local /\ answered.pc = local[r].pc /\ answered.mode = local[r].mode
        /\ Renews(r, answered)
    BY <1>1 DEF Local, Renews, RenewsInTick
  <2>2. Renews(r, Aborted(answered))
    BY <2>1, <1>3
  <2>3. local[r].pc = "running" => Renews(r, rearmed)
    BY <1>1 DEF Renews, RenewsInTick, Local
  <2>4. CASE SendRenewal(r)
    <3>1. Renews(r, [local[r] EXCEPT !.renewal = "sent", !.renewAt = Clock(r)])
      BY <1>1, <2>4 DEF SendRenewal, Renews, RenewsInTick, Local
    <3>2. QED BY <2>4, <3>1, <1>2 DEF SendRenewal
  <2>5. CASE LandRenewal(r)
    <3>1. \/ SetLocal(r, rearmed) /\ local[r].pc = "running"
          \/ SetLocal(r, answered) \/ SetLocal(r, Aborted(answered))
      BY <2>5 DEF LandRenewal
    <3> HIDE DEF answered, rearmed
    <3>2. QED BY <2>1, <2>2, <2>3, <3>1, <1>2
  <2>6. CASE FailRenewal(r)
    BY <2>6, <2>2, <1>2 DEF FailRenewal
  <2>7. QED BY <1>7, <2>4, <2>5, <2>6 DEF Renewal
<1>8. CASE Job(r)
  <2> DEFINE closed == [local[r] EXCEPT !.write = "none", !.writeAt = 0]
  <2>1. closed \in Local /\ Renews(r, closed)
    BY <1>1 DEF Local, Renews, RenewsInTick
  <2>2. /\ Renews(r, [local[r] EXCEPT !.write = "open", !.writeAt = 0])
        /\ Renews(r, [local[r] EXCEPT !.write = "asked", !.writeAt = Clock(r)])
    BY <1>1 DEF Local, Renews, RenewsInTick
  <2>3. Renews(r, Aborted(closed)) /\ Renews(r, Aborted(local[r]))
    <3>1. Renews(r, local[r])
      BY DEF Renews
    <3>2. QED BY <1>1, <1>3, <2>1, <3>1
  <2> HIDE DEF closed
  <2>4. \/ SetLocal(r, closed) \/ SetLocal(r, Aborted(closed)) \/ SetLocal(r, Aborted(local[r]))
        \/ SetLocal(r, [local[r] EXCEPT !.write = "open", !.writeAt = 0])
        \/ SetLocal(r, [local[r] EXCEPT !.write = "asked", !.writeAt = Clock(r)])
    BY <1>8 DEF Job, AssertOwned, AskWrite, OpenWrite, CommitWrite, AbortWrite, closed
  <2>5. QED BY <2>1, <2>2, <2>3, <2>4, <1>2
<1>9. CASE Finish(r)
  <2>1. CASE EndJob(r)
    <3>1. Renews(r, NoTimer([local[r] EXCEPT !.pc = "draining"]))
      BY <1>1, <2>1 DEF EndJob, NoTimer, Renews, RenewsInTick, Local
    <3>2. QED BY <2>1, <3>1, <1>2 DEF EndJob
  <2>2. CASE BeginRelease(r)
    <3>1. Renews(r, [local[r] EXCEPT !.pc = "releasing", !.at = Clock(r)])
      BY <1>1, <2>2 DEF BeginRelease, Renews, RenewsInTick, Local
    <3>2. QED BY <2>2, <3>1, <1>2 DEF BeginRelease
  <2>3. CASE LandRelease(r) \/ FailRelease(r)
    <3>1. Renews(r, Ended(local[r]))
      BY <1>1, <1>5, <2>3 DEF LandRelease, FailRelease, Renews, RenewsInTick, Local
    <3>2. QED BY <2>3, <3>1, <1>2 DEF LandRelease, FailRelease
  <2>4. QED BY <1>9, <2>1, <2>2, <2>3 DEF Finish
<1>10. CASE Instance(r)
  <2>1. /\ Renews(r, [local[r] EXCEPT !.mode = "stopping"])
            \/ ~ RequestStop(r)
        /\ Renews(r, [local[r] EXCEPT !.mode = "off"]) \/ ~ FinishStop(r)
    BY <1>1 DEF RequestStop, FinishStop, Renews, RenewsInTick, Local
  <2>2. QED BY <2>1, <1>2, <1>4, <1>10 DEF Instance, RequestStop, FinishStop, Crash
<1>11. QED BY <1>6, <1>7, <1>8, <1>9, <1>10

LEMMA RenewalsStep == ASSUME IInv, RenewalsInTick, [Next]_vars PROVE RenewalsInTick'
<1> SUFFICES ASSUME NEW s \in Runner PROVE RenewsInTick(local'[s])
  BY DEF RenewalsInTick
<1>1. CASE Tick \/ UNCHANGED vars
  BY <1>1 DEF Tick, vars, RenewalsInTick
<1>2. ASSUME NEW r \in Runner, Acquire(r) \/ Renewal(r) \/ Job(r) \/ Finish(r) \/ Instance(r)
      PROVE  RenewsInTick(local'[s])
  BY <1>2, RunnerRenews DEF RenewalsInTick, Renews
<1>3. QED BY <1>1, <1>2 DEF Next

LEMMA RenewalsInvariance == Spec => []RenewalsInTick
<1>1. Init => RenewalsInTick
  BY DEF Init, Fresh, RenewalsInTick, RenewsInTick
<1>2. QED BY <1>1, RenewalsStep, LeaseInvariance, PTL DEF Spec

\* After stop has resolved the instance neither runs the job nor renews its lease.
THEOREM StopIsQuiet == Spec => []StoppedIsQuiet
<1>1. IInv /\ RenewalsInTick => StoppedIsQuiet
  <2> SUFFICES ASSUME IInv, RenewalsInTick, NEW r \in Runner, local[r].mode = "off"
               PROVE  local[r].pc = "idle" /\ local[r].renewal = "none"
    BY DEF StoppedIsQuiet
  <2>1. local[r].renewal \in {"none", "timer", "sent"}
    BY RunnerFacts DEF Local
  <2>2. QED BY <2>1 DEF RenewalsInTick, RenewsInTick
<1>2. QED BY <1>1, RenewalsInvariance, LeaseInvariance, PTL

-----------------------------------------------------------------------------
(* Who writes the expiry of the lease *)

\* The others stay as they are, and so does the clock.
Alone(r) ==
  /\ now' = now
  /\ lease'.owner = r
  /\ \A s \in Runner : s # r => local'[s] = local[s]
  /\ local'[r].renewal # "sent"

Acquires(r) ==
  /\ Alone(r)
  /\ lease'.token = lease.token + 1
  /\ lease'.expiry = local[r].at + TTL
  /\ lease.token = 0 \/ lease.expiry <= local[r].at

Prolonged(r) ==
  /\ Alone(r)
  /\ local[r].renewal = "sent"
  /\ lease.owner = r /\ Owns(r) /\ lease.token > 0
  /\ lease'.token = lease.token
  /\ lease'.expiry = local[r].renewAt + TTL

Released(r) ==
  /\ Alone(r)
  /\ local[r].pc = "releasing"
  /\ lease.owner = r /\ Owns(r) /\ lease.token > 0
  /\ lease'.token = lease.token
  /\ lease'.expiry = local[r].at

Writes(r) == Acquires(r) \/ Prolonged(r) \/ Released(r)

LEMMA LeaseWriters ==
  ASSUME IInv, RenewalsInTick, [Next]_vars
  PROVE  \/ lease'.owner = lease.owner /\ lease'.token = lease.token /\ lease'.expiry = lease.expiry
         \/ \E r \in Runner : Writes(r)
<1> DEFINE Kept == /\ lease'.owner = lease.owner /\ lease'.token = lease.token
                  /\ lease'.expiry = lease.expiry
<1>1. lease \in LeaseDoc
  BY DEF IInv, TypeOK, LeaseDoc
<1>2. ASSUME NEW r \in Runner, Acquire(r) \/ Renewal(r) \/ Job(r) \/ Finish(r) \/ Instance(r)
      PROVE  Kept \/ Writes(r)
  <2>1. /\ RenewsInTick(local[r]) /\ RenewsInTick(local'[r]) /\ now' = now
        /\ \A s \in Runner : s # r => local'[s] = local[s]
    BY <1>2, RunnerRenews, RunnerRecaptures DEF RenewalsInTick, Renews
  <2>2. local[r] \in Local /\ local \in [Runner -> Local]
    BY RunnerFacts DEF IInv, TypeOK
  <2>3. ASSUME Engaged(r), Owns(r) PROVE lease.token > 0
    BY <2>3 DEF IInv, HolderAgrees, Owns
  <2>4. CASE CreateLease(r) \/ TakeOver(r)
    <3>1. UNCHANGED lease \/ local'[r].pc = "acquired"
      <4>1. CASE CreateLease(r) /\ lease.token = 0
        <5>1. local' = [local EXCEPT ![r] = [local[r] EXCEPT !.pc = "acquired", !.token = 1]]
          BY <4>1 DEF CreateLease, SetLocal
        <5>2. QED BY <2>2, <5>1 DEF Local
      <4>2. CASE TakeOver(r) /\ StillFree(r)
        <5>1. local' = [local EXCEPT ![r] =
                          [local[r] EXCEPT !.pc = "acquired", !.token = lease.token + 1]]
          BY <4>2 DEF TakeOver, SetLocal
        <5>2. QED BY <2>2, <5>1 DEF Local
      <4>3. QED BY <2>4, <4>1, <4>2 DEF CreateLease, TakeOver
    <3>2. local'[r].pc = "acquired" => local'[r].renewal # "sent"
      BY <2>1 DEF RenewsInTick
    <3>3. CASE CreateLease(r) /\ lease' # lease
      <4>1. lease' = [owner |-> r, token |-> 1, expiry |-> local[r].at + TTL, seq |-> 0]
            /\ lease.token = 0
        BY <3>3 DEF CreateLease
      <4>2. QED BY <2>1, <3>1, <3>2, <3>3, <4>1 DEF Writes, Acquires, Alone
    <3>4. CASE TakeOver(r) /\ lease' # lease
      <4>1. /\ lease' = [lease EXCEPT !.owner = r, !.token = @ + 1, !.expiry = local[r].at + TTL]
            /\ lease.expiry <= local[r].at
        BY <3>4 DEF TakeOver, StillFree
      <4>2. QED BY <1>1, <2>1, <3>1, <3>2, <3>4, <4>1 DEF Writes, Acquires, Alone, LeaseDoc
    <3>5. QED BY <2>4, <3>3, <3>4
  <2>5. CASE LandRenewal(r)
    <3>1. local'[r].renewal # "sent"
      BY <2>2, <2>5 DEF LandRenewal, SetLocal, Local, Aborted, NoTimer
    <3>2. Engaged(r)
      BY <2>1, <2>5 DEF LandRenewal, RenewsInTick, Engaged
    <3>3. QED
      BY <1>1, <2>1, <2>3, <2>5, <3>1, <3>2
         DEF LandRenewal, Owns, LeaseDoc, Writes, Prolonged, Alone
  <2>6. CASE LandRelease(r)
    <3>1. local'[r].pc = "idle"
      BY <2>2, <2>6 DEF LandRelease, SetLocal, Local, Ended
    <3>2. local'[r].renewal # "sent" /\ Engaged(r)
      BY <2>1, <2>6, <3>1 DEF LandRelease, RenewsInTick, Engaged
    <3>3. QED
      BY <1>1, <2>1, <2>3, <2>6, <3>2
         DEF LandRelease, Owns, LeaseDoc, Writes, Released, Alone
  <2>7. CASE CommitWrite(r)
    BY <1>1, <2>7 DEF CommitWrite, LeaseDoc
  <2>8. QED
    BY <1>2, <2>4, <2>5, <2>6, <2>7
       DEF Acquire, Renewal, Job, Finish, Instance, StartTick, ReadLease, FailAcquire, BeginJob,
           SendRenewal, FailRenewal, AssertOwned, AskWrite, OpenWrite, AbortWrite, EndJob,
           BeginRelease, FailRelease, RequestStop, FinishStop, Crash
<1>3. Tick \/ UNCHANGED vars => Kept
  BY DEF Tick, vars
<1>4. QED BY <1>2, <1>3 DEF Next

\* A lease is prolonged only during the tick that acquired it.
THEOREM ProlongedInTick == Spec => OnlyTickProlongsLease
<1> DEFINE Prolongs ==
      lease'.token = lease.token /\ lease'.expiry > lease.expiry => Engaged(lease.owner)
<1>1. IInv /\ RenewalsInTick /\ [Next]_vars => Prolongs
  <2> SUFFICES ASSUME IInv, RenewalsInTick, [Next]_vars,
                      lease'.token = lease.token, lease'.expiry > lease.expiry
               PROVE  Engaged(lease.owner)
    OBVIOUS
  <2>1. lease \in LeaseDoc
    BY DEF IInv, TypeOK, LeaseDoc
  <2>2. PICK r \in Runner : Writes(r)
    BY LeaseWriters, <2>1 DEF LeaseDoc
  <2>3. CASE Acquires(r)
    BY <2>1, <2>3 DEF Acquires, LeaseDoc
  <2>4. CASE Prolonged(r)
    BY <2>4 DEF Prolonged, RenewalsInTick, RenewsInTick, Engaged
  <2>5. CASE Released(r)
    BY <2>5 DEF Released, Engaged
  <2>6. QED BY <2>2, <2>3, <2>4, <2>5 DEF Writes
<1>2. Spec => [][Prolongs]_vars
  BY <1>1, RenewalsInvariance, LeaseInvariance, PTL DEF Spec
<1>3. QED BY <1>2 DEF OnlyTickProlongsLease

-----------------------------------------------------------------------------
(* How far ahead a lease may reach *)

\* The lease of r ends a duration after the clock of r at most, and at most a
\* duration after the clock that a renewal on its way has captured.
Reaches(r) ==
  /\ lease.owner = r =>
       /\ lease.expiry <= Clock(r) + TTL
       /\ local[r].renewal = "sent" => lease.expiry <= local[r].renewAt + TTL
  /\ local[r].renewal = "sent" => local[r].renewAt <= Clock(r)

ExpiryBound ==
  /\ lease.token = 0 => lease.expiry = 0
  /\ \A r \in Runner : Reaches(r)

LEMMA ExpiryStep ==
  ASSUME IInv, CapturedIsPast, RenewalsInTick, ExpiryBound, [Next]_vars PROVE ExpiryBound'
<1>1. /\ lease \in LeaseDoc /\ lease' \in LeaseDoc /\ TTL \in Nat
      /\ now \in Nat /\ now' \in {now, now + 1}
  <2>1. IInv'
    BY NextIInv
  <2>2. now' \in {now, now + 1}
    <3>1. ASSUME NEW r \in Runner, Acquire(r) \/ Renewal(r) \/ Job(r) \/ Finish(r) \/ Instance(r)
          PROVE  now' = now
      BY <3>1, RunnerRecaptures
    <3>2. QED BY <3>1 DEF Next, Tick, vars
  <2>3. QED BY <2>1, <2>2, ConstantsAssumption DEF ConstantsAssumption, IInv, TypeOK, LeaseDoc
<1>2. CASE lease'.owner = lease.owner /\ lease'.token = lease.token /\ lease'.expiry = lease.expiry
  <2>1. lease'.token = 0 => lease'.expiry = 0
    BY <1>2 DEF ExpiryBound
  <2>2. ASSUME NEW s \in Runner PROVE Reaches(s)'
    <3>1. /\ Reaches(s) /\ Skew[s] \in Nat /\ local[s].renewAt \in Nat
          /\ Clock(s) = now + Skew[s] /\ Clock(s)' = now' + Skew[s]
      BY RunnerFacts, ConstantsAssumption DEF ExpiryBound, ConstantsAssumption, Clock, Local
    <3>2. \/ local'[s].renewal # "sent"
          \/ local'[s].renewAt = Clock(s)
          \/ local[s].renewal = "sent" /\ local'[s].renewAt = local[s].renewAt
      <4>1. ASSUME NEW r \in Runner, Acquire(r) \/ Renewal(r) \/ Job(r) \/ Finish(r) \/ Instance(r)
            PROVE  Renews(s, local'[s]) \/ local'[s] = local[s]
        BY <4>1, RunnerRenews DEF RenewalsInTick
      <4>2. QED BY <4>1 DEF Next, Tick, vars, Renews
    <3>3. QED BY <1>1, <1>2, <3>1, <3>2 DEF Reaches, LeaseDoc
  <2>3. QED BY <2>1, <2>2 DEF ExpiryBound
<1>3. ASSUME NEW r \in Runner, Writes(r) PROVE ExpiryBound'
  <2>1. /\ lease'.owner = r /\ now' = now /\ local'[r].renewal # "sent"
        /\ \A s \in Runner : s # r => local'[s] = local[s]
        /\ lease'.token # 0
    <3>1. Alone(r)
      BY <1>3 DEF Writes, Acquires, Prolonged, Released
    <3>2. lease'.token # 0
      BY <1>1, <1>3 DEF Writes, Acquires, Prolonged, Released, LeaseDoc
    <3>3. QED BY <3>1, <3>2 DEF Alone
  <2>2. lease'.expiry <= Clock(r) + TTL
    <3>1. /\ local[r].at <= Clock(r) /\ local[r].at \in Nat /\ Clock(r) \in Nat
          /\ local[r].renewAt \in Nat /\ Reaches(r)
      BY RunnerFacts DEF CapturedIsPast, Local, ExpiryBound
    <3>2. QED
      BY <1>1, <1>3, <3>1 DEF Writes, Acquires, Prolonged, Released, Reaches
  <2>3. ASSUME NEW s \in Runner PROVE Reaches(s)'
    BY <2>1, <2>2 DEF ExpiryBound, Reaches, Clock
  <2>4. QED BY <2>1, <2>3 DEF ExpiryBound
<1>4. QED BY <1>2, <1>3, LeaseWriters

\* A lease ends early only by the release of its owner, as the last step of its
\* tick: neither a late renewal nor a late release nor another instance ends it.
THEOREM ShortenedByOwner == Spec => OnlyOwnerShortensLease
<1> DEFINE Shortens ==
      lease'.expiry < lease.expiry => Owns(lease.owner) /\ local[lease.owner].pc = "releasing"
<1>1. IInv /\ RenewalsInTick /\ CapturedIsPast /\ ExpiryBound /\ [Next]_vars => Shortens
  <2> SUFFICES ASSUME IInv, RenewalsInTick, CapturedIsPast, ExpiryBound, [Next]_vars,
                      lease'.expiry < lease.expiry
               PROVE  Owns(lease.owner) /\ local[lease.owner].pc = "releasing"
    OBVIOUS
  <2>1. lease \in LeaseDoc /\ TTL \in Nat
    BY ConstantsAssumption DEF ConstantsAssumption, IInv, TypeOK, LeaseDoc
  <2>2. PICK r \in Runner : Writes(r)
    BY LeaseWriters, <2>1 DEF LeaseDoc
  <2>3. local[r].at \in Nat /\ local[r].renewAt \in Nat /\ Reaches(r)
    BY RunnerFacts DEF Local, ExpiryBound
  <2>4. ~ Acquires(r)
    BY <2>1, <2>3 DEF Acquires, ExpiryBound, LeaseDoc
  <2>5. ~ Prolonged(r)
    BY <2>1, <2>3 DEF Prolonged, Reaches, LeaseDoc
  <2>6. QED BY <2>2, <2>4, <2>5 DEF Writes, Released
<1>2. Init => CapturedIsPast /\ ExpiryBound
  <2>1. Init => ExpiryBound
    BY ConstantsAssumption
       DEF ConstantsAssumption, Init, NoLease, Fresh, ExpiryBound, Reaches, Clock
  <2>2. QED BY <2>1, CapturedInit
<1>3. Spec => []CapturedIsPast
  BY CapturedInit, CapturedStep, LeaseInvariance, PTL DEF Spec
<1>4. Spec => []ExpiryBound
  BY <1>2, <1>3, ExpiryStep, RenewalsInvariance, LeaseInvariance, PTL DEF Spec
<1>5. Spec => [][Shortens]_vars
  BY <1>1, <1>3, <1>4, RenewalsInvariance, LeaseInvariance, PTL DEF Spec
<1>6. QED BY <1>5 DEF OnlyOwnerShortensLease
=============================================================================
