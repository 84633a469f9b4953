--------------------------- MODULE SchedulerLease ---------------------------
(***************************************************************************)
(* One scheduled job, the lease document that decides which server         *)
(* instance runs it, and the runner of each instance.  The runner exists   *)
(* twice in the code with the same lease logic, once on setInterval        *)
(* (schedulerLeaseRunner) and once on cron (cronLeaseRunner).              *)
(*                                                                         *)
(* Every call of the lease service reads the clock first and reaches       *)
(* MongoDB later, so a runner step that captures the time and the step     *)
(* that uses it are two actions.  Each instance has a clock of its own.    *)
(*                                                                         *)
(* A fenced write is a transaction whose first statement updates the lease *)
(* document: from then until it commits or aborts, every other update of   *)
(* the document waits (Locked).                                            *)
(***************************************************************************)
EXTENDS Integers, Sequences, FiniteSets

CONSTANTS
  Runner,       \* the instances of the server that schedule this job
  Skew,         \* how far the clock of each instance is ahead
  TTL,          \* leaseTtlMs
  RenewDelay,   \* toDelayMs(ttl, lead): how long after a renewal the next is due
  Horizon,      \* bound on the clock
  Stopping,     \* the instances that are shut down at some point
  MaxToken,     \* bound: no tick starts once the fencing token is here
  MaxWrites     \* bound on the committed writes

ASSUME ConstantsAssumption ==
  /\ Skew \in [Runner -> Nat]
  /\ TTL \in Nat \ {0}
  /\ RenewDelay \in Nat
  /\ Horizon \in Nat
  /\ MaxToken \in Nat \ {0}
  /\ MaxWrites \in Nat

NoOne == "no one"

VARIABLES
  lease,   \* the document of schedulerleases; token 0: not created yet
  log,     \* history: the fenced writes that committed
  local,   \* the state of each runner
  now

vars == <<lease, log, local, now>>

NoLease == [owner |-> NoOne, token |-> 0, expiry |-> 0, seq |-> 0]

\* state of createSchedulerLeaseRunner at the start of the process.
Fresh ==
  [mode    |-> "on",
   pc      |-> "idle",
   at      |-> 0,
   seen    |-> [owner |-> NoOne, token |-> 0],
   token   |-> 0,
   lost    |-> FALSE,
   renewal |-> "none",
   renewAt |-> 0,
   write   |-> "none",
   writeAt |-> 0]

Local ==
  [mode    : {"on", "stopping", "off"},
   pc      : {"idle", "read", "create", "claim", "acquired", "running", "draining", "releasing"},
   at      : Nat,                                \* the clock captured by acquire, by release
   seen    : [owner : Runner \cup {NoOne}, token : Nat],   \* what findOne returned
   token   : Nat,                                \* fencing token of the lease it acquired last
   lost    : BOOLEAN,                            \* abortController.signal.aborted
   renewal : {"none", "timer", "sent"},
   renewAt : Nat,                                \* when the timer is due; the clock captured by renew
   write   : {"none", "asked", "open"},
   writeAt : Nat]                                \* the clock captured by withFencedWrite

\* One fenced write: who committed it, under which token.
Entry == [by : Runner, in : Nat]

TypeOK ==
  /\ lease \in [owner : Runner \cup {NoOne}, token : Nat, expiry : Nat, seq : Nat]
  /\ log \in Seq(Entry)
  /\ local \in [Runner -> Local]
  /\ now \in 0 .. Horizon

Init ==
  /\ lease = NoLease
  /\ log = <<>>
  /\ local = [r \in Runner |-> Fresh]
  /\ now = 0

Clock(r) == now + Skew[r]

\* isExactLease, and the filter of every update a runner makes.
Owns(r) == lease.owner = r /\ lease.token = local[r].token

\* Mutant: the write is not in a transaction with the lease.
NeverLocked == FALSE

Locked == \E r \in Runner : local[r].write = "open"

\* clearRenewalTimer
NoTimer(l) == IF l.renewal = "timer" THEN [l EXCEPT !.renewal = "none", !.renewAt = 0] ELSE l

\* abortLease: the job learns of it through its signal, the timer is cleared.
Aborted(l) ==
  NoTimer([l EXCEPT !.lost = TRUE])

SetLocal(r, l) == local' = [local EXCEPT ![r] = l]

\* The tick is over: nothing that it captured is used again.
Ended(l) ==
  [l EXCEPT !.pc = "idle", !.at = 0, !.seen = Fresh.seen, !.lost = FALSE]

-----------------------------------------------------------------------------
(* runTick: acquire *)

\* A tick while the previous one runs is skipped, and so is one after stop.
StartTick(r) ==
  /\ local[r].mode = "on"
  /\ local[r].pc = "idle"
  /\ lease.token < MaxToken
  /\ SetLocal(r, [local[r] EXCEPT !.pc = "read", !.at = Clock(r)])
  /\ UNCHANGED <<lease, log, now>>

ReadLease(r) ==
  /\ local[r].pc = "read"
  /\ \/ /\ lease.token = 0
        /\ SetLocal(r, [local[r] EXCEPT !.pc = "create"])
     \/ /\ lease.token > 0
        /\ lease.expiry > local[r].at
        /\ SetLocal(r, Ended(local[r]))
     \/ /\ lease.token > 0
        /\ lease.expiry <= local[r].at
        /\ SetLocal(r, [local[r] EXCEPT
             !.pc = "claim", !.seen = [owner |-> lease.owner, token |-> lease.token]])
  /\ UNCHANGED <<lease, log, now>>

\* The unique index on jobKey lets one of two creators through.
CreateLease(r) ==
  /\ local[r].pc = "create"
  /\ IF lease.token = 0
     THEN /\ lease' = [owner |-> r, token |-> 1, expiry |-> local[r].at + TTL, seq |-> 0]
          /\ SetLocal(r, [local[r] EXCEPT !.pc = "acquired", !.token = 1])
     ELSE /\ SetLocal(r, Ended(local[r]))
          /\ UNCHANGED lease
  /\ UNCHANGED <<log, now>>

StillFree(r) ==
  /\ lease.owner = local[r].seen.owner
  /\ lease.token = local[r].seen.token
  /\ lease.expiry <= local[r].at

\* The update compares owner, token and expiry with what was read: the lease
\* may have been renewed or taken since.
TakeOver(r) ==
  /\ local[r].pc = "claim"
  /\ ~ Locked
  /\ IF StillFree(r)
     THEN /\ lease' = [lease EXCEPT !.owner = r, !.token = @ + 1, !.expiry = local[r].at + TTL]
          /\ SetLocal(r, [local[r] EXCEPT !.pc = "acquired", !.token = lease.token + 1])
     ELSE /\ SetLocal(r, Ended(local[r]))
          /\ UNCHANGED lease
  /\ UNCHANGED <<log, now>>

\* Mutant: isRunning is not reset on this path.
FailAcquireStuck(r) ==
  /\ local[r].pc \in {"read", "create", "claim", "acquired"}
  /\ SetLocal(r, [local[r] EXCEPT !.pc = "stuck"])
  /\ UNCHANGED <<lease, log, now>>

\* A storage error, before the update or after it: then the lease is the
\* runner's and it does not know.
FailAcquire(r) ==
  /\ local[r].pc \in {"read", "create", "claim", "acquired"}
  /\ SetLocal(r, Ended(local[r]))
  /\ UNCHANGED <<lease, log, now>>

\* isValidAcquiredLease, createLeaseExecutionContext, scheduleRenewal.
BeginJob(r) ==
  /\ local[r].pc = "acquired"
  /\ IF local[r].at + TTL > Clock(r)
     THEN SetLocal(r, [local[r] EXCEPT
            !.pc = "running", !.at = 0, !.seen = Fresh.seen, !.lost = FALSE,
            !.renewal = "timer", !.renewAt = Clock(r) + RenewDelay])
     ELSE SetLocal(r, Ended(local[r]))
  /\ UNCHANGED <<lease, log, now>>

-----------------------------------------------------------------------------
(* The renewal loop *)

SendRenewal(r) ==
  /\ local[r].renewal = "timer"
  /\ Clock(r) >= local[r].renewAt
  /\ SetLocal(r, [local[r] EXCEPT !.renewal = "sent", !.renewAt = Clock(r)])
  /\ UNCHANGED <<lease, log, now>>

\* The update lands, and the answer arrives (heard) or is lost.  The next
\* timer is set only while the job runs and has not been told to abort.
LandRenewal(r) ==
  /\ local[r].renewal = "sent"
  /\ ~ Locked
  /\ LET renewed == Owns(r) /\ lease.expiry > local[r].renewAt
         answered == [local[r] EXCEPT !.renewal = "none", !.renewAt = 0]
         active == local[r].pc = "running" /\ ~ local[r].lost
         rearmed == IF active
                    THEN [answered EXCEPT !.renewal = "timer", !.renewAt = Clock(r) + RenewDelay]
                    ELSE answered
     IN /\ lease' = IF renewed THEN [lease EXCEPT !.expiry = local[r].renewAt + TTL] ELSE lease
        /\ \E heard \in BOOLEAN :
             SetLocal(r, IF heard /\ renewed /\ local[r].renewAt + TTL > Clock(r)
                         THEN rearmed
                         ELSE Aborted(answered))
  /\ UNCHANGED <<log, now>>

\* renew throws before the update lands.
FailRenewal(r) ==
  /\ local[r].renewal = "sent"
  /\ SetLocal(r, Aborted([local[r] EXCEPT !.renewal = "none", !.renewAt = 0]))
  /\ UNCHANGED <<lease, log, now>>

-----------------------------------------------------------------------------
(* The job: what a lease context lets it do *)

\* assertOwned reads the lease; what it found may be stale when it returns.
AssertOwned(r) ==
  /\ local[r].pc = "running" /\ local[r].write = "none"
  /\ ~ local[r].lost
  /\ \/ ~ Owns(r)
     \/ lease.expiry <= Clock(r)
  /\ SetLocal(r, Aborted(local[r]))
  /\ UNCHANGED <<lease, log, now>>

\* withFencedWrite: refused once the lease is known to be lost.
AskWrite(r) ==
  /\ local[r].pc = "running" /\ local[r].write = "none"
  /\ ~ local[r].lost
  /\ Len(log) < MaxWrites
  /\ SetLocal(r, [local[r] EXCEPT !.write = "asked", !.writeAt = Clock(r)])
  /\ UNCHANGED <<lease, log, now>>

\* The first statement of the transaction updates the lease document, if it is
\* still the one of this runner and has not expired; then the callback looks at
\* the clock and at the signal again.
OpenWrite(r) ==
  /\ local[r].write = "asked"
  /\ ~ Locked
  /\ SetLocal(r, IF /\ Owns(r) /\ lease.expiry > local[r].writeAt
                    /\ lease.expiry > Clock(r) /\ ~ local[r].lost
                 THEN [local[r] EXCEPT !.write = "open", !.writeAt = 0]
                 ELSE Aborted([local[r] EXCEPT !.write = "none", !.writeAt = 0]))
  /\ UNCHANGED <<lease, log, now>>

\* The writes of the job and the increment of writeSequence commit together,
\* however long the transaction was open.
CommitWrite(r) ==
  /\ local[r].write = "open"
  /\ lease' = [lease EXCEPT !.seq = @ + 1]
  /\ log' = Append(log, [by |-> r, in |-> local[r].token])
  /\ SetLocal(r, [local[r] EXCEPT !.write = "none", !.writeAt = 0])
  /\ UNCHANGED now

\* The job's own statements fail, or the transaction is aborted.
AbortWrite(r) ==
  /\ local[r].write \in {"asked", "open"}
  /\ SetLocal(r, [local[r] EXCEPT !.write = "none", !.writeAt = 0])
  /\ UNCHANGED <<lease, log, now>>

-----------------------------------------------------------------------------
(* The end of a tick *)

\* run returns or throws; stopRenewalLoop clears the timer.
EndJob(r) ==
  /\ local[r].pc = "running" /\ local[r].write = "none"
  /\ SetLocal(r, NoTimer([local[r] EXCEPT !.pc = "draining"]))
  /\ UNCHANGED <<lease, log, now>>

\* A renewal in flight is awaited first: it would extend a released lease.
BeginRelease(r) ==
  /\ local[r].pc = "draining"
  /\ local[r].renewal # "sent"
  /\ SetLocal(r, [local[r] EXCEPT !.pc = "releasing", !.at = Clock(r)])
  /\ UNCHANGED <<lease, log, now>>

\* Mutant: the release does not compare the owner and the token.
LandReleaseUnchecked(r) ==
  /\ local[r].pc = "releasing"
  /\ ~ Locked
  /\ lease' = [lease EXCEPT !.expiry = local[r].at]
  /\ SetLocal(r, Ended(local[r]))
  /\ UNCHANGED <<log, now>>

LandRelease(r) ==
  /\ local[r].pc = "releasing"
  /\ ~ Locked
  /\ lease' = IF Owns(r) THEN [lease EXCEPT !.expiry = local[r].at] ELSE lease
  /\ SetLocal(r, Ended(local[r]))
  /\ UNCHANGED <<log, now>>

\* The release is only logged when it fails: the lease runs out by itself.
FailRelease(r) ==
  /\ local[r].pc = "releasing"
  /\ SetLocal(r, Ended(local[r]))
  /\ UNCHANGED <<lease, log, now>>

-----------------------------------------------------------------------------
(* The instance *)

RequestStop(r) ==
  /\ r \in Stopping
  /\ local[r].mode = "on"
  /\ SetLocal(r, [local[r] EXCEPT !.mode = "stopping"])
  /\ UNCHANGED <<lease, log, now>>

\* stop resolves when the tick in progress, if any, has released its lease.
FinishStop(r) ==
  /\ local[r].mode = "stopping"
  /\ local[r].pc = "idle"
  /\ SetLocal(r, [local[r] EXCEPT !.mode = "off"])
  /\ UNCHANGED <<lease, log, now>>

\* The process dies, wherever it is, and is started again.  MongoDB aborts its
\* open transaction.
Crash(r) ==
  /\ SetLocal(r, Fresh)
  /\ UNCHANGED <<lease, log, now>>

Tick ==
  /\ now < Horizon
  /\ now' = now + 1
  /\ UNCHANGED <<lease, log, local>>

Acquire(r) ==
  StartTick(r) \/ ReadLease(r) \/ CreateLease(r) \/ TakeOver(r) \/ FailAcquire(r) \/ BeginJob(r)
Renewal(r) == SendRenewal(r) \/ LandRenewal(r) \/ FailRenewal(r)
Job(r) == AssertOwned(r) \/ AskWrite(r) \/ OpenWrite(r) \/ CommitWrite(r) \/ AbortWrite(r)
Finish(r) == EndJob(r) \/ BeginRelease(r) \/ LandRelease(r) \/ FailRelease(r)
Instance(r) == RequestStop(r) \/ FinishStop(r) \/ Crash(r)

Next ==
  \/ \E r \in Runner : Acquire(r) \/ Renewal(r) \/ Job(r) \/ Finish(r) \/ Instance(r)
  \/ Tick

Spec == Init /\ [][Next]_vars

\* The interval fires, a call to MongoDB is answered, a transaction and a job
\* end, and not every attempt to read or claim the lease fails.
Fairness ==
  \A r \in Runner :
    /\ WF_vars(StartTick(r)) /\ WF_vars(CreateLease(r)) /\ WF_vars(BeginJob(r))
    /\ WF_vars(LandRenewal(r)) /\ WF_vars(OpenWrite(r)) /\ WF_vars(CommitWrite(r))
    /\ WF_vars(BeginRelease(r)) /\ WF_vars(LandRelease(r)) /\ WF_vars(FinishStop(r))
    /\ SF_vars(ReadLease(r)) /\ SF_vars(TakeOver(r)) /\ SF_vars(EndJob(r))

FairSpec == Spec /\ Fairness

-----------------------------------------------------------------------------
(* Safety *)

\* A runner that acquired the lease and has not yet finished with it.
Engaged(r) == local[r].pc \in {"acquired", "running", "draining", "releasing"}

\* Two instances never work under the same fencing token, and the lease
\* document knows which of them has it.
OneRunnerPerToken ==
  \A r, s \in Runner :
    Engaged(r) /\ Engaged(s) /\ local[r].token = local[s].token => r = s

\* The log of fenced writes never goes back to an earlier token: what an owner
\* writes after it was replaced does not commit.
LogIsFenced ==
  \A i, j \in 1 .. Len(log) :
    i < j => \/ log[i].in < log[j].in
             \/ log[i] = log[j]

\* An open transaction protects its lease: nobody replaces the owner under it.
OpenWriteOwns == \A r \in Runner : local[r].write = "open" => Owns(r)

\* writeSequence counts the committed writes.
SequenceCountsLog == lease.seq = Len(log)

\* The inductive invariant behind the three.
TokenBound == \A r \in Runner : local[r].token <= lease.token
HolderAgrees ==
  \A r \in Runner :
    Engaged(r) => /\ local[r].token > 0
                  /\ local[r].token = lease.token => lease.owner = r
LogBound ==
  \A i \in 1 .. Len(log) :
    /\ 0 < log[i].in /\ log[i].in <= lease.token
    /\ log[i].in = lease.token => log[i].by = lease.owner
WriteInRun == \A r \in Runner : local[r].write # "none" => local[r].pc = "running"

IInv ==
  /\ TypeOK
  /\ OneRunnerPerToken /\ LogIsFenced /\ OpenWriteOwns /\ SequenceCountsLog
  /\ TokenBound /\ HolderAgrees /\ LogBound /\ WriteInRun

\* After stop has resolved the instance neither runs the job nor renews its lease.
StoppedIsQuiet ==
  \A r \in Runner :
    local[r].mode = "off" => local[r].pc = "idle" /\ local[r].renewal = "none"

-----------------------------------------------------------------------------
(* Action properties *)

\* A lease changes hands only when it has expired by the clock of the runner
\* that takes it, as the lease is at that moment: not one renewed meanwhile.
OnlyExpiredLeaseIsTaken ==
  [][lease'.token # lease.token =>
       lease.token = 0 \/ lease.expiry <= Clock(lease'.owner)]_vars

\* A lease ends early only by the release of its owner, as the last step of
\* its tick: not by a late renewal, a late release or another instance.
OnlyOwnerShortensLease ==
  [][lease'.expiry < lease.expiry =>
       Owns(lease.owner) /\ local[lease.owner].pc = "releasing"]_vars

\* A lease is prolonged only during the tick that acquired it: a renewal on its
\* way when the job ended does not keep a released lease alive.
OnlyTickProlongsLease ==
  [][lease'.token = lease.token /\ lease'.expiry > lease.expiry => Engaged(lease.owner)]_vars

\* The lease implements the fenced log.
Fenced ==
  INSTANCE FencedLog WITH epoch <- lease.token, holder <- lease.owner, log <- log

ImplementsFencedLog == Fenced!Spec

-----------------------------------------------------------------------------
(* Liveness *)

Expired == lease.token > 0 /\ \A r \in Runner : lease.expiry <= Clock(r)

\* A lease that ran out, its owner dead, stopped or without an answer, is taken
\* again as long as an instance is running.
ExpiredLeaseIsTaken ==
  \A k \in 1 .. (MaxToken - 1) :
    (Expired /\ lease.token = k)
      ~> (~ Expired \/ lease.token # k \/ \A r \in Runner : local[r].mode # "on")

\* stop resolves.
StopResolves ==
  \A r \in Runner : (local[r].mode = "stopping") ~> (local[r].mode # "stopping")
=============================================================================
