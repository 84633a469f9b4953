------------------------------ MODULE FencedLog ------------------------------
(***************************************************************************)
(* What the scheduler lease promises to the jobs that write through it:    *)
(* their writes form one log, cut into epochs.  Each epoch belongs to one  *)
(* runner, only that runner writes in it, and once the next epoch has      *)
(* begun nothing is written in an earlier one.                             *)
(***************************************************************************)
EXTENDS Naturals, Sequences

CONSTANT Runner

VARIABLES
  epoch,    \* 0 before the first lease
  holder,   \* the runner the epoch belongs to
  log       \* the committed writes: who wrote, in which epoch

vars == <<epoch, holder, log>>

Init ==
  /\ epoch = 0
  /\ log = <<>>

BeginEpoch(r) ==
  /\ epoch' = epoch + 1
  /\ holder' = r
  /\ UNCHANGED log

Write ==
  /\ epoch > 0
  /\ log' = Append(log, [by |-> holder, in |-> epoch])
  /\ UNCHANGED <<epoch, holder>>

Next == Write \/ \E r \in Runner : BeginEpoch(r)

Spec == Init /\ [][Next]_vars
=============================================================================
