-------------------------- MODULE MCSchedulerLease --------------------------
(* Small instances of SchedulerLease for TLC. *)
EXTENDS SchedulerLease, TLC

CONSTANTS r1, r2

\* The clock of r2 is one ahead.
MCSkew == [r \in Runner |-> IF r = r1 THEN 0 ELSE 1]
=============================================================================
