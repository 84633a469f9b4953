------------------------------ MODULE MCMedia ------------------------------
(* Small instances of Media for TLC. *)
EXTENDS Media, TLC

CONSTANTS o1, o2, r1, r2

\* Objects of different classes meet only in the reconciliation, which treats
\* every record by itself.
OneClass == {[o \in Object |-> c] : c \in Class}

\* A single object meets every fault.  Two objects meet in a profile, where one
\* replaces the other; there a single run of the reconciliation goes through
\* the records that are given up, without faults.
OneOrReplaced ==
  /\ task[o2] # "new" => task[o1] # "new"
  /\ task[o2] # "new" =>
       /\ class[o1] \in Profile
       /\ faults = 0 /\ old = {}
       /\ run[r2] = Idle
       /\ \A o \in Object : media[o].lease # r2
=============================================================================
