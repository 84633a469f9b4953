----------------------------- MODULE MCWaitlist -----------------------------
(* Small instances of Waitlist for TLC. *)
EXTENDS Waitlist, TLC

CONSTANTS k1

MCOneKey        == [e \in Entry |-> k1]
RequestSymmetry == Permutations(Request)
Symmetry        == RequestSymmetry \cup Permutations(Entry)
=============================================================================
