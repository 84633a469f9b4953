------------------------ MODULE MCEventRegistration ------------------------
(* Small instances of EventRegistration for TLC. *)
EXTENDS EventRegistration, TLC

CONSTANTS u1, u2

RequestSymmetry == Permutations(Request)
=============================================================================
