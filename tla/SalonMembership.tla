-------------------------- MODULE SalonMembership --------------------------
(***************************************************************************)
(* A salon's staff: the join request of each barber and the entry for the  *)
(* salon in the barber's document.                                         *)
(*                                                                         *)
(* Every operation is one database transaction over both documents, so it  *)
(* is one step.  What only refuses a request is left out: who may decide,  *)
(* whether the salon takes requests, the cooldown after a refusal and the  *)
(* number of pending requests of a barber.  Of several requests of one     *)
(* barber the code goes on with the last, which join stands for.           *)
(***************************************************************************)
CONSTANT Barber

JoinStatus  == {"none", "pending", "accepted", "rejected", "cancelled"}
EntryStatus == {"none", "pending", "approved", "rejected"}

VARIABLES
  join,   \* the salonjoinrequests collection: the status of the barber's request
  entry   \* User.salons: the status of the barber's entry for the salon

memberVars == <<join, entry>>

MembershipTypeOK ==
  /\ join \in [Barber -> JoinStatus]
  /\ entry \in [Barber -> EntryStatus]

MembershipInit ==
  /\ join = [b \in Barber |-> "none"]
  /\ entry = [b \in Barber |-> "none"]

Member(b) == entry[b] = "approved"

\* requestSalonJoinLifecycle: a closed request is opened again.
RequestJoin(b) ==
  /\ ~Member(b)
  /\ join[b] # "pending"
  /\ join' = [join EXCEPT ![b] = "pending"]
  /\ entry' = [entry EXCEPT ![b] = "pending"]

\* cancelRequestInTransaction leaves the barber's entry as it is.
CancelJoin(b) ==
  /\ join[b] = "pending"
  /\ join' = [join EXCEPT ![b] = "cancelled"]
  /\ UNCHANGED entry

\* decideSalonJoinRequestLifecycle.
AcceptJoin(b) ==
  /\ join[b] = "pending"
  /\ join' = [join EXCEPT ![b] = "accepted"]
  /\ entry' = [entry EXCEPT ![b] = "approved"]

RejectJoin(b) ==
  /\ join[b] = "pending"
  /\ ~Member(b)
  /\ join' = [join EXCEPT ![b] = "rejected"]
  /\ entry' = [entry EXCEPT ![b] = "rejected"]

\* The transaction of leaveSalon and of removeBarberFromSalon, with
\* cancelAcceptedSalonJoinRequests.
EndMembership(b) ==
  /\ Member(b)
  /\ entry' = [entry EXCEPT ![b] = "none"]
  /\ join' = [join EXCEPT ![b] = IF @ = "accepted" THEN "cancelled" ELSE @]

\* A barber works in the salon exactly while the last request is the accepted
\* one: whoever left can ask again, and no request is left accepted behind.
AcceptedIsMember ==
  \A b \in Barber : join[b] = "accepted" <=> Member(b)
=============================================================================
