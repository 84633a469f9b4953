----------------------- MODULE MCSubscriptionPayments -----------------------
(* Small instances of SubscriptionPayments for TLC. *)
EXTENDS SubscriptionPayments, TLC

CONSTANTS paid1, paid2, failed1, refunded1

Said == [e \in Event |-> CASE e \in {paid1, paid2} -> "paid"
                            [] e = failed1 -> "failed"
                            [] e = refunded1 -> "refunded"]
=============================================================================
