-------------------------- MODULE MCTokenRefund --------------------------
(* Instances of TokenRefund for TLC. *)
EXTENDS TokenRefund, TLC

(* All records are of one account. *)
SameAccount == [l \in Logs |-> CHOOSE a \in Accounts : TRUE]
=============================================================================
