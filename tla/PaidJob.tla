------------------------------ MODULE PaidJob ------------------------------
(***************************************************************************)
(* What the token refund promises of each of its records: a job is offered *)
(* for a fee, started by the payment and by nothing else, taken up again   *)
(* when it was interrupted, retried only after it failed, and never        *)
(* touched again once it is done, except to be deleted.  TokenRefund       *)
(* implements it.                                                          *)
(***************************************************************************)
CONSTANT Jobs

VARIABLE phase

Phases == {"NONE", "NEED_PAY", "RUNNING", "INTERRUPTED", "FAILED", "DONE", "GONE"}

(* At most these phases lead to the phase p. *)
Before(p) ==
    CASE p = "NONE" -> {}
      [] p = "NEED_PAY" -> {"NONE"}
      [] p = "RUNNING" -> {"NEED_PAY", "INTERRUPTED", "FAILED"}
      [] p = "INTERRUPTED" -> {"NEED_PAY", "RUNNING"}
      [] p = "FAILED" -> {"RUNNING", "INTERRUPTED"}
      [] p = "DONE" -> {"NONE", "RUNNING", "INTERRUPTED", "FAILED"}
      [] p = "GONE" -> {"RUNNING", "INTERRUPTED", "FAILED", "DONE"}

JobInit == phase = [j \in Jobs |-> "NONE"]

Advance(j) == \E p \in Phases :
    /\ phase[j] \in Before(p)
    /\ phase' = [phase EXCEPT ![j] = p]

(* A server that stops interrupts all jobs it runs. *)
Interrupt == \E S \in SUBSET Jobs :
    /\ \A j \in S : phase[j] = "RUNNING"
    /\ phase' = [j \in Jobs |-> IF j \in S THEN "INTERRUPTED" ELSE phase[j]]

JobNext == Interrupt \/ \E j \in Jobs : Advance(j)

JobSpec == JobInit /\ [][JobNext]_phase
=============================================================================
