------------------------------- MODULE Common -------------------------------
(* What the modules of the stock share: the orders, the people of the back  *)
(* office, and the faults of a behaviour.  crash: the process stops;        *)
(* database: a statement fails; network: a remote call fails.               *)
EXTENDS Integers, FiniteSets

CONSTANTS
    Orders,
    Admins,         \* requests of the back office that can be under way together
    None,
    FaultKinds, MaxFaults

AllFaultKinds == {"crash", "database", "network"}

ASSUME CommonAssumption ==
    /\ IsFiniteSet(Orders) /\ None \notin Orders
    /\ MaxFaults \in Nat /\ FaultKinds \subseteq AllFaultKinds

VARIABLE faults

Fault(kind) == kind \in FaultKinds /\ faults < MaxFaults /\ faults' = faults + 1
=============================================================================
