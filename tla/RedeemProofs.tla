---------------------------- MODULE RedeemProofs ----------------------------
(***************************************************************************)
(* Proofs about Redeem, for every set of codes, orders and redemptions and *)
(* every number of uses.  usedCount is shown to be the sum of the orders   *)
(* made, the uses held and the uses lost; the optimistic lock keeps it     *)
(* within maxUses, and so the orders.                                      *)
(***************************************************************************)
EXTENDS Redeem, FiniteSetTheorems, TLAPS

(* A redemption that has read its code and not yet reserved a use saw one  *)
(* left; usedCount never passes maxUses.                                   *)
Reserved ==
    /\ \A q \in Requests : rstep[q] = "reserve" => rused[q] < MaxUses[rcode[q]]
    /\ \A c \in Codes : used[c] <= MaxUses[c]

RedeemInv == RedeemTypeOK /\ UsesAddUp /\ Reserved

-----------------------------------------------------------------------------
(* Types. *)

(* Every step keeps the types. *)
LEMMA RedeemTypeStep == RedeemTypeOK /\ [RedeemNext]_<<redeemVars, faults>> => RedeemTypeOK'
<1> SUFFICES ASSUME RedeemTypeOK, [RedeemNext]_<<redeemVars, faults>>
             PROVE RedeemTypeOK'
    OBVIOUS
<1> USE CommonAssumption, RedeemAssumption
    DEF RedeemTypeOK, CodeStatuses, RequestSteps, codeVars, orderVars, requestVars
<1>1. ASSUME NEW c \in Codes, Generate(c) PROVE RedeemTypeOK'
    BY <1>1 DEF Generate
<1>2. ASSUME NEW c \in Codes, BatchRemove(c) PROVE RedeemTypeOK'
    BY <1>2 DEF BatchRemove
<1>3. ASSUME NEW c \in Codes, NEW s \in {"ACTIVE", "DISABLED"}, ToggleStatus(c, s)
      PROVE RedeemTypeOK'
    BY <1>3 DEF ToggleStatus
<1>4. ASSUME NEW a \in Admins, RemoveWrite(a) PROVE RedeemTypeOK'
    BY <1>4 DEF RemoveWrite
<1>5. ASSUME NEW a \in Admins, NEW c \in Codes, RemoveRead(a, c) PROVE RedeemTypeOK'
    BY <1>5 DEF RemoveRead
<1>6. ASSUME NEW c \in Codes, Expires(c) PROVE RedeemTypeOK'
    BY <1>6 DEF Expires
<1>7. ASSUME NEW c \in Codes, GoodsChange(c) PROVE RedeemTypeOK'
    BY <1>7 DEF GoodsChange
<1>8. ASSUME NEW q \in Requests, NEW c \in Codes, ReserveRead(q, c) PROVE RedeemTypeOK'
    BY <1>8 DEF ReserveRead, Goto
<1>9. ASSUME NEW q \in Requests, ReserveWrite(q) PROVE RedeemTypeOK'
    BY <1>9 DEF ReserveWrite, Goto
<1>10. ASSUME NEW q \in Requests, ReserveBusy(q) PROVE RedeemTypeOK'
    BY <1>10 DEF ReserveBusy, End, Goto
<1>11. ASSUME NEW q \in Requests, Load(q) PROVE RedeemTypeOK'
    BY <1>11 DEF Load, Goto
<1>12. ASSUME NEW q \in Requests, LoadFindsNothing(q) PROVE RedeemTypeOK'
    BY <1>12 DEF LoadFindsNothing, Lose, End, Goto
<1>13. ASSUME NEW q \in Requests, Rollback(q) PROVE RedeemTypeOK'
    BY <1>13 DEF Rollback, End, Goto
<1>14. ASSUME NEW q \in Requests, RollbackFails(q) PROVE RedeemTypeOK'
    BY <1>14 DEF RollbackFails, Lose, End, Goto
<1>15. ASSUME NEW q \in Requests, NEW o \in Orders, MakeOrder(q, o) PROVE RedeemTypeOK'
    BY <1>15 DEF MakeOrder, Goto
<1>16. ASSUME NEW q \in Requests, MakeRecord(q) PROVE RedeemTypeOK'
    BY <1>16 DEF MakeRecord, End, Goto
<1>17. ASSUME NEW q \in Requests, Deliver(q) PROVE RedeemTypeOK'
    BY <1>17 DEF Deliver, End, Goto
<1>18. ASSUME NEW q \in Requests, Dies(q) PROVE RedeemTypeOK'
    BY <1>18 DEF Dies, End, Goto
<1>19. CASE UNCHANGED <<redeemVars, faults>>
    BY <1>19 DEF redeemVars
<1> QED
    BY <1>1, <1>2, <1>3, <1>4, <1>5, <1>6, <1>7, <1>8, <1>9, <1>10, <1>11, <1>12,
       <1>13, <1>14, <1>15, <1>16, <1>17, <1>18, <1>19
    DEF RedeemNext, BackOffice, Redemption

(* The state of a code, an order and a redemption keeps its type. *)
THEOREM RedeemTypeCorrect == RedeemSpec => []RedeemTypeOK
<1>1. RedeemInit => RedeemTypeOK
    BY CommonAssumption, RedeemAssumption
    DEF RedeemInit, RedeemTypeOK, CodeStatuses, RequestSteps
<1> QED
    BY <1>1, RedeemTypeStep, PTL DEF RedeemSpec

-----------------------------------------------------------------------------
(* The sum of a code's uses. *)

(* The sets that are counted are finite. *)
LEMMA CountsAreNat ==
    \A c : /\ IsFiniteSet(OrdersOf(c)) /\ Cardinality(OrdersOf(c)) \in Nat
           /\ IsFiniteSet(Holding(c)) /\ Cardinality(Holding(c)) \in Nat
<1> TAKE c
<1>1. OrdersOf(c) \subseteq Orders /\ Holding(c) \subseteq Requests
    BY DEF OrdersOf, Holding
<1> QED
    BY <1>1, CommonAssumption, RedeemAssumption, FS_Subset, FS_CardinalityType

(* What is held and made stays as it is in every step but five. *)
LEMMA SumStays ==
    ASSUME UsesAddUp,
           \A c \in Codes : Holding(c)' = Holding(c),
           UNCHANGED <<used, made, lost>>
    PROVE  UsesAddUp'
<1> SUFFICES ASSUME NEW c \in Codes
             PROVE used'[c] = Cardinality(OrdersOf(c)') + Cardinality(Holding(c)') + lost'[c]
    BY DEF UsesAddUp
<1>1. OrdersOf(c)' = OrdersOf(c)
    BY DEF OrdersOf
<1> QED
    BY <1>1 DEF UsesAddUp

(* A redemption q holds a use of code c more than before. *)
LEMMA TakeHold ==
    ASSUME NEW c, NEW q \in Requests, q \notin Holding(c), Holding(c)' = Holding(c) \cup {q}
    PROVE  Cardinality(Holding(c)') = Cardinality(Holding(c)) + 1
    BY CountsAreNat, FS_AddElement

(* A redemption q holds a use of code c no longer. *)
LEMMA LoseHold ==
    ASSUME NEW c, NEW q \in Requests, q \in Holding(c), Holding(c)' = Holding(c) \ {q}
    PROVE  Cardinality(Holding(c)') = Cardinality(Holding(c)) - 1
    BY CountsAreNat, FS_RemoveElement

(* Ending a redemption takes it out of the hold it may have had, and       *)
(* touches no other.                                                       *)
LEMMA EndReleases ==
    ASSUME RedeemTypeOK, NEW q \in Requests, End(q), NEW c \in Codes
    PROVE  Holding(c)' = Holding(c) \ {q}
    BY DEF RedeemTypeOK, End, Goto, Holding

(* Only the redemption's own code is held by it. *)
LEMMA HoldsItsCode ==
    ASSUME NEW q \in Requests, NEW c \in Codes, c # rcode[q]
    PROVE  q \notin Holding(c)
    BY DEF Holding

(* A step that ends a redemption which held nothing, or moves one without  *)
(* taking or losing its hold, leaves the sum.                              *)
LEMMA SumAfterEnd ==
    ASSUME RedeemTypeOK, UsesAddUp, NEW q \in Requests, End(q),
           rstep[q] \notin {"load", "rollback", "order"},
           UNCHANGED <<used, made, lost>>
    PROVE  UsesAddUp'
<1>1. ASSUME NEW c \in Codes PROVE Holding(c)' = Holding(c)
    <2>1. q \notin Holding(c)
        BY DEF Holding
    <2> QED
        BY <2>1, EndReleases
<1> QED
    BY <1>1, SumStays

(* The use of a redemption that ends without an order is lost.             *)
LEMMA SumAfterLoss ==
    ASSUME RedeemTypeOK, UsesAddUp, NEW q \in Requests, End(q), Lose(rcode[q]),
           rstep[q] \in {"load", "rollback", "order"},
           UNCHANGED <<used, made>>
    PROVE  UsesAddUp'
<1> SUFFICES ASSUME NEW c \in Codes
             PROVE used'[c] = Cardinality(OrdersOf(c)') + Cardinality(Holding(c)') + lost'[c]
    BY DEF UsesAddUp
<1>1. OrdersOf(c)' = OrdersOf(c) /\ used'[c] = used[c]
    BY DEF OrdersOf
<1>2. Holding(c)' = Holding(c) \ {q}
    BY EndReleases
<1>3. /\ used[c] = Cardinality(OrdersOf(c)) + Cardinality(Holding(c)) + lost[c]
      /\ lost[c] \in Nat /\ lost \in [Codes -> Nat]
    BY DEF UsesAddUp, RedeemTypeOK
<1>4. CASE c = rcode[q]
    <2>1. q \in Holding(c)
        BY <1>4 DEF Holding
    <2>2. lost'[c] = lost[c] + 1
        BY <1>4, <1>3 DEF Lose
    <2> QED
        BY <1>1, <1>2, <1>3, <2>1, <2>2, LoseHold, CountsAreNat
<1>5. CASE c # rcode[q]
    <2>1. Holding(c)' = Holding(c)
        BY <1>2, <1>5, HoldsItsCode
    <2>2. lost'[c] = lost[c]
        BY <1>5, <1>3 DEF Lose
    <2> QED
        BY <1>1, <1>3, <2>1, <2>2
<1> QED
    BY <1>4, <1>5

(* A reservation: one use more, and one more held. *)
LEMMA SumAfterReserve ==
    ASSUME RedeemTypeOK, UsesAddUp, NEW q \in Requests, ReserveWrite(q)
    PROVE  UsesAddUp'
<1> DEFINE d == rcode[q]
<1> SUFFICES ASSUME NEW c \in Codes
             PROVE used'[c] = Cardinality(OrdersOf(c)') + Cardinality(Holding(c)') + lost'[c]
    BY DEF UsesAddUp
<1>1. OrdersOf(c)' = OrdersOf(c) /\ lost'[c] = lost[c]
    BY DEF ReserveWrite, OrdersOf, orderVars
<1>2. used[c] = Cardinality(OrdersOf(c)) + Cardinality(Holding(c)) + lost[c] /\ lost[c] \in Nat
    BY DEF UsesAddUp, RedeemTypeOK
<1>3. CASE c = d
    <2>1. q \notin Holding(c) /\ Holding(c)' = Holding(c) \cup {q}
        BY <1>3 DEF ReserveWrite, Goto, Holding, RedeemTypeOK
    <2>2. used'[c] = used[c] + 1
        BY <1>3 DEF ReserveWrite, RedeemTypeOK
    <2>3. Cardinality(Holding(c)') = Cardinality(Holding(c)) + 1
        BY <2>1, TakeHold
    <2> QED
        BY <1>1, <1>2, <2>2, <2>3, CountsAreNat
<1>4. CASE c # d
    <2>1. Holding(c)' = Holding(c)
        BY <1>4 DEF ReserveWrite, Goto, Holding, RedeemTypeOK
    <2>2. used'[c] = used[c]
        BY <1>4 DEF ReserveWrite, RedeemTypeOK
    <2> QED
        BY <1>1, <1>2, <2>1, <2>2
<1> QED
    BY <1>3, <1>4

(* A rollback: one use less, and one less held. *)
LEMMA SumAfterRollback ==
    ASSUME RedeemTypeOK, UsesAddUp, NEW q \in Requests, Rollback(q)
    PROVE  UsesAddUp'
<1> SUFFICES ASSUME NEW c \in Codes
             PROVE used'[c] = Cardinality(OrdersOf(c)') + Cardinality(Holding(c)') + lost'[c]
    BY DEF UsesAddUp
<1>1. OrdersOf(c)' = OrdersOf(c) /\ lost'[c] = lost[c]
    BY DEF Rollback, OrdersOf, orderVars
<1>2. used[c] = Cardinality(OrdersOf(c)) + Cardinality(Holding(c)) + lost[c] /\ lost[c] \in Nat
    BY DEF UsesAddUp, RedeemTypeOK
<1>3. Holding(c)' = Holding(c) \ {q}
    BY EndReleases DEF Rollback
<1>4. CASE c = rcode[q]
    <2>1. q \in Holding(c)
        BY <1>4 DEF Rollback, Holding
    <2>2. used'[c] = used[c] - 1
        BY <1>4 DEF Rollback, RedeemTypeOK
    <2>3. Cardinality(Holding(c)') = Cardinality(Holding(c)) - 1
        BY <1>3, <2>1, LoseHold
    <2> QED
        BY <1>1, <1>2, <2>2, <2>3, CountsAreNat
<1>5. CASE c # rcode[q]
    <2>1. Holding(c)' = Holding(c)
        BY <1>3, <1>5, HoldsItsCode
    <2>2. used'[c] = used[c]
        BY <1>5 DEF Rollback, RedeemTypeOK
    <2> QED
        BY <1>1, <1>2, <2>1, <2>2
<1> QED
    BY <1>4, <1>5

(* An order takes the place of the hold. *)
LEMMA SumAfterOrder ==
    ASSUME RedeemTypeOK, UsesAddUp, NEW q \in Requests, NEW o \in Orders, MakeOrder(q, o)
    PROVE  UsesAddUp'
<1> SUFFICES ASSUME NEW c \in Codes
             PROVE used'[c] = Cardinality(OrdersOf(c)') + Cardinality(Holding(c)') + lost'[c]
    BY DEF UsesAddUp
<1>1. used'[c] = used[c] /\ lost'[c] = lost[c]
    BY DEF MakeOrder, codeVars
<1>2. used[c] = Cardinality(OrdersOf(c)) + Cardinality(Holding(c)) + lost[c] /\ lost[c] \in Nat
    BY DEF UsesAddUp, RedeemTypeOK
<1>3. Holding(c)' = Holding(c) \ {q}
    BY DEF MakeOrder, Goto, Holding, RedeemTypeOK
<1>4. CASE c = rcode[q]
    <2>1. q \in Holding(c)
        BY <1>4 DEF MakeOrder, Holding
    <2>2. o \notin OrdersOf(c) /\ OrdersOf(c)' = OrdersOf(c) \cup {o}
        BY <1>4, RedeemAssumption DEF MakeOrder, OrdersOf, RedeemTypeOK
    <2>3. Cardinality(OrdersOf(c)') = Cardinality(OrdersOf(c)) + 1
        BY <2>2, CountsAreNat, FS_AddElement
    <2>4. Cardinality(Holding(c)') = Cardinality(Holding(c)) - 1
        BY <1>3, <2>1, LoseHold
    <2> QED
        BY <1>1, <1>2, <2>3, <2>4, CountsAreNat
<1>5. CASE c # rcode[q]
    <2>1. Holding(c)' = Holding(c)
        BY <1>3, <1>5, HoldsItsCode
    <2>2. OrdersOf(c)' = OrdersOf(c)
        BY <1>5, RedeemAssumption DEF MakeOrder, OrdersOf, RedeemTypeOK
    <2> QED
        BY <1>1, <1>2, <2>1, <2>2
<1> QED
    BY <1>4, <1>5

(* Every step keeps the sum. *)
LEMMA SumStep ==
    RedeemTypeOK /\ UsesAddUp /\ [RedeemNext]_<<redeemVars, faults>> => UsesAddUp'
<1> SUFFICES ASSUME RedeemTypeOK, UsesAddUp, [RedeemNext]_<<redeemVars, faults>>
             PROVE UsesAddUp'
    OBVIOUS
<1> USE DEF codeVars, orderVars, requestVars
<1>1. CASE BackOffice
    <2>1. UNCHANGED <<used, made, lost, rstep, rcode>>
        BY <1>1 DEF BackOffice, Generate, BatchRemove, ToggleStatus, RemoveWrite,
                    RemoveRead, Expires, GoodsChange
    <2>2. \A c \in Codes : Holding(c)' = Holding(c)
        BY <2>1 DEF Holding
    <2> QED
        BY <2>1, <2>2, SumStays
<1>2. ASSUME NEW q \in Requests, NEW c \in Codes, ReserveRead(q, c) PROVE UsesAddUp'
    <2>1. \A d \in Codes : Holding(d)' = Holding(d)
        BY <1>2 DEF ReserveRead, Goto, Holding, RedeemTypeOK
    <2> QED
        BY <1>2, <2>1, SumStays DEF ReserveRead
<1>3. ASSUME NEW q \in Requests, ReserveWrite(q) PROVE UsesAddUp'
    BY <1>3, SumAfterReserve
<1>4. ASSUME NEW q \in Requests, ReserveBusy(q) PROVE UsesAddUp'
    BY <1>4, SumAfterEnd DEF ReserveBusy
<1>5. ASSUME NEW q \in Requests, Load(q) PROVE UsesAddUp'
    <2>1. \A d \in Codes : Holding(d)' = Holding(d)
        BY <1>5 DEF Load, Goto, Holding, RedeemTypeOK
    <2> QED
        BY <1>5, <2>1, SumStays DEF Load
<1>6. ASSUME NEW q \in Requests, LoadFindsNothing(q) PROVE UsesAddUp'
    BY <1>6, SumAfterLoss DEF LoadFindsNothing
<1>7. ASSUME NEW q \in Requests, Rollback(q) PROVE UsesAddUp'
    BY <1>7, SumAfterRollback
<1>8. ASSUME NEW q \in Requests, RollbackFails(q) PROVE UsesAddUp'
    BY <1>8, SumAfterLoss DEF RollbackFails
<1>9. ASSUME NEW q \in Requests, NEW o \in Orders, MakeOrder(q, o) PROVE UsesAddUp'
    BY <1>9, SumAfterOrder
<1>10. ASSUME NEW q \in Requests, MakeRecord(q) PROVE UsesAddUp'
    <2>1. \A d \in Codes : Holding(d)' = Holding(d)
        BY <1>10 DEF MakeRecord, End, Goto, Holding, RedeemTypeOK
    <2> QED
        BY <1>10, <2>1, SumStays DEF MakeRecord
<1>11. ASSUME NEW q \in Requests, Deliver(q) PROVE UsesAddUp'
    BY <1>11, SumAfterEnd DEF Deliver
<1>12. ASSUME NEW q \in Requests, Dies(q) PROVE UsesAddUp'
    <2>1. CASE q \in Holding(rcode[q])
        <3>1. rstep[q] \in {"load", "rollback", "order"}
            BY <2>1 DEF Holding
        <3>2. Lose(rcode[q])
            BY <1>12, <2>1 DEF Dies, Lose
        <3> QED
            BY <1>12, <3>1, <3>2, SumAfterLoss DEF Dies
    <2>2. CASE q \notin Holding(rcode[q])
        <3>1. rstep[q] \notin {"load", "rollback", "order"}
            BY <2>2 DEF Holding
        <3> QED
            BY <1>12, <2>2, <3>1, SumAfterEnd DEF Dies
    <2> QED
        BY <2>1, <2>2
<1>13. CASE UNCHANGED <<redeemVars, faults>>
    <2>1. \A d \in Codes : Holding(d)' = Holding(d)
        BY <1>13 DEF redeemVars, Holding
    <2> QED
        BY <1>13, <2>1, SumStays DEF redeemVars
<1> QED
    BY <1>1, <1>2, <1>3, <1>4, <1>5, <1>6, <1>7, <1>8, <1>9, <1>10, <1>11, <1>12, <1>13
    DEF RedeemNext, Redemption

-----------------------------------------------------------------------------
(* The bound of a code's uses. *)

(* Every step keeps usedCount within maxUses. *)
LEMMA ReservedStep ==
    RedeemTypeOK /\ Reserved /\ [RedeemNext]_<<redeemVars, faults>> => Reserved'
<1> SUFFICES ASSUME RedeemTypeOK, Reserved, [RedeemNext]_<<redeemVars, faults>>
             PROVE Reserved'
    OBVIOUS
<1> USE RedeemAssumption
    DEF RedeemTypeOK, Reserved, codeVars, orderVars, requestVars, End, Goto
<1>1. CASE BackOffice
    BY <1>1 DEF BackOffice, Generate, BatchRemove, ToggleStatus, RemoveWrite,
                RemoveRead, Expires, GoodsChange
<1>2. ASSUME NEW q \in Requests, NEW c \in Codes, ReserveRead(q, c) PROVE Reserved'
    BY <1>2 DEF ReserveRead, Redeemable
<1>3. ASSUME NEW q \in Requests, ReserveWrite(q) PROVE Reserved'
    BY <1>3 DEF ReserveWrite
<1>4. ASSUME NEW q \in Requests, ReserveBusy(q) PROVE Reserved'
    BY <1>4 DEF ReserveBusy
<1>5. ASSUME NEW q \in Requests, Load(q) PROVE Reserved'
    BY <1>5 DEF Load
<1>6. ASSUME NEW q \in Requests, LoadFindsNothing(q) PROVE Reserved'
    BY <1>6 DEF LoadFindsNothing
<1>7. ASSUME NEW q \in Requests, Rollback(q) PROVE Reserved'
    BY <1>7 DEF Rollback
<1>8. ASSUME NEW q \in Requests, RollbackFails(q) PROVE Reserved'
    BY <1>8 DEF RollbackFails
<1>9. ASSUME NEW q \in Requests, NEW o \in Orders, MakeOrder(q, o) PROVE Reserved'
    BY <1>9 DEF MakeOrder
<1>10. ASSUME NEW q \in Requests, MakeRecord(q) PROVE Reserved'
    BY <1>10 DEF MakeRecord
<1>11. ASSUME NEW q \in Requests, Deliver(q) PROVE Reserved'
    BY <1>11 DEF Deliver
<1>12. ASSUME NEW q \in Requests, Dies(q) PROVE Reserved'
    BY <1>12 DEF Dies
<1>13. CASE UNCHANGED <<redeemVars, faults>>
    BY <1>13 DEF redeemVars
<1> QED
    BY <1>1, <1>2, <1>3, <1>4, <1>5, <1>6, <1>7, <1>8, <1>9, <1>10, <1>11, <1>12, <1>13
    DEF RedeemNext, Redemption

(* The three parts hold together at the start ... *)
LEMMA RedeemStarts == RedeemInit => RedeemInv
<1>1. RedeemInit => RedeemTypeOK
    BY CommonAssumption, RedeemAssumption
    DEF RedeemInit, RedeemTypeOK, CodeStatuses, RequestSteps
<1>2. RedeemInit => UsesAddUp
    <2> SUFFICES ASSUME RedeemInit, NEW c \in Codes
                 PROVE used[c] = Cardinality(OrdersOf(c)) + Cardinality(Holding(c)) + lost[c]
        BY DEF UsesAddUp
    <2>1. OrdersOf(c) = {} /\ Holding(c) = {}
        BY RedeemAssumption DEF RedeemInit, OrdersOf, Holding
    <2>2. used[c] = 0 /\ lost[c] = 0
        BY DEF RedeemInit
    <2> QED
        BY <2>1, <2>2, FS_EmptySet
<1>3. RedeemInit => Reserved
    BY RedeemAssumption DEF RedeemInit, Reserved
<1> QED
    BY <1>1, <1>2, <1>3 DEF RedeemInv

(* ... and after every step ... *)
LEMMA RedeemKeeps == RedeemInv /\ [RedeemNext]_<<redeemVars, faults>> => RedeemInv'
    BY RedeemTypeStep, SumStep, ReservedStep DEF RedeemInv

(* ... and so in every state. *)
LEMMA RedeemInvariant == RedeemSpec => []RedeemInv
    BY RedeemStarts, RedeemKeeps, PTL DEF RedeemSpec

(* The orders of a code are among its uses. *)
LEMMA OveruseHolds == RedeemInv => NeverOverused
<1> SUFFICES ASSUME RedeemInv, NEW c \in Codes
             PROVE Cardinality(OrdersOf(c)) <= MaxUses[c]
    BY DEF NeverOverused
<1>1. /\ used[c] = Cardinality(OrdersOf(c)) + Cardinality(Holding(c)) + lost[c]
      /\ used[c] <= MaxUses[c] /\ lost[c] \in Nat /\ MaxUses[c] \in Nat
    BY RedeemAssumption DEF RedeemInv, UsesAddUp, Reserved, RedeemTypeOK
<1> QED
    BY <1>1, CountsAreNat

(* usedCount counts the orders made, the uses held and the uses lost. *)
THEOREM UsesAlwaysAddUp == RedeemSpec => []UsesAddUp
    BY RedeemInvariant, PTL DEF RedeemInv

(* No code serves more orders than maxUses, whatever redemptions, rollbacks *)
(* and the back office do together.                                         *)
THEOREM CodesAreNeverOverused == RedeemSpec => []NeverOverused
    BY OveruseHolds, RedeemInvariant, PTL
=============================================================================
