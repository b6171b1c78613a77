---------------------------- MODULE StockProofs ----------------------------
(***************************************************************************)
(* Proofs about Stock and the warehouse in it, for every number of rows,   *)
(* cards, orders, requests, buyers and overlapping runs of the refund job, *)
(* and every choice of workloads; and about everything Stock composes: the *)
(* invariants of the parts survive the steps of the other parts.           *)
(*                                                                         *)
(* What any part of Stock does to the warehouse is a ShopStep: a step of   *)
(* the warehouse, the deletion of rows by recycling or by the pool of      *)
(* subscriptions, or a step elsewhere.  The invariants of the warehouse    *)
(* are proved of ShopStep, and so hold of Warehouse alone and of Stock.    *)
(***************************************************************************)
EXTENDS Stock, RedeemProofs, PoolProofs, FiniteSetTheorems, TLAPS

(* Rows are deleted with what they knew of their card, the card stays.     *)
RowsGo(R) ==
    /\ \A r \in R : Stored(r)
    /\ wstatus' = [r \in Rows |-> IF r \in R THEN "GONE" ELSE wstatus[r]]
    /\ card' = [r \in Rows |-> IF r \in R THEN None ELSE card[r]]
    /\ UNCHANGED <<account, refs, worder, refundVars, cardVars, free, adminVars, todo, cause, faults>>

(* Orders of other goods are delivered, accounts become free, things fail. *)
Elsewhere ==
    /\ delivered' \subseteq Orders /\ free' \subseteq Accounts /\ faults' \in 0..MaxFaults
    /\ UNCHANGED <<rowVars, refundVars, kstatus, kaccount, korder, adminVars, todo, cause>>

ShopStep == WarehouseNext \/ (\E R \in SUBSET Rows : RowsGo(R)) \/ Elsewhere

(* The runs that have listed the row and not yet refunded it.              *)
Pending(r) == {c \in Crons : r \in todo[c]}

AttemptsInSight ==
    \A r \in Rows : attempts[r] + Cardinality(Pending(r))
                        <= MaxAttempts - 1 + Cardinality(Crons) + manual

(* What a request works on: a new row on an account, all others on a row.  *)
RequestsOnRows ==
    \A a \in Admins : astep[a] # "idle" =>
        arow[a] \in IF aop[a] = "add" THEN Accounts ELSE Rows

(* The job lists rows that exist, or existed. *)
ListsAreRows == \A c \in Crons : \A r \in todo[c] : wstatus[r] # "NONE"

WarehouseInv == WarehouseTypeOK /\ RequestsOnRows /\ ListsAreRows /\ AttemptsInSight

-----------------------------------------------------------------------------
(* Types. *)

(* A blame adds a cause. *)
LEMMA BlameTyped ==
    ASSUME WarehouseTypeOK, NEW cond, NEW x, NEW why \in Causes, BlameIf(cond, x, why)
    PROVE  cause' \in [Accounts -> SUBSET Causes]
    BY DEF WarehouseTypeOK, BlameIf, Blame

(* A row gets a status and a card. *)
LEMMA RowTyped ==
    ASSUME WarehouseTypeOK, NEW r \in Rows, Stored(r), NEW s \in RowStatuses,
           NEW k \in Cards \cup {None}, SetRow(r, s, k)
    PROVE  /\ wstatus' \in [Rows -> RowStatuses]
           /\ account' \in [Rows -> Accounts \cup {None}]
           /\ refs' \subseteq Rows
           /\ card' \in [Rows -> Cards \cup {None}]
           /\ worder' \in [Rows -> Orders \cup {None}]
           /\ \A q \in Rows : wstatus'[q] # "NONE" => account'[q] \in Accounts
    BY DEF WarehouseTypeOK, SetRow, Stored

(* A request ends. *)
LEMMA EndTyped ==
    ASSUME WarehouseTypeOK, RequestsOnRows, NEW a \in Admins, EndRequest(a)
    PROVE  /\ aop' \in [Admins -> AllAdminOps \cup {None}]
           /\ astep' \in [Admins -> {"idle", "check", "cut", "write"}]
           /\ arow' \in [Admins -> Rows \cup Accounts \cup {None}]
           /\ acard' \in [Admins -> Cards \cup {None}]
           /\ RequestsOnRows'
    BY DEF WarehouseTypeOK, RequestsOnRows, EndRequest

(* Cards that are deleted. *)
LEMMA CutTyped ==
    ASSUME WarehouseTypeOK, NEW k
    PROVE  CardsWithout(k) \in [Cards -> {"NONE", "AVAILABLE", "SOLD", "GONE"}]
    BY DEF WarehouseTypeOK, CardsWithout

(* A row comes in for an account. *)
LEMMA NewRowTyped ==
    ASSUME WarehouseTypeOK, NEW r \in Rows, NEW x \in Accounts, NEW b, NewRow(r, x, b)
    PROVE  /\ wstatus' \in [Rows -> RowStatuses]
           /\ account' \in [Rows -> Accounts \cup {None}]
           /\ refs' \subseteq Rows
           /\ cause' \in [Accounts -> SUBSET Causes]
           /\ \A q \in Rows : wstatus'[q] # "NONE" => account'[q] \in Accounts
<1>1. cause' \in [Accounts -> SUBSET Causes]
    BY BlameTyped DEF NewRow, Causes
<1> QED
    BY <1>1 DEF WarehouseTypeOK, NewRow, RowStatuses

(* Every request of the back office keeps the types. *)
LEMMA RequestTyped ==
    ASSUME WarehouseTypeOK, RequestsOnRows, NEW a \in Admins, Request(a, AllAdminOps)
    PROVE  WarehouseTypeOK' /\ RequestsOnRows'
<1> USE DEF rowVars, refundVars, cardVars
<1>1. ASSUME NEW x \in Accounts, AddRead(a, x) PROVE WarehouseTypeOK' /\ RequestsOnRows'
    BY <1>1 DEF AddRead, WarehouseTypeOK, RequestsOnRows, AllAdminOps
<1>2. ASSUME NEW r \in Rows, AddWrite(a, r) PROVE WarehouseTypeOK' /\ RequestsOnRows'
    <2>1. arow[a] \in Accounts
        BY <1>2 DEF AddWrite, At, RequestsOnRows
    <2>2. NewRow(r, arow[a], FALSE) /\ EndRequest(a)
        BY <1>2 DEF AddWrite
    <2> QED
        BY <2>1, <2>2, NewRowTyped, EndTyped DEF NewRow, WarehouseTypeOK
<1>3. ASSUME NEW r \in Rows, NEW op \in ReadOps, ReadRow(a, op, r)
      PROVE WarehouseTypeOK' /\ RequestsOnRows'
    <2>1. op \in AllAdminOps /\ op # "add"
        BY DEF ReadOps, AllAdminOps
    <2> QED
        BY <1>3, <2>1 DEF ReadRow, WarehouseTypeOK, RequestsOnRows
<1>4. CASE CheckCard(a)
    BY <1>4 DEF CheckCard, WarehouseTypeOK, RequestsOnRows
<1>5. CASE RefuseCard(a) \/ RequestFails(a)
    BY <1>5, EndTyped DEF RefuseCard, RequestFails, WarehouseTypeOK
<1>6. ASSUME NEW k \in Cards, Assign(a, k) PROVE WarehouseTypeOK' /\ RequestsOnRows'
    <2>1. arow[a] \in Rows /\ Stored(arow[a]) /\ account[arow[a]] \in Accounts
        BY <1>6 DEF Assign, At, RequestsOnRows, Stored, WarehouseTypeOK
    <2>2. SetRow(arow[a], "ASSIGNED", k) /\ EndRequest(a)
        BY <1>6 DEF Assign
    <2>3. cause' \in [Accounts -> SUBSET Causes]
        BY <1>6, BlameTyped DEF Assign, Causes
    <2>4. /\ kstatus' \in [Cards -> {"NONE", "AVAILABLE", "SOLD", "GONE"}]
          /\ kaccount' \in [Cards -> Accounts \cup {None}]
        BY <1>6, <2>1 DEF Assign, WarehouseTypeOK
    <2> QED
        BY <1>6, <2>1, <2>2, <2>3, <2>4, RowTyped, EndTyped
        DEF Assign, WarehouseTypeOK, RowStatuses
<1>7. CASE Unassign(a)
    <2>1. arow[a] \in Rows /\ Stored(arow[a])
        BY <1>7 DEF Unassign, At, RequestsOnRows
    <2>2. SetRow(arow[a], "PENDING", None) /\ EndRequest(a)
        BY <1>7 DEF Unassign
    <2>3. cause' \in [Accounts -> SUBSET Causes]
        BY <1>7, BlameTyped DEF Unassign, Causes
    <2> QED
        BY <1>7, <2>1, <2>2, <2>3, RowTyped, EndTyped, CutTyped
        DEF Unassign, WarehouseTypeOK, RowStatuses
<1>8. CASE RemoveCard(a)
    <2>1. cause' \in [Accounts -> SUBSET Causes]
        BY <1>8, BlameTyped DEF RemoveCard, Causes
    <2> QED
        BY <1>8, <2>1, CutTyped DEF RemoveCard, At, WarehouseTypeOK, RequestsOnRows
<1>9. CASE DropRow(a)
    <2>1. arow[a] \in Rows /\ Stored(arow[a])
        BY <1>9 DEF DropRow, RequestsOnRows
    <2>2. SetRow(arow[a], "GONE", None) /\ EndRequest(a)
        BY <1>9 DEF DropRow
    <2> QED
        BY <1>9, <2>1, <2>2, RowTyped, EndTyped DEF DropRow, WarehouseTypeOK, RowStatuses
<1>10. CASE Unlist(a)
    <2>1. arow[a] \in Rows /\ Stored(arow[a])
        BY <1>10 DEF Unlist, At, RequestsOnRows
    <2>2. (IF acard[a] = None THEN card[arow[a]] ELSE None) \in Cards \cup {None}
        BY <2>1 DEF WarehouseTypeOK
    <2>3. /\ SetRow(arow[a], "UNLISTED", IF acard[a] = None THEN card[arow[a]] ELSE None)
          /\ EndRequest(a)
        BY <1>10 DEF Unlist
    <2>4. cause' \in [Accounts -> SUBSET Causes]
        BY <1>10, BlameTyped DEF Unlist, Causes
    <2> QED
        BY <1>10, <2>1, <2>2, <2>3, <2>4, RowTyped, EndTyped, CutTyped
        DEF Unlist, WarehouseTypeOK, RowStatuses
<1>11. CASE Relist(a)
    <2>1. arow[a] \in Rows /\ Stored(arow[a]) /\ card[arow[a]] \in Cards \cup {None}
        BY <1>11 DEF Relist, At, RequestsOnRows, WarehouseTypeOK
    <2>2. SetRow(arow[a], "PENDING", card[arow[a]]) /\ EndRequest(a)
        BY <1>11 DEF Relist
    <2>3. cause' \in [Accounts -> SUBSET Causes]
        BY <1>11, BlameTyped DEF Relist, Causes
    <2> QED
        BY <1>11, <2>1, <2>2, <2>3, RowTyped, EndTyped
        DEF Relist, WarehouseTypeOK, RowStatuses
<1> QED
    BY <1>1, <1>2, <1>3, <1>4, <1>5, <1>6, <1>7, <1>8, <1>9, <1>10, <1>11
    DEF Request, ReadOps

(* Sales, the returns of cards and the refund job keep the types. *)
LEMMA OthersTyped ==
    ASSUME WarehouseTypeOK, RequestsOnRows, ListsAreRows,
           \/ \E x \in Accounts, r \in Rows : Push(x, r) \/ Import(x, r)
           \/ \E o \in Orders : Purchase(o) \/ ReturnCards(o)
           \/ \E c \in Crons : CronSteps(c)
           \/ \E r \in Rows : ByHand(r)
    PROVE  WarehouseTypeOK' /\ RequestsOnRows'
<1> USE WarehouseBoundAssumption, CommonAssumption
    DEF rowVars, refundVars, cardVars, adminVars, RequestsOnRows
<1>1. ASSUME NEW x \in Accounts, NEW r \in Rows, Push(x, r) \/ Import(x, r)
      PROVE WarehouseTypeOK' /\ RequestsOnRows'
    <2>1. PICK b \in BOOLEAN : NewRow(r, x, b) /\ UNCHANGED adminVars
        BY <1>1 DEF Push, Import
    <2> QED
        BY <2>1, NewRowTyped DEF NewRow, WarehouseTypeOK
<1>2. ASSUME NEW o \in Orders, NEW S \in SUBSET Cards, Sell(o, S)
      PROVE WarehouseTypeOK' /\ RequestsOnRows'
    BY <1>2 DEF Sell, Stored, RowStatuses, WarehouseTypeOK
<1>3. ASSUME NEW o \in Orders, ReturnCards(o) PROVE WarehouseTypeOK' /\ RequestsOnRows'
    BY <1>3 DEF ReturnCards, WarehouseTypeOK
<1>4. ASSUME NEW c \in Crons, NEW S \in SUBSET Rows, ListDue(c, S)
      PROVE WarehouseTypeOK' /\ RequestsOnRows'
    BY <1>4 DEF ListDue, WarehouseTypeOK
<1>5. ASSUME NEW r \in Rows, NEW res \in Outcomes, Stored(r), Record(r, res)
      PROVE /\ refund' \in [Rows -> {"NONE", "DONE", "FAILED"}]
            /\ attempts' \in [Rows -> Nat]
    <2>1. attempts[r] + 1 \in Nat
        BY DEF WarehouseTypeOK
    <2> QED
        BY <1>5, <2>1 DEF Record, WarehouseTypeOK
<1>6. ASSUME NEW r \in Rows, NEW res \in Outcomes, Refunds(account[r], res),
             wstatus[r] # "NONE"
      PROVE free' \subseteq Accounts
    BY <1>6 DEF Refunds, WarehouseTypeOK
<1>7. ASSUME NEW c \in Crons, NEW r \in Rows, NEW res \in Outcomes, RefundRow(c, r, res)
      PROVE WarehouseTypeOK' /\ RequestsOnRows'
    <2>1. wstatus[r] # "NONE"
        BY <1>7 DEF RefundRow, ListsAreRows
    <2>2. free' \subseteq Accounts
        BY <1>6, <1>7, <2>1 DEF RefundRow
    <2>3. /\ refund' \in [Rows -> {"NONE", "DONE", "FAILED"}]
          /\ attempts' \in [Rows -> Nat]
        BY <1>5, <1>7 DEF RefundRow, WarehouseTypeOK
    <2>4. todo' \in [Crons -> SUBSET Rows]
        BY <1>7 DEF RefundRow, WarehouseTypeOK
    <2> QED
        BY <1>7, <2>2, <2>3, <2>4 DEF RefundRow, WarehouseTypeOK
<1>8. ASSUME NEW c \in Crons, NEW r \in Rows, NEW res \in Outcomes, CronDies(c, r, res)
      PROVE WarehouseTypeOK' /\ RequestsOnRows'
    <2>1. wstatus[r] # "NONE"
        BY <1>8 DEF CronDies, ListsAreRows
    <2>2. free' \subseteq Accounts
        BY <1>6, <1>8, <2>1 DEF CronDies
    <2>3. faults' \in 0..MaxFaults
        BY <1>8 DEF CronDies, Fault, WarehouseTypeOK
    <2> QED
        BY <1>8, <2>2, <2>3 DEF CronDies, WarehouseTypeOK
<1>9. ASSUME NEW r \in Rows, NEW res \in Outcomes, RefundNow(r, res)
      PROVE WarehouseTypeOK' /\ RequestsOnRows'
    <2>1. free' \subseteq Accounts
        BY <1>6, <1>9 DEF RefundNow, Stored
    <2>2. manual' \in 0..MaxManual
        BY <1>9 DEF RefundNow, WarehouseTypeOK
    <2> QED
        BY <1>5, <1>9, <2>1, <2>2 DEF RefundNow, WarehouseTypeOK
<1>10. ASSUME NEW r \in Rows, ResetRefund(r) PROVE WarehouseTypeOK' /\ RequestsOnRows'
    BY <1>10 DEF ResetRefund, WarehouseTypeOK
<1> QED
    BY <1>1, <1>2, <1>3, <1>4, <1>7, <1>8, <1>9, <1>10 DEF Purchase, CronSteps, ByHand

(* Rows that are deleted, and what happens elsewhere, keep them as well.   *)
LEMMA ShopTypeStep ==
    ASSUME WarehouseTypeOK, RequestsOnRows, ListsAreRows, ShopStep
    PROVE  WarehouseTypeOK' /\ RequestsOnRows'
<1> USE DEF rowVars, refundVars, cardVars, adminVars, RequestsOnRows
<1>1. ASSUME NEW R \in SUBSET Rows, RowsGo(R) PROVE WarehouseTypeOK' /\ RequestsOnRows'
    BY <1>1 DEF RowsGo, WarehouseTypeOK, RowStatuses, Stored
<1>2. CASE Elsewhere
    BY <1>2 DEF Elsewhere, WarehouseTypeOK
<1> QED
    BY <1>1, <1>2, RequestTyped, OthersTyped DEF ShopStep, WarehouseNext

(* To stand still is a step elsewhere. *)
LEMMA WarehouseStep == WarehouseTypeOK /\ [WarehouseNext]_wvars => ShopStep
    BY DEF ShopStep, Elsewhere, WarehouseTypeOK, wvars, cardVars

-----------------------------------------------------------------------------
(* The attempts. *)

(* A row that exists has a status from then on. *)
LEMMA RowsStay ==
    ASSUME WarehouseTypeOK, ShopStep, NEW r \in Rows, wstatus[r] # "NONE"
    PROVE  wstatus'[r] # "NONE"
<1> USE DEF rowVars
<1>1. ASSUME NEW s, NEW x, NEW b, NewRow(s, x, b) PROVE wstatus'[r] # "NONE"
    BY <1>1 DEF NewRow, WarehouseTypeOK
<1>2. ASSUME NEW q, NEW s \in {"PENDING", "ASSIGNED", "UNLISTED", "GONE"}, NEW k,
             SetRow(q, s, k)
      PROVE wstatus'[r] # "NONE"
    BY <1>2 DEF SetRow, WarehouseTypeOK
<1>3. ASSUME NEW a \in Admins, Request(a, AllAdminOps) PROVE wstatus'[r] # "NONE"
    BY <1>1, <1>2, <1>3
    DEF Request, AddRead, AddWrite, ReadRow, CheckCard, RefuseCard, Assign, Unassign,
        RemoveCard, DropRow, Unlist, Relist, RequestFails
<1>4. ASSUME NEW o \in Orders, Purchase(o) PROVE wstatus'[r] # "NONE"
    BY <1>4 DEF Purchase, Sell
<1>5. CASE UNCHANGED wstatus
    BY <1>5
<1>6. ASSUME NEW R, RowsGo(R) PROVE wstatus'[r] # "NONE"
    BY <1>6 DEF RowsGo
<1> QED
    BY <1>1, <1>3, <1>4, <1>5, <1>6
    DEF ShopStep, WarehouseNext, Push, Import, ReturnCards, CronSteps, ListDue, RefundRow, CronDies, ByHand,
        RefundNow, ResetRefund, Elsewhere

(* The lists are written by the job only. *)
LEMMA ListWriters ==
    ASSUME ShopStep
    PROVE  \/ UNCHANGED <<todo, attempts, manual>>
           \/ \E c \in Crons : CronSteps(c)
           \/ \E r \in Rows : ByHand(r)
    BY DEF ShopStep, RowsGo, Elsewhere, WarehouseNext, Push, Import, NewRow, Request, AddRead, AddWrite,
           ReadRow, CheckCard, RefuseCard,
           Assign, Unassign, RemoveCard, DropRow, Unlist, Relist, RequestFails, Purchase, Sell,
           ReturnCards, refundVars

(* The job lists rows that are sold. *)
LEMMA ListStep ==
    ASSUME WarehouseTypeOK, ListsAreRows, ShopStep
    PROVE  ListsAreRows'
<1> SUFFICES ASSUME NEW c \in Crons, NEW r \in todo'[c] PROVE wstatus'[r] # "NONE"
    BY DEF ListsAreRows
<1>1. r \in todo[c] \/ r \in Due
    BY ListWriters
    DEF WarehouseTypeOK, CronSteps, ListDue, RefundRow, CronDies, ByHand, RefundNow, ResetRefund
<1>2. r \in Rows /\ wstatus[r] # "NONE"
    BY <1>1 DEF WarehouseTypeOK, ListsAreRows, Due
<1> QED
    BY <1>2, RowsStay

(* The runs that have listed a row are finitely many. *)
LEMMA PendingIsNat ==
    \A r : /\ IsFiniteSet(Pending(r)) /\ Cardinality(Pending(r)) \in Nat
          /\ Cardinality(Pending(r)) <= Cardinality(Crons)
          /\ Cardinality(Crons) \in Nat
<1> TAKE r
<1>1. Pending(r) \subseteq Crons
    BY DEF Pending
<1> QED
    BY <1>1, WarehouseAssumption, FS_Subset, FS_CardinalityType

(* The same after a step. *)
LEMMA PendingIsNatNext ==
    \A r : /\ IsFiniteSet(Pending(r)') /\ Cardinality(Pending(r)') \in Nat
          /\ Cardinality(Pending(r)') <= Cardinality(Crons)
<1> TAKE r
<1>1. Pending(r)' \subseteq Crons
    BY DEF Pending
<1> QED
    BY <1>1, WarehouseAssumption, FS_Subset, FS_CardinalityType

(* A row that is no longer to be refunded by anyone new. *)
LEMMA FewerPending ==
    ASSUME NEW r, Pending(r)' \subseteq Pending(r)
    PROVE  Cardinality(Pending(r)') <= Cardinality(Pending(r))
    BY PendingIsNat, FS_Subset

(* Attempts made and to come stay within the bound. *)
LEMMA AttemptStep ==
    ASSUME WarehouseInv, WarehouseTypeOK', ShopStep
    PROVE  AttemptsInSight'
<1> SUFFICES ASSUME NEW r \in Rows
             PROVE attempts'[r] + Cardinality(Pending(r)')
                       <= MaxAttempts - 1 + Cardinality(Crons) + manual'
    BY DEF AttemptsInSight
<1>a. /\ attempts[r] \in Nat /\ attempts'[r] \in Nat /\ manual \in Nat /\ manual' \in Nat
      /\ MaxAttempts \in Nat \ {0}
      /\ attempts[r] + Cardinality(Pending(r)) <= MaxAttempts - 1 + Cardinality(Crons) + manual
    BY WarehouseBoundAssumption DEF WarehouseInv, WarehouseTypeOK, AttemptsInSight
<1>b. /\ Cardinality(Pending(r)) \in Nat /\ Cardinality(Pending(r)') \in Nat
      /\ Cardinality(Crons) \in Nat /\ Cardinality(Pending(r)') <= Cardinality(Crons)
    BY PendingIsNat, PendingIsNatNext
<1>1. CASE UNCHANGED <<todo, attempts, manual>>
    <2>1. Pending(r)' = Pending(r)
        BY <1>1 DEF Pending
    <2> QED
        BY <1>1, <1>a, <2>1
<1>2. ASSUME NEW c \in Crons, NEW S \in SUBSET Rows, ListDue(c, S)
      PROVE attempts'[r] + Cardinality(Pending(r)')
                <= MaxAttempts - 1 + Cardinality(Crons) + manual'
    <2>1. attempts' = attempts /\ manual' = manual
        BY <1>2 DEF ListDue, refundVars
    <2>2. CASE r \in S
        <3>1. attempts[r] <= MaxAttempts - 1
            BY <1>2, <1>a, <2>2 DEF ListDue, Due
        <3> QED
            BY <1>a, <1>b, <2>1, <3>1
    <2>3. CASE r \notin S
        <3>1. Pending(r)' \subseteq Pending(r)
            BY <1>2, <2>3 DEF ListDue, Pending, WarehouseInv, WarehouseTypeOK
        <3>2. Cardinality(Pending(r)') <= Cardinality(Pending(r))
            BY <3>1, FewerPending
        <3> QED
            BY <1>a, <1>b, <2>1, <3>2
    <2> QED
        BY <2>2, <2>3
<1>3. ASSUME NEW c \in Crons, NEW q \in Rows, NEW res \in Outcomes, RefundRow(c, q, res)
      PROVE attempts'[r] + Cardinality(Pending(r)')
                <= MaxAttempts - 1 + Cardinality(Crons) + manual'
    <2>1. manual' = manual /\ Pending(r)' \subseteq Pending(r)
        BY <1>3 DEF RefundRow, Pending, WarehouseInv, WarehouseTypeOK
    <2>2. Cardinality(Pending(r)') <= Cardinality(Pending(r))
        BY <2>1, FewerPending
    <2>3. CASE attempts'[r] = attempts[r]
        BY <1>a, <1>b, <2>1, <2>2, <2>3
    <2>4. CASE attempts'[r] # attempts[r]
        <3>1. r = q /\ attempts'[r] = attempts[r] + 1 /\ Stored(q)
            BY <1>3, <2>4 DEF RefundRow, Record, WarehouseInv, WarehouseTypeOK
        <3>2. c \in Pending(r) /\ Pending(r)' = Pending(r) \ {c}
            BY <1>3, <3>1 DEF RefundRow, Pending, WarehouseInv, WarehouseTypeOK
        <3>3. Cardinality(Pending(r)') = Cardinality(Pending(r)) - 1
            BY <3>2, PendingIsNat, FS_RemoveElement
        <3> QED
            BY <1>a, <1>b, <2>1, <3>1, <3>3
    <2> QED
        BY <2>3, <2>4
<1>4. ASSUME NEW c \in Crons, NEW q \in Rows, NEW res \in Outcomes, CronDies(c, q, res)
      PROVE attempts'[r] + Cardinality(Pending(r)')
                <= MaxAttempts - 1 + Cardinality(Crons) + manual'
    <2>1. attempts' = attempts /\ manual' = manual /\ Pending(r)' \subseteq Pending(r)
        BY <1>4 DEF CronDies, Pending, WarehouseInv, WarehouseTypeOK, refundVars
    <2>2. Cardinality(Pending(r)') <= Cardinality(Pending(r))
        BY <2>1, FewerPending
    <2> QED
        BY <1>a, <1>b, <2>1, <2>2
<1>5. ASSUME NEW q \in Rows, ByHand(q)
      PROVE attempts'[r] + Cardinality(Pending(r)')
                <= MaxAttempts - 1 + Cardinality(Crons) + manual'
    <2>1. Pending(r)' = Pending(r) /\ manual' = manual + 1
        BY <1>5 DEF ByHand, RefundNow, ResetRefund, Pending
    <2>2. attempts'[r] \in {0, attempts[r], attempts[r] + 1}
        BY <1>5 DEF ByHand, RefundNow, ResetRefund, Record, WarehouseInv, WarehouseTypeOK
    <2> QED
        BY <1>a, <1>b, <2>1, <2>2
<1> QED
    BY <1>1, <1>2, <1>3, <1>4, <1>5, ListWriters DEF CronSteps

-----------------------------------------------------------------------------
(* Rows and cards fit together. *)

(* A row that is not there has nothing, a sold row has its order, and the  *)
(* card of a row is one of its account.                                    *)
RowsFit == \A r \in Rows :
    /\ wstatus[r] = "NONE" =>
          account[r] = None /\ card[r] = None /\ worder[r] = None /\ r \notin refs
    /\ card[r] # None => kstatus[card[r]] # "NONE" /\ kaccount[card[r]] = account[r]
    /\ wstatus[r] = "SOLD" => worder[r] # None

(* A card was made for the account of a row; it has an order if it is sold *)
(* and none if it is on sale.                                              *)
CardsFit == \A k \in Cards :
    /\ kstatus[k] # "NONE" => \E r \in Rows : account[r] = kaccount[k] /\ wstatus[r] # "NONE"
    /\ kstatus[k] \in {"NONE", "AVAILABLE"} => korder[k] = None
    /\ kstatus[k] = "SOLD" => korder[k] # None

(* The row a request read is or was there, the card it read is of the      *)
(* account of that row.                                                    *)
RequestsFit == \A a \in Admins :
    /\ astep[a] # "idle" /\ aop[a] # "add" => wstatus[arow[a]] # "NONE"
    /\ acard[a] # None =>
          /\ astep[a] # "idle" /\ aop[a] # "add"
          /\ kstatus[acard[a]] # "NONE" /\ kaccount[acard[a]] = account[arow[a]]

Fit == RowsFit /\ CardsFit /\ RequestsFit

(* None is neither a row, nor an account, a card or an order. *)
LEMMA NoneIsNothing ==
    None \notin Accounts /\ None \notin Rows /\ None \notin Cards /\ None \notin Orders
    BY WarehouseAssumption, CommonAssumption

(* Every request of the back office leaves them so. *)
LEMMA RequestFits ==
    ASSUME WarehouseTypeOK, RequestsOnRows, Fit, NEW a \in Admins, Request(a, AllAdminOps)
    PROVE  Fit'
<1> USE NoneIsNothing
    DEF rowVars, refundVars, cardVars, Fit, RowsFit, CardsFit, RequestsFit, WarehouseTypeOK
<1>1. ASSUME NEW x \in Accounts, AddRead(a, x) PROVE Fit'
    BY <1>1 DEF AddRead
<1>2. ASSUME NEW r \in Rows, AddWrite(a, r) PROVE Fit'
    <2>1. arow[a] \in Accounts
        BY <1>2 DEF AddWrite, At, RequestsOnRows
    <2> QED
        BY <1>2, <2>1 DEF AddWrite, NewRow, FreshRows, EndRequest, RequestsOnRows
<1>3. ASSUME NEW r \in Rows, NEW op \in ReadOps, ReadRow(a, op, r) PROVE Fit'
    <2>1. op \in AllAdminOps /\ op # "add" /\ wstatus[r] # "NONE"
        BY <1>3 DEF ReadOps, AllAdminOps, ReadRow, Stored
    <2> QED
        BY <1>3, <2>1 DEF ReadRow
<1>4. CASE CheckCard(a)
    BY <1>4 DEF CheckCard
<1>5. CASE RefuseCard(a) \/ RequestFails(a)
    BY <1>5 DEF RefuseCard, RequestFails, EndRequest
<1>6. ASSUME NEW k \in Cards, Assign(a, k) PROVE Fit'
    <2>1. arow[a] \in Rows /\ Stored(arow[a]) /\ account[arow[a]] \in Accounts
        BY <1>6 DEF Assign, At, RequestsOnRows, Stored
    <2>2. RowsFit'
        BY <1>6, <2>1 DEF Assign, FreshCard, SetRow, Stored
    <2>3. CardsFit'
        BY <1>6, <2>1 DEF Assign, FreshCard, SetRow, Stored
    <2>4. RequestsFit'
        BY <1>6, <2>1 DEF Assign, FreshCard, SetRow, EndRequest, RequestsOnRows
    <2> QED
        BY <2>2, <2>3, <2>4
<1>7. CASE Unassign(a)
    <2>1. arow[a] \in Rows /\ Stored(arow[a])
        BY <1>7 DEF Unassign, At, RequestsOnRows
    <2> QED
        BY <1>7, <2>1 DEF Unassign, SetRow, EndRequest, CardsWithout, Stored
<1>8. CASE RemoveCard(a)
    BY <1>8 DEF RemoveCard, At, CardsWithout
<1>9. CASE DropRow(a)
    <2>1. arow[a] \in Rows /\ Stored(arow[a])
        BY <1>9 DEF DropRow, RequestsOnRows
    <2> QED
        BY <1>9, <2>1 DEF DropRow, SetRow, EndRequest, Stored
<1>10. CASE Unlist(a)
    <2>1. arow[a] \in Rows /\ Stored(arow[a])
        BY <1>10 DEF Unlist, At, RequestsOnRows
    <2> QED
        BY <1>10, <2>1 DEF Unlist, SetRow, EndRequest, CardsWithout, Stored
<1>11. CASE Relist(a)
    <2>1. arow[a] \in Rows /\ Stored(arow[a])
        BY <1>11 DEF Relist, At, RequestsOnRows
    <2> QED
        BY <1>11, <2>1 DEF Relist, SetRow, EndRequest, Stored
<1> QED
    BY <1>1, <1>2, <1>3, <1>4, <1>5, <1>6, <1>7, <1>8, <1>9, <1>10, <1>11
    DEF Request, ReadOps

(* And so does everything else that happens. *)
LEMMA FitStep ==
    ASSUME WarehouseTypeOK, RequestsOnRows, Fit, ShopStep
    PROVE  Fit'
<1> USE NoneIsNothing
    DEF rowVars, refundVars, cardVars, adminVars, Fit, RowsFit, CardsFit, RequestsFit, WarehouseTypeOK
<1>1. ASSUME NEW x \in Accounts, NEW r \in Rows, Push(x, r) \/ Import(x, r) PROVE Fit'
    <2>1. PICK b \in BOOLEAN : NewRow(r, x, b) /\ UNCHANGED adminVars
        BY <1>1 DEF Push, Import
    <2> QED
        BY <2>1 DEF NewRow, FreshRows, RequestsOnRows
<1>2. ASSUME NEW o \in Orders, NEW S \in SUBSET Cards, NEW n, Oldest(n, S), Sell(o, S) PROVE Fit'
    <2>1. \A k \in S : k \in Cards /\ kstatus[k] = "AVAILABLE"
        BY <1>2 DEF Oldest, Available
    <2>2. RowsFit'
        BY <1>2, <2>1 DEF Sell, Stored
    <2>3. \A r \in Rows : wstatus[r] # "NONE" => wstatus'[r] # "NONE"
        BY <1>2 DEF Sell
    <2>4. CardsFit'
        BY <1>2, <2>1, <2>3 DEF Sell
    <2>5. RequestsFit'
        BY <1>2, <2>1, <2>3 DEF Sell, RequestsOnRows
    <2> QED
        BY <2>2, <2>4, <2>5
<1>3. ASSUME NEW o \in Orders, ReturnCards(o) PROVE Fit'
    BY <1>3 DEF ReturnCards
<1>4. ASSUME NEW c \in Crons, CronSteps(c) PROVE Fit'
    BY <1>4 DEF CronSteps, ListDue, RefundRow, CronDies
<1>5. ASSUME NEW r \in Rows, ByHand(r) PROVE Fit'
    BY <1>5 DEF ByHand, RefundNow, ResetRefund
<1>6. ASSUME NEW R \in SUBSET Rows, RowsGo(R) PROVE Fit'
    BY <1>6 DEF RowsGo, Stored, RequestsOnRows
<1>7. CASE Elsewhere
    BY <1>7 DEF Elsewhere
<1> QED
    BY <1>1, <1>2, <1>3, <1>4, <1>5, <1>6, <1>7, RequestFits
    DEF ShopStep, WarehouseNext, Purchase

-----------------------------------------------------------------------------
(* An account is sold once. *)

(* The cards of an account that can be, or are, sold.                      *)
OnSale(x) == {k \in Cards : kaccount[k] = x /\ kstatus[k] \in {"AVAILABLE", "SOLD"}}

(* The row knows the one card of its account that is on sale or sold, and  *)
(* a row that is to be sold has neither been sold nor has a sold card.     *)
RowKnows(r) ==
    /\ Stored(r) => \A k \in OnSale(account[r]) :
          card[r] = k /\ (kstatus[k] = "SOLD" => worder[r] = korder[k])
    /\ wstatus[r] = "PENDING" => card[r] = None
    /\ wstatus[r] \in {"PENDING", "ASSIGNED"} => worder[r] = None
    /\ wstatus[r] = "ASSIGNED" /\ card[r] # None => kstatus[card[r]] # "SOLD"

Clean(x) ==
    /\ \A r, s \in Rows : account[r] = x /\ account[s] = x => r = s
    /\ \A k \in Cards : kaccount[k] = x /\ korder[k] # None => kstatus[k] = "SOLD"
    /\ \A k, l \in OnSale(x) : k = l
    /\ \A r \in Rows : account[r] = x => RowKnows(r)

CleanInv == \A x \in Accounts : cause[x] = {} => Clean(x)

(* What is blamed stays blamed. *)
LEMMA CauseGrows ==
    ASSUME WarehouseTypeOK, ShopStep, NEW x \in Accounts
    PROVE  cause[x] \subseteq cause'[x]
<1>1. ASSUME NEW cond, NEW y, NEW why, BlameIf(cond, y, why) PROVE cause[x] \subseteq cause'[x]
    BY <1>1 DEF BlameIf, Blame, WarehouseTypeOK
<1>2. CASE UNCHANGED cause
    BY <1>2
<1> QED
    BY <1>1, <1>2
    DEF ShopStep, RowsGo, Elsewhere, WarehouseNext, Push, Import, NewRow, Request, AddRead, AddWrite, ReadRow,
        CheckCard, RefuseCard, Assign, Unassign, RemoveCard, DropRow, Unlist, Relist,
        RequestFails, Purchase, Sell, ReturnCards, CronSteps, ListDue, RefundRow, CronDies,
        ByHand, RefundNow, ResetRefund

(* A row comes in for an account that has none, or is blamed.              *)
LEMMA NewRowClean ==
    ASSUME WarehouseTypeOK, Fit, CleanInv, NEW r \in Rows, NEW y \in Accounts, NEW b,
           NewRow(r, y, b), NEW x \in Accounts, cause[x] = {}, cause'[x] = {}
    PROVE  Clean(x)'
<1> USE NoneIsNothing DEF WarehouseTypeOK, cardVars
<1>1. Clean(x) /\ wstatus[r] = "NONE" /\ account[r] = None /\ card[r] = None /\ worder[r] = None
    BY DEF CleanInv, NewRow, FreshRows, Fit, RowsFit
<1>2. OnSale(x)' = OnSale(x)
    BY DEF NewRow, OnSale
<1>3. CASE y = x
    <2>1. ASSUME NEW s \in Rows, account[s] = x PROVE FALSE
        <3>1. Blame(x, "again")
            BY <1>3, <2>1 DEF NewRow, BlameIf
        <3> QED
            BY <3>1 DEF Blame
    <2>2. OnSale(x) = {}
        BY <2>1 DEF OnSale, Fit, CardsFit
    <2>3. \A s \in Rows : account'[s] = x => s = r
        BY <2>1 DEF NewRow
    <2>4. RowKnows(r)'
        BY <1>1, <1>2, <1>3, <2>2 DEF NewRow, RowKnows
    <2> QED
        BY <1>1, <1>2, <2>2, <2>3, <2>4 DEF NewRow, Clean
<1>4. CASE y # x
    <2>1. \A s \in Rows : account'[s] = x => account[s] = x /\ s # r
        BY <1>1, <1>4 DEF NewRow
    <2>2. \A s \in Rows : account'[s] = x => RowKnows(s)'
        BY <1>1, <1>2, <2>1 DEF NewRow, RowKnows, Stored, Clean
    <2> QED
        BY <1>1, <1>2, <2>1, <2>2 DEF NewRow, Clean
<1> QED
    BY <1>3, <1>4

(* A row that gets a status and a card, while no cards change: the row is  *)
(* gone, or keeps what it knows.                                           *)
LEMMA RowClean ==
    ASSUME WarehouseTypeOK, CleanInv, NEW r \in Rows, NEW s \in {"PENDING", "UNLISTED", "GONE"},
           NEW k, SetRow(r, s, k), UNCHANGED cardVars, Stored(r),
           NEW x \in Accounts, cause[x] = {},
           account[r] = x => \/ s = "GONE"
                             \/ k = card[r] /\ (s = "PENDING" => k = None /\ worder[r] = None)
    PROVE  Clean(x)'
<1> USE DEF WarehouseTypeOK, cardVars
<1>1. Clean(x) /\ OnSale(x)' = OnSale(x)
    BY DEF CleanInv, OnSale
<1>2. \A q \in Rows : account'[q] = x => RowKnows(q)'
    BY <1>1 DEF Clean, RowKnows, Stored, SetRow
<1> QED
    BY <1>1, <1>2 DEF Clean, SetRow

(* A card is deleted that was not sold, and the row that had it loses it.  *)
LEMMA CutClean ==
    ASSUME WarehouseTypeOK, Fit, CleanInv, NEW r \in Rows, NEW s \in {"PENDING", "UNLISTED"},
           NEW k \in Cards, SetRow(r, s, None), Stored(r),
           kstatus' = CardsWithout(k), UNCHANGED <<kaccount, korder>>, kaccount[k] = account[r],
           NEW x \in Accounts, cause[x] = {},
           account[r] = x => /\ card[r] = k /\ kstatus[k] # "SOLD"
                             /\ s = "PENDING" => worder[r] = None
    PROVE  Clean(x)'
<1> USE NoneIsNothing DEF WarehouseTypeOK
<1>1. Clean(x)
    BY DEF CleanInv
<1>2. \A q \in Rows : account'[q] = account[q] /\ worder'[q] = worder[q]
    BY DEF SetRow
<1>3. \A l \in Cards : kstatus'[l] = kstatus[l] \/ (l = k /\ kstatus'[l] = "GONE")
    BY DEF CardsWithout
<1>4. OnSale(x)' \subseteq OnSale(x) /\ k \notin OnSale(x)'
    BY <1>3 DEF OnSale, CardsWithout
<1>5. CASE account[r] = x
    <2>1. OnSale(x)' = {}
        BY <1>1, <1>4, <1>5 DEF Clean, RowKnows
    <2>2. \A q \in Rows : account'[q] = x => q = r
        BY <1>1, <1>2, <1>5 DEF Clean
    <2>3. RowKnows(r)'
        BY <1>2, <1>5, <2>1 DEF RowKnows, SetRow
    <2>4. \A l \in Cards : kaccount'[l] = x /\ korder'[l] # None => kstatus'[l] = "SOLD"
        BY <1>1, <1>3, <1>5 DEF Clean
    <2> QED
        BY <1>1, <1>2, <2>1, <2>2, <2>3, <2>4 DEF Clean
<1>6. CASE account[r] # x
    <2>1. \A l \in Cards : kaccount[l] = x => kstatus'[l] = kstatus[l]
        BY <1>3, <1>6
    <2>2. OnSale(x)' = OnSale(x)
        BY <2>1 DEF OnSale
    <2>3. ASSUME NEW q \in Rows, account[q] = x PROVE RowKnows(q)'
        <3>1. q # r /\ RowKnows(q) /\ (card[q] # None => kaccount[card[q]] = x)
            BY <1>1, <1>6, <2>3 DEF Clean, Fit, RowsFit
        <3>2. wstatus'[q] = wstatus[q] /\ card'[q] = card[q] /\ account'[q] = x
            BY <3>1, <2>3 DEF SetRow
        <3>3. card[q] # None => kstatus'[card[q]] = kstatus[card[q]]
            BY <2>1, <3>1
        <3>4. \A l \in OnSale(x) : kstatus'[l] = kstatus[l]
            BY <2>1 DEF OnSale
        <3> QED
            BY <1>2, <2>2, <2>3, <3>1, <3>2, <3>3, <3>4 DEF RowKnows, Stored
    <2> QED
        BY <1>1, <1>2, <2>1, <2>2, <2>3 DEF Clean
<1> QED
    BY <1>5, <1>6

(* Every request of the back office keeps the accounts clean. *)
LEMMA RequestClean ==
    ASSUME WarehouseTypeOK, RequestsOnRows, Fit, CleanInv, NEW a \in Admins,
           Request(a, AllAdminOps), NEW x \in Accounts, cause[x] = {}, cause'[x] = {}
    PROVE  Clean(x)'
<1> USE NoneIsNothing DEF cardVars
<1>1. CASE UNCHANGED <<rowVars, kstatus, kaccount, korder>>
    BY <1>1 DEF CleanInv, Clean, OnSale, RowKnows, Stored, rowVars
<1>2. ASSUME NEW r \in Rows, AddWrite(a, r) PROVE Clean(x)'
    <2>1. arow[a] \in Accounts
        BY <1>2 DEF AddWrite, At, RequestsOnRows
    <2> QED
        BY <1>2, <2>1, NewRowClean DEF AddWrite
<1>3. ASSUME NEW y, NEW why, Blame(y, why) PROVE y # x
    BY <1>3 DEF Blame, WarehouseTypeOK
<1>4. ASSUME NEW k \in Cards, Assign(a, k) PROVE Clean(x)'
    <2>0. PICK r \in Rows : r = arow[a]
        BY <1>4 DEF Assign, At, RequestsOnRows
    <2>1. Stored(r) /\ kstatus[k] = "NONE" /\ Clean(x) /\ korder[k] = None
        BY <1>4, <2>0 DEF Assign, FreshCard, CleanInv, Fit, CardsFit
    <2>2. account[r] = x => wstatus[r] = "PENDING"
        BY <1>3, <1>4, <2>0 DEF Assign, BlameIf
    <2>3. /\ wstatus' = [wstatus EXCEPT ![r] = "ASSIGNED"] /\ card' = [card EXCEPT ![r] = k]
          /\ UNCHANGED <<account, worder, korder>>
          /\ kstatus' = [kstatus EXCEPT ![k] = "AVAILABLE"]
          /\ kaccount' = [kaccount EXCEPT ![k] = account[r]]
        BY <1>4, <2>0 DEF Assign, SetRow
    <2>4. \A q \in Rows : card[q] # k
        BY <2>1 DEF Fit, RowsFit
    <2>5. CASE account[r] = x
        <3>1. OnSale(x) = {}
            BY <2>1, <2>2, <2>5 DEF Clean, RowKnows, OnSale
        <3>2. OnSale(x)' = {k}
            BY <2>1, <2>3, <2>5, <3>1 DEF OnSale, WarehouseTypeOK
        <3>3. RowKnows(r) /\ worder[r] = None
            BY <2>1, <2>2, <2>5 DEF Clean, RowKnows
        <3>4. wstatus'[r] = "ASSIGNED" /\ card'[r] = k /\ kstatus'[k] = "AVAILABLE"
            BY <2>1, <2>3 DEF WarehouseTypeOK
        <3>5. RowKnows(r)'
            BY <2>3, <2>5, <3>2, <3>3, <3>4 DEF RowKnows
        <3>6. \A q \in Rows : account[q] = x => q = r
            BY <2>1, <2>5 DEF Clean
        <3>7. \A l \in Cards : kaccount'[l] = x /\ korder'[l] # None => kstatus'[l] = "SOLD"
            BY <2>1, <2>3 DEF Clean, WarehouseTypeOK
        <3> QED
            BY <2>3, <3>2, <3>5, <3>6, <3>7 DEF Clean
    <2>6. CASE account[r] # x
        <3>1. \A l \in Cards : kaccount'[l] = x => l # k /\ kaccount[l] = x
            BY <2>1, <2>3, <2>6 DEF WarehouseTypeOK
        <3>2. \A l \in Cards : l # k => kaccount'[l] = kaccount[l] /\ kstatus'[l] = kstatus[l]
            BY <2>1, <2>3 DEF WarehouseTypeOK
        <3>3. OnSale(x)' = OnSale(x)
            BY <2>1, <3>1, <3>2 DEF OnSale
        <3>4. ASSUME NEW q \in Rows, account[q] = x PROVE RowKnows(q)'
            <4>1. wstatus'[q] = wstatus[q] /\ card'[q] = card[q] /\ RowKnows(q) /\ card[q] # k
                BY <2>1, <2>3, <2>4, <2>6, <3>4 DEF Clean, WarehouseTypeOK
            <4>2. card[q] # None => kstatus'[card[q]] = kstatus[card[q]]
                BY <3>2, <4>1 DEF WarehouseTypeOK
            <4>3. \A l \in OnSale(x) : kstatus'[l] = kstatus[l]
                BY <2>1, <3>2 DEF OnSale
            <4> QED
                BY <2>3, <3>3, <3>4, <4>1, <4>2, <4>3 DEF RowKnows, Stored
        <3> QED
            BY <2>1, <2>3, <3>1, <3>2, <3>3, <3>4 DEF Clean
    <2> QED
        BY <2>5, <2>6
<1>5. CASE Unassign(a)
    <2> DEFINE r == arow[a]  k == acard[a]
    <2>1. /\ r \in Rows /\ Stored(r) /\ SetRow(r, "PENDING", None) /\ k \in Cards \cup {None}
          /\ kstatus' = CardsWithout(k) /\ UNCHANGED <<kaccount, korder, delivered>>
        BY <1>5 DEF Unassign, At, RequestsOnRows, WarehouseTypeOK
    <2>2. account[r] = x => wstatus[r] = "ASSIGNED" /\ card[r] = k
        BY <1>3, <1>5 DEF Unassign, BlameIf
    <2>3. account[r] = x => worder[r] = None /\ (k # None => kstatus[k] # "SOLD")
        BY <2>1, <2>2 DEF CleanInv, Clean, RowKnows
    <2>4. CASE k = None
        <3>1. UNCHANGED cardVars
            BY <2>1, <2>4 DEF CardsWithout
        <3> QED
            BY <2>1, <2>2, <2>3, <2>4, <3>1, RowClean
    <2>5. CASE k # None
        <3>1. k \in Cards /\ kaccount[k] = account[r]
            BY <2>1, <2>5 DEF Fit, RequestsFit
        <3> QED
            BY <2>1, <2>2, <2>3, <2>5, <3>1, CutClean
    <2> QED
        BY <2>4, <2>5
<1>6. CASE RemoveCard(a)
    <2> DEFINE k == acard[a]
    <2>1. kstatus' = CardsWithout(k) /\ UNCHANGED <<rowVars, kaccount, korder>>
        BY <1>6 DEF RemoveCard
    <2>2. k \in Cards => (kaccount[k] = x => kstatus[k] # "SOLD")
        BY <1>3, <1>6 DEF RemoveCard, BlameIf, CardMoved
    <2>3. \A l \in Cards : kstatus'[l] = kstatus[l] \/ (l = k /\ kstatus'[l] = "GONE")
        BY <2>1 DEF CardsWithout, WarehouseTypeOK
    <2>4. Clean(x) /\ OnSale(x)' \subseteq OnSale(x)
        BY <2>1, <2>3 DEF CleanInv, OnSale
    <2>5. \A l \in OnSale(x)' : kstatus'[l] = kstatus[l]
        BY <2>3 DEF OnSale
    <2>6. ASSUME NEW q \in Rows, account[q] = x PROVE RowKnows(q)'
        <3>1. RowKnows(q) /\ card[q] \in Cards \cup {None}
            BY <2>4, <2>6 DEF Clean, WarehouseTypeOK
        <3> QED
            BY <2>1, <2>3, <2>4, <2>5, <2>6, <3>1 DEF RowKnows, Stored, rowVars
    <2> QED
        BY <2>1, <2>2, <2>3, <2>4, <2>6 DEF Clean, rowVars
<1>7. CASE DropRow(a)
    <2>1. arow[a] \in Rows
        BY <1>7 DEF DropRow, RequestsOnRows
    <2> QED
        BY <1>7, <2>1, RowClean DEF DropRow
<1>8. CASE Unlist(a)
    <2> DEFINE r == arow[a]  k == acard[a]
    <2>1. /\ r \in Rows /\ Stored(r) /\ k \in Cards \cup {None}
          /\ SetRow(r, "UNLISTED", IF k = None THEN card[r] ELSE None)
          /\ kstatus' = CardsWithout(k) /\ UNCHANGED <<kaccount, korder, delivered>>
        BY <1>8 DEF Unlist, At, RequestsOnRows, WarehouseTypeOK
    <2>2. account[r] = x /\ k # None => kstatus[k] # "SOLD" /\ card[r] = k
        BY <1>3, <1>8 DEF Unlist, BlameIf, CardMoved
    <2>3. CASE k = None
        <3>1. UNCHANGED cardVars
            BY <2>1, <2>3 DEF CardsWithout
        <3> QED
            BY <2>1, <2>3, <3>1, RowClean
    <2>4. CASE k # None
        <3>1. k \in Cards /\ kaccount[k] = account[r]
            BY <2>1, <2>4 DEF Fit, RequestsFit
        <3> QED
            BY <2>1, <2>2, <2>4, <3>1, CutClean
    <2> QED
        BY <2>3, <2>4
<1>9. CASE Relist(a)
    <2> DEFINE r == arow[a]
    <2>1. r \in Rows /\ Stored(r) /\ SetRow(r, "PENDING", card[r]) /\ UNCHANGED cardVars
        BY <1>9 DEF Relist, At, RequestsOnRows
    <2>2. account[r] = x => card[r] = None /\ worder[r] = None
        BY <1>3, <1>9 DEF Relist, BlameIf
    <2> QED
        BY <2>1, <2>2, RowClean
<1> QED
    BY <1>1, <1>2, <1>4, <1>5, <1>6, <1>7, <1>8, <1>9
    DEF Request, AddRead, ReadRow, CheckCard, RefuseCard, RequestFails

(* A sale takes the cards on sale, and the rows follow. *)
LEMMA SellClean ==
    ASSUME WarehouseTypeOK, Fit, CleanInv, NEW o \in Orders, NEW S \in SUBSET Cards,
           NEW n, Oldest(n, S), Sell(o, S), NEW x \in Accounts, cause[x] = {}
    PROVE  Clean(x)'
<1> USE NoneIsNothing
<1>1. Clean(x)
    BY DEF CleanInv
<1>2. \A k \in S : k \in Cards /\ kstatus[k] = "AVAILABLE"
    BY DEF Oldest, Available
<1>3. \A k \in Cards :
          /\ kstatus'[k] = IF k \in S THEN "SOLD" ELSE kstatus[k]
          /\ korder'[k] = IF k \in S THEN o ELSE korder[k]
          /\ kaccount'[k] = kaccount[k]
    BY DEF Sell
<1>4. \A r \in Rows :
          /\ wstatus'[r] = IF Stored(r) /\ card[r] \in S THEN "SOLD" ELSE wstatus[r]
          /\ worder'[r] = IF Stored(r) /\ card[r] \in S THEN o ELSE worder[r]
          /\ account'[r] = account[r] /\ card'[r] = card[r]
    BY DEF Sell
<1>5. OnSale(x)' = OnSale(x)
    BY <1>2, <1>3 DEF OnSale
<1>6. \A k \in Cards : kaccount'[k] = x /\ korder'[k] # None => kstatus'[k] = "SOLD"
    BY <1>1, <1>3 DEF Clean
<1>7. ASSUME NEW r \in Rows, account[r] = x PROVE RowKnows(r)'
    <2>1. RowKnows(r) /\ card[r] \in Cards \cup {None}
        BY <1>1, <1>7 DEF Clean, WarehouseTypeOK
    <2>2. ASSUME NEW k \in OnSale(x), Stored(r)
          PROVE  card'[r] = k /\ (kstatus'[k] = "SOLD" => worder'[r] = korder'[k])
        BY <1>3, <1>4, <1>7, <2>1, <2>2 DEF RowKnows, OnSale
    <2>3. Stored(r)' => Stored(r)
        BY <1>4 DEF Stored
    <2>4. wstatus'[r] \in {"PENDING", "ASSIGNED"} =>
              wstatus'[r] = wstatus[r] /\ Stored(r) /\ card[r] \notin S /\ worder'[r] = worder[r]
        BY <1>4 DEF Stored
    <2>5. wstatus'[r] = "ASSIGNED" /\ card[r] # None => kstatus'[card[r]] # "SOLD"
        BY <1>3, <2>1, <2>4 DEF RowKnows
    <2> QED
        BY <1>4, <1>5, <1>7, <2>1, <2>2, <2>3, <2>4, <2>5 DEF RowKnows
<1> QED
    BY <1>1, <1>4, <1>5, <1>6, <1>7 DEF Clean

(* The cards of an order that is refunded are on sale again. *)
LEMMA ReturnClean ==
    ASSUME WarehouseTypeOK, Fit, CleanInv, NEW o \in Orders, ReturnCards(o),
           NEW x \in Accounts, cause[x] = {}
    PROVE  Clean(x)'
<1> USE NoneIsNothing
<1>1. Clean(x) /\ UNCHANGED rowVars
    BY DEF CleanInv, ReturnCards
<1>2. \A k \in Cards :
          \/ kstatus'[k] = kstatus[k] /\ korder'[k] = korder[k]
          \/ kstatus[k] = "SOLD" /\ kstatus'[k] = "AVAILABLE" /\ korder'[k] = None
    BY DEF ReturnCards
<1>3. kaccount' = kaccount
    BY DEF ReturnCards
<1>4. OnSale(x)' = OnSale(x)
    BY <1>2, <1>3 DEF OnSale
<1>5. ASSUME NEW r \in Rows, account[r] = x PROVE RowKnows(r)'
    <2>1. RowKnows(r) /\ card[r] \in Cards \cup {None}
        BY <1>1, <1>5 DEF Clean, WarehouseTypeOK
    <2>2. \A k \in OnSale(x) : kstatus'[k] = "SOLD" => kstatus[k] = "SOLD" /\ korder'[k] = korder[k]
        BY <1>2 DEF OnSale
    <2>3. card[r] # None => (kstatus'[card[r]] = "SOLD" => kstatus[card[r]] = "SOLD")
        BY <1>2, <2>1
    <2> QED
        BY <1>1, <1>4, <1>5, <2>1, <2>2, <2>3 DEF RowKnows, Stored, rowVars
<1>6. \A k \in Cards : kaccount'[k] = x /\ korder'[k] # None => kstatus'[k] = "SOLD"
    BY <1>1, <1>2, <1>3 DEF Clean
<1> QED
    BY <1>1, <1>3, <1>4, <1>5, <1>6 DEF Clean, rowVars

(* Rows that are deleted. *)
LEMMA GoClean ==
    ASSUME WarehouseTypeOK, CleanInv, NEW R \in SUBSET Rows, RowsGo(R),
           NEW x \in Accounts, cause[x] = {}
    PROVE  Clean(x)'
<1>1. Clean(x) /\ UNCHANGED <<account, worder, kstatus, kaccount, korder>>
    BY DEF CleanInv, RowsGo, cardVars
<1>2. \A r \in Rows :
          \/ wstatus'[r] = "GONE" /\ card'[r] = None
          \/ wstatus'[r] = wstatus[r] /\ card'[r] = card[r]
    BY DEF RowsGo
<1>3. OnSale(x)' = OnSale(x)
    BY <1>1 DEF OnSale
<1>4. ASSUME NEW r \in Rows, account[r] = x PROVE RowKnows(r)'
    <2>1. RowKnows(r)
        BY <1>1, <1>4 DEF Clean
    <2> QED
        BY <1>1, <1>2, <1>3, <1>4, <2>1 DEF RowKnows, Stored
<1> QED
    BY <1>1, <1>3, <1>4 DEF Clean

(* Whatever the shop does, an account nothing is to blame for is clean. *)
LEMMA CleanStep ==
    ASSUME WarehouseTypeOK, RequestsOnRows, Fit, CleanInv, ShopStep
    PROVE  CleanInv'
<1> SUFFICES ASSUME NEW x \in Accounts, cause'[x] = {} PROVE Clean(x)'
    BY DEF CleanInv
<1>1. cause[x] = {}
    BY CauseGrows
<1>2. CASE UNCHANGED <<rowVars, kstatus, kaccount, korder>>
    BY <1>1, <1>2 DEF CleanInv, Clean, OnSale, RowKnows, Stored, rowVars
<1>3. ASSUME NEW y \in Accounts, NEW r \in Rows, Push(y, r) \/ Import(y, r)
      PROVE Clean(x)'
    BY <1>1, <1>3, NewRowClean DEF Push, Import
<1>4. ASSUME NEW a \in Admins, Request(a, AllAdminOps) PROVE Clean(x)'
    BY <1>1, <1>4, RequestClean
<1>5. ASSUME NEW o \in Orders, Purchase(o) \/ ReturnCards(o) PROVE Clean(x)'
    BY <1>1, <1>5, SellClean, ReturnClean DEF Purchase
<1>6. ASSUME NEW R \in SUBSET Rows, RowsGo(R) PROVE Clean(x)'
    BY <1>1, <1>6, GoClean
<1> QED
    BY <1>2, <1>3, <1>4, <1>5, <1>6
    DEF ShopStep, Elsewhere, WarehouseNext, CronSteps, ListDue, RefundRow, CronDies, ByHand,
        RefundNow, ResetRefund, cardVars

(* No two of the cards of a clean account have an order. *)
LEMMA SoldOnceHolds == WarehouseTypeOK /\ CleanInv => SoldOnce
<1> SUFFICES ASSUME CleanInv, NEW x \in Accounts, cause[x] = {}
             PROVE  Cardinality({k \in Cards : kaccount[k] = x /\ korder[k] # None}) <= 1
    BY DEF SoldOnce
<1> DEFINE sold == {k \in Cards : kaccount[k] = x /\ korder[k] # None}
<1>1. \A k, l \in sold : k = l
    BY DEF CleanInv, Clean, OnSale
<1>2. CASE sold = {}
    BY <1>2, FS_EmptySet
<1>3. CASE sold # {}
    <2>1. PICK k \in sold : sold = {k}
        BY <1>1, <1>3
    <2>2. Cardinality({k}) = 1
        BY FS_Singleton
    <2> QED
        BY <2>1, <2>2
<1> QED
    BY <1>2, <1>3

(* The row of a clean account that was sold says so. *)
LEMMA SaleIsRecordedHolds == WarehouseTypeOK /\ Fit /\ CleanInv => SaleIsRecorded
<1> SUFFICES ASSUME WarehouseTypeOK, Fit, CleanInv,
                    NEW k \in Cards, kstatus[k] = "SOLD", cause[kaccount[k]] = {}
             PROVE  \E r \in Rows :
                        /\ account[r] = kaccount[k]
                        /\ \/ wstatus[r] = "GONE"
                           \/ /\ wstatus[r] \in {"SOLD", "UNLISTED"}
                              /\ card[r] = k /\ worder[r] = korder[k]
    BY DEF SaleIsRecorded
<1>1. PICK r \in Rows : account[r] = kaccount[k] /\ wstatus[r] # "NONE"
    BY DEF Fit, CardsFit
<1>2. account[r] \in Accounts /\ k \in OnSale(account[r])
    BY <1>1 DEF WarehouseTypeOK, OnSale
<1>3. RowKnows(r)
    BY <1>1, <1>2 DEF CleanInv, Clean
<1>4. CASE Stored(r)
    <2>1. card[r] = k /\ worder[r] = korder[k]
        BY <1>2, <1>3, <1>4 DEF RowKnows
    <2>2. wstatus[r] \notin {"PENDING", "ASSIGNED"}
        BY <1>3, <2>1, NoneIsNothing DEF RowKnows
    <2> QED
        BY <1>1, <1>4, <2>1, <2>2 DEF Stored, WarehouseTypeOK, RowStatuses
<1> QED
    BY <1>1, <1>4 DEF Stored

-----------------------------------------------------------------------------
(* The warehouse by itself. *)

ShopInv == WarehouseInv /\ Fit /\ CleanInv

(* The invariant holds at the start ... *)
LEMMA ShopStarts == WarehouseInit => ShopInv
<1> SUFFICES ASSUME WarehouseInit PROVE ShopInv
    OBVIOUS
<1>1. WarehouseTypeOK
    BY CommonAssumption, WarehouseBoundAssumption
    DEF WarehouseInit, WarehouseTypeOK, RowStatuses
<1>2. RequestsOnRows /\ ListsAreRows
    BY DEF WarehouseInit, RequestsOnRows, ListsAreRows
<1>3. \A r \in Rows : Pending(r) = {}
    BY DEF WarehouseInit, Pending
<1>4. AttemptsInSight
    BY <1>3, FS_EmptySet, PendingIsNat, WarehouseBoundAssumption
    DEF WarehouseInit, AttemptsInSight
<1>5. Fit
    BY DEF WarehouseInit, Fit, RowsFit, CardsFit, RequestsFit
<1>6. CleanInv
    <2> SUFFICES ASSUME NEW x \in Accounts PROVE Clean(x)
        BY DEF CleanInv
    <2>1. \A r \in Rows : account[r] # x
        BY NoneIsNothing DEF WarehouseInit
    <2>2. OnSale(x) = {} /\ \A k \in Cards : korder[k] = None
        BY DEF WarehouseInit, OnSale
    <2> QED
        BY <2>1, <2>2 DEF Clean
<1> QED
    BY <1>1, <1>2, <1>4, <1>5, <1>6 DEF ShopInv, WarehouseInv

(* ... and after every step of the shop. *)
LEMMA ShopKeeps == ShopInv /\ ShopStep => ShopInv'
<1> SUFFICES ASSUME ShopInv, ShopStep PROVE ShopInv'
    OBVIOUS
<1>1. WarehouseTypeOK' /\ RequestsOnRows' /\ ListsAreRows'
    BY ShopTypeStep, ListStep DEF ShopInv, WarehouseInv
<1>2. AttemptsInSight'
    BY <1>1, AttemptStep DEF ShopInv
<1>3. Fit' /\ CleanInv'
    BY FitStep, CleanStep DEF ShopInv, WarehouseInv
<1> QED
    BY <1>1, <1>2, <1>3 DEF ShopInv, WarehouseInv

(* The attempts made are within those in sight. *)
LEMMA BoundedHolds == WarehouseInv => AttemptsBounded
<1> SUFFICES ASSUME WarehouseInv, NEW r \in Rows
             PROVE attempts[r] < MaxAttempts + Cardinality(Crons) + manual
    BY DEF AttemptsBounded
<1>1. /\ attempts[r] \in Nat /\ manual \in Nat /\ MaxAttempts \in Nat
      /\ attempts[r] + Cardinality(Pending(r))
             <= MaxAttempts - 1 + Cardinality(Crons) + manual
    BY WarehouseBoundAssumption DEF WarehouseInv, WarehouseTypeOK, AttemptsInSight
<1> QED
    BY <1>1, PendingIsNat

(* So the invariant holds in every state of the warehouse. *)
LEMMA WarehouseInvariant == WarehouseSpec => []ShopInv
<1>1. ShopInv /\ [WarehouseNext]_wvars => ShopInv'
    BY WarehouseStep, ShopKeeps DEF ShopInv, WarehouseInv
<1> QED
    BY <1>1, ShopStarts, PTL DEF WarehouseSpec

(* The rows, the cards, the requests and the runs of the job keep their    *)
(* types: a row that exists has an account, and what is refunded is one.   *)
THEOREM WarehouseTypeCorrect == WarehouseSpec => []WarehouseTypeOK
    BY WarehouseInvariant, PTL DEF ShopInv, WarehouseInv

(* However the runs of the refund job overlap, a row is tried at most      *)
(* REFUND_MAX_ATTEMPTS times and once more for every further run.          *)
THEOREM AttemptsAreBounded == WarehouseSpec => []AttemptsBounded
    BY WarehouseInvariant, BoundedHolds, PTL DEF ShopInv

-----------------------------------------------------------------------------
(* What Stock does to the warehouse. *)

(* No part of the system counts more faults than a behaviour may have.     *)
LEMMA FaultsBounded ==
    ASSUME faults \in 0..MaxFaults,
           [RedeemNext]_<<redeemVars, faults>> \/ [PoolNext]_<<poolVars, faults>>
    PROVE  faults' \in 0..MaxFaults
<1>1. ASSUME NEW kind, Fault(kind) PROVE faults' \in 0..MaxFaults
    BY <1>1, CommonAssumption DEF Fault
<1>2. CASE [RedeemNext]_<<redeemVars, faults>>
    BY <1>1, <1>2
    DEF RedeemNext, BackOffice, Generate, BatchRemove, ToggleStatus, RemoveWrite, RemoveRead, Expires,
        GoodsChange, Redemption, ReserveRead, ReserveWrite, ReserveBusy, Load, LoadFindsNothing,
        Rollback, RollbackFails, MakeOrder, MakeRecord, Deliver, Dies
<1>3. CASE [PoolNext]_<<poolVars, faults>>
    BY <1>1, <1>3
    DEF PoolNext, PoolAdmin, PoolWorld, Proceed, Asks, CreateGrant, CreateAccount,
        UpdateAccount, RemoveAccount, Spend, GrantEnds, BindUserToken, ClaimAccount, Visit,
        RefreshAll, RefreshNext, SyncRead, SyncWrite, SyncFails, QueryQuota, ReleaseAccount,
        SwapReleases, SwapClaims, TryCandidate, CheckCandidate, AssignCandidate, AssignFails
<1> QED
    BY <1>2, <1>3

(* What a workload names. *)
LEMMA LoadTyped ==
    ASSUME load \in Workloads
    PROVE  /\ load.does \subseteq Activities
           /\ load.accounts \subseteq Accounts /\ load.callers \subseteq Callers
    BY WorkloadAssumption

(* Redemptions are steps of Redeem, whatever else happens leaves them.     *)
LEMMA StockRedeems ==
    [Next]_svars => [RedeemNext]_<<redeemVars, faults>> \/ UNCHANGED redeemVars
    BY DEF Next, svars, Quiet, WarehouseSteps, Recycling, Subscriptions, Pooling, Redeeming,
           RedeemDelivery, RedeemNext

(* The pool is changed by steps of PoolGrants. *)
LEMMA StockPools ==
    ASSUME load \in Workloads, RedeemTypeOK, [Next]_svars
    PROVE  [PoolNext]_<<poolVars, faults>> \/ UNCHANGED poolVars
<1>1. ASSUME NEW c \in load.callers, Asks(c, load.does) PROVE \E d \in Callers : Asks(d, PoolOps)
    BY <1>1, LoadTyped DEF Asks, PoolOps
<1>2. ASSUME NEW o, DeliverQuota(o) PROVE CreateGrant(o)
    BY <1>2 DEF DeliverQuota
<1>3. CASE Pooling
    BY <1>1, <1>2, <1>3 DEF Pooling, PoolNext
<1>4. ASSUME NEW q \in Requests, RedeemDelivery(q)
      PROVE UNCHANGED poolVars \/ \E o \in Orders : CreateGrant(o)
    <2>1. rorder[q] \in Orders
        BY <1>4 DEF RedeemDelivery, Deliver, RedeemTypeOK
    <2> QED
        BY <1>2, <1>4, <2>1 DEF RedeemDelivery
<1> QED
    BY <1>3, <1>4
    DEF Next, svars, Quiet, WarehouseSteps, Recycling, Subscriptions, Redeeming, PoolNext

(* Seen from the warehouse, every part of Stock takes steps of the shop.   *)
LEMMA StockStep == TypeOK /\ [Next]_svars => ShopStep
<1> SUFFICES ASSUME TypeOK, [Next]_svars PROVE ShopStep
    OBVIOUS
<1> DEFINE Still == UNCHANGED <<rowVars, refundVars, kstatus, kaccount, korder, adminVars, todo, cause>>
<1>1. WarehouseTypeOK /\ RedeemTypeOK /\ load \in Workloads /\ SubTypeOK /\ RecycleTypeOK
    BY DEF TypeOK
<1>2. delivered \subseteq Orders /\ free \subseteq Accounts /\ faults \in 0..MaxFaults
    BY <1>1 DEF WarehouseTypeOK
<1>3. CASE UNCHANGED wvars
    BY <1>2, <1>3 DEF wvars, cardVars, ShopStep, Elsewhere
<1>4. ASSUME NEW y, NEW r, Push(y, r) \/ Import(y, r), y \in Accounts, r \in Rows
      PROVE ShopStep
    BY <1>4 DEF ShopStep, WarehouseNext
<1>5. CASE WarehouseSteps
    <2>1. ASSUME NEW a \in Admins, Request(a, load.does) PROVE Request(a, AllAdminOps)
        BY <2>1 DEF Request, ReadOps, AllAdminOps
    <2> QED
        BY <1>1, <1>4, <1>5, <2>1, LoadTyped DEF WarehouseSteps, ShopStep, WarehouseNext
<1>6. CASE Recycling
    <2>1. ASSUME NEW y \in Recyclers, DeleteRecycled(y) PROVE ShopStep
        <3>1. {r \in yrows[y] : Stored(r)} \in SUBSET Rows
            BY <1>1 DEF RecycleTypeOK
        <3>2. RowsGo({r \in yrows[y] : Stored(r)})
            BY <2>1 DEF DeleteRecycled, RowsGo
        <3> QED
            BY <3>1, <3>2 DEF ShopStep
    <2>2. ASSUME NEW x \in Accounts, SupportRefunds(x) PROVE ShopStep
        BY <1>2, <2>2 DEF SupportRefunds, ShopStep, Elsewhere, cardVars
    <2>3. ASSUME NEW y \in Recyclers, NEW s, AnswerUnrecorded(y, s) PROVE ShopStep
        <3>1. faults' \in 0..MaxFaults
            BY <1>2, <2>3, CommonAssumption DEF AnswerUnrecorded, Fault
        <3> QED
            BY <1>2, <2>3, <3>1 DEF AnswerUnrecorded, ShopStep, Elsewhere, cardVars
    <2> QED
        BY <1>3, <1>6, <2>1, <2>2, <2>3
        DEF Recycling, RecycleNext, RecycleSteps, Submit, Refresh, Begin, Answer,
            AnswerFindsNothing, ListRecycled, RemoveRequest
<1>7. CASE Subscriptions
    <2>1. ASSUME NEW p \in Workers, PushRow(p) PROVE ShopStep
        <3>1. pacct[p] \in Accounts
            BY <1>1, <2>1 DEF PushRow, SubTypeOK
        <3>2. CASE ImportFails
            <4>1. faults' \in 0..MaxFaults
                BY <1>2, <3>2, CommonAssumption DEF ImportFails, Fault
            <4> QED
                BY <1>2, <3>2, <4>1 DEF ImportFails, ShopStep, Elsewhere, cardVars
        <3> QED
            BY <1>3, <1>4, <2>1, <3>1, <3>2 DEF PushRow
    <2>2. ASSUME NEW p \in Workers, PushDies(p) \/ UnpushFails(p) PROVE ShopStep
        <3>1. faults' \in 0..MaxFaults
            BY <1>2, <2>2, CommonAssumption DEF PushDies, UnpushFails, Fault
        <3> QED
            BY <1>2, <2>2, <3>1 DEF PushDies, UnpushFails, ShopStep, Elsewhere, cardVars
    <2>3. ASSUME NEW p \in Workers, Unpush(p) PROVE ShopStep
        <3>1. RefRows(pacct[p]) \in SUBSET Rows /\ \A r \in RefRows(pacct[p]) : Stored(r)
            BY DEF RefRows, RowsOf
        <3>2. RowsGo(RefRows(pacct[p]))
            BY <2>3, <3>1 DEF Unpush, RowsGo
        <3> QED
            BY <3>1, <3>2 DEF ShopStep
    <2>4. EnterSteps(load.accounts) \/ StatusSteps(load.accounts) => UNCHANGED wvars
        BY DEF EnterSteps, Enter, StatusSteps, MarkPaid, SubExpires, StartSync, Take, WriteSync
    <2>5. ASSUME PushSteps(load.accounts) PROVE ShopStep
        BY <1>3, <2>1, <2>2, <2>3, <2>5
        DEF PushSteps, StartPush, StartRemoval, Take, LinkRow, DropAccount
    <2> QED
        BY <1>3, <1>7, <2>4, <2>5 DEF Subscriptions
<1>8. ASSUME Still, free' = free, delivered' \subseteq Orders, faults' \in 0..MaxFaults PROVE ShopStep
    BY <1>2, <1>8 DEF ShopStep, Elsewhere
<1>9. ASSUME NEW o \in Orders, DeliverQuota(o) PROVE ShopStep
    <2>1. faults' = faults
        BY <1>9 DEF DeliverQuota, CreateGrant
    <2> QED
        BY <1>2, <1>8, <1>9, <2>1 DEF DeliverQuota
<1>10. CASE Pooling
    <2>1. CASE \E o \in Orders : made[o] = None /\ DeliverQuota(o)
        BY <1>9, <2>1
    <2>2. CASE PoolNext /\ UNCHANGED <<rowVars, refundVars, cardVars, free, adminVars, todo, cause>>
        <3>1. faults' \in 0..MaxFaults
            BY <1>2, <2>2, FaultsBounded
        <3> QED
            BY <1>2, <1>8, <2>2, <3>1 DEF cardVars
    <2>3. ASSUME NEW c \in load.callers, Asks(c, load.does) PROVE \E d \in Callers : Asks(d, PoolOps)
        BY <1>1, <2>3, LoadTyped DEF Asks, PoolOps
    <2> QED
        BY <1>10, <2>1, <2>2, <2>3 DEF Pooling, PoolNext
<1>11. CASE Redeeming
    <2>1. RedeemNext
        BY <1>11 DEF Redeeming, RedeemNext
    <2>2. faults' \in 0..MaxFaults
        BY <1>2, <2>1, FaultsBounded
    <2> QED
        BY <1>2, <1>8, <1>11, <2>2 DEF Redeeming, Quiet, cardVars
<1>12. ASSUME NEW q \in Requests, RedeemDelivery(q) PROVE ShopStep
    <2>1. rorder[q] \in Orders
        BY <1>1, <1>12 DEF RedeemDelivery, Deliver, RedeemTypeOK
    <2>2. ASSUME NEW S \in SUBSET Cards, Oldest(1, S), Sell(rorder[q], S) PROVE ShopStep
        <3>1. 1 \in 1..MaxQuantity
            BY WarehouseBoundAssumption
        <3> QED
            BY <2>1, <2>2, <3>1 DEF ShopStep, WarehouseNext, Purchase
    <2> QED
        BY <1>3, <1>9, <1>12, <2>1, <2>2 DEF RedeemDelivery
<1>13. CASE UNCHANGED svars
    BY <1>3, <1>13 DEF svars
<1> QED
    BY <1>5, <1>6, <1>7, <1>10, <1>11, <1>12, <1>13 DEF Next

-----------------------------------------------------------------------------
(* The types of Stock, and what recycling deletes. *)

(* A synchronisation has read the status of an account of the pool.        *)
SyncReads == \A p \in Workers : pstep[p] = "sync" => pread[p] \in SubStatuses

(* The rows recycling is about to delete were sold, whatever they are now. *)
RecycledSold == \A y \in Recyclers : \A r \in yrows[y] : worder[r] # None

(* Every part of the pool of subscriptions keeps its types. *)
LEMMA SubTypeStep ==
    ASSUME SubTypeOK, SyncReads, load \in Workloads, [Next]_svars
    PROVE  SubTypeOK' /\ SyncReads'
<1> USE DEF subVars, workerVars
<1>1. ASSUME NEW x \in Accounts, NEW s \in SubStatuses, NEW b, Enter(x, s, b)
      PROVE  SubTypeOK' /\ SyncReads'
    BY <1>1 DEF Enter, SetStatus, SubTypeOK, SyncReads
<1>2. ASSUME NEW x \in Accounts, MarkPaid(x) \/ SubExpires(x) PROVE SubTypeOK' /\ SyncReads'
    BY <1>2 DEF MarkPaid, SubExpires, SetStatus, SubTypeOK, SyncReads, SubStatuses
<1>3. ASSUME NEW p \in Workers, NEW x \in Accounts, NEW step \in {"push", "unpush", "drop", "sync"},
             Take(p, x, step)
      PROVE  /\ sstatus' = sstatus /\ linked' = linked
             /\ pstep' \in [Workers -> {"idle", "push", "link", "unpush", "drop", "sync"}]
             /\ pacct' \in [Workers -> Accounts \cup {None}]
             /\ pread' \in [Workers -> SubStatuses \cup {None}]
             /\ plinked' \subseteq Workers
             /\ \A q \in Workers : pstep'[q] # "idle" => pacct'[q] \in Accounts
             /\ SyncReads'
    BY <1>3 DEF Take, Known, SubTypeOK, SyncReads
<1>4. ASSUME NEW p \in Workers, Leave(p)
      PROVE  /\ pstep' \in [Workers -> {"idle", "push", "link", "unpush", "drop", "sync"}]
             /\ pacct' \in [Workers -> Accounts \cup {None}]
             /\ pread' \in [Workers -> SubStatuses \cup {None}]
             /\ plinked' \subseteq Workers
             /\ \A q \in Workers : pstep'[q] # "idle" => pacct'[q] \in Accounts
             /\ SyncReads'
    BY <1>4 DEF Leave, SubTypeOK, SyncReads
<1>5. ASSUME NEW p \in Workers, NEW x \in Accounts,
             StartPush(p, x) \/ StartRemoval(p, x) \/ StartSync(p, x)
      PROVE  SubTypeOK' /\ SyncReads'
    <2>1. tangled' \subseteq Accounts
        BY <1>5 DEF StartPush, StartRemoval, StartSync, SubTypeOK
    <2> QED
        BY <1>3, <1>5, <2>1 DEF StartPush, StartRemoval, StartSync, SubTypeOK
<1>6. ASSUME NEW p \in Workers, PushRow(p) PROVE SubTypeOK' /\ SyncReads'
    <2>1. CASE Leave(p)
        BY <1>4, <1>6, <2>1 DEF PushRow, SubTypeOK
    <2>2. CASE Step(p, "link")
        BY <1>6, <2>2 DEF PushRow, Step, SubTypeOK, SyncReads
    <2> QED
        BY <1>6, <2>1, <2>2 DEF PushRow
<1>7. ASSUME NEW p \in Workers, LinkRow(p) \/ PushDies(p) \/ DropAccount(p)
      PROVE  SubTypeOK' /\ SyncReads'
    <2>1. Leave(p) /\ pacct[p] \in Accounts
        BY <1>7 DEF LinkRow, PushDies, DropAccount, SubTypeOK
    <2>2. /\ sstatus' \in [Accounts -> SubStatuses \cup {"NONE", "GONE"}]
          /\ linked' \subseteq Accounts /\ tangled' \subseteq Accounts
        BY <1>7, <2>1 DEF LinkRow, PushDies, DropAccount, SetStatus, SubTypeOK
    <2> QED
        BY <1>4, <2>1, <2>2 DEF SubTypeOK
<1>8. ASSUME NEW p \in Workers, Unpush(p) \/ UnpushFails(p) PROVE SubTypeOK' /\ SyncReads'
    <2>1. tangled' \subseteq Accounts /\ sstatus' = sstatus /\ linked' = linked
        BY <1>8 DEF Unpush, UnpushFails, SubTypeOK
    <2> QED
        BY <1>8, <2>1 DEF Unpush, UnpushFails, Step, SubTypeOK, SyncReads
<1>9. ASSUME NEW p \in Workers, WriteSync(p) PROVE SubTypeOK' /\ SyncReads'
    <2>1. Leave(p) /\ pacct[p] \in Accounts /\ pread[p] \in SubStatuses
        BY <1>9 DEF WriteSync, SubTypeOK, SyncReads
    <2>2. Synced(pread[p], pacct[p]) \subseteq SubStatuses
        BY <2>1 DEF Synced, SubStatuses
    <2>3. sstatus' \in [Accounts -> SubStatuses \cup {"NONE", "GONE"}]
        BY <1>9, <2>1, <2>2 DEF WriteSync, SetStatus, SubTypeOK
    <2> QED
        BY <1>4, <1>9, <2>1, <2>3 DEF WriteSync, SubTypeOK
<1>10. CASE Subscriptions
    <2>1. load.accounts \subseteq Accounts
        BY LoadTyped
    <2>2. CASE EnterSteps(load.accounts)
        BY <1>1, <2>1, <2>2 DEF EnterSteps
    <2>3. CASE PushSteps(load.accounts)
        BY <1>5, <1>6, <1>7, <1>8, <2>1, <2>3 DEF PushSteps
    <2>4. CASE StatusSteps(load.accounts)
        BY <1>2, <1>5, <1>9, <2>1, <2>4 DEF StatusSteps
    <2> QED
        BY <1>10, <2>2, <2>3, <2>4 DEF Subscriptions
<1>11. CASE UNCHANGED subVars
    BY <1>11 DEF SubTypeOK, SyncReads
<1> QED
    BY <1>10, <1>11
    DEF Next, svars, Quiet, WarehouseSteps, Recycling, Pooling, Redeeming, RedeemDelivery

(* A row keeps an order number, or gets another. *)
LEMMA WorderStays ==
    ASSUME WarehouseTypeOK, ShopStep, NEW r \in Rows, worder[r] # None
    PROVE  worder'[r] # None
<1>1. ASSUME NEW o \in Orders, NEW S \in SUBSET Cards, Sell(o, S) PROVE worder'[r] # None
    BY <1>1, NoneIsNothing DEF Sell
<1>2. ASSUME NEW a, Request(a, AllAdminOps) PROVE worder' = worder
    BY <1>2 DEF Request, AddRead, AddWrite, NewRow, ReadRow, CheckCard, RefuseCard, Assign, Unassign,
                RemoveCard, DropRow, Unlist, Relist, RequestFails, SetRow, rowVars
<1>3. ASSUME \/ \E x \in Accounts, s \in Rows : Push(x, s) \/ Import(x, s)
             \/ \E o \in Orders : ReturnCards(o)
             \/ \E c \in Crons : CronSteps(c)
             \/ \E s \in Rows : ByHand(s)
             \/ \E R \in SUBSET Rows : RowsGo(R)
             \/ Elsewhere
      PROVE  worder' = worder
    BY <1>3 DEF Push, Import, NewRow, ReturnCards, CronSteps, ListDue, RefundRow, CronDies, ByHand,
                ResetRefund, RefundNow, RowsGo, Elsewhere, rowVars
<1> QED
    BY <1>1, <1>2, <1>3 DEF ShopStep, WarehouseNext, Purchase

(* Recycling keeps its types, and deletes what was sold. *)
LEMMA RecycleStep ==
    ASSUME WarehouseTypeOK, RowsFit, RecycleTypeOK, RecycledSold, ShopStep, [Next]_svars
    PROVE  RecycleTypeOK' /\ RecycledSold'
<1> USE DEF recycleVars, requestTable, recyclerVars
<1>1. ASSUME yrows' = yrows PROVE RecycledSold'
    <2> SUFFICES ASSUME NEW y \in Recyclers, NEW r \in yrows[y] PROVE worder'[r] # None
        BY <1>1 DEF RecycledSold
    <2>1. r \in Rows /\ worder[r] # None
        BY DEF RecycledSold, RecycleTypeOK
    <2> QED
        BY <2>1, WorderStays
<1>2. ASSUME NEW y \in Recyclers, NEW x \in Accounts, NEW o \in Orders \cup {None},
             NEW i \in RecycleIds \cup {None}, Begin(y, x, o, i)
      PROVE  RecycleTypeOK' /\ RecycledSold'
    BY <1>1, <1>2 DEF Begin, RecycleTypeOK
<1>3. ASSUME NEW y \in Recyclers, Finish(y)
      PROVE  /\ ystep' \in [Recyclers -> {"idle", "ask", "list", "delete"}]
             /\ yacct' \in [Recyclers -> Accounts \cup {None}]
             /\ yorder' \in [Recyclers -> Orders \cup {None}]
             /\ yreq' \in [Recyclers -> RecycleIds \cup {None}]
             /\ yrows' \in [Recyclers -> SUBSET Rows]
             /\ \A z \in Recyclers : ystep'[z] # "idle" => yacct'[z] \in Accounts
             /\ RecycledSold'
    <2>1. \A z \in Recyclers : yrows'[z] \subseteq yrows[z]
        BY <1>3 DEF Finish, RecycleTypeOK
    <2>2. RecycledSold'
        BY <2>1, WorderStays DEF RecycledSold, RecycleTypeOK
    <2> QED
        BY <1>3, <2>2 DEF Finish, RecycleTypeOK
<1>4. ASSUME NEW y \in Recyclers, NEW x \in Accounts, Submit(y, x) PROVE RecycleTypeOK' /\ RecycledSold'
    BY <1>2, <1>4 DEF Submit, WarehouseTypeOK
<1>5. ASSUME NEW y \in Recyclers, NEW i \in RecycleIds, Refresh(y, i)
      PROVE  RecycleTypeOK' /\ RecycledSold'
    <2>1. PICK r \in Rows :
              /\ Newest(qacct[i], r)
              /\ Begin(y, qacct[i], IF worder[r] = None THEN qorder[i] ELSE worder[r], i)
        BY <1>5 DEF Refresh
    <2>2. qacct[i] \in Accounts
        BY <2>1 DEF Newest, RowsOf, Stored, WarehouseTypeOK
    <2>3. (IF worder[r] = None THEN qorder[i] ELSE worder[r]) \in Orders \cup {None}
        BY DEF RecycleTypeOK, WarehouseTypeOK
    <2> QED
        BY <1>2, <2>1, <2>2, <2>3
<1>6. ASSUME NEW y \in Recyclers, NEW i \in RecycleIds, NEW s \in {"PENDING", "SUCCESS", "UNKNOWN"},
             Answer(y, i, s)
      PROVE  RecycleTypeOK' /\ RecycledSold'
    <2>1. /\ qstat' \in [RecycleIds -> {"NONE", "PENDING", "SUCCESS", "UNKNOWN", "GONE"}]
          /\ qacct' \in [RecycleIds -> Accounts \cup {None}]
          /\ qorder' \in [RecycleIds -> Orders \cup {None}]
        BY <1>6 DEF Answer, RecycleTypeOK
    <2>2. CASE Finish(y)
        BY <1>3, <2>1, <2>2 DEF RecycleTypeOK
    <2>3. CASE ystep' = [ystep EXCEPT ![y] = "list"] /\ UNCHANGED <<yacct, yorder, yreq, yrows>>
        BY <1>1, <1>6, <2>1, <2>3 DEF Answer, RecycleTypeOK
    <2> QED
        BY <1>6, <2>2, <2>3 DEF Answer, Answered
<1>12. ASSUME NEW y \in Recyclers, NEW s, AnswerUnrecorded(y, s)
      PROVE  RecycleTypeOK' /\ RecycledSold'
    <2>1. CASE Finish(y)
        BY <1>3, <1>12, <2>1 DEF AnswerUnrecorded, RecycleTypeOK
    <2>2. CASE ystep' = [ystep EXCEPT ![y] = "list"] /\ UNCHANGED <<yacct, yorder, yreq, yrows>>
        BY <1>1, <1>12, <2>2 DEF AnswerUnrecorded, RecycleTypeOK
    <2> QED
        BY <1>12, <2>1, <2>2 DEF AnswerUnrecorded, Answered
<1>7. ASSUME NEW y \in Recyclers, AnswerFindsNothing(y) \/ DeleteRecycled(y)
      PROVE  RecycleTypeOK' /\ RecycledSold'
    BY <1>3, <1>7 DEF AnswerFindsNothing, DeleteRecycled, RecycleTypeOK
<1>8. ASSUME NEW y \in Recyclers, ListRecycled(y) PROVE RecycleTypeOK' /\ RecycledSold'
    <2>1. CASE Finish(y)
        BY <1>3, <1>8, <2>1 DEF ListRecycled, RecycleTypeOK
    <2>2. CASE ~Finish(y)
        <3>1. Recycled(y) \subseteq Rows /\ \A r \in Recycled(y) : worder[r] # None
            BY DEF Recycled, RowsOf, RowsFit
        <3>2. worder' = worder
            BY <1>8 DEF ListRecycled, wvars, rowVars
        <3>3. /\ ystep' = [ystep EXCEPT ![y] = "delete"]
              /\ yrows' = [yrows EXCEPT ![y] = Recycled(y)]
              /\ UNCHANGED <<yacct, yorder, yreq, qstat, qacct, qorder>>
            BY <1>8, <2>2 DEF ListRecycled
        <3>4. RecycleTypeOK'
            BY <1>8, <3>1, <3>3 DEF ListRecycled, RecycleTypeOK
        <3> QED
            BY <3>1, <3>2, <3>3, <3>4 DEF RecycleTypeOK, RecycledSold
    <2> QED
        BY <2>1, <2>2
<1>9. ASSUME NEW i \in RecycleIds, RemoveRequest(i) PROVE RecycleTypeOK' /\ RecycledSold'
    BY <1>1, <1>9 DEF RemoveRequest, RecycleTypeOK
<1>10. CASE UNCHANGED recycleVars
    BY <1>1, <1>10 DEF RecycleTypeOK
<1>11. CASE RecycleNext
    <2>1. ASSUME NEW x \in Accounts, SupportRefunds(x) PROVE UNCHANGED recycleVars
        BY <2>1 DEF SupportRefunds
    <2> QED
        BY <1>4, <1>5, <1>6, <1>7, <1>8, <1>9, <1>10, <1>11, <1>12, <2>1
        DEF RecycleNext, RecycleSteps
<1> QED
    BY <1>10, <1>11
    DEF Next, svars, Quiet, WarehouseSteps, Recycling, Subscriptions, Pooling, Redeeming, RedeemDelivery

-----------------------------------------------------------------------------
(* The pool of subscriptions and its rows in the warehouse. *)

(* While the pool of subscriptions works, its push is the only source of   *)
(* rows that bear a reference: of a row that cursor-jb pushes by itself,   *)
(* under a reference of its own or after the removal, remove knows nothing. *)
OneSource == \A w \in Workloads : "sub" \in w.does => w.does \cap {"push", "first"} = {}

(* An account that is not tangled: pushes and removals of it exclude each  *)
(* other, a row of it is noted or about to be, and is gone before the      *)
(* account is.                                                             *)
Settled(x) ==
    /\ ~(Busy(x, {"push", "link"}) /\ Busy(x, {"unpush", "drop"}))
    /\ RefRows(x) # {} => x \in linked \/ Busy(x, {"link"})
    /\ Busy(x, {"drop"}) => RefRows(x) = {}
    /\ Busy(x, {"push", "link"}) => Known(x)
    /\ \A p \in plinked : pacct[p] = x /\ pstep[p] \in {"push", "link"} => x \in linked
    /\ sstatus[x] = "GONE" => RefRows(x) = {}

SubInv ==
    /\ \A p \in Workers : pstep[p] = "idle" => p \notin plinked
    /\ On("sub") => \A x \in Accounts \ tangled : Settled(x)
    /\ ~On("sub") => /\ \A x \in Accounts : sstatus[x] # "GONE"
                     /\ \A p \in Workers : pstep[p] \in {"idle", "sync"}

(* Rows get no reference but by the push of the pool. *)
LEMMA RefsStay ==
    ASSUME OneSource, load \in Workloads, On("sub"), [Next]_svars
    PROVE  refs' = refs \/ \E p \in Workers : PushRow(p)
<1>1. ~On("push") /\ ~On("first")
    BY DEF OneSource, On
<1>2. ASSUME NEW a, NEW ops, Request(a, ops) PROVE refs' = refs
    BY <1>2 DEF Request, AddRead, AddWrite, NewRow, ReadRow, CheckCard, RefuseCard, Assign, Unassign,
                RemoveCard, DropRow, Unlist, Relist, RequestFails, SetRow, rowVars
<1>3. CASE WarehouseSteps
    BY <1>1, <1>2, <1>3
    DEF WarehouseSteps, Import, NewRow, Purchase, Sell, ReturnCards, CronSteps, ListDue, RefundRow, CronDies, ByHand,
        ResetRefund, RefundNow, rowVars
<1>4. CASE Recycling
    BY <1>4 DEF Recycling, RecycleNext, RecycleSteps, Submit, Refresh, Begin, Answer,
                AnswerUnrecorded, AnswerFindsNothing, ListRecycled, DeleteRecycled, RemoveRequest, SupportRefunds,
                wvars, rowVars
<1>5. CASE Subscriptions
    BY <1>5 DEF Subscriptions, EnterSteps, Enter, StatusSteps, MarkPaid, SubExpires, WriteSync,
                StartSync, PushSteps, StartPush, StartRemoval, Take, LinkRow, PushDies, Unpush,
                UnpushFails, DropAccount, wvars, rowVars
<1>6. CASE Pooling \/ Redeeming \/ \E q \in Requests : RedeemDelivery(q)
    BY <1>6 DEF Pooling, DeliverQuota, Redeeming, RedeemDelivery, Sell, Quiet, wvars, rowVars
<1>7. CASE UNCHANGED svars
    BY <1>7 DEF svars, wvars, rowVars
<1> QED
    BY <1>3, <1>4, <1>5, <1>6, <1>7 DEF Next

(* Without a new reference no account gets a row that bears one. *)
LEMMA RefRowsShrink ==
    ASSUME WarehouseTypeOK, RowsFit, ShopStep, refs' = refs, NEW x
    PROVE  RefRows(x)' \subseteq RefRows(x)
<1>1. ASSUME NEW r \in Rows, NEW y, NewRow(r, y, FALSE) PROVE RefRows(x)' \subseteq RefRows(x)
    <2>1. r \notin refs
        BY <1>1 DEF NewRow, FreshRows, RowsFit
    <2>2. \A s \in Rows \ {r} : wstatus'[s] = wstatus[s] /\ account'[s] = account[s]
        BY <1>1 DEF NewRow, WarehouseTypeOK
    <2> QED
        BY <2>1, <2>2 DEF RefRows, RowsOf, Stored
<1>2. ASSUME account' = account, \A s \in Rows : Stored(s)' => Stored(s)
      PROVE  RefRows(x)' \subseteq RefRows(x)
    BY <1>2 DEF RefRows, RowsOf
<1>3. ASSUME NEW r, NEW s, NEW k, Stored(r), SetRow(r, s, k) PROVE RefRows(x)' \subseteq RefRows(x)
    BY <1>2, <1>3 DEF SetRow, Stored, WarehouseTypeOK
<1>4. ASSUME UNCHANGED rowVars PROVE RefRows(x)' \subseteq RefRows(x)
    BY <1>2, <1>4 DEF rowVars, Stored
<1>5. ASSUME NEW a \in Admins, Request(a, AllAdminOps) PROVE RefRows(x)' \subseteq RefRows(x)
    BY <1>1, <1>3, <1>4, <1>5
    DEF Request, AddRead, AddWrite, ReadRow, CheckCard, RefuseCard, Assign, Unassign, RemoveCard,
        DropRow, Unlist, Relist, RequestFails
<1>6. ASSUME NEW y \in Accounts, NEW r \in Rows, Push(y, r) PROVE FALSE
    BY <1>6 DEF Push, NewRow, FreshRows, RowsFit
<1>10. ASSUME NEW y \in Accounts, NEW r \in Rows, Import(y, r)
       PROVE  RefRows(x)' \subseteq RefRows(x)
    BY <1>10 DEF Import, NewRow, FreshRows, RowsFit, RefRows, RowsOf, Stored, WarehouseTypeOK
<1>7. ASSUME NEW o, NEW S, Sell(o, S) PROVE RefRows(x)' \subseteq RefRows(x)
    BY <1>2, <1>7 DEF Sell, Stored
<1>8. ASSUME NEW R \in SUBSET Rows, RowsGo(R) PROVE RefRows(x)' \subseteq RefRows(x)
    BY <1>2, <1>8 DEF RowsGo, Stored
<1>9. ASSUME \/ \E o \in Orders : ReturnCards(o)
             \/ \E c \in Crons : CronSteps(c)
             \/ \E r \in Rows : ByHand(r)
             \/ Elsewhere
      PROVE  RefRows(x)' \subseteq RefRows(x)
    BY <1>4, <1>9 DEF ReturnCards, CronSteps, ListDue, RefundRow, CronDies, ByHand, ResetRefund,
                      RefundNow, Elsewhere
<1> QED
    BY <1>5, <1>6, <1>7, <1>8, <1>9, <1>10 DEF ShopStep, WarehouseNext, Purchase

(* The requests other than p stay where they are. *)
OnlyWorker(p) == \A q \in Workers \ {p} :
    pstep'[q] = pstep[q] /\ pacct'[q] = pacct[q] /\ (q \in plinked' <=> q \in plinked)

LEMMA TakeMoves ==
    ASSUME SubTypeOK, NEW p \in Workers, NEW x, NEW step, Take(p, x, step)
    PROVE  /\ pstep[p] = "idle" /\ Known(x)
           /\ pstep'[p] = step /\ pacct'[p] = x /\ OnlyWorker(p)
           /\ p \in plinked' <=> x \in linked \/ p \in plinked
    BY DEF Take, OnlyWorker, SubTypeOK

LEMMA LeaveMoves ==
    ASSUME SubTypeOK, NEW p \in Workers, Leave(p)
    PROVE  pstep'[p] = "idle" /\ OnlyWorker(p) /\ p \notin plinked'
    BY DEF Leave, OnlyWorker, SubTypeOK

LEMMA StepMoves ==
    ASSUME SubTypeOK, NEW p \in Workers, NEW step, Step(p, step)
    PROVE  /\ pstep'[p] = step /\ pacct'[p] = pacct[p] /\ OnlyWorker(p)
           /\ p \in plinked' <=> p \in plinked
    BY DEF Step, OnlyWorker, SubTypeOK

(* Who is busy with an account when one request has moved. *)
LEMMA BusyMoves ==
    ASSUME NEW p \in Workers, NEW x, NEW S, OnlyWorker(p)
    PROVE  /\ Busy(x, S)' => Busy(x, S) \/ (pacct'[p] = x /\ pstep'[p] \in S)
           /\ Busy(x, S) => Busy(x, S)' \/ (pacct[p] = x /\ pstep[p] \in S)
    BY DEF Busy, OnlyWorker

(* A status changes, no account of the pool leaves it. *)
LEMMA StatusSettled ==
    ASSUME NEW x, Settled(x), RefRows(x)' \subseteq RefRows(x), UNCHANGED workerVars,
           x \in linked => x \in linked', Known(x) => Known(x)',
           sstatus'[x] = "GONE" => sstatus[x] = "GONE"
    PROVE  Settled(x)'
<1>1. \A S : Busy(x, S)' <=> Busy(x, S)
    BY DEF Busy, workerVars
<1> QED
    BY <1>1 DEF Settled, workerVars

(* A request begins. *)
LEMMA TakeSettled ==
    ASSUME SubTypeOK, SubInv, NEW x \in Accounts, Settled(x), RefRows(x)' \subseteq RefRows(x),
           NEW p \in Workers, NEW y \in Accounts,
           StartPush(p, y) \/ StartRemoval(p, y) \/ StartSync(p, y), x \notin tangled'
    PROVE  Settled(x)'
<1>1. PICK step \in {"push", "unpush", "drop", "sync"} :
          /\ Take(p, y, step)
          /\ step \in {"unpush", "drop"} =>
                /\ step = "drop" <=> y \notin linked
                /\ Busy(y, {"push", "link"}) => y \in tangled'
          /\ step = "push" => (Busy(y, {"unpush", "drop"}) => y \in tangled')
    BY DEF StartPush, StartRemoval, StartSync
<1>2. /\ pstep[p] = "idle" /\ Known(y) /\ p \notin plinked
      /\ pstep'[p] = step /\ pacct'[p] = y /\ OnlyWorker(p)
      /\ p \in plinked' => y \in linked
    BY <1>1, TakeMoves DEF SubInv
<1>3. sstatus' = sstatus /\ linked' = linked /\ plinked' \subseteq Workers /\ plinked \subseteq Workers
    BY <1>1 DEF Take, SubTypeOK
<1>4. \A S : "idle" \notin S => (Busy(x, S) => Busy(x, S)')
    BY <1>2, BusyMoves
<1>5. \A S : Busy(x, S)' => Busy(x, S) \/ (y = x /\ step \in S)
    BY <1>2, BusyMoves
<1>6. ~(Busy(x, {"push", "link"})' /\ Busy(x, {"unpush", "drop"})')
    BY <1>1, <1>5 DEF Settled
<1>7. RefRows(x)' # {} => x \in linked' \/ Busy(x, {"link"})'
    BY <1>3, <1>4 DEF Settled
<1>8. Busy(x, {"drop"})' => RefRows(x)' = {}
    <2>1. y = x /\ step = "drop" => ~Busy(x, {"link"}) /\ x \notin linked
        BY <1>1 DEF Busy
    <2> QED
        BY <1>5, <2>1 DEF Settled
<1>9. Busy(x, {"push", "link"})' => Known(x)'
    BY <1>2, <1>3, <1>5 DEF Settled, Known
<1>10. \A q \in plinked' : pacct'[q] = x /\ pstep'[q] \in {"push", "link"} => x \in linked'
    BY <1>2, <1>3 DEF Settled, OnlyWorker
<1> QED
    BY <1>3, <1>6, <1>7, <1>8, <1>9, <1>10 DEF Settled

(* The push makes the row. *)
LEMMA PushRowSettled ==
    ASSUME SubTypeOK, NEW x \in Accounts, Settled(x), NEW p \in Workers, PushRow(p),
           RefRows(x)' \subseteq RefRows(x) \/ x = pacct[p]
    PROVE  Settled(x)'
<1>1. /\ sstatus' = sstatus /\ linked' = linked /\ pstep[p] = "push"
      /\ IF p \in plinked THEN Leave(p) ELSE Step(p, "link")
    BY DEF PushRow
<1>2. /\ OnlyWorker(p) /\ (p \in plinked' => p \in plinked)
      /\ pstep'[p] = IF p \in plinked THEN "idle" ELSE "link"
      /\ p \notin plinked => pacct'[p] = pacct[p]
    BY <1>1, LeaveMoves, StepMoves
<1>3. \A S : "push" \notin S => (Busy(x, S) => Busy(x, S)')
    BY <1>1, <1>2, BusyMoves
<1>4. \A S : {"link", "idle"} \cap S = {} => (Busy(x, S)' => Busy(x, S))
    BY <1>2, BusyMoves
<1>5. Busy(x, {"push", "link"})' => Busy(x, {"push", "link"})
    BY <1>1, <1>2 DEF Busy, OnlyWorker
<1>6. CASE x # pacct[p]
    <2>1. plinked' \subseteq plinked /\ plinked \subseteq Workers
        BY <1>1 DEF Leave, Step, SubTypeOK
    <2>2. pstep'[p] \in {"push", "link"} => pacct'[p] # x
        BY <1>2, <1>6
    <2>3. \A q \in plinked' : pacct'[q] = x /\ pstep'[q] \in {"push", "link"} => x \in linked'
        BY <1>1, <1>2, <2>1, <2>2 DEF Settled, OnlyWorker
    <2>4. /\ Busy(x, {"link"}) => Busy(x, {"link"})'
          /\ Busy(x, {"drop"})' => Busy(x, {"drop"})
          /\ Busy(x, {"unpush", "drop"})' => Busy(x, {"unpush", "drop"})
        BY <1>3, <1>4
    <2> QED
        BY <1>1, <1>5, <1>6, <2>3, <2>4 DEF Settled, Known
<1>7. CASE x = pacct[p]
    <2>1. Busy(x, {"push", "link"}) /\ Known(x) /\ sstatus[x] # "GONE"
        BY <1>1, <1>7 DEF Busy, Settled, Known, SubStatuses
    <2>2. x \in linked' \/ Busy(x, {"link"})'
        <3>1. CASE p \in plinked
            BY <1>1, <1>7, <3>1 DEF Settled
        <3>2. CASE p \notin plinked
            BY <1>2, <1>7, <3>2 DEF Busy
        <3> QED
            BY <3>1, <3>2
    <2>3. ~Busy(x, {"drop"})' /\ ~Busy(x, {"unpush", "drop"})'
        BY <1>4, <2>1 DEF Settled, Busy
    <2>4. \A q \in plinked' : pacct'[q] = x /\ pstep'[q] \in {"push", "link"} => x \in linked'
        BY <1>1, <1>2 DEF Settled, OnlyWorker, SubTypeOK, PushRow, Leave, Step
    <2> QED
        BY <1>1, <2>1, <2>2, <2>3, <2>4 DEF Settled, Known
<1> QED
    BY <1>6, <1>7

(* A request goes on or ends, without a row for its account. *)
LEMMA WorkSettled ==
    ASSUME SubTypeOK, NEW x \in Accounts, Settled(x), RefRows(x)' \subseteq RefRows(x),
           NEW p \in Workers, x \notin tangled',
           LinkRow(p) \/ PushDies(p) \/ Unpush(p) \/ UnpushFails(p) \/ DropAccount(p)
    PROVE  Settled(x)'
<1>1. OnlyWorker(p) /\ plinked \subseteq Workers /\ plinked' \subseteq Workers
    BY LeaveMoves, StepMoves DEF LinkRow, PushDies, Unpush, UnpushFails, DropAccount, Leave, Step, SubTypeOK
<1>2. CASE pacct[p] # x
    <2>1. pstep'[p] = "idle" \/ pacct'[p] # x
        BY <1>2, LeaveMoves, StepMoves DEF LinkRow, PushDies, Unpush, UnpushFails, DropAccount
    <2>2. \A S : "idle" \notin S => (Busy(x, S)' <=> Busy(x, S))
        BY <1>1, <1>2, <2>1, BusyMoves
    <2>3. sstatus'[x] = sstatus[x] /\ (x \in linked' <=> x \in linked)
        BY <1>2 DEF LinkRow, PushDies, Unpush, UnpushFails, DropAccount, SetStatus, SubTypeOK
    <2>4. \A q \in plinked' : pacct'[q] = x /\ pstep'[q] \in {"push", "link"} => x \in linked'
        BY <1>1, <2>1, <2>3 DEF Settled, OnlyWorker
    <2> QED
        BY <2>2, <2>3, <2>4 DEF Settled, Known
<1>3. CASE pacct[p] = x /\ LinkRow(p)
    <2>1. /\ pstep'[p] = "idle" /\ pstep[p] = "link" /\ sstatus' = sstatus
          /\ p \notin plinked'
        BY <1>3, LeaveMoves DEF LinkRow
    <2>2. Busy(x, {"push", "link"})
        BY <1>3, <2>1 DEF Busy
    <2>3. x \in linked'
        BY <1>3, <2>2 DEF LinkRow, Settled
    <2>4. \A S : "idle" \notin S => (Busy(x, S)' => Busy(x, S))
        BY <1>1, <2>1, BusyMoves
    <2> QED
        BY <2>1, <2>2, <2>3, <2>4 DEF Settled, Known
<1>4. CASE pacct[p] = x /\ (PushDies(p) \/ UnpushFails(p))
    BY <1>4 DEF PushDies, UnpushFails
<1>5. CASE pacct[p] = x /\ Unpush(p)
    <2>1. pstep'[p] = "drop" /\ pstep[p] = "unpush" /\ sstatus' = sstatus /\ linked' = linked
        BY <1>5, StepMoves DEF Unpush
    <2>2. RefRows(x)' = {}
        BY <1>5 DEF Unpush, RefRows, RowsOf, Stored
    <2>3. ~Busy(x, {"push", "link"})
        BY <1>5, <2>1 DEF Settled, Busy
    <2>4. ~Busy(x, {"push", "link"})'
        BY <1>1, <2>1, <2>3, BusyMoves
    <2>5. \A q \in plinked' : ~(pacct'[q] = x /\ pstep'[q] \in {"push", "link"})
        BY <1>1, <2>4 DEF Busy
    <2> QED
        BY <2>2, <2>4, <2>5 DEF Settled
<1>6. CASE pacct[p] = x /\ DropAccount(p)
    <2>1. pstep'[p] = "idle" /\ pstep[p] = "drop"
        BY <1>6, LeaveMoves DEF DropAccount
    <2>2. RefRows(x)' = {} /\ ~Busy(x, {"push", "link"})
        BY <1>6, <2>1 DEF Settled, Busy
    <2>3. ~Busy(x, {"push", "link"})'
        BY <1>1, <2>1, <2>2, BusyMoves
    <2>4. \A q \in plinked' : ~(pacct'[q] = x /\ pstep'[q] \in {"push", "link"})
        BY <1>1, <2>3 DEF Busy
    <2> QED
        BY <2>2, <2>3, <2>4 DEF Settled
<1> QED
    BY <1>2, <1>3, <1>4, <1>5, <1>6

(* A synchronisation writes a status of the pool, or none. *)
LEMMA SyncSettled ==
    ASSUME SubTypeOK, SyncReads, NEW x \in Accounts, Settled(x), RefRows(x)' \subseteq RefRows(x),
           NEW p \in Workers, WriteSync(p)
    PROVE  Settled(x)'
<1>1. /\ pstep[p] = "sync" /\ pstep'[p] = "idle" /\ OnlyWorker(p) /\ p \notin plinked'
      /\ linked' = linked /\ plinked \subseteq Workers /\ plinked' \subseteq Workers
    BY LeaveMoves DEF WriteSync, Leave, SubTypeOK
<1>2. \A S : S \cap {"idle", "sync"} = {} => (Busy(x, S)' <=> Busy(x, S))
    BY <1>1, BusyMoves
<1>3. pacct[p] \in Accounts /\ pread[p] \in SubStatuses
    BY <1>1 DEF SubTypeOK, SyncReads
<1>4. Synced(pread[p], pacct[p]) \subseteq SubStatuses
    BY <1>3 DEF Synced, SubStatuses
<1>5. /\ Known(x) => Known(x)'
      /\ sstatus'[x] = "GONE" => sstatus[x] = "GONE"
    BY <1>3, <1>4 DEF WriteSync, SetStatus, Known, SubTypeOK, SubStatuses
<1>6. \A q \in plinked' : pacct'[q] = x /\ pstep'[q] \in {"push", "link"} => x \in linked'
    BY <1>1 DEF Settled, OnlyWorker
<1>7. /\ Busy(x, {"push", "link"})' <=> Busy(x, {"push", "link"})
      /\ Busy(x, {"unpush", "drop"})' <=> Busy(x, {"unpush", "drop"})
      /\ Busy(x, {"link"})' <=> Busy(x, {"link"})
      /\ Busy(x, {"drop"})' <=> Busy(x, {"drop"})
    BY <1>2
<1> QED
    BY <1>1, <1>5, <1>6, <1>7 DEF Settled

(* The workload is chosen once. *)
LEMMA LoadStays == [Next]_svars => load' = load
    BY DEF Next, svars, Quiet, WarehouseSteps, Recycling, Subscriptions, Pooling, Redeeming, RedeemDelivery

(* No request keeps what it read when it ends. *)
LEMMA IdleStep ==
    ASSUME SubTypeOK, SubInv, [Next]_svars, NEW p \in Workers, pstep'[p] = "idle"
    PROVE  p \notin plinked'
<1>1. ASSUME NEW q \in Workers, NEW x, NEW step \in {"push", "unpush", "drop", "sync"}, Take(q, x, step)
      PROVE  p \notin plinked'
    BY <1>1, TakeMoves DEF OnlyWorker, SubInv
<1>2. ASSUME NEW q \in Workers, Leave(q) PROVE p \notin plinked'
    BY <1>2, LeaveMoves DEF OnlyWorker, SubInv
<1>3. ASSUME NEW q \in Workers, NEW step \in {"link", "drop"}, Step(q, step) PROVE p \notin plinked'
    BY <1>3, StepMoves DEF OnlyWorker, SubInv
<1>4. CASE UNCHANGED workerVars
    BY <1>4 DEF SubInv, workerVars
<1>5. CASE Subscriptions
    <2>1. CASE EnterSteps(load.accounts)
        BY <1>4, <2>1 DEF EnterSteps, Enter
    <2>2. CASE PushSteps(load.accounts)
        BY <1>1, <1>2, <1>3, <2>2
        DEF PushSteps, StartPush, StartRemoval, PushRow, LinkRow, PushDies, Unpush, UnpushFails,
            DropAccount
    <2>3. CASE StatusSteps(load.accounts)
        BY <1>1, <1>2, <1>4, <2>3 DEF StatusSteps, MarkPaid, SubExpires, WriteSync, StartSync
    <2> QED
        BY <1>5, <2>1, <2>2, <2>3 DEF Subscriptions
<1> QED
    BY <1>4, <1>5
    DEF Next, svars, Quiet, WarehouseSteps, Recycling, Pooling, Redeeming, RedeemDelivery, subVars

(* Without pushes and removals no account leaves the pool. *)
LEMMA NoRemovals ==
    ASSUME SubTypeOK, SyncReads, SubInv, ~On("sub"), load \in Workloads, [Next]_svars
    PROVE  /\ \A x \in Accounts : sstatus'[x] # "GONE"
           /\ \A p \in Workers : pstep'[p] \in {"idle", "sync"}
<1>1. \A x \in Accounts : sstatus[x] # "GONE"
    BY DEF SubInv
<1>2. \A p \in Workers : pstep[p] \in {"idle", "sync"}
    BY DEF SubInv
<1>3. CASE UNCHANGED subVars
    BY <1>1, <1>2, <1>3 DEF subVars, workerVars
<1>4. ASSUME NEW x \in Accounts, NEW s \in SubStatuses, SetStatus(x, s)
      PROVE  \A y \in Accounts : sstatus'[y] # "GONE"
    BY <1>1, <1>4 DEF SetStatus, SubTypeOK, SubStatuses
<1>5. CASE Subscriptions
    <2>1. load.accounts \subseteq Accounts
        BY LoadTyped
    <2>2. CASE EnterSteps(load.accounts)
        BY <1>2, <1>4, <2>1, <2>2 DEF EnterSteps, Enter, workerVars
    <2>3. ASSUME NEW x \in Accounts, MarkPaid(x) \/ SubExpires(x)
          PROVE  /\ \A y \in Accounts : sstatus'[y] # "GONE"
                 /\ \A p \in Workers : pstep'[p] \in {"idle", "sync"}
        BY <1>2, <1>4, <2>3 DEF MarkPaid, SubExpires, SubStatuses, workerVars
    <2>4. ASSUME NEW p \in Workers, WriteSync(p)
          PROVE  /\ \A y \in Accounts : sstatus'[y] # "GONE"
                 /\ \A q \in Workers : pstep'[q] \in {"idle", "sync"}
        <3>1. Leave(p) /\ pacct[p] \in Accounts /\ pread[p] \in SubStatuses
            BY <2>4 DEF WriteSync, SubTypeOK, SyncReads
        <3>2. Synced(pread[p], pacct[p]) \subseteq SubStatuses
            BY <3>1 DEF Synced, SubStatuses
        <3>3. \A y \in Accounts : sstatus'[y] # "GONE"
            BY <1>1, <1>4, <2>4, <3>1, <3>2 DEF WriteSync
        <3>4. pstep'[p] = "idle" /\ OnlyWorker(p)
            BY <3>1, LeaveMoves
        <3> QED
            BY <1>2, <3>3, <3>4 DEF OnlyWorker
    <2>5. ASSUME NEW p \in Workers, NEW x, StartSync(p, x)
          PROVE  /\ \A y \in Accounts : sstatus'[y] # "GONE"
                 /\ \A q \in Workers : pstep'[q] \in {"idle", "sync"}
        <3>1. pstep'[p] = "sync" /\ OnlyWorker(p)
            BY <2>5, TakeMoves DEF StartSync
        <3>2. sstatus' = sstatus
            BY <2>5 DEF StartSync, Take
        <3> QED
            BY <1>1, <1>2, <3>1, <3>2 DEF OnlyWorker
    <2> QED
        BY <1>5, <2>1, <2>2, <2>3, <2>4, <2>5 DEF Subscriptions, StatusSteps
<1> QED
    BY <1>3, <1>5
    DEF Next, svars, Quiet, WarehouseSteps, Recycling, Pooling, Redeeming, RedeemDelivery

LEMMA SubStep ==
    ASSUME OneSource, WarehouseTypeOK, RowsFit, SubTypeOK, SyncReads, SubInv,
           load \in Workloads, ShopStep, [Next]_svars
    PROVE  SubInv'
<1>1. load' = load
    BY LoadStays
<1>2. ASSUME On("sub"), NEW x \in Accounts \ tangled' PROVE Settled(x)'
    <2>1. tangled \subseteq tangled'
        BY DEF Next, svars, Quiet, WarehouseSteps, Recycling, Subscriptions, Pooling, Redeeming,
               RedeemDelivery, subVars, EnterSteps, Enter, PushSteps, StartPush, StartRemoval, PushRow,
               LinkRow, PushDies, Unpush, UnpushFails, DropAccount, StatusSteps, MarkPaid, SubExpires, WriteSync,
               StartSync
    <2>2. x \in Accounts /\ x \notin tangled' /\ Settled(x)
        BY <1>2, <2>1 DEF SubInv
    <2>3. ASSUME NEW p \in Workers, PushRow(p) PROVE Settled(x)'
        <3>1. CASE refs' = refs
            BY <2>2, <2>3, <3>1, RefRowsShrink, PushRowSettled
        <3>2. CASE refs' # refs
            <4>1. PICK r \in Rows : Push(pacct[p], r)
                BY <2>3, <3>2 DEF PushRow, ImportFails, wvars, rowVars
            <4>2. CASE x # pacct[p]
                <5>1. RefRows(x)' \subseteq RefRows(x)
                    <6>1. /\ wstatus[r] = "NONE"
                          /\ \A s \in Rows \ {r} : wstatus'[s] = wstatus[s] /\ account'[s] = account[s]
                          /\ account'[r] = pacct[p] /\ refs' = refs \cup {r}
                        BY <4>1 DEF Push, NewRow, FreshRows, WarehouseTypeOK
                    <6> QED
                        BY <4>2, <6>1 DEF RefRows, RowsOf, Stored
                <5> QED
                    BY <2>2, <2>3, <5>1, PushRowSettled
            <4>3. CASE x = pacct[p]
                BY <2>2, <2>3, <4>3, PushRowSettled
            <4> QED
                BY <4>2, <4>3
        <3> QED
            BY <3>1, <3>2
    <2>4. CASE \A p \in Workers : ~PushRow(p)
        <3>1. RefRows(x)' \subseteq RefRows(x)
            BY <1>2, <2>4, RefsStay, RefRowsShrink
        <3>2. load.accounts \subseteq Accounts
            BY LoadTyped
        <3>3. CASE UNCHANGED subVars
            BY <2>2, <3>1, <3>3, StatusSettled DEF subVars, Known
        <3>4. ASSUME NEW y \in Accounts, NEW s \in SubStatuses, NEW b, Enter(y, s, b) PROVE Settled(x)'
            <4>1. /\ UNCHANGED workerVars /\ linked \subseteq linked'
                  /\ Known(x) => Known(x)'
                  /\ sstatus'[x] = "GONE" => sstatus[x] = "GONE"
                BY <2>2, <3>4 DEF Enter, SetStatus, Known, SubTypeOK, SubStatuses
            <4> QED
                BY <2>2, <3>1, <4>1, StatusSettled
        <3>5. ASSUME NEW y \in Accounts, MarkPaid(y) \/ SubExpires(y) PROVE Settled(x)'
            <4>1. /\ UNCHANGED workerVars /\ linked \subseteq linked'
                  /\ Known(x) => Known(x)'
                  /\ sstatus'[x] = "GONE" => sstatus[x] = "GONE"
                BY <2>2, <3>5 DEF MarkPaid, SubExpires, SetStatus, Known, SubTypeOK, SubStatuses
            <4> QED
                BY <2>2, <3>1, <4>1, StatusSettled
        <3>6. ASSUME NEW p \in Workers, NEW y \in Accounts,
                     StartPush(p, y) \/ StartRemoval(p, y) \/ StartSync(p, y)
              PROVE  Settled(x)'
            BY <2>2, <3>1, <3>6, TakeSettled
        <3>7. ASSUME NEW p \in Workers,
                     LinkRow(p) \/ PushDies(p) \/ Unpush(p) \/ UnpushFails(p) \/ DropAccount(p)
              PROVE  Settled(x)'
            BY <2>2, <3>1, <3>7, WorkSettled
        <3>8. ASSUME NEW p \in Workers, WriteSync(p) PROVE Settled(x)'
            BY <2>2, <3>1, <3>8, SyncSettled
        <3>9. CASE Subscriptions
            BY <2>4, <3>2, <3>4, <3>5, <3>6, <3>7, <3>8, <3>9
            DEF Subscriptions, EnterSteps, PushSteps, StatusSteps
        <3> QED
            BY <3>3, <3>9
            DEF Next, svars, Quiet, WarehouseSteps, Recycling, Pooling, Redeeming, RedeemDelivery
    <2> QED
        BY <2>3, <2>4
<1>3. ~On("sub") => /\ \A x \in Accounts : sstatus'[x] # "GONE"
                    /\ \A p \in Workers : pstep'[p] \in {"idle", "sync"}
    BY NoRemovals
<1>4. \A p \in Workers : pstep'[p] = "idle" => p \notin plinked'
    BY IdleStep
<1> QED
    BY <1>1, <1>2, <1>3, <1>4 DEF SubInv, On

-----------------------------------------------------------------------------
(* Stock as a whole. *)

StockInv ==
    /\ TypeOK /\ ShopInv /\ RecycledSold /\ SyncReads
    /\ RedeemInv /\ PoolInv /\ ExclusiveInv

(* What does not touch the codes and the redemptions keeps what they promise. *)
LEMMA RedeemIdle == RedeemInv /\ UNCHANGED redeemVars => RedeemInv'
<1> SUFFICES ASSUME RedeemInv, UNCHANGED redeemVars PROVE RedeemInv'
    OBVIOUS
<1> USE DEF redeemVars, codeVars, orderVars, requestVars
<1>1. RedeemTypeOK'
    BY DEF RedeemInv, RedeemTypeOK
<1>2. UsesAddUp'
    BY DEF RedeemInv, UsesAddUp, OrdersOf, Holding
<1>3. Reserved'
    BY DEF RedeemInv, Reserved
<1> QED
    BY <1>1, <1>2, <1>3 DEF RedeemInv

(* The same for the accounts and grants of the pool. *)
LEMMA PoolIdle == PoolInv /\ ExclusiveInv /\ UNCHANGED poolVars => PoolInv' /\ ExclusiveInv'
<1> SUFFICES ASSUME PoolInv, ExclusiveInv, UNCHANGED poolVars PROVE PoolInv' /\ ExclusiveInv'
    OBVIOUS
<1> USE DEF poolVars, grantVars
<1>1. PoolTypeOK'
    BY DEF PoolInv, PoolTypeOK
<1>2. WindowsAreReal'
    BY DEF PoolInv, WindowsAreReal
<1>3. CallsAreReal'
    BY DEF PoolInv, CallsAreReal, Plain, WritesReal, Real, Window
<1>4. UsedIsReal'
    BY DEF PoolInv, UsedIsReal, Window
<1>5. ExclusiveInv'
    BY DEF ExclusiveInv, GrantsExist, Granted, OneTaker, HeldBy, Assigning, In
<1> QED
    BY <1>1, <1>2, <1>3, <1>4, <1>5 DEF PoolInv

(* The invariants of the parts hold at the start of Stock ... *)
LEMMA StockStarts == Init => StockInv
<1> SUFFICES ASSUME Init PROVE StockInv
    OBVIOUS
<1>1. ShopInv /\ RedeemInv /\ PoolInv /\ ExclusiveInv
    BY ShopStarts, RedeemStarts, PoolStarts DEF Init
<1>2. RecycleTypeOK /\ RecycledSold
    BY DEF Init, RecycleInit, RecycleTypeOK, RecycledSold
<1>3. SubTypeOK /\ SyncReads
    BY DEF Init, SubInit, SubTypeOK, SyncReads
<1> QED
    BY <1>1, <1>2, <1>3 DEF Init, StockInv, TypeOK, ShopInv, WarehouseInv, RedeemInv, PoolInv

(* ... and after every step of it. *)
LEMMA StockKeeps == StockInv /\ [Next]_svars => StockInv'
<1> SUFFICES ASSUME StockInv, [Next]_svars PROVE StockInv'
    OBVIOUS
<1>1. /\ TypeOK /\ ShopInv /\ RedeemInv /\ PoolInv /\ ExclusiveInv /\ RecycledSold /\ SyncReads
      /\ WarehouseTypeOK /\ RecycleTypeOK /\ SubTypeOK /\ RedeemTypeOK /\ load \in Workloads
      /\ RowsFit
    BY DEF StockInv, TypeOK, ShopInv, Fit
<1>2. ShopStep
    BY <1>1, StockStep
<1>3. ShopInv'
    BY <1>1, <1>2, ShopKeeps
<1>4. RecycleTypeOK' /\ RecycledSold'
    BY <1>1, <1>2, RecycleStep
<1>5. SubTypeOK' /\ SyncReads'
    BY <1>1, SubTypeStep
<1>6. RedeemInv'
    BY <1>1, StockRedeems, RedeemKeeps, RedeemIdle
<1>7. PoolInv' /\ ExclusiveInv'
    BY <1>1, StockPools, PoolStep, ExclusiveStep, PoolIdle
<1>8. load' \in Workloads
    BY <1>1, LoadStays
<1> QED
    BY <1>3, <1>4, <1>5, <1>6, <1>7, <1>8
    DEF StockInv, TypeOK, ShopInv, WarehouseInv, RedeemInv, PoolInv

(* So they hold in every state. *)
LEMMA StockInvariant == Spec => []StockInv
    BY StockStarts, StockKeeps, PTL DEF Spec

(* Every part of Stock keeps its types, whatever the others do to what it  *)
(* shares with them: a row under a request has an account, an order under  *)
(* a redemption exists.                                                    *)
THEOREM StockTypeCorrect == Spec => []TypeOK
<1>1. StockInv => TypeOK
    BY DEF StockInv
<1> QED
    BY <1>1, StockInvariant, PTL

(* Whatever purchases, redemptions, returns, requests of the back office,  *)
(* recycling and the pool of subscriptions do together, an account that    *)
(* came in once, and that nobody wrote over or put on sale again, is sold  *)
(* to one order.                                                           *)
THEOREM AccountsAreSoldOnce == Spec => []SoldOnce
<1>1. StockInv => SoldOnce
    BY SoldOnceHolds DEF StockInv, TypeOK, ShopInv
<1> QED
    BY <1>1, StockInvariant, PTL

(* The row of a sold account has gone, or names the card and the order.    *)
THEOREM SalesAreRecorded == Spec => []SaleIsRecorded
<1>1. StockInv => SaleIsRecorded
    BY SaleIsRecordedHolds DEF StockInv, TypeOK, ShopInv
<1> QED
    BY <1>1, StockInvariant, PTL

(* The refund job keeps to its attempts, rows deleted under it or not.     *)
THEOREM StockAttemptsAreBounded == Spec => []AttemptsBounded
<1>1. StockInv => AttemptsBounded
    BY BoundedHolds DEF StockInv, ShopInv
<1> QED
    BY <1>1, StockInvariant, PTL

(* However old the lookup is by which recycling chose its rows, none of    *)
(* them is on the shelf when it deletes them: each was sold, and an        *)
(* account that is clean is not put on sale again.                         *)
THEOREM RecyclingSparesTheStock == Spec => RecycleSparesStock
<1>1. StockInv => \A y \in Recyclers : \A r \in yrows[y] :
                      wstatus[r] \in {"PENDING", "ASSIGNED"} => cause[account[r]] # {}
    <2> SUFFICES ASSUME StockInv, NEW y \in Recyclers, NEW r \in yrows[y],
                        wstatus[r] \in {"PENDING", "ASSIGNED"}, cause[account[r]] = {}
                 PROVE  FALSE
        OBVIOUS
    <2>1. r \in Rows /\ worder[r] # None
        BY DEF StockInv, TypeOK, RecycleTypeOK, RecycledSold
    <2>2. account[r] \in Accounts
        BY <2>1 DEF StockInv, TypeOK, WarehouseTypeOK
    <2>3. RowKnows(r)
        BY <2>1, <2>2 DEF StockInv, ShopInv, CleanInv, Clean
    <2> QED
        BY <2>1, <2>3 DEF RowKnows
<1>2. StockInv => [\A y \in Recyclers : DeleteRecycled(y) =>
                      \A r \in yrows[y] :
                          wstatus[r] \in {"PENDING", "ASSIGNED"} => cause[account[r]] # {}
                  ]_<<wvars, recycleVars>>
    BY <1>1
<1> QED
    BY <1>2, StockInvariant, PTL DEF RecycleSparesStock

(* A code serves no more orders than its uses in Stock either: a delivery  *)
(* out of stock, or of a quota package, changes nothing of that.           *)
THEOREM StockCodesAreNeverOverused == Spec => []NeverOverused
<1>1. StockInv => NeverOverused
    BY OveruseHolds DEF StockInv
<1> QED
    BY <1>1, StockInvariant, PTL

(* usedCount is the orders made, the uses held and the uses lost.          *)
THEOREM StockUsesAddUp == Spec => []UsesAddUp
<1>1. StockInv => UsesAddUp
    BY DEF StockInv, RedeemInv
<1> QED
    BY <1>1, StockInvariant, PTL

(* Grants that redemptions and purchases create share no account either.   *)
THEOREM StockAccountsAreExclusive == Spec => []AccountExclusive
<1>1. StockInv => AccountExclusive
    BY ExclusiveImplies DEF StockInv, TypeOK
<1> QED
    BY <1>1, StockInvariant, PTL

(* Nor is any of them charged for what was spent before it began.          *)
THEOREM StockUseIsReal == Spec => []UsedIsReal
<1>1. StockInv => UsedIsReal
    BY DEF StockInv, PoolInv
<1> QED
    BY <1>1, StockInvariant, PTL

(* The invariant of the pool of subscriptions, beside those of Stock.      *)
LEMMA SubInvariant == OneSource /\ Spec => [](StockInv /\ OneSource /\ SubInv)
<1>1. Init => SubInv
    <2> SUFFICES ASSUME Init PROVE SubInv
        OBVIOUS
    <2>1. \A x \in Accounts : RefRows(x) = {}
        BY DEF Init, WarehouseInit, RefRows
    <2>2. \A x \in Accounts : \A S : "idle" \notin S => ~Busy(x, S)
        BY DEF Init, SubInit, Busy
    <2> QED
        BY <2>1, <2>2 DEF Init, SubInit, SubInv, Settled
<1>2. StockInv /\ OneSource /\ SubInv /\ [Next]_svars => SubInv'
    <2> SUFFICES ASSUME StockInv, OneSource, SubInv, [Next]_svars PROVE SubInv'
        OBVIOUS
    <2>1. /\ TypeOK /\ SyncReads
          /\ WarehouseTypeOK /\ SubTypeOK /\ load \in Workloads /\ RowsFit
        BY DEF StockInv, TypeOK, ShopInv, Fit
    <2>2. ShopStep
        BY <2>1, StockStep
    <2> QED
        BY <2>1, <2>2, SubStep
<1>3. OneSource => OneSource'
    BY DEF OneSource
<1> QED
    BY <1>1, <1>2, <1>3, StockStarts, StockKeeps, PTL DEF Spec

(* An account that was removed from the pool of subscriptions leaves no    *)
(* row in the warehouse, provided its push is the only source of rows that *)
(* bear a reference and no push of it was cut short or ran beside the      *)
(* removal.                                                                *)
THEOREM RemovedAccountsHaveNoRow == OneSource /\ Spec => []RowHasAccount
<1>1. SubInv => RowHasAccount
    BY DEF SubInv, RowHasAccount, Settled
<1> QED
    BY <1>1, SubInvariant, PTL
=============================================================================
