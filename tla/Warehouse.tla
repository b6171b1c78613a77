----------------------------- MODULE Warehouse -----------------------------
(***************************************************************************)
(* The warehouse of accounts (apps/api/src/modules/warehouse): rows are    *)
(* put in, assigned to a product by creating a card key, marked sold when  *)
(* an order takes the card, and refunded at Cursor by a cron job.  Every   *)
(* request of the back office reads its row first and writes it by id      *)
(* later; the sales of orders and the cron run beside it.                  *)
(*                                                                         *)
(*   Admins   requests of the back office or of cursor-jb under way        *)
(*   Crons    runs of the refund job that may overlap: the job is started  *)
(*            every minute, whether or not the last run has ended          *)
(*                                                                         *)
(* cause is a history variable: no guard reads it.                         *)
(***************************************************************************)
EXTENDS Common

CONSTANTS
    Accounts,
    Rows, Cards,        \* ids of warehouse_accounts and card_keys
    MaxQuantity,        \* cards of one order
    Crons,
    MaxAttempts,        \* REFUND_MAX_ATTEMPTS
    MaxManual           \* bound: refunds and resets by hand

AllAdminOps == {"add", "assign", "unassign", "remove", "unlist", "relist", "delete"}
ReadOps == AllAdminOps \ {"add"}

ASSUME WarehouseAssumption ==
    /\ Rows \subseteq Nat /\ Cards \subseteq Nat
    /\ IsFiniteSet(Rows) /\ IsFiniteSet(Cards) /\ IsFiniteSet(Crons)
    /\ None \notin Accounts \cup Rows \cup Cards
ASSUME WarehouseBoundAssumption ==
    /\ MaxQuantity \in Nat \ {0} /\ MaxAttempts \in Nat \ {0}
    /\ MaxManual \in Nat

VARIABLES
    wstatus, account,   \* warehouse_accounts: status, the account in content
    refs,               \* rows that have a sourceRef (the one of their account)
    card, worder,       \* cardKeyId, orderNo
    refund, attempts,   \* refundStatus, refundAttempts
    kstatus, kaccount, korder,  \* card_keys: status, account in content, orderNo
    delivered,          \* orders that were delivered
    free,               \* at Cursor: accounts without a subscription
    aop, astep, arow, acard,    \* a request: operation, step, row and card it read
    todo,               \* a run of the refund job: the rows it has still to refund
    manual,             \* refunds and resets by hand
    cause               \* history: what may have an account sold twice

rowVars == <<wstatus, account, refs, card, worder>>
refundVars == <<refund, attempts, manual>>
cardVars == <<kstatus, kaccount, korder, delivered>>
adminVars == <<aop, astep, arow, acard>>
wvars == <<rowVars, refundVars, cardVars, free, adminVars, todo, cause, faults>>

RowStatuses == {"NONE", "PENDING", "ASSIGNED", "SOLD", "UNLISTED", "GONE"}

(* overlap: a request wrote on a row or a card other than it read;         *)
(* relist: a row that was sold, or has a card, came back as PENDING;       *)
(* again: a second row was made for the account.                           *)
Causes == {"overlap", "relist", "again"}

WarehouseTypeOK ==
    /\ wstatus \in [Rows -> RowStatuses]
    /\ account \in [Rows -> Accounts \cup {None}]
    /\ refs \subseteq Rows
    /\ card \in [Rows -> Cards \cup {None}]
    /\ worder \in [Rows -> Orders \cup {None}]
    /\ refund \in [Rows -> {"NONE", "DONE", "FAILED"}]
    /\ attempts \in [Rows -> Nat]
    /\ manual \in 0..MaxManual
    /\ kstatus \in [Cards -> {"NONE", "AVAILABLE", "SOLD", "GONE"}]
    /\ kaccount \in [Cards -> Accounts \cup {None}]
    /\ korder \in [Cards -> Orders \cup {None}]
    /\ delivered \subseteq Orders
    /\ free \subseteq Accounts
    /\ aop \in [Admins -> AllAdminOps \cup {None}]
    /\ astep \in [Admins -> {"idle", "check", "cut", "write"}]
    /\ arow \in [Admins -> Rows \cup Accounts \cup {None}]
    /\ acard \in [Admins -> Cards \cup {None}]
    /\ todo \in [Crons -> SUBSET Rows]
    /\ cause \in [Accounts -> SUBSET Causes]
    /\ faults \in 0..MaxFaults
    /\ \A r \in Rows : wstatus[r] # "NONE" => account[r] \in Accounts

WarehouseInit ==
    /\ wstatus = [r \in Rows |-> "NONE"]
    /\ account = [r \in Rows |-> None]
    /\ refs = {}
    /\ card = [r \in Rows |-> None]
    /\ worder = [r \in Rows |-> None]
    /\ refund = [r \in Rows |-> "NONE"]
    /\ attempts = [r \in Rows |-> 0]
    /\ manual = 0
    /\ kstatus = [k \in Cards |-> "NONE"]
    /\ kaccount = [k \in Cards |-> None]
    /\ korder = [k \in Cards |-> None]
    /\ delivered = {}
    /\ free = {}
    /\ aop = [a \in Admins |-> None]
    /\ astep = [a \in Admins |-> "idle"]
    /\ arow = [a \in Admins |-> None]
    /\ acard = [a \in Admins |-> None]
    /\ todo = [c \in Crons |-> {}]
    /\ cause = [x \in Accounts |-> {}]
    /\ faults = 0

Stored(r) == wstatus[r] \notin {"NONE", "GONE"}
RowsOf(x) == {r \in Rows : Stored(r) /\ account[r] = x}
RefRows(x) == RowsOf(x) \cap refs
Available == {k \in Cards : kstatus[k] = "AVAILABLE"}

(* Autoincrement: the ids the next rows get.                               *)
FreshRows(r) == wstatus[r] = "NONE" /\ \A s \in Rows : wstatus[s] = "NONE" => r <= s
FreshCard(k) == kstatus[k] = "NONE" /\ \A l \in Cards : kstatus[l] = "NONE" => k <= l

Blame(x, why) == cause' = [cause EXCEPT ![x] = @ \cup {why}]
BlameIf(cond, x, why) == IF cond THEN Blame(x, why) ELSE UNCHANGED cause

-----------------------------------------------------------------------------
(* Rows come in. *)

NewRow(r, x, withRef) ==
    /\ FreshRows(r)
    /\ wstatus' = [wstatus EXCEPT ![r] = "PENDING"]
    /\ account' = [account EXCEPT ![r] = x]
    /\ refs' = IF withRef THEN refs \cup {r} ELSE refs
    /\ BlameIf(\E s \in Rows : account[s] = x, x, "again")
    /\ UNCHANGED <<card, worder, refundVars, cardVars, free, todo, faults>>

(* bulkImport of one item: a sourceRef that is there already only gets its *)
(* texts edited, and two imports that miss it meet the unique key.         *)
Push(x, r) ==
    /\ RefRows(x) = {}
    /\ NewRow(r, x, TRUE)
    /\ UNCHANGED adminVars

(* Without a sourceRef nothing is looked up: every item is a new row.      *)
Import(x, r) ==
    /\ NewRow(r, x, FALSE)
    /\ UNCHANGED adminVars

(* manualAdd reads the contents that exist, and inserts later.             *)
AddRead(a, x) ==
    /\ astep[a] = "idle"
    /\ RowsOf(x) = {}
    /\ aop' = [aop EXCEPT ![a] = "add"]
    /\ astep' = [astep EXCEPT ![a] = "write"]
    /\ arow' = [arow EXCEPT ![a] = x]
    /\ UNCHANGED <<rowVars, refundVars, cardVars, free, acard, todo, cause, faults>>

EndRequest(a) ==
    /\ aop' = [aop EXCEPT ![a] = None]
    /\ astep' = [astep EXCEPT ![a] = "idle"]
    /\ arow' = [arow EXCEPT ![a] = None]
    /\ acard' = [acard EXCEPT ![a] = None]

At(a, op, step) == aop[a] = op /\ astep[a] = step

AddWrite(a, r) ==
    /\ At(a, "add", "write")
    /\ NewRow(r, arow[a], FALSE)
    /\ EndRequest(a)

-----------------------------------------------------------------------------
(* Requests on a row. *)

(* What an operation demands of the row it reads; the ones that need no    *)
(* look at the card go on to their write.                                  *)
Accepts(op, r) ==
    CASE op = "assign" -> wstatus[r] = "PENDING"
      [] op = "unassign" -> wstatus[r] = "ASSIGNED" /\ card[r] # None
      [] op = "remove" -> TRUE
      [] op = "relist" -> r \in refs /\ wstatus[r] = "UNLISTED"
      [] op \in {"unlist", "delete"} -> r \in refs

LooksAtCard(op, r) ==
    \/ op = "unassign"
    \/ op = "unlist" /\ card[r] # None
    \/ op = "remove" /\ wstatus[r] = "ASSIGNED" /\ card[r] # None

ReadRow(a, op, r) ==
    /\ astep[a] = "idle"
    /\ Stored(r)
    /\ Accepts(op, r)
    /\ aop' = [aop EXCEPT ![a] = op]
    /\ astep' = [astep EXCEPT ![a] = IF LooksAtCard(op, r) THEN "check" ELSE "write"]
    /\ arow' = [arow EXCEPT ![a] = r]
    /\ acard' = [acard EXCEPT ![a] = IF LooksAtCard(op, r) THEN card[r] ELSE None]
    /\ UNCHANGED <<rowVars, refundVars, cardVars, free, todo, cause, faults>>

(* unassign refuses a card that is there and not AVAILABLE; remove and     *)
(* unlist delete the card only when it is AVAILABLE.                       *)
CheckCard(a) ==
    LET ks == kstatus[acard[a]] IN
    /\ astep[a] = "check"
    /\ ~(aop[a] = "unassign" /\ ks = "SOLD")
    /\ astep' = [astep EXCEPT ![a] =
           IF aop[a] = "remove" /\ ks = "AVAILABLE" THEN "cut" ELSE "write"]
    /\ acard' = [acard EXCEPT ![a] =
           IF aop[a] # "unassign" /\ ks # "AVAILABLE" THEN None ELSE @]
    /\ UNCHANGED <<rowVars, refundVars, cardVars, free, aop, arow, todo, cause, faults>>

RefuseCard(a) ==
    /\ astep[a] = "check"
    /\ aop[a] = "unassign" /\ kstatus[acard[a]] = "SOLD"
    /\ EndRequest(a)
    /\ UNCHANGED <<rowVars, refundVars, cardVars, free, todo, cause, faults>>

(* Deleted by id, sold meanwhile or not.                                   *)
CardsWithout(k) ==
    IF k = None \/ kstatus[k] = "NONE" THEN kstatus ELSE [kstatus EXCEPT ![k] = "GONE"]

(* The card was sold, or the row changed, after the request had read it.   *)
CardMoved(k) == k # None /\ kstatus[k] = "SOLD"

SetRow(r, s, k) ==
    /\ wstatus' = [wstatus EXCEPT ![r] = s]
    /\ card' = [card EXCEPT ![r] = k]
    /\ UNCHANGED <<account, refs, worder>>

(* The card key and the row are written in one transaction.                *)
Assign(a, k) ==
    LET r == arow[a] IN
    /\ At(a, "assign", "write")
    /\ Stored(r)
    /\ FreshCard(k)
    /\ kstatus' = [kstatus EXCEPT ![k] = "AVAILABLE"]
    /\ kaccount' = [kaccount EXCEPT ![k] = account[r]]
    /\ SetRow(r, "ASSIGNED", k)
    /\ BlameIf(wstatus[r] # "PENDING", account[r], "overlap")
    /\ EndRequest(a)
    /\ UNCHANGED <<refundVars, korder, delivered, free, todo, faults>>

(* Mutant: unassign forgets the card key.                                  *)
Unassign_KeepsCard(a) ==
    /\ At(a, "unassign", "write")
    /\ Stored(arow[a])
    /\ SetRow(arow[a], "PENDING", None)
    /\ EndRequest(a)
    /\ UNCHANGED <<refundVars, cardVars, free, todo, cause, faults>>

Unassign(a) ==
    LET r == arow[a] IN
    /\ At(a, "unassign", "write")
    /\ Stored(r)
    /\ kstatus' = CardsWithout(acard[a])
    /\ SetRow(r, "PENDING", None)
    /\ BlameIf(wstatus[r] # "ASSIGNED" \/ card[r] # acard[a], account[r], "overlap")
    /\ EndRequest(a)
    /\ UNCHANGED <<refundVars, kaccount, korder, delivered, free, todo, faults>>

RemoveCard(a) ==
    /\ At(a, "remove", "cut")
    /\ kstatus' = CardsWithout(acard[a])
    /\ BlameIf(CardMoved(acard[a]), kaccount[acard[a]], "overlap")
    /\ astep' = [astep EXCEPT ![a] = "write"]
    /\ UNCHANGED <<rowVars, refundVars, kaccount, korder, delivered, free,
                   aop, arow, acard, todo, faults>>

(* remove and deleteByRef end in the deletion of the row.                  *)
DropRow(a) ==
    /\ aop[a] \in {"remove", "delete"} /\ astep[a] = "write"
    /\ Stored(arow[a])
    /\ SetRow(arow[a], "GONE", None)
    /\ EndRequest(a)
    /\ UNCHANGED <<refundVars, cardVars, free, todo, cause, faults>>

(* Without an AVAILABLE card the row keeps the card and its order.         *)
Unlist(a) ==
    LET r == arow[a]  k == acard[a] IN
    /\ At(a, "unlist", "write")
    /\ Stored(r)
    /\ kstatus' = CardsWithout(k)
    /\ SetRow(r, "UNLISTED", IF k = None THEN card[r] ELSE None)
    /\ BlameIf(CardMoved(k) \/ (k # None /\ card[r] # k), account[r], "overlap")
    /\ EndRequest(a)
    /\ UNCHANGED <<refundVars, kaccount, korder, delivered, free, todo, faults>>

Relist(a) ==
    LET r == arow[a] IN
    /\ At(a, "relist", "write")
    /\ Stored(r)
    /\ SetRow(r, "PENDING", card[r])
    /\ BlameIf(card[r] # None \/ worder[r] # None, account[r], "relist")
    /\ EndRequest(a)
    /\ UNCHANGED <<refundVars, cardVars, free, todo, faults>>

(* An update or a delete of a row that is gone throws; so does the assign, *)
(* with its card key rolled back.  unassign and unlist lose the deletion   *)
(* of the card as well.                                                    *)
RequestFails(a) ==
    /\ astep[a] = "write" /\ aop[a] # "add"
    /\ ~Stored(arow[a])
    /\ EndRequest(a)
    /\ UNCHANGED <<rowVars, refundVars, cardVars, free, todo, cause, faults>>

-----------------------------------------------------------------------------
(* Orders: the delivery's transaction (orders.service.ts) sells the n      *)
(* oldest cards and marks the rows they belong to.                         *)

Oldest(n, S) ==
    /\ S \subseteq Available
    /\ Cardinality(S) = n
    /\ \A k \in S, l \in Available \ S : k < l

(* Mutant: the delivery does not tell the warehouse.                       *)
Sell_Untold(o, S) ==
    /\ o \notin delivered
    /\ delivered' = delivered \cup {o}
    /\ kstatus' = [k \in Cards |-> IF k \in S THEN "SOLD" ELSE kstatus[k]]
    /\ korder' = [k \in Cards |-> IF k \in S THEN o ELSE korder[k]]
    /\ UNCHANGED <<rowVars, refundVars, kaccount, free, adminVars, todo, cause, faults>>

Sell(o, S) ==
    /\ o \notin delivered
    /\ delivered' = delivered \cup {o}
    /\ kstatus' = [k \in Cards |-> IF k \in S THEN "SOLD" ELSE kstatus[k]]
    /\ korder' = [k \in Cards |-> IF k \in S THEN o ELSE korder[k]]
    /\ wstatus' = [r \in Rows |-> IF Stored(r) /\ card[r] \in S THEN "SOLD" ELSE wstatus[r]]
    /\ worder' = [r \in Rows |-> IF Stored(r) /\ card[r] \in S THEN o ELSE worder[r]]
    /\ UNCHANGED <<account, refs, card, refundVars, kaccount, free, adminVars, todo, cause, faults>>

(* A refund of the order puts its cards back on sale; the rows stay SOLD.  *)
ReturnCards(o) ==
    /\ \E k \in Cards : korder[k] = o /\ kstatus[k] = "SOLD"
    /\ kstatus' = [k \in Cards |->
           IF korder[k] = o /\ kstatus[k] = "SOLD" THEN "AVAILABLE" ELSE kstatus[k]]
    /\ korder' = [k \in Cards |->
           IF korder[k] = o /\ kstatus[k] = "SOLD" THEN None ELSE korder[k]]
    /\ UNCHANGED <<rowVars, refundVars, kaccount, delivered, free, adminVars, todo, cause, faults>>

-----------------------------------------------------------------------------
(* Refunds at Cursor. *)

Outcomes == {"ok", "fail", "late"}

(* refundOne: an account that is free already is a success; "late" is a    *)
(* refund that comes through after the last look at it.                    *)
Refunds(x, res) == free' = IF res = "fail" THEN free ELSE free \cup {x}

Record(r, res) ==
    /\ refund' = [refund EXCEPT ![r] = IF res = "ok" THEN "DONE" ELSE "FAILED"]
    /\ attempts' = [attempts EXCEPT ![r] = @ + 1]

(* Mutant: the job forgets its bound.                                      *)
Due_Unbounded == {r \in Rows : wstatus[r] = "SOLD" /\ refund[r] \in {"NONE", "FAILED"}}

(* Mutant: the job forgets the rows whose refund failed.                   *)
Due_OnlyNew == {r \in Rows : wstatus[r] = "SOLD" /\ attempts[r] < MaxAttempts
                                                 /\ refund[r] = "NONE"}

Due == {r \in Rows : wstatus[r] = "SOLD" /\ attempts[r] < MaxAttempts
                                         /\ refund[r] \in {"NONE", "FAILED"}}

(* Of the rows to refund, S are those whose time has come: refundAt, or    *)
(* three minutes after a failure.                                          *)
ListDue(c, S) ==
    /\ todo[c] = {}
    /\ S \subseteq Due /\ S # {}
    /\ todo' = [todo EXCEPT ![c] = S]
    /\ UNCHANGED <<rowVars, refundVars, cardVars, free, adminVars, cause, faults>>

RefundRow(c, r, res) ==
    /\ r \in todo[c]
    /\ Refunds(account[r], res)
    /\ IF Stored(r)
       THEN /\ Record(r, res)
            /\ todo' = [todo EXCEPT ![c] = @ \ {r}]
       ELSE \* the update throws and ends the run
            /\ todo' = [todo EXCEPT ![c] = {}]
            /\ UNCHANGED <<refund, attempts>>
    /\ UNCHANGED <<rowVars, manual, cardVars, adminVars, cause, faults>>

(* The process stops, the account refunded or not.                         *)
CronDies(c, r, res) ==
    /\ r \in todo[c]
    /\ Fault("crash")
    /\ Refunds(account[r], res)
    /\ todo' = [todo EXCEPT ![c] = {}]
    /\ UNCHANGED <<rowVars, refundVars, cardVars, adminVars, cause>>

RefundNow(r, res) ==
    /\ Stored(r)
    /\ manual < MaxManual
    /\ manual' = manual + 1
    /\ Refunds(account[r], res)
    /\ Record(r, res)
    /\ UNCHANGED <<rowVars, cardVars, adminVars, todo, cause, faults>>

ResetRefund(r) ==
    /\ Stored(r)
    /\ manual < MaxManual
    /\ manual' = manual + 1
    /\ refund' = [refund EXCEPT ![r] = "NONE"]
    /\ attempts' = [attempts EXCEPT ![r] = 0]
    /\ UNCHANGED <<rowVars, cardVars, free, adminVars, todo, cause, faults>>

-----------------------------------------------------------------------------
(* ops are the operations that are asked for.                              *)
Request(a, ops) ==
    \/ "add" \in ops /\ \E x \in Accounts : AddRead(a, x)
    \/ \E r \in Rows : AddWrite(a, r) \/ \E op \in ops \cap ReadOps : ReadRow(a, op, r)
    \/ CheckCard(a) \/ RefuseCard(a)
    \/ \E k \in Cards : Assign(a, k)
    \/ Unassign(a) \/ RemoveCard(a) \/ DropRow(a) \/ Unlist(a) \/ Relist(a)
    \/ RequestFails(a)

Purchase(o) == \E n \in 1..MaxQuantity, S \in SUBSET Cards : Oldest(n, S) /\ Sell(o, S)

CronSteps(c) ==
    \/ \E S \in SUBSET Rows : ListDue(c, S)
    \/ \E r \in Rows, res \in Outcomes : RefundRow(c, r, res) \/ CronDies(c, r, res)

ByHand(r) == ResetRefund(r) \/ \E res \in Outcomes : RefundNow(r, res)

WarehouseNext ==
    \/ \E x \in Accounts, r \in Rows : Push(x, r) \/ Import(x, r)
    \/ \E a \in Admins : Request(a, AllAdminOps)
    \/ \E o \in Orders : Purchase(o) \/ ReturnCards(o)
    \/ \E c \in Crons : CronSteps(c)
    \/ \E r \in Rows : ByHand(r)

WarehouseSpec == WarehouseInit /\ [][WarehouseNext]_wvars

-----------------------------------------------------------------------------
(* An account that came in once is sold to one order only, whatever        *)
(* requests, sales and refunds of orders run together; the exceptions are  *)
(* a request that wrote over a change it had not seen, and a sold row put  *)
(* on sale again by relistByRef.                                           *)
SoldOnce ==
    \A x \in Accounts : cause[x] = {} =>
        Cardinality({k \in Cards : kaccount[k] = x /\ korder[k] # None}) <= 1

(* The row of a sold account says so and names the order that has it: the  *)
(* refund job, the external status query and the recycling go by it.       *)
SaleIsRecorded ==
    \A k \in Cards : kstatus[k] = "SOLD" /\ cause[kaccount[k]] = {} =>
        \E r \in Rows :
            /\ account[r] = kaccount[k]
            /\ \/ wstatus[r] = "GONE"
               \/ wstatus[r] \in {"SOLD", "UNLISTED"} /\ card[r] = k /\ worder[r] = korder[k]

(* REFUND_MAX_ATTEMPTS holds up to the runs of the job that overlap, each  *)
(* of which may have listed the row before the others counted.             *)
AttemptsBounded ==
    \A r \in Rows : attempts[r] < MaxAttempts + Cardinality(Crons) + manual
=============================================================================
