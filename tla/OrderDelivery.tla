--------------------------- MODULE OrderDelivery ---------------------------
(***************************************************************************)
(* Delivery of card keys for local (CARD_AUTO) orders of one SKU, paid     *)
(* through Alipay: apps/api/src/modules/orders.  Every database statement  *)
(* or transaction and every Redis command that another handler can         *)
(* interleave with is one action; what a handler read earlier and still    *)
(* uses is kept in its own variables.                                      *)
(*                                                                         *)
(*   Confirmers  calls of markPaidOnly (Alipay notify, browser return,     *)
(*               recoverLostNotify, the admin's trade query)               *)
(*   Jobs        calls of markPaidAndDeliver                               *)
(*   Admins      requests of the back office that read the order first and *)
(*               write it in a later transaction                           *)
(*                                                                         *)
(* cause and faults are history variables: no action's guard depends on    *)
(* cause, and faults only bounds how often the environment misbehaves.     *)
(***************************************************************************)
EXTENDS Integers, FiniteSets

CONSTANTS
    Orders,         \* order numbers
    Quantity,       \* Quantity[o]: keys bought by o
    StockKeys,      \* ids of the card keys in stock
    ManualKeys,     \* ids the database may give to keys typed in by an admin
    Confirmers,
    Jobs,
    Admins,
    AdminOps,       \* the back office operations that occur
    None,           \* no order
    FaultKinds,     \* the failures of the environment that occur
    MaxFaults       \* bound on their number

Keys == StockKeys \cup ManualKeys

AllAdminOps == {"markPaid", "redeliver", "cancel", "delete", "refund",
                "alipayRefund", "manual"}

(* crash: the process stops; abort: a transaction fails; redis: Redis is   *)
(* unreachable; overrun: a delivery outlives its lock of 30 seconds.       *)
AllFaultKinds == {"crash", "abort", "redis", "overrun"}

ASSUME OrdersAssumption == None \notin Orders
ASSUME QuantityAssumption == Quantity \in [Orders -> Nat \ {0}]
ASSUME KeysAssumption == /\ StockKeys \subseteq Nat
                         /\ ManualKeys \subseteq Nat
                         /\ IsFiniteSet(StockKeys)
                         /\ IsFiniteSet(ManualKeys)
                         /\ StockKeys \cap ManualKeys = {}
ASSUME BoundAssumption == MaxFaults \in Nat /\ AdminOps \subseteq AllAdminOps

VARIABLES
    status,         \* orders.status; "GONE" once the row is deleted
    keyStatus,      \* card_keys.status; "NONE" while there is no such row
    keyOwner,       \* card_keys.orderNo
    sales,          \* sku.sales, relative to its value at the start
    lock,           \* Redis key lock:order:<orderNo>
    jpc, jorder, jpicked,       \* a delivery job: step, order, keys it listed
    cpc, corder,                \* a confirmation: step, order
    aop, aorder, aseen, akeys,  \* an admin request: operation, order, what it read
    faults,
    cause           \* what went wrong for an order so far

orderVars == <<status, keyStatus, keyOwner, sales>>
jobVars == <<jpc, jorder, jpicked>>
confVars == <<cpc, corder>>
adminVars == <<aop, aorder, aseen, akeys>>
vars == <<orderVars, lock, jobVars, confVars, adminVars, faults, cause>>

Statuses == {"PENDING", "PAID", "DELIVERED", "REFUNDED", "CANCELLED", "EXPIRED", "GONE"}
KeyStatuses == {"NONE", "AVAILABLE", "SOLD", "REFUNDED"}
JobSteps == {"idle", "start", "locked", "markPaid", "pick", "cas", "finish", "unlock"}
Causes == {"lock", "stale", "abort", "admin"}

(* The cards an order holds: the relation order.cardKeys. *)
Owned(o) == {k \in Keys : keyOwner[k] = o}

Available == {k \in Keys : keyStatus[k] = "AVAILABLE"}

(* The job is between the lock and the end of its finally block. *)
Delivering(j, o) == jorder[j] = o /\ jpc[j] \notin {"idle", "start"}

BeingDelivered(o) == \E j \in Jobs : Delivering(j, o)

TypeOK ==
    /\ status \in [Orders -> Statuses]
    /\ keyStatus \in [Keys -> KeyStatuses]
    /\ keyOwner \in [Keys -> Orders \cup {None}]
    /\ sales \in Int
    /\ lock \in [Orders -> BOOLEAN]
    /\ jpc \in [Jobs -> JobSteps]
    /\ jorder \in [Jobs -> Orders \cup {None}]
    /\ jpicked \in [Jobs -> SUBSET Keys]
    /\ cpc \in [Confirmers -> {"idle", "read", "recorded"}]
    /\ corder \in [Confirmers -> Orders \cup {None}]
    /\ aop \in [Admins -> AllAdminOps \cup {"idle"}]
    /\ aorder \in [Admins -> Orders \cup {None}]
    /\ aseen \in [Admins -> Statuses]
    /\ akeys \in [Admins -> SUBSET Keys]
    /\ faults \in 0..MaxFaults
    /\ cause \in [Orders -> SUBSET Causes]
    /\ \A j \in Jobs : jpc[j] # "idle" => jorder[j] \in Orders
    /\ \A c \in Confirmers : cpc[c] # "idle" => corder[c] \in Orders
    /\ \A a \in Admins : aop[a] # "idle" => aorder[a] \in Orders

Init ==
    /\ status = [o \in Orders |-> "PENDING"]
    /\ keyStatus = [k \in Keys |-> IF k \in StockKeys THEN "AVAILABLE" ELSE "NONE"]
    /\ keyOwner = [k \in Keys |-> None]
    /\ sales = 0
    /\ lock = [o \in Orders |-> FALSE]
    /\ jpc = [j \in Jobs |-> "idle"]
    /\ jorder = [j \in Jobs |-> None]
    /\ jpicked = [j \in Jobs |-> {}]
    /\ cpc = [c \in Confirmers |-> "idle"]
    /\ corder = [c \in Confirmers |-> None]
    /\ aop = [a \in Admins |-> "idle"]
    /\ aorder = [a \in Admins |-> None]
    /\ aseen = [a \in Admins |-> "PENDING"]
    /\ akeys = [a \in Admins |-> {}]
    /\ faults = 0
    /\ cause = [o \in Orders |-> {}]

-----------------------------------------------------------------------------
(* Bookkeeping of the history variables. *)

Blame(o, c) == cause' = [cause EXCEPT ![o] = @ \cup {c}]

BlameIf(cond, o, c) == IF cond THEN Blame(o, c) ELSE UNCHANGED cause

Fault(kind) == kind \in FaultKinds /\ faults < MaxFaults /\ faults' = faults + 1

-----------------------------------------------------------------------------
(* markPaidOnly and deliverAsync. *)

(* The order is read; PAID, DELIVERED, REFUNDED and CANCELLED answer       *)
(* 'already', EXPIRED and a missing row throw: only PENDING goes on.       *)
ConfirmRead(c, o) ==
    /\ cpc[c] = "idle"
    /\ status[o] = "PENDING"
    /\ cpc' = [cpc EXCEPT ![c] = "read"]
    /\ corder' = [corder EXCEPT ![c] = o]
    /\ UNCHANGED <<orderVars, lock, jobVars, adminVars, faults, cause>>

(* The update names the order only, not the status that was read. *)
ConfirmWrite(c) ==
    LET o == corder[c] IN
    /\ cpc[c] = "read"
    /\ status[o] # "GONE"
    /\ status' = [status EXCEPT ![o] = "PAID"]
    /\ cpc' = [cpc EXCEPT ![c] = "recorded"]
    /\ BlameIf(status[o] \in {"DELIVERED", "REFUNDED"}, o, "stale")
    /\ UNCHANGED <<keyStatus, keyOwner, sales, lock, jobVars, corder, adminVars, faults>>

(* Updating a row that is gone throws. *)
ConfirmFails(c) ==
    /\ cpc[c] = "read"
    /\ status[corder[c]] = "GONE"
    /\ cpc' = [cpc EXCEPT ![c] = "idle"]
    /\ corder' = [corder EXCEPT ![c] = None]
    /\ UNCHANGED <<orderVars, lock, jobVars, adminVars, faults, cause>>

(* Mutant of StartJob: the job does not know its order. *)
StartJob_NoOrder(j, o) ==
    /\ jpc[j] = "idle"
    /\ jpc' = [jpc EXCEPT ![j] = "start"]
    /\ UNCHANGED <<jorder, jpicked>>

StartJob(j, o) ==
    /\ jpc[j] = "idle"
    /\ jpc' = [jpc EXCEPT ![j] = "start"]
    /\ jorder' = [jorder EXCEPT ![j] = o]
    /\ UNCHANGED jpicked

(* 'recorded': deliverAsync queues the delivery and the request ends. *)
DeliverAsync(c) ==
    /\ cpc[c] = "recorded"
    /\ \E j \in Jobs : StartJob(j, corder[c])
    /\ cpc' = [cpc EXCEPT ![c] = "idle"]
    /\ corder' = [corder EXCEPT ![c] = None]
    /\ UNCHANGED <<orderVars, lock, adminVars, faults, cause>>

(* The process stops before it queued the delivery. *)
ConfirmDies(c) ==
    /\ cpc[c] # "idle"
    /\ Fault("crash")
    /\ cpc' = [cpc EXCEPT ![c] = "idle"]
    /\ corder' = [corder EXCEPT ![c] = None]
    /\ UNCHANGED <<orderVars, lock, jobVars, adminVars, cause>>

-----------------------------------------------------------------------------
(* markPaidAndDeliver. *)

Goto(j, step) == jpc' = [jpc EXCEPT ![j] = step]

EndJob(j) ==
    /\ jpc' = [jpc EXCEPT ![j] = "idle"]
    /\ jorder' = [jorder EXCEPT ![j] = None]
    /\ jpicked' = [jpicked EXCEPT ![j] = {}]

(* Mutant of AcquireLock: SET without NX. *)
AcquireLock_NoNX(j) ==
    /\ jpc[j] = "start"
    /\ lock' = [lock EXCEPT ![jorder[j]] = TRUE]
    /\ Goto(j, "locked")
    /\ UNCHANGED <<orderVars, jorder, jpicked, confVars, adminVars, faults, cause>>

(* SET lock:order:<o> 1 EX 30 NX *)
AcquireLock(j) ==
    /\ jpc[j] = "start"
    /\ ~lock[jorder[j]]
    /\ lock' = [lock EXCEPT ![jorder[j]] = TRUE]
    /\ Goto(j, "locked")
    /\ UNCHANGED <<orderVars, jorder, jpicked, confVars, adminVars, faults, cause>>

(* Someone else holds the lock: return without delivering. *)
LockBusy(j) ==
    /\ jpc[j] = "start"
    /\ lock[jorder[j]]
    /\ EndJob(j)
    /\ UNCHANGED <<orderVars, lock, confVars, adminVars, faults, cause>>

(* Redis fails: .catch(() => 'OK') goes on without a lock. *)
LockDegraded(j) ==
    /\ jpc[j] = "start"
    /\ Fault("redis")
    /\ Goto(j, "locked")
    /\ Blame(jorder[j], "lock")
    /\ UNCHANGED <<orderVars, lock, jorder, jpicked, confVars, adminVars>>

(* Mutants of ReadOrder: no early return for DELIVERED, none for REFUNDED, *)
(* and one that takes a PAID order for someone else's work.                *)
ReadOrder_Branch(j, done, pay, pick) ==
    /\ jpc[j] = "locked"
    /\ LET s == status[jorder[j]] IN
       \/ s \in done /\ Goto(j, "unlock")
       \/ s \in pay /\ Goto(j, "markPaid")
       \/ s \in pick /\ Goto(j, "pick")
    /\ UNCHANGED <<orderVars, lock, jorder, jpicked, confVars, adminVars, faults, cause>>
ReadOrder_Redelivers(j) ==
    ReadOrder_Branch(j, {"GONE", "REFUNDED"}, {"PENDING"},
                     {"PAID", "CANCELLED", "EXPIRED", "DELIVERED"})
ReadOrder_IgnoresRefund(j) ==
    ReadOrder_Branch(j, {"GONE", "DELIVERED"}, {"PENDING"},
                     {"PAID", "CANCELLED", "EXPIRED", "REFUNDED"})
ReadOrder_OnlyPending(j) ==
    ReadOrder_Branch(j, {"GONE", "DELIVERED", "REFUNDED", "PAID"}, {"PENDING"},
                     {"CANCELLED", "EXPIRED"})

ReadOrder(j) ==
    /\ jpc[j] = "locked"
    /\ LET s == status[jorder[j]] IN
       \/ s \in {"GONE", "DELIVERED", "REFUNDED"} /\ Goto(j, "unlock")
       \/ s = "PENDING" /\ Goto(j, "markPaid")
       \/ s \in {"PAID", "CANCELLED", "EXPIRED"} /\ Goto(j, "pick")
    /\ UNCHANGED <<orderVars, lock, jorder, jpicked, confVars, adminVars, faults, cause>>

(* A PENDING order is first set PAID, whatever it has become meanwhile. *)
MarkPaid(j) ==
    LET o == jorder[j] IN
    /\ jpc[j] = "markPaid"
    /\ IF status[o] = "GONE"
       THEN Goto(j, "unlock") /\ UNCHANGED <<status, cause>>
       ELSE /\ status' = [status EXCEPT ![o] = "PAID"]
            /\ BlameIf(status[o] \in {"DELIVERED", "REFUNDED"}, o, "stale")
            /\ Goto(j, "pick")
    /\ UNCHANGED <<keyStatus, keyOwner, sales, lock, jorder, jpicked, confVars, adminVars, faults>>

(* findMany AVAILABLE, orderBy id asc, take quantity; keys typed in by an *)
(* admin are among them once their order was deleted.                      *)
ListKeys(j) ==
    LET need == Quantity[jorder[j]] IN
    /\ jpc[j] = "pick"
    /\ \/ /\ Cardinality(Available) < need
          /\ Goto(j, "unlock")
          /\ UNCHANGED jpicked
       \/ \E list \in SUBSET Available :
          /\ Cardinality(list) = need
          /\ \A k \in list, i \in Available \ list : k < i
          /\ jpicked' = [jpicked EXCEPT ![j] = list]
          /\ Goto(j, "cas")
    /\ UNCHANGED <<orderVars, lock, jorder, confVars, adminVars, faults, cause>>

(* Mutant of SellKeys: update by id, without the status in the condition. *)
SellKeys_NoCas(j) ==
    /\ jpc[j] = "cas"
    /\ keyStatus' = [k \in Keys |-> IF k \in jpicked[j] THEN "SOLD" ELSE keyStatus[k]]
    /\ keyOwner' = [k \in Keys |-> IF k \in jpicked[j] THEN jorder[j] ELSE keyOwner[k]]
    /\ Goto(j, "finish")
    /\ UNCHANGED <<status, sales, lock, jorder, jpicked, confVars, adminVars, faults, cause>>

(* updateMany where status = AVAILABLE: all the listed keys or a rollback.  *)
(* A deleted order fails the foreign key and rolls back too.               *)
SellKeys(j) ==
    LET o == jorder[j] IN
    /\ jpc[j] = "cas"
    /\ IF jpicked[j] \subseteq Available /\ status[o] # "GONE"
       THEN /\ keyStatus' = [k \in Keys |-> IF k \in jpicked[j] THEN "SOLD" ELSE keyStatus[k]]
            /\ keyOwner' = [k \in Keys |-> IF k \in jpicked[j] THEN o ELSE keyOwner[k]]
            /\ Goto(j, "finish")
       ELSE Goto(j, "unlock") /\ UNCHANGED <<keyStatus, keyOwner>>
    /\ UNCHANGED <<status, sales, lock, jorder, jpicked, confVars, adminVars, faults, cause>>

(* The second transaction: DELIVERED and the sales counters. *)
FinishDelivery(j) ==
    LET o == jorder[j] IN
    /\ jpc[j] = "finish"
    /\ IF status[o] = "GONE"
       THEN UNCHANGED <<status, sales>>
       ELSE /\ status' = [status EXCEPT ![o] = "DELIVERED"]
            /\ sales' = sales + Quantity[o]
    /\ Goto(j, "unlock")
    /\ UNCHANGED <<keyStatus, keyOwner, lock, jorder, jpicked, confVars, adminVars, faults, cause>>

(* The second transaction fails; the keys of the first one stay SOLD. *)
FinishFails(j) ==
    /\ jpc[j] = "finish"
    /\ Fault("abort")
    /\ Goto(j, "unlock")
    /\ Blame(jorder[j], "abort")
    /\ UNCHANGED <<orderVars, lock, jorder, jpicked, confVars, adminVars>>

(* finally: DEL of the lock, whoever holds it by now. *)
ReleaseLock(j) ==
    /\ jpc[j] = "unlock"
    /\ lock' = [lock EXCEPT ![jorder[j]] = FALSE]
    /\ EndJob(j)
    /\ UNCHANGED <<orderVars, confVars, adminVars, faults, cause>>

(* The process stops in the middle of a delivery; its lock stays. *)
JobDies(j) ==
    /\ jpc[j] # "idle"
    /\ Fault("crash")
    /\ EndJob(j)
    /\ BlameIf(jpc[j] = "finish", jorder[j], "abort")
    /\ UNCHANGED <<orderVars, lock, confVars, adminVars>>

(* EX 30: the lock of a dead job disappears... *)
LockExpires(o) ==
    /\ lock[o]
    /\ ~BeingDelivered(o)
    /\ lock' = [lock EXCEPT ![o] = FALSE]
    /\ UNCHANGED <<orderVars, jobVars, confVars, adminVars, faults, cause>>

(* ... and so does the lock of a delivery that takes longer than that. *)
LockOverrun(o) ==
    /\ lock[o]
    /\ BeingDelivered(o)
    /\ Fault("overrun")
    /\ lock' = [lock EXCEPT ![o] = FALSE]
    /\ Blame(o, "lock")
    /\ UNCHANGED <<orderVars, jobVars, confVars, adminVars>>

-----------------------------------------------------------------------------
(* Requests that call markPaidAndDeliver after a look at the order. *)

(* adminMarkPaid, and mockPay on a development machine. *)
AdminMarkPaid(j, o) ==
    /\ "markPaid" \in AdminOps
    /\ status[o] = "PENDING"
    /\ StartJob(j, o)
    /\ UNCHANGED <<orderVars, lock, confVars, adminVars, faults, cause>>

AdminRedeliver(j, o) ==
    /\ "redeliver" \in AdminOps
    /\ status[o] \in {"PAID", "DELIVERED"}
    /\ ~(status[o] = "DELIVERED" /\ Cardinality(Owned(o)) >= Quantity[o])
    /\ StartJob(j, o)
    /\ UNCHANGED <<orderVars, lock, confVars, adminVars, faults, cause>>

(* Requests that read first and write in a later transaction. *)
AdminRead(a, o) ==
    /\ aop[a] = "idle"
    /\ \E op \in AdminOps :
        /\ \/ op = "cancel" /\ status[o] = "PENDING"
           \/ op = "delete" /\ status[o] \notin {"PAID", "DELIVERED", "GONE"}
           \/ op \in {"refund", "alipayRefund"} /\ status[o] \in {"PAID", "DELIVERED"}
           \/ op = "manual" /\ status[o] # "GONE" /\ Cardinality(Owned(o)) < Quantity[o]
        /\ aop' = [aop EXCEPT ![a] = op]
    /\ aorder' = [aorder EXCEPT ![a] = o]
    /\ aseen' = [aseen EXCEPT ![a] = status[o]]
    /\ akeys' = [akeys EXCEPT ![a] = Owned(o)]
    /\ UNCHANGED <<orderVars, lock, jobVars, confVars, faults, cause>>

EndRequest(a) ==
    /\ aop' = [aop EXCEPT ![a] = "idle"]
    /\ aorder' = [aorder EXCEPT ![a] = None]
    /\ aseen' = [aseen EXCEPT ![a] = "PENDING"]
    /\ akeys' = [akeys EXCEPT ![a] = {}]

(* The write acts on something else than what the request read. *)
ReadIsStale(a) ==
    LET o == aorder[a] IN
    status[o] # aseen[a] \/ Owned(o) # akeys[a] \/ BeingDelivered(o)

(* Cards the request read are another order's by now. *)
TakesFrom(a, op, o) ==
    op \in {"refund", "delete"} /\ o # aorder[a] /\ Owned(o) \cap akeys[a] # {}

(* Common to the writes below: the row exists and the request ends. *)
AdminWrite(a, op) ==
    /\ aop[a] = op
    /\ status[aorder[a]] # "GONE"
    /\ EndRequest(a)
    /\ cause' = [o \in Orders |->
                    IF (o = aorder[a] /\ ReadIsStale(a)) \/ TakesFrom(a, op, o)
                    THEN cause[o] \cup {"admin"} ELSE cause[o]]
    /\ UNCHANGED <<lock, jobVars, confVars, faults>>

AdminCancel(a) ==
    /\ AdminWrite(a, "cancel")
    /\ status' = [status EXCEPT ![aorder[a]] = "CANCELLED"]
    /\ UNCHANGED <<keyStatus, keyOwner, sales>>

(* Mutant of AdminDelete: the cards are not put back on sale. *)
AdminDelete_KeepsSold(a) ==
    /\ AdminWrite(a, "delete")
    /\ status' = [status EXCEPT ![aorder[a]] = "GONE"]
    /\ keyOwner' = [k \in Keys |-> IF k \in Owned(aorder[a]) THEN None ELSE keyOwner[k]]
    /\ UNCHANGED <<keyStatus, sales>>

(* The keys that were read go back to stock; the foreign key of any other  *)
(* key of the deleted order is set to null.                                *)
AdminDelete(a) ==
    LET o == aorder[a] IN
    /\ AdminWrite(a, "delete")
    /\ status' = [status EXCEPT ![o] = "GONE"]
    /\ keyStatus' = [k \in Keys |-> IF k \in akeys[a] THEN "AVAILABLE" ELSE keyStatus[k]]
    /\ keyOwner' = [k \in Keys |-> IF k \in akeys[a] \cup Owned(o) THEN None ELSE keyOwner[k]]
    /\ UNCHANGED sales

(* Mutant of AdminRefund: orderNo stays on the cards put back on sale. *)
AdminRefund_KeepsOrderNo(a) ==
    /\ AdminWrite(a, "refund")
    /\ status' = [status EXCEPT ![aorder[a]] = "REFUNDED"]
    /\ keyStatus' = [k \in Keys |-> IF k \in akeys[a] THEN "AVAILABLE" ELSE keyStatus[k]]
    /\ sales' = sales - Quantity[aorder[a]]
    /\ UNCHANGED keyOwner

(* Stock keys that were read return to stock, typed-in ones are retired. *)
AdminRefund(a) ==
    LET o == aorder[a] IN
    /\ AdminWrite(a, "refund")
    /\ status' = [status EXCEPT ![o] = "REFUNDED"]
    /\ keyStatus' = [k \in Keys |-> IF k \notin akeys[a] THEN keyStatus[k]
                                    ELSE IF k \in ManualKeys THEN "REFUNDED" ELSE "AVAILABLE"]
    /\ keyOwner' = [k \in Keys |-> IF k \in akeys[a] THEN None ELSE keyOwner[k]]
    /\ sales' = sales - Quantity[o]

(* The refund at Alipay lies between the read and this update. *)
AlipayRefund(a) ==
    /\ AdminWrite(a, "alipayRefund")
    /\ status' = [status EXCEPT ![aorder[a]] = "REFUNDED"]
    /\ UNCHANGED <<keyStatus, keyOwner, sales>>

(* need keys are created as SOLD; need comes from the keys that were read. *)
AdminManualDeliver(a) ==
    LET o == aorder[a]
        need == Quantity[o] - Cardinality(akeys[a])
    IN
    /\ AdminWrite(a, "manual")
    /\ \E S \in SUBSET {k \in ManualKeys : keyStatus[k] = "NONE"} :
        /\ Cardinality(S) = need
        /\ keyStatus' = [k \in Keys |-> IF k \in S THEN "SOLD" ELSE keyStatus[k]]
        /\ keyOwner' = [k \in Keys |-> IF k \in S THEN o ELSE keyOwner[k]]
    /\ status' = [status EXCEPT ![o] = "DELIVERED"]
    /\ UNCHANGED sales

(* The row is gone (the transaction fails), or the request is abandoned. *)
AdminFails(a) ==
    /\ aop[a] # "idle"
    /\ EndRequest(a)
    /\ UNCHANGED <<orderVars, lock, jobVars, confVars, faults, cause>>

(* closeExpired: updateMany PENDING -> EXPIRED, one row of it. *)
CloseExpired(o) ==
    /\ status[o] = "PENDING"
    /\ status' = [status EXCEPT ![o] = "EXPIRED"]
    /\ UNCHANGED <<keyStatus, keyOwner, sales, lock, jobVars, confVars, adminVars, faults, cause>>

-----------------------------------------------------------------------------
JobStep(j) ==
    \/ AcquireLock(j) \/ LockBusy(j) \/ ReadOrder(j) \/ MarkPaid(j)
    \/ ListKeys(j) \/ SellKeys(j) \/ FinishDelivery(j) \/ ReleaseLock(j)

ConfirmStep(c) == ConfirmWrite(c) \/ ConfirmFails(c) \/ DeliverAsync(c)

AdminStep(a) ==
    \/ AdminCancel(a) \/ AdminDelete(a) \/ AdminRefund(a)
    \/ AlipayRefund(a) \/ AdminManualDeliver(a) \/ AdminFails(a)

Next ==
    \/ \E c \in Confirmers, o \in Orders : ConfirmRead(c, o)
    \/ \E c \in Confirmers : ConfirmStep(c) \/ ConfirmDies(c)
    \/ \E j \in Jobs : JobStep(j) \/ LockDegraded(j) \/ FinishFails(j) \/ JobDies(j)
    \/ \E j \in Jobs, o \in Orders : AdminMarkPaid(j, o) \/ AdminRedeliver(j, o)
    \/ \E a \in Admins, o \in Orders : AdminRead(a, o)
    \/ \E a \in Admins : AdminStep(a)
    \/ \E o \in Orders : LockExpires(o) \/ LockOverrun(o) \/ CloseExpired(o)

Spec == Init /\ [][Next]_vars

(* A request that was accepted runs to its end unless its process stops,   *)
(* and Redis drops a lock nobody renews.                                   *)
FairSpec ==
    /\ Spec
    /\ \A c \in Confirmers : WF_vars(ConfirmStep(c))
    /\ \A j \in Jobs : WF_vars(JobStep(j))
    /\ \A o \in Orders : WF_vars(LockExpires(o))

-----------------------------------------------------------------------------
(* Properties *)

(* Every card a customer holds is SOLD, belongs to an order that exists,   *)
(* and no card on sale is held by anyone (pick transaction, refund, delete)*)
KeyOwnership ==
    \A k \in Keys :
        keyOwner[k] # None => keyStatus[k] = "SOLD" /\ status[keyOwner[k]] # "GONE"

(* While the lock of an order was neither lost nor skipped, at most one    *)
(* delivery of it is under way (the Redis lock of markPaidAndDeliver).     *)
DeliveryMutex ==
    \A o \in Orders : "lock" \notin cause[o] =>
        \A i, j \in Jobs : Delivering(i, o) /\ Delivering(j, o) => i = j

(* An order holds no card or exactly the quantity it paid for, unless a    *)
(* lock was lost, a settled order was overwritten by a stale confirmation, *)
(* a delivery broke off between its two transactions, or an admin wrote on *)
(* what was no longer there: nothing else can over-deliver.                *)
DeliverExactly ==
    \A o \in Orders : cause[o] = {} =>
        Owned(o) = {} \/ Cardinality(Owned(o)) = Quantity[o]

(* Under the same exclusions an order that says DELIVERED has its cards. *)
DeliveredHasKeys ==
    \A o \in Orders : cause[o] = {} /\ status[o] = "DELIVERED" =>
        Cardinality(Owned(o)) = Quantity[o]

(* No sold card is lost: one that belongs to no order was orphaned by an   *)
(* admin who deleted an order while its delivery was under way.            *)
NoOrphanCard ==
    \A k \in Keys : keyStatus[k] = "SOLD" /\ keyOwner[k] = None =>
        \E o \in Orders : status[o] = "GONE" /\ "admin" \in cause[o]

(* A card goes to an order only from stock or when it is created: it is    *)
(* never taken over directly from another order (CAS of the pick).         *)
NoHandover ==
    [][\A k \in Keys : keyOwner'[k] # keyOwner[k] /\ keyOwner'[k] # None =>
            keyStatus[k] \in {"AVAILABLE", "NONE"}]_vars

(* A refunded order is never delivered again, under the same exclusions,   *)
(* except by an admin who types cards in.                                  *)
RefundIsFinal ==
    [][\A o \in Orders : status[o] = "REFUNDED" /\ cause'[o] = {} =>
            \/ status'[o] \in {"REFUNDED", "GONE"}
            \/ \E a \in Admins : AdminManualDeliver(a)]_vars

(* Two deliveries have listed the same cards and one of them sold them. *)
Contended == \E j \in Jobs : jpc[j] = "cas" /\ ~(jpicked[j] \subseteq Available)

(* A paid order does not stay PAID when stock suffices: deliverAsync, the  *)
(* lock and the two transactions leave nothing half done, unless two       *)
(* deliveries ever compete for the same cards.                             *)
PaidIsDelivered ==
    <>Contended \/ \A o \in Orders : status[o] = "PAID" ~> status[o] # "PAID"

-----------------------------------------------------------------------------
(* What comments and the README claim without those exclusions.            *)

(* An order never gets more cards than it paid for: notifications are      *)
(* idempotent and the Redis lock prevents a second delivery.               *)
NoOverDelivery == \A o \in Orders : Cardinality(Owned(o)) <= Quantity[o]
=============================================================================
