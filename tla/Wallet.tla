------------------------------- MODULE Wallet -------------------------------
(***************************************************************************)
(* Balance, points and tier of the users, and the orders that move them:   *)
(* modules/orders (create, payWithBalance, payWithPoints, adminRefund),    *)
(* modules/points, modules/users (adjustBalance), modules/vip.             *)
(*                                                                         *)
(* A transaction is one action, preceded by another one where it reads     *)
(* without locking and acts on that later.  How an order gets its cards    *)
(* is OrderDelivery's matter; here a delivery has only the steps that      *)
(* touch points.                                                           *)
(*                                                                         *)
(* lowered, confirmed, raced, unlocked and cause are history variables.    *)
(***************************************************************************)
EXTENDS VipPricing

CONSTANTS
    Users,
    Orders,
    Buyer,          \* Buyer[o]
    Price,          \* Price[o]: totalAmount
    PayMethod,      \* PayMethod[o]: BALANCE, POINTS or another one
    RewardRate,     \* RewardRate[o]: pointsAwardRate, 0 if disabled
    Inviter,        \* Inviter[u]: who invited u, or None
    Deliveries,     \* runs of markPaidAndDeliver that can be under way at once
    Admins,         \* requests of the back office
    Amounts,        \* Amounts[u]: amounts an admin adjusts u by
    MaxAdjusts,     \* bound on adjustments, deliveries and tiers set by hand, lost locks
    ManualTiers,    \* tiers an admin sets by hand
    Yuan,           \* cents of one yuan, the worth of a point; 100 in the program
    None

ASSUME WalletAssumption ==
    /\ Buyer \in [Orders -> Users]
    /\ Price \in [Orders -> Nat]
    /\ PayMethod \in [Orders -> {"BALANCE", "POINTS", "ALIPAY"}]
    /\ RewardRate \in [Orders -> 0..One]
    /\ Inviter \in [Users -> Users \cup {None}]
    /\ \A u \in Users : Inviter[u] # u
    /\ None \notin Users \cup Orders
    /\ Users \subseteq DOMAIN CustomDiscount
    /\ Amounts \in [Users -> SUBSET (Int \ {0})]
    /\ MaxAdjusts \in Nat
    /\ ManualTiers \subseteq VipTier
    /\ Yuan \in Nat \ {0}

VARIABLES
    balance,        \* users.balance
    balanceLogged,  \* the sum of a user's balance_logs
    balanceLog,     \* <<order, type>> of its rows: the unique key
    points,         \* users.points
    pointsLogged,   \* the sum of a user's point_logs
    pointLog,       \* <<order, type, user>> of its rows: the unique key
    totalRecharged, \* users.totalRecharged
    vipTier,        \* users.vipTier
    rewarded,       \* users whose inviteRewardedAt is set
    status,         \* orders.status; "NONE" before the order exists
    payAmount,      \* orders.payAmount
    pointsUsed,     \* orders.pointsUsed
    paying,         \* the create request of an order: its step
    delivering,     \* a delivery: its step
    dorder,         \* the order it is of
    unrewarded,     \* deliveries whose settlement read inviteRewardedAt = null
    unlocked,       \* orders of which two deliveries were under way at once
    aop, atarget, aamount, aread,   \* a request: operation, row, amount, points it read
    adjusts,        \* number of those so far
    lowered,        \* users whose tier an admin has set
    confirmed,      \* orders confirmed or delivered by hand, not paid by the wallet
    raced,          \* users whose points moved under an admin's adjustment
    cause           \* orders overwritten in a status the writer does not expect

balanceVars == <<balance, balanceLogged, balanceLog>>
pointVars == <<points, pointsLogged, pointLog, rewarded>>
vipVars == <<totalRecharged, vipTier, lowered>>
orderVars == <<status, payAmount, pointsUsed, confirmed, cause>>
deliveryVars == <<delivering, dorder, unrewarded, unlocked>>
stepVars == <<paying, deliveryVars>>
adminVars == <<aop, atarget, aamount, aread, adjusts, raced>>
vars == <<balanceVars, pointVars, vipVars, orderVars, stepVars, adminVars>>

Statuses == {"NONE", "PENDING", "PAID", "DELIVERED", "REFUNDED", "CANCELLED", "EXPIRED"}
BalanceRefs == Orders \X {"CONSUME", "REFUND"}
PointRefs == Orders \X {"ORDER_REWARD", "INVITE_REWARD", "ORDER_DEDUCT", "ORDER_REFUND"} \X Users

TypeOK ==
    /\ balance \in [Users -> Int] /\ balanceLogged \in [Users -> Int]
    /\ balanceLog \subseteq BalanceRefs
    /\ points \in [Users -> Int] /\ pointsLogged \in [Users -> Int]
    /\ pointLog \subseteq PointRefs
    /\ totalRecharged \in [Users -> Nat] /\ vipTier \in [Users -> VipTier]
    /\ status \in [Orders -> Statuses]
    /\ payAmount \in [Orders -> Nat] /\ pointsUsed \in [Orders -> Nat]
    /\ paying \in [Orders -> {"none", "pay", "read", "deliver", "done"}]
    /\ delivering \in [Deliveries -> {"idle", "finish", "settle"}]
    /\ dorder \in [Deliveries -> Orders \cup {None}]
    /\ \A d \in Deliveries : delivering[d] = "idle" <=> dorder[d] = None
    /\ unrewarded \subseteq Deliveries /\ unlocked \subseteq Orders
    /\ aop \in [Admins -> {"idle", "refund", "cancel", "confirm", "adjust"}]
    /\ atarget \in [Admins -> Orders \cup Users \cup {None}]
    /\ aamount \in [Admins -> Int] /\ aread \in [Admins -> Int]
    /\ adjusts \in 0..MaxAdjusts
    /\ rewarded \subseteq Users /\ lowered \subseteq Users /\ raced \subseteq Users
    /\ confirmed \subseteq Orders /\ cause \subseteq Orders
    /\ \A a \in Admins : /\ aop[a] \in {"refund", "cancel", "confirm"} => atarget[a] \in Orders
                         /\ aop[a] = "adjust" => atarget[a] \in Users

Init ==
    /\ balance = [u \in Users |-> 0] /\ balanceLogged = [u \in Users |-> 0]
    /\ balanceLog = {}
    /\ points = [u \in Users |-> 0] /\ pointsLogged = [u \in Users |-> 0]
    /\ pointLog = {} /\ rewarded = {}
    /\ totalRecharged = [u \in Users |-> 0] /\ vipTier = [u \in Users |-> "NONE"]
    /\ lowered = {} /\ confirmed = {} /\ raced = {} /\ cause = {}
    /\ status = [o \in Orders |-> "NONE"]
    /\ payAmount = [o \in Orders |-> 0] /\ pointsUsed = [o \in Orders |-> 0]
    /\ paying = [o \in Orders |-> "none"]
    /\ delivering = [d \in Deliveries |-> "idle"] /\ dorder = [d \in Deliveries |-> None]
    /\ unrewarded = {} /\ unlocked = {}
    /\ aop = [a \in Admins |-> "idle"] /\ atarget = [a \in Admins |-> None]
    /\ aamount = [a \in Admins |-> 0] /\ aread = [a \in Admins |-> 0]
    /\ adjusts = 0

-----------------------------------------------------------------------------
(* Arithmetic of points. *)

(* Math.ceil of the amount in yuan *)
PointsRequired(amount) == (amount + Yuan - 1) \div Yuan

(* Math.floor of the amount in yuan times the rate *)
RewardForAmount(amount, rate) == Product(amount, rate) \div (One * Yuan)

SetStatus(o, s) == status' = [status EXCEPT ![o] = s]

(* Notes an order that is not in a status the writer takes it to be in. *)
Stale(o, expected) ==
    cause' = IF status[o] \in expected THEN cause ELSE cause \cup {o}

Adjusting == adjusts < MaxAdjusts /\ adjusts' = adjusts + 1

-----------------------------------------------------------------------------
(* create and the payment it makes. *)

(* The price, the checks of balance or points, and the row. *)
Create(o) ==
    LET u == Buyer[o]
        amount == ApplyDiscount(Price[o], GetDiscount(u, vipTier[u], o))
        needed == IF PayMethod[o] = "POINTS" THEN PointsRequired(amount) ELSE 0
    IN
    /\ paying[o] = "none"
    /\ PayMethod[o] = "BALANCE" => balance[u] >= amount
    /\ PayMethod[o] = "POINTS" => points[u] >= needed
    /\ SetStatus(o, "PENDING")
    /\ payAmount' = [payAmount EXCEPT ![o] = amount]
    /\ pointsUsed' = [pointsUsed EXCEPT ![o] = needed]
    /\ paying' = [paying EXCEPT ![o] =
                     IF PayMethod[o] \in {"BALANCE", "POINTS"} THEN "pay" ELSE "done"]
    /\ UNCHANGED <<balanceVars, pointVars, vipVars, confirmed, cause,
                   deliveryVars, adminVars>>

(* The transaction reads the order; it throws unless PENDING. *)
PayRead(o) ==
    /\ paying[o] = "pay"
    /\ paying' = [paying EXCEPT ![o] = IF status[o] = "PENDING" THEN "read" ELSE "done"]
    /\ UNCHANGED <<balanceVars, pointVars, vipVars, orderVars,
                   deliveryVars, adminVars>>

(* PAID is written whatever the order has become since it was read. *)
PaidFromWallet(o) ==
    /\ SetStatus(o, "PAID")
    /\ Stale(o, {"PENDING"})
    /\ paying' = [paying EXCEPT ![o] = "deliver"]
    /\ UNCHANGED <<payAmount, pointsUsed, confirmed, vipVars, deliveryVars, adminVars>>

(* Mutant of PayWithBalance: the balance was checked when the order was    *)
(* created, and the decrement has no condition.                            *)
PayWithBalance_NoCondition(o) ==
    LET u == Buyer[o] IN
    /\ paying[o] = "read" /\ PayMethod[o] = "BALANCE"
    /\ <<o, "CONSUME">> \notin balanceLog
    /\ balance' = [balance EXCEPT ![u] = @ - payAmount[o]]
    /\ balanceLogged' = [balanceLogged EXCEPT ![u] = @ - payAmount[o]]
    /\ balanceLog' = balanceLog \cup {<<o, "CONSUME">>}
    /\ PaidFromWallet(o)
    /\ UNCHANGED pointVars

(* payWithBalance: updateMany where balance >= amount, the log, PAID. *)
PayWithBalance(o) ==
    LET u == Buyer[o] IN
    /\ paying[o] = "read" /\ PayMethod[o] = "BALANCE"
    /\ balance[u] >= payAmount[o]
    /\ <<o, "CONSUME">> \notin balanceLog
    /\ balance' = [balance EXCEPT ![u] = @ - payAmount[o]]
    /\ balanceLogged' = [balanceLogged EXCEPT ![u] = @ - payAmount[o]]
    /\ balanceLog' = balanceLog \cup {<<o, "CONSUME">>}
    /\ PaidFromWallet(o)
    /\ UNCHANGED pointVars

(* payWithPoints and deductForOrder *)
PayWithPoints(o) ==
    LET u == Buyer[o] IN
    /\ paying[o] = "read" /\ PayMethod[o] = "POINTS"
    /\ pointsUsed[o] > 0
    /\ points[u] >= pointsUsed[o]
    /\ <<o, "ORDER_DEDUCT", u>> \notin pointLog
    /\ points' = [points EXCEPT ![u] = @ - pointsUsed[o]]
    /\ pointsLogged' = [pointsLogged EXCEPT ![u] = @ - pointsUsed[o]]
    /\ pointLog' = pointLog \cup {<<o, "ORDER_DEDUCT", u>>}
    /\ PaidFromWallet(o)
    /\ UNCHANGED <<balanceVars, rewarded>>

(* Too little is left, a key exists already, or the process stops: the     *)
(* transaction is rolled back and the order stays as it is.                *)
PayFails(o) ==
    /\ paying[o] \in {"pay", "read"}
    /\ paying' = [paying EXCEPT ![o] = "done"]
    /\ UNCHANGED <<balanceVars, pointVars, vipVars, orderVars,
                   deliveryVars, adminVars>>

(* Mutant of CloseExpired: the status is missing in the condition. *)
CloseExpired_NoStatus(o) ==
    /\ status[o] # "NONE"
    /\ SetStatus(o, "EXPIRED")
    /\ UNCHANGED <<balanceVars, pointVars, vipVars, payAmount, pointsUsed, confirmed,
                   cause, stepVars, adminVars>>

(* closeExpired, one row of it *)
CloseExpired(o) ==
    /\ status[o] = "PENDING"
    /\ SetStatus(o, "EXPIRED")
    /\ UNCHANGED <<balanceVars, pointVars, vipVars, payAmount, pointsUsed, confirmed,
                   cause, stepVars, adminVars>>

-----------------------------------------------------------------------------
(* markPaidAndDeliver, as far as it concerns points. *)

(* The lock of an order lasts 30 seconds and is deleted by whoever ends;   *)
(* when Redis fails a delivery goes on without it.                         *)
Lock(o) ==
    IF \E d \in Deliveries : dorder[d] = o
    THEN Adjusting /\ unlocked' = unlocked \cup {o}
    ELSE UNCHANGED <<adjusts, unlocked>>

(* Mutant of StartDelivery: no early return for DELIVERED. *)
StartDelivery_Redelivers(d, o) ==
    /\ delivering[d] = "idle"
    /\ status[o] # "REFUNDED"
    /\ Lock(o)
    /\ delivering' = [delivering EXCEPT ![d] = "finish"]
    /\ dorder' = [dorder EXCEPT ![d] = o]

(* The lock is free or lost, the order is neither DELIVERED nor REFUNDED,  *)
(* and there are cards.                                                    *)
StartDelivery(d, o) ==
    /\ delivering[d] = "idle"
    /\ status[o] \notin {"DELIVERED", "REFUNDED"}
    /\ Lock(o)
    /\ delivering' = [delivering EXCEPT ![d] = "finish"]
    /\ dorder' = [dorder EXCEPT ![d] = o]

(* The end of a payment from the wallet; it may find no card, the lock     *)
(* taken, or the order settled, or the process stops.                      *)
DeliverPaid(o) ==
    /\ paying[o] = "deliver"
    /\ paying' = [paying EXCEPT ![o] = "done"]
    /\ \/ \E d \in Deliveries : StartDelivery(d, o)
       \/ UNCHANGED <<delivering, dorder, unlocked, adjusts>>
    /\ UNCHANGED <<balanceVars, pointVars, vipVars, orderVars, unrewarded,
                   aop, atarget, aamount, aread, raced>>

(* adminRedeliver and deliverAsync *)
Redeliver(d, o) ==
    /\ status[o] = "PAID"
    /\ StartDelivery(d, o)
    /\ UNCHANGED <<balanceVars, pointVars, vipVars, orderVars, paying, unrewarded,
                   aop, atarget, aamount, aread, raced>>

(* settleDeliveredLocalOrder reads the buyer's inviteRewardedAt. *)
SettleRead(d) ==
    /\ delivering[d] = "finish"
    /\ delivering' = [delivering EXCEPT ![d] = "settle"]
    /\ unrewarded' = IF Buyer[dorder[d]] \in rewarded THEN unrewarded ELSE unrewarded \cup {d}
    /\ UNCHANGED <<balanceVars, pointVars, vipVars, orderVars, paying, dorder, unlocked,
                   adminVars>>

(* Points a delivery of o gives to user u for one reason: the update comes *)
(* first and stays even if the log has its row already (P2002).            *)
Reward(o) == RewardForAmount(payAmount[o], RewardRate[o])

EarnsReward(o, u) == u = Buyer[o] /\ PayMethod[o] # "POINTS"

(* Mutant of EarnsInvite: update by id, whatever inviteRewardedAt is. *)
EarnsInvite_NoCas(d, u) ==
    u = Inviter[Buyer[dorder[d]]] /\ d \in unrewarded /\ Reward(dorder[d]) > 0

(* updateMany where inviteRewardedAt is null *)
EarnsInvite(d, u) ==
    LET o == dorder[d] IN
    u = Inviter[Buyer[o]] /\ d \in unrewarded /\ Buyer[o] \notin rewarded /\ Reward(o) > 0

Earns(d, u) ==
    IF EarnsReward(dorder[d], u) \/ EarnsInvite(d, u) THEN Reward(dorder[d]) ELSE 0

(* The rows that are written; P2002 is swallowed. *)
NewRows(d) ==
    LET o == dorder[d] IN
    IF Reward(o) = 0 THEN {}
    ELSE ({<<o, "ORDER_REWARD", u>> : u \in {v \in Users : EarnsReward(o, v)}}
          \cup {<<o, "INVITE_REWARD", u>> : u \in {v \in Users : EarnsInvite(d, v)}})
         \ pointLog

(* The delivery is over; so is its hold on the lock. *)
EndDelivery(d) ==
    /\ delivering' = [delivering EXCEPT ![d] = "idle"]
    /\ dorder' = [dorder EXCEPT ![d] = None]
    /\ unrewarded' = unrewarded \ {d}

(* The second transaction of the delivery: DELIVERED and the points. *)
SettleCommit(d) ==
    LET o == dorder[d] IN
    /\ delivering[d] = "settle"
    /\ SetStatus(o, "DELIVERED")
    /\ Stale(o, Statuses \ {"REFUNDED"})
    /\ points' = [u \in Users |-> points[u] + Earns(d, u)]
    /\ pointLog' = pointLog \cup NewRows(d)
    /\ pointsLogged' = [u \in Users |-> pointsLogged[u] +
                           IF \E row \in NewRows(d) : row[3] = u THEN Reward(o) ELSE 0]
    /\ rewarded' = IF \E u \in Users : EarnsInvite(d, u)
                   THEN rewarded \cup {Buyer[o]} ELSE rewarded
    /\ EndDelivery(d)
    /\ UNCHANGED <<balanceVars, vipVars, payAmount, pointsUsed, confirmed,
                   paying, unlocked, adminVars>>

(* The delivery breaks off: the process stops or a transaction fails. *)
DeliveryFails(d) ==
    /\ delivering[d] # "idle"
    /\ EndDelivery(d)
    /\ UNCHANGED <<balanceVars, pointVars, vipVars, orderVars, paying, unlocked, adminVars>>

-----------------------------------------------------------------------------
(* The back office. *)

(* Mutant of AdminRead: an unpaid order can be refunded. *)
AdminRead_Unpaid(a, o) ==
    /\ aop[a] = "idle"
    /\ status[o] \in {"PENDING", "PAID", "DELIVERED"}
    /\ aop' = [aop EXCEPT ![a] = "refund"]
    /\ atarget' = [atarget EXCEPT ![a] = o]
    /\ UNCHANGED <<balanceVars, pointVars, vipVars, orderVars, stepVars,
                   aamount, aread, adjusts, raced>>

(* adminRefund, adminCancel, and what confirms a payment (adminMarkPaid, a *)
(* notification) read the order before they write it, without a lock on it. *)
AdminRead(a, o) ==
    /\ aop[a] = "idle"
    /\ \/ status[o] \in {"PAID", "DELIVERED"} /\ aop' = [aop EXCEPT ![a] = "refund"]
       \/ status[o] = "PENDING" /\ \E op \in {"cancel", "confirm"} : aop' = [aop EXCEPT ![a] = op]
    /\ atarget' = [atarget EXCEPT ![a] = o]
    /\ UNCHANGED <<balanceVars, pointVars, vipVars, orderVars, stepVars,
                   aamount, aread, adjusts, raced>>

EndRequest(a) ==
    /\ aop' = [aop EXCEPT ![a] = "idle"]
    /\ atarget' = [atarget EXCEPT ![a] = None]
    /\ aamount' = [aamount EXCEPT ![a] = 0]
    /\ aread' = [aread EXCEPT ![a] = 0]

AdminCancel(a) ==
    /\ aop[a] = "cancel"
    /\ SetStatus(atarget[a], "CANCELLED")
    /\ Stale(atarget[a], {"PENDING"})
    /\ EndRequest(a)
    /\ UNCHANGED <<balanceVars, pointVars, vipVars, payAmount, pointsUsed, confirmed,
                   stepVars, adjusts, raced>>

(* markPaidOnly, and markPaidAndDeliver for an order that is PENDING: it   *)
(* counts as paid without the wallet.                                      *)
AdminConfirm(a) ==
    /\ aop[a] = "confirm"
    /\ SetStatus(atarget[a], "PAID")
    /\ Stale(atarget[a], {"PENDING"})
    /\ confirmed' = confirmed \cup {atarget[a]}
    /\ EndRequest(a)
    /\ UNCHANGED <<balanceVars, pointVars, vipVars, payAmount, pointsUsed,
                   stepVars, adjusts, raced>>

(* adminManualDeliver asks for missing cards only, not for a status: an    *)
(* order nobody paid, or one that was refunded, becomes DELIVERED.         *)
ManualDeliver(o) ==
    /\ status[o] # "NONE"
    /\ SetStatus(o, "DELIVERED")
    /\ Stale(o, Statuses \ {"REFUNDED"})
    /\ confirmed' = IF status[o] \in {"PAID", "DELIVERED", "REFUNDED"}
                    THEN confirmed ELSE confirmed \cup {o}
    /\ Adjusting
    /\ UNCHANGED <<balanceVars, pointVars, vipVars, payAmount, pointsUsed,
                   stepVars, aop, atarget, aamount, aread, raced>>

(* The refund goes back to where the payment came from.  Of the balance    *)
(* the transaction looks for a REFUND row first, and a row it did not see  *)
(* makes it fail; the points are added whether there is a row or not.      *)
AdminRefund(a) ==
    LET o == atarget[a]
        u == Buyer[o]
        toBalance == PayMethod[o] = "BALANCE" /\ <<o, "REFUND">> \notin balanceLog
        toPoints == PayMethod[o] = "POINTS" /\ pointsUsed[o] > 0
        row == <<o, "ORDER_REFUND", u>>
    IN
    /\ aop[a] = "refund"
    /\ SetStatus(o, "REFUNDED")
    /\ Stale(o, {"PAID", "DELIVERED"})
    /\ IF toBalance
       THEN /\ balance' = [balance EXCEPT ![u] = @ + payAmount[o]]
            /\ balanceLogged' = [balanceLogged EXCEPT ![u] = @ + payAmount[o]]
            /\ balanceLog' = balanceLog \cup {<<o, "REFUND">>}
       ELSE UNCHANGED balanceVars
    /\ IF toPoints
       THEN /\ points' = [points EXCEPT ![u] = @ + pointsUsed[o]]
            /\ pointLog' = pointLog \cup {row}
            /\ pointsLogged' = [pointsLogged EXCEPT ![u] =
                                   IF row \in pointLog THEN @ ELSE @ + pointsUsed[o]]
       ELSE UNCHANGED <<points, pointLog, pointsLogged>>
    /\ EndRequest(a)
    /\ UNCHANGED <<rewarded, vipVars, payAmount, pointsUsed, confirmed, stepVars,
                   adjusts, raced>>

(* The transaction fails or the process stops. *)
AdminFails(a) ==
    /\ aop[a] # "idle"
    /\ EndRequest(a)
    /\ UNCHANGED <<balanceVars, pointVars, vipVars, orderVars, stepVars, adjusts, raced>>

(* adminAdjust of points: the check of the points it read... *)
AdjustPointsRead(a, u, n) ==
    /\ aop[a] = "idle"
    /\ Adjusting
    /\ points[u] + n >= 0
    /\ aop' = [aop EXCEPT ![a] = "adjust"]
    /\ atarget' = [atarget EXCEPT ![a] = u]
    /\ aamount' = [aamount EXCEPT ![a] = n]
    /\ aread' = [aread EXCEPT ![a] = points[u]]
    /\ UNCHANGED <<balanceVars, pointVars, vipVars, orderVars, stepVars, raced>>

(* ... and the increment, which has no condition. *)
AdjustPointsWrite(a) ==
    LET u == atarget[a] IN
    /\ aop[a] = "adjust"
    /\ points' = [points EXCEPT ![u] = @ + aamount[a]]
    /\ pointsLogged' = [pointsLogged EXCEPT ![u] = @ + aamount[a]]
    /\ raced' = IF points[u] = aread[a] THEN raced ELSE raced \cup {u}
    /\ EndRequest(a)
    /\ UNCHANGED <<balanceVars, pointLog, rewarded, vipVars, orderVars, stepVars, adjusts>>

(* Mutant of Accrue: the tier of the total before this recharge. *)
Accrue_OldTotal(u, n) ==
    /\ totalRecharged' = [totalRecharged EXCEPT ![u] = @ + n]
    /\ \E t \in ComputeTier(totalRecharged[u]) :
        vipTier' = [vipTier EXCEPT ![u] = IF TierRank[t] > TierRank[@] THEN t ELSE @]
    /\ UNCHANGED lowered

(* accrueRechargeAndUpgrade: the tier only rises. *)
Accrue(u, n) ==
    /\ totalRecharged' = [totalRecharged EXCEPT ![u] = @ + n]
    /\ \E t \in ComputeTier(totalRecharged[u] + n) :
        vipTier' = [vipTier EXCEPT ![u] = IF TierRank[t] > TierRank[@] THEN t ELSE @]
    /\ UNCHANGED lowered

(* adjustBalance; a positive amount counts as a recharge. *)
AdjustBalance(u, n) ==
    /\ Adjusting
    /\ n < 0 => balance[u] >= -n
    /\ balance' = [balance EXCEPT ![u] = @ + n]
    /\ balanceLogged' = [balanceLogged EXCEPT ![u] = @ + n]
    /\ IF n > 0 THEN Accrue(u, n) ELSE UNCHANGED vipVars
    /\ UNCHANGED <<balanceLog, pointVars, orderVars, stepVars, aop, atarget, aamount,
                   aread, raced>>

(* manualSet *)
ManualSet(u, t) ==
    /\ vipTier[u] # t
    /\ vipTier' = [vipTier EXCEPT ![u] = t]
    /\ lowered' = lowered \cup {u}
    /\ Adjusting
    /\ UNCHANGED <<balanceVars, pointVars, totalRecharged, orderVars, stepVars,
                   aop, atarget, aamount, aread, raced>>

-----------------------------------------------------------------------------
OrderNext(o) ==
    \/ Create(o) \/ PayRead(o) \/ PayWithBalance(o) \/ PayWithPoints(o) \/ PayFails(o)
    \/ CloseExpired(o) \/ ManualDeliver(o)
    \/ DeliverPaid(o)

DeliveryNext(d) ==
    \/ \E o \in Orders : Redeliver(d, o)
    \/ SettleRead(d) \/ SettleCommit(d) \/ DeliveryFails(d)

AdminNext(a) ==
    \/ \E o \in Orders : AdminRead(a, o)
    \/ \E u \in Users : \E n \in Amounts[u] : AdjustPointsRead(a, u, n)
    \/ AdminCancel(a) \/ AdminConfirm(a) \/ AdminRefund(a) \/ AdminFails(a) \/ AdjustPointsWrite(a)

UserNext(u) ==
    \/ \E n \in Amounts[u] : AdjustBalance(u, n)
    \/ \E t \in ManualTiers : ManualSet(u, t)

Next ==
    \/ \E o \in Orders : OrderNext(o)
    \/ \E d \in Deliveries : DeliveryNext(d)
    \/ \E a \in Admins : AdminNext(a)
    \/ \E u \in Users : UserNext(u)

Spec == Init /\ [][Next]_vars

-----------------------------------------------------------------------------
(* The balance is a ledger: it is never negative, changes only together    *)
(* with a row of balance_logs, and is debited and refunded at most once    *)
(* for one order, whatever runs concurrently.                              *)
Balances == INSTANCE Ledger WITH
    Holders <- Users, References <- BalanceRefs,
    value <- balance, logged <- balanceLogged, entries <- balanceLog

BalanceIsLedger == Balances!LedgerSpec

(* Money and points come back only for an order they were taken for,       *)
(* unless the order was confirmed as paid in another way (adminMarkPaid)   *)
(* or delivered by hand without a payment (adminManualDeliver).            *)
RefundNeedsDebit == \A o \in Orders, u \in Users :
    /\ <<o, "REFUND">> \in balanceLog
       => <<o, "CONSUME">> \in balanceLog \/ o \in confirmed
    /\ <<o, "ORDER_REFUND", u>> \in pointLog
       => <<o, "ORDER_DEDUCT", u>> \in pointLog \/ o \in confirmed

(* An order the wallet has paid for is served or refunded; only a writer   *)
(* that acted on an older status leaves it cancelled.                      *)
DebitIsHonoured == \A o \in Orders :
    \/ <<o, "CONSUME">> \notin balanceLog /\ <<o, "ORDER_DEDUCT", Buyer[o]>> \notin pointLog
    \/ status[o] \in {"PAID", "DELIVERED", "REFUNDED"}
    \/ o \in cause

(* Points never fall behind the log, and rewards and refunds of points     *)
(* happen once for an order (the unique key of point_logs): a user has     *)
(* points beyond the log only for an order that has its row already and    *)
(* was overwritten on a stale read, delivered by hand once refunded, or    *)
(* delivered twice at once because the lock was lost.                      *)
PointsAreLogged == \A u \in Users :
    /\ points[u] >= pointsLogged[u]
    /\ points[u] > pointsLogged[u] => \E o \in cause \cup unlocked :
        /\ u = Buyer[o]
        /\ {<<o, "ORDER_REWARD", u>>, <<o, "ORDER_REFUND", u>>} \cap pointLog # {}

(* Points are never negative, unless they moved between the check and the  *)
(* increment of an admin's adjustment.                                     *)
PointsNotNegative == \A u \in Users : points[u] >= 0 \/ u \in raced

(* A user brings the inviter a reward for one order only: the deliveries   *)
(* of two first orders do not both give it.                                *)
InviteRewardedOnce == \A o, p \in Orders, u, v \in Users :
    /\ <<o, "INVITE_REWARD", u>> \in pointLog
    /\ <<p, "INVITE_REWARD", v>> \in pointLog
    /\ Buyer[o] = Buyer[p]
    => o = p

(* The tier of a user who has recharged is at least the one the total      *)
(* earns, unless an admin has set it.                                      *)
TierIsEarned == \A u \in Users :
    \/ u \in lowered
    \/ totalRecharged[u] = 0
    \/ \E t \in ComputeTier(totalRecharged[u]) : TierRank[vipTier[u]] >= TierRank[t]

(* No configuration, no combination of tier, product discount and personal *)
(* discount and no error of the doubles makes an order cheaper than half   *)
(* its price, to the half cent that rounding may take, or dearer than it.  *)
FairPrice == \A o \in Orders :
    status[o] # "NONE" => 2 * payAmount[o] + 1 >= Price[o] /\ payAmount[o] <= Price[o]

(* The log has one row for an order, a user and an action, "so that        *)
(* notify, redelivery and retries are idempotent": all points are in it.   *)
PointsHappenOnce == \A u \in Users : points[u] = pointsLogged[u]
=============================================================================
