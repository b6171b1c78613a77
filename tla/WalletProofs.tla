---------------------------- MODULE WalletProofs ----------------------------
(***************************************************************************)
(* Proofs about Wallet.  Which actions write the balances, the points and  *)
(* the tiers is stated once, in three lemmas; what holds of them by their  *)
(* own is proved from those.  The rest goes through one invariant about    *)
(* orders, OrdersInv, which says what a log row tells of its order.        *)
(***************************************************************************)
EXTENDS Wallet, TLAPS

-----------------------------------------------------------------------------
(* Arithmetic. *)

LEMMA HalfUp ==
    ASSUME NEW x \in Nat
    PROVE  /\ (x + One \div 2) \div One \in Nat
           /\ One * ((x + One \div 2) \div One) <= x + 5000
           /\ One * ((x + One \div 2) \div One) >= x - 4999
  BY DEF One

LEMMA Scaled ==
    ASSUME NEW p \in Nat, NEW d \in Nat, Floor <= d, d <= One
    PROVE  p * d \in Nat /\ 5000 * p <= p * d /\ p * d <= One * p
  BY SMTT(30) DEF Floor, One

LEMMA DivType ==
    ASSUME NEW x \in Nat, NEW n \in Nat \ {0}
    PROVE  x \div n \in Nat
  BY SMTT(30)

(* The discount lies between the floor and 1, whatever is configured. *)
LEMMA DiscountBounds ==
    ASSUME NEW u \in Users, NEW t \in VipTier, NEW o \in Orders
    PROVE  /\ GetDiscount(u, t, o) \in Nat
           /\ Floor <= GetDiscount(u, t, o)
           /\ GetDiscount(u, t, o) <= One
  <1>1. VipDiscount(t, o) \in Nat
    BY DiscountAssumption DEF VipDiscount, VipTier, PaidTiers, One
  <1>2. CustomDiscount[u] \in Nat
    BY DiscountAssumption, WalletAssumption
  <1>3. QED
    BY <1>1, <1>2 DEF GetDiscount, Better, Clamp, Floor, One

(* The product of two doubles is at most one unit short. *)
LEMMA ProductBounds ==
    ASSUME NEW x \in Nat, NEW r \in Nat
    PROVE  /\ Product(x, r) \in Nat
           /\ x * r - 1 <= Product(x, r)
           /\ Product(x, r) <= x * r
  <1>1. x * r \in Nat
    BY SMTT(30)
  <1>2. <<x, r>> \in FallsShort => x * r >= 1
    <2>1. <<x, r>> \in FallsShort => x >= 1 /\ r >= 1
      BY DiscountAssumption
    <2>2. x >= 1 /\ r >= 1 => x * r >= 1
      BY SMTT(30)
    <2>3. QED
      BY <2>1, <2>2
  <1> DEFINE exact == x * r
  <1>3. Product(x, r) = IF <<x, r>> \in FallsShort THEN exact - 1 ELSE exact
    BY DEF Product
  <1>4. exact \in Nat /\ (<<x, r>> \in FallsShort => exact >= 1)
    BY <1>1, <1>2
  <1> HIDE DEF exact
  <1>5. Product(x, r) \in Nat /\ exact - 1 <= Product(x, r) /\ Product(x, r) <= exact
    BY <1>3, <1>4
  <1>6. QED
    BY <1>5 DEF exact

(* The amount to pay lies between half the price, to the half cent, and    *)
(* the price.                                                              *)
LEMMA PriceBounds ==
    ASSUME NEW p \in Nat, NEW d \in Nat, Floor <= d, d <= One
    PROVE  /\ ApplyDiscount(p, d) \in Nat
           /\ 2 * ApplyDiscount(p, d) + 1 >= p
           /\ ApplyDiscount(p, d) <= p
  <1> DEFINE q == (Product(p, d) + One \div 2) \div One
  <1>1. CASE d >= One \/ p <= 0
    BY <1>1 DEF ApplyDiscount, One
  <1>2. CASE ~(d >= One \/ p <= 0)
    <2>1. p * d \in Nat /\ 5000 * p <= p * d /\ p * d <= One * p
      BY Scaled
    <2> DEFINE product == Product(p, d)
    <2>2. product \in Nat /\ p * d - 1 <= product /\ product <= p * d
      BY ProductBounds
    <2>3. q \in Nat /\ One * q <= product + 5000 /\ One * q >= product - 4999
      BY <2>2, HalfUp
    <2> HIDE DEF q, product
    <2>4. 2 * q + 1 >= p /\ q <= p
      BY <2>1, <2>2, <2>3 DEF One
    <2>5. ApplyDiscount(p, d) = q
      BY <1>2 DEF ApplyDiscount, q
    <2>6. QED
      BY <2>3, <2>4, <2>5
  <1>3. QED
    BY <1>1, <1>2

LEMMA RequiredType ==
    ASSUME NEW n \in Nat
    PROVE  PointsRequired(n) \in Nat
  <1>1. n + Yuan - 1 \in Nat
    BY WalletAssumption
  <1>2. QED
    BY <1>1, DivType, WalletAssumption DEF PointsRequired

LEMMA RewardType ==
    ASSUME NEW n \in Nat, NEW r \in 0..One
    PROVE  RewardForAmount(n, r) \in Nat
  <1>0. r \in Nat
    BY DEF One
  <1>1. Product(n, r) \in Nat
    BY <1>0, ProductBounds
  <1>2. One * Yuan \in Nat \ {0}
    BY WalletAssumption DEF One
  <1>3. QED
    BY <1>1, <1>2, DivType DEF RewardForAmount

LEMMA TierTypes ==
    ASSUME NEW n \in Nat, NEW t \in ComputeTier(n)
    PROVE  t \in VipTier
  BY DEF ComputeTier, VipTier
-----------------------------------------------------------------------------
(* Type correctness. *)

LEMMA TypeInit == Init => TypeOK
  BY WalletAssumption DEF Init, TypeOK, VipTier, Statuses

LEMMA TypeStep == TypeOK /\ [Next]_vars => TypeOK'
  <1> SUFFICES ASSUME TypeOK, [Next]_vars
               PROVE  TypeOK'
    OBVIOUS
  <1>1. QED
  <2> USE TypeOK, [Next]_vars, WalletAssumption
      DEF TypeOK, Statuses, BalanceRefs, PointRefs,
          balanceVars, pointVars, vipVars, orderVars, stepVars, deliveryVars, adminVars
  <2>1. ASSUME NEW o \in Orders, Create(o)
       PROVE  TypeOK'
  <3> DEFINE amount == ApplyDiscount(Price[o], GetDiscount(Buyer[o], vipTier[Buyer[o]], o))
  <3> DEFINE needed == IF PayMethod[o] = "POINTS" THEN PointsRequired(amount) ELSE 0
  <3>1. amount \in Nat
    BY DiscountBounds, PriceBounds, WalletAssumption
  <3>2. needed \in Nat
    BY <3>1, RequiredType
  <3>3. /\ payAmount' = [payAmount EXCEPT ![o] = amount]
        /\ pointsUsed' = [pointsUsed EXCEPT ![o] = needed]
    BY <2>1 DEF Create
  <3> HIDE DEF amount, needed
  <3>4. payAmount' \in [Orders -> Nat] /\ pointsUsed' \in [Orders -> Nat]
    BY <3>1, <3>2, <3>3
  <3>5. QED
    BY <2>1, <3>4 DEF Create, SetStatus
  <2>2. ASSUME NEW o \in Orders, PayRead(o)
       PROVE  TypeOK'
    BY <2>2 DEF PayRead
  <2>3. ASSUME NEW o \in Orders, PayWithBalance(o)
       PROVE  TypeOK'
    BY <2>3 DEF PayWithBalance, PaidFromWallet, SetStatus, Stale
  <2>4. ASSUME NEW o \in Orders, PayWithPoints(o)
       PROVE  TypeOK'
    BY <2>4 DEF PayWithPoints, PaidFromWallet, SetStatus, Stale
  <2>5. ASSUME NEW o \in Orders, PayFails(o)
       PROVE  TypeOK'
    BY <2>5 DEF PayFails
  <2>6. ASSUME NEW o \in Orders, CloseExpired(o)
       PROVE  TypeOK'
    BY <2>6 DEF CloseExpired, SetStatus
  <2>7. ASSUME NEW o \in Orders, ManualDeliver(o)
       PROVE  TypeOK'
    BY <2>7 DEF ManualDeliver, Adjusting, SetStatus, Stale
  <2>8. ASSUME NEW o \in Orders, DeliverPaid(o)
       PROVE  TypeOK'
  <3>1. CASE UNCHANGED <<delivering, dorder, unlocked, adjusts>>
    BY <2>8, <3>1 DEF DeliverPaid
  <3>2. ASSUME NEW d \in Deliveries, StartDelivery(d, o)
        PROVE  TypeOK'
    BY <2>8, <3>2 DEF DeliverPaid, StartDelivery, Lock, Adjusting
  <3>3. QED
    BY <2>8, <3>1, <3>2 DEF DeliverPaid
  <2>9. ASSUME NEW d \in Deliveries, NEW o \in Orders, Redeliver(d, o)
       PROVE  TypeOK'
    BY <2>9 DEF Redeliver, StartDelivery, Lock, Adjusting
  <2>10. ASSUME NEW d \in Deliveries, SettleRead(d)
       PROVE  TypeOK'
    BY <2>10 DEF SettleRead
  <2>11. ASSUME NEW d \in Deliveries, SettleCommit(d)
       PROVE  TypeOK'
  <3> DEFINE o == dorder[d]
  <3>0. o \in Orders
    BY <2>11 DEF SettleCommit
  <3>1. Reward(o) \in Nat
    BY <3>0, RewardType, WalletAssumption DEF Reward
  <3> DEFINE logs(u) == \E row \in NewRows(d) : row[3] = u
  <3>2. /\ points' = [u \in Users |-> points[u] + Earns(d, u)]
        /\ pointsLogged' = [u \in Users |-> pointsLogged[u] + IF logs(u) THEN Reward(o) ELSE 0]
    BY <2>11 DEF SettleCommit
  <3>3. \A u \in Users : Earns(d, u) \in Nat
    BY <3>1 DEF Earns
  <3>5. NewRows(d) \subseteq PointRefs
    BY <3>0 DEF NewRows, PointRefs
  <3>8. status' = [status EXCEPT ![o] = "DELIVERED"] /\ cause' \subseteq cause \cup {o}
    BY <2>11 DEF SettleCommit, SetStatus, Stale
  <3> HIDE DEF logs, o
  <3>4. points' \in [Users -> Int] /\ pointsLogged' \in [Users -> Int]
    BY <3>1, <3>2, <3>3
  <3>6. pointLog' \subseteq PointRefs
    BY <2>11, <3>5 DEF SettleCommit
  <3>9. status' \in [Orders -> Statuses] /\ cause' \subseteq Orders
    BY <3>0, <3>8
  <3>10. rewarded' \subseteq Users
    BY <2>11, <3>0 DEF SettleCommit, o
  <3>7. QED
    BY <2>11, <3>4, <3>6, <3>9, <3>10 DEF SettleCommit, EndDelivery
  <2>12. ASSUME NEW d \in Deliveries, DeliveryFails(d)
       PROVE  TypeOK'
    BY <2>12 DEF DeliveryFails, EndDelivery
  <2>13. ASSUME NEW a \in Admins, NEW o \in Orders, AdminRead(a, o)
       PROVE  TypeOK'
    <3>1. PICK op \in {"refund", "cancel", "confirm"} : aop' = [aop EXCEPT ![a] = op]
      BY <2>13 DEF AdminRead
    <3>2. QED
      BY <2>13, <3>1 DEF AdminRead
  <2>14. ASSUME NEW a \in Admins, NEW u \in Users, NEW n \in Amounts[u], AdjustPointsRead(a, u, n)
       PROVE  TypeOK'
    BY <2>14 DEF AdjustPointsRead, Adjusting
  <2>15. ASSUME NEW a \in Admins, AdminCancel(a)
       PROVE  TypeOK'
    BY <2>15 DEF AdminCancel, EndRequest, SetStatus, Stale
  <2>16. ASSUME NEW a \in Admins, AdminConfirm(a)
       PROVE  TypeOK'
    BY <2>16 DEF AdminConfirm, EndRequest, SetStatus, Stale
  <2>17. ASSUME NEW a \in Admins, AdminRefund(a)
       PROVE  TypeOK'
    BY <2>17 DEF AdminRefund, EndRequest, SetStatus, Stale
  <2>18. ASSUME NEW a \in Admins, AdminFails(a)
       PROVE  TypeOK'
    BY <2>18 DEF AdminFails, EndRequest
  <2>19. ASSUME NEW a \in Admins, AdjustPointsWrite(a)
       PROVE  TypeOK'
    BY <2>19 DEF AdjustPointsWrite, EndRequest
  <2>20. ASSUME NEW u \in Users, NEW n \in Amounts[u], AdjustBalance(u, n)
       PROVE  TypeOK'
  <3>1. n \in Int
    BY WalletAssumption
  <3>2. n > 0 => totalRecharged' \in [Users -> Nat] /\ vipTier' \in [Users -> VipTier]
    <4> SUFFICES ASSUME n > 0
                 PROVE  totalRecharged' \in [Users -> Nat] /\ vipTier' \in [Users -> VipTier]
      OBVIOUS
    <4>1. totalRecharged[u] + n \in Nat
      BY <3>1
    <4>2. PICK t \in ComputeTier(totalRecharged[u] + n) :
             vipTier' = [vipTier EXCEPT ![u] = IF TierRank[t] > TierRank[@] THEN t ELSE @]
      BY <2>20 DEF AdjustBalance, Accrue
    <4>3. t \in VipTier
      BY <4>1, <4>2, TierTypes
    <4>4. vipTier' \in [Users -> VipTier]
      BY <4>2, <4>3
    <4>7. totalRecharged' = [totalRecharged EXCEPT ![u] = totalRecharged[u] + n]
      BY <2>20 DEF AdjustBalance, Accrue
    <4>5. totalRecharged' \in [Users -> Nat]
      BY <4>1, <4>7
    <4>6. QED
      BY <4>4, <4>5
  <3>3. ~(n > 0) => UNCHANGED vipVars
    BY <2>20 DEF AdjustBalance
  <3>4. balance' \in [Users -> Int] /\ balanceLogged' \in [Users -> Int]
    BY <2>20, <3>1 DEF AdjustBalance
  <3>5. lowered' = lowered /\ adjusts' \in 0..MaxAdjusts
    BY <2>20 DEF AdjustBalance, Accrue, Adjusting
  <3>6. vipTier' \in [Users -> VipTier] /\ totalRecharged' \in [Users -> Nat]
    BY <3>2, <3>3
  <3>7. QED
    BY <2>20, <3>4, <3>5, <3>6 DEF AdjustBalance
  <2>21. ASSUME NEW u \in Users, NEW t \in ManualTiers, ManualSet(u, t)
       PROVE  TypeOK'
    BY <2>21 DEF ManualSet, Adjusting
  <2>22. CASE UNCHANGED vars
    BY <2>22 DEF vars
  <2> QED
    BY <2>1, <2>2, <2>3, <2>4, <2>5, <2>6, <2>7, <2>8, <2>9, <2>10, <2>11,
       <2>12, <2>13, <2>14, <2>15, <2>16, <2>17, <2>18, <2>19, <2>20, <2>21,
       <2>22
       DEF Next, OrderNext, DeliveryNext, AdminNext, UserNext

(* Every variable keeps its type, every log row its shape. *)
THEOREM TypeCorrect == Spec => []TypeOK
  <1>1. Init => TypeOK
    BY TypeInit
  <1>2. TypeOK /\ [Next]_vars => TypeOK'
    BY TypeStep
  <1>3. QED
    BY <1>1, <1>2, PTL DEF Spec
-----------------------------------------------------------------------------
(* Who writes what. *)

LEMMA BalanceWriters ==
    ASSUME [Next]_vars
    PROVE  \/ \E o \in Orders : PayWithBalance(o)
           \/ \E a \in Admins : AdminRefund(a)
           \/ \E u \in Users : \E n \in Amounts[u] : AdjustBalance(u, n)
           \/ UNCHANGED balanceVars
  BY DEF Next, OrderNext, DeliveryNext, AdminNext, UserNext, AdjustBalance, AdjustPointsRead,
         AdjustPointsWrite, AdminCancel, AdminConfirm, AdminFails,
         AdminRead, AdminRefund, CloseExpired, Create, DeliverPaid,
         DeliveryFails, ManualDeliver, ManualSet, PayFails, PayRead,
         PayWithBalance, PayWithPoints, Redeliver, SettleCommit,
         SettleRead, PaidFromWallet, vars, vipVars, pointVars,
         balanceVars, adminVars, orderVars, stepVars, deliveryVars

LEMMA PointWriters ==
    ASSUME [Next]_vars
    PROVE  \/ \E o \in Orders : PayWithPoints(o)
           \/ \E d \in Deliveries : SettleCommit(d)
           \/ \E a \in Admins : AdminRefund(a) \/ AdjustPointsWrite(a)
           \/ UNCHANGED pointVars
  <1> USE DEF vipVars, pointVars, balanceVars, adminVars, orderVars, stepVars, deliveryVars
  <1>1. ASSUME NEW o \in Orders, OrderNext(o)
        PROVE  PayWithPoints(o) \/ UNCHANGED pointVars
    BY <1>1 DEF OrderNext, CloseExpired, Create, DeliverPaid, ManualDeliver,
           PayFails, PayRead, PayWithBalance, PayWithPoints
  <1>2. ASSUME NEW d \in Deliveries, DeliveryNext(d)
        PROVE  SettleCommit(d) \/ UNCHANGED pointVars
    BY <1>2 DEF DeliveryNext, DeliveryFails, Redeliver, SettleCommit, SettleRead
  <1>3. ASSUME NEW a \in Admins, AdminNext(a)
        PROVE  AdminRefund(a) \/ AdjustPointsWrite(a) \/ UNCHANGED pointVars
    BY <1>3 DEF AdminNext, AdjustPointsRead, AdjustPointsWrite, AdminCancel, AdminConfirm,
           AdminFails, AdminRead, AdminRefund
  <1>4. ASSUME NEW u \in Users, UserNext(u)
        PROVE  UNCHANGED pointVars
    BY <1>4 DEF UserNext, AdjustBalance, ManualSet
  <1>5. QED
    BY <1>1, <1>2, <1>3, <1>4 DEF Next, vars

LEMMA TierWriters ==
    ASSUME [Next]_vars
    PROVE  \/ \E u \in Users : \E n \in Amounts[u] : AdjustBalance(u, n)
           \/ \E u \in Users, t \in ManualTiers : ManualSet(u, t)
           \/ UNCHANGED vipVars
  BY DEF Next, OrderNext, DeliveryNext, AdminNext, UserNext, AdjustBalance, AdjustPointsRead,
         AdjustPointsWrite, AdminCancel, AdminConfirm, AdminFails,
         AdminRead, AdminRefund, CloseExpired, Create, DeliverPaid,
         DeliveryFails, ManualDeliver, ManualSet, PayFails, PayRead,
         PayWithBalance, PayWithPoints, Redeliver, SettleCommit,
         SettleRead, PaidFromWallet, vars, vipVars, pointVars,
         balanceVars, adminVars, orderVars, stepVars, deliveryVars

LEMMA CauseGrows ==
    ASSUME [Next]_vars
    PROVE  cause \subseteq cause' /\ unlocked \subseteq unlocked'
  BY DEF Next, OrderNext, DeliveryNext, AdminNext, UserNext, AdjustBalance, AdjustPointsRead,
         AdjustPointsWrite, AdminCancel, AdminConfirm, AdminFails,
         AdminRead, AdminRefund, CloseExpired, Create, DeliverPaid,
         DeliveryFails, ManualDeliver, ManualSet, PayFails, PayRead,
         PayWithBalance, PayWithPoints, Redeliver, SettleCommit,
         SettleRead, PaidFromWallet, vars, vipVars, pointVars,
         balanceVars, adminVars, orderVars, stepVars, deliveryVars, Stale, Lock, StartDelivery

-----------------------------------------------------------------------------
(* The balance. *)

BalanceNotNegative == \A u \in Users : balance[u] >= 0

(* A balance and its log that move by the same amount. *)
LEMMA OneMove ==
    ASSUME TypeOK, BalanceNotNegative, NEW u \in Users, NEW n \in Int,
           balance[u] + n >= 0,
           balance' = [balance EXCEPT ![u] = @ + n],
           balanceLogged' = [balanceLogged EXCEPT ![u] = @ + n],
           \/ UNCHANGED balanceLog
           \/ \E ref \in BalanceRefs \ balanceLog : balanceLog' = balanceLog \cup {ref}
    PROVE  BalanceNotNegative' /\ Balances!LedgerNext
  <1> USE DEF TypeOK, BalanceNotNegative
  <1>1. balance'[u] = balance[u] + n
    OBVIOUS
  <1>2. balanceLogged[u] + balance'[u] - balance[u] = balanceLogged[u] + n
    BY <1>1
  <1>3. balance' = [balance EXCEPT ![u] = balance'[u]]
    BY <1>1
  <1>4. balanceLogged' = [balanceLogged EXCEPT ![u] = balanceLogged[u] + balance'[u] - balance[u]]
    BY <1>2
  <1>5. Balances!Move(u)
    BY <1>1, <1>3, <1>4 DEF Balances!Move
  <1>6. Balances!Adjust(u) \/ \E ref \in BalanceRefs : Balances!Post(u, ref)
    BY <1>5 DEF Balances!Adjust, Balances!Post
  <1>7. BalanceNotNegative'
    BY <1>1
  <1>8. QED
    BY <1>6, <1>7 DEF Balances!LedgerNext

LEMMA BalanceSteps ==
    ASSUME TypeOK, BalanceNotNegative, [Next]_vars
    PROVE  /\ BalanceNotNegative'
           /\ [Balances!LedgerNext]_<<balance, balanceLogged, balanceLog>>
  <1>1. ASSUME NEW o \in Orders, PayWithBalance(o)
        PROVE  BalanceNotNegative' /\ Balances!LedgerNext
    <2>1. /\ Buyer[o] \in Users /\ payAmount[o] \in Nat
          /\ balance[Buyer[o]] \in Int /\ balanceLogged[Buyer[o]] \in Int
      BY WalletAssumption DEF TypeOK
    <2>6. /\ balance' = [balance EXCEPT ![Buyer[o]] = balance[Buyer[o]] - payAmount[o]]
          /\ balanceLogged' = [balanceLogged EXCEPT
                                  ![Buyer[o]] = balanceLogged[Buyer[o]] - payAmount[o]]
          /\ balance[Buyer[o]] >= payAmount[o]
      BY <1>1 DEF PayWithBalance
    <2>7. /\ balance[Buyer[o]] - payAmount[o] = balance[Buyer[o]] + (- payAmount[o])
          /\ balanceLogged[Buyer[o]] - payAmount[o] = balanceLogged[Buyer[o]] + (- payAmount[o])
      BY <2>1
    <2>2. /\ balance' = [balance EXCEPT ![Buyer[o]] = @ + (- payAmount[o])]
          /\ balanceLogged' = [balanceLogged EXCEPT ![Buyer[o]] = @ + (- payAmount[o])]
      BY <2>6, <2>7
    <2>8. balance[Buyer[o]] + (- payAmount[o]) >= 0
      BY <2>1, <2>6
    <2>3. /\ <<o, "CONSUME">> \in BalanceRefs \ balanceLog
          /\ balanceLog' = balanceLog \cup {<<o, "CONSUME">>}
      BY <1>1 DEF PayWithBalance, BalanceRefs
    <2>4. - payAmount[o] \in Int
      BY <2>1
    <2>5. QED
      BY <2>1, <2>2, <2>3, <2>4, <2>8, OneMove
  <1>2. ASSUME NEW a \in Admins, AdminRefund(a), ~ UNCHANGED balanceVars
        PROVE  BalanceNotNegative' /\ Balances!LedgerNext
    <2> DEFINE o == atarget[a]
    <2>1. /\ o \in Orders /\ Buyer[o] \in Users /\ payAmount[o] \in Nat
          /\ balance[Buyer[o]] \in Int /\ balance[Buyer[o]] >= 0
      BY <1>2, WalletAssumption DEF AdminRefund, TypeOK, BalanceNotNegative
    <2>2. /\ balance' = [balance EXCEPT ![Buyer[o]] = @ + payAmount[o]]
          /\ balanceLogged' = [balanceLogged EXCEPT ![Buyer[o]] = @ + payAmount[o]]
          /\ balanceLog' = balanceLog \cup {<<o, "REFUND">>}
          /\ <<o, "REFUND">> \notin balanceLog
      BY <1>2 DEF AdminRefund
    <2>3. <<o, "REFUND">> \in BalanceRefs
      BY <2>1 DEF BalanceRefs
    <2>4. balance[Buyer[o]] + payAmount[o] >= 0
      BY <2>1
    <2> HIDE DEF o
    <2>6. \E ref \in BalanceRefs \ balanceLog : balanceLog' = balanceLog \cup {ref}
      BY <2>2, <2>3
    <2>7. payAmount[o] \in Int
      BY <2>1
    <2>5. QED
      BY <2>1, <2>2, <2>4, <2>6, <2>7, OneMove
  <1>3. ASSUME NEW u \in Users, NEW n \in Amounts[u], AdjustBalance(u, n)
        PROVE  BalanceNotNegative' /\ Balances!LedgerNext
    <2>1. n \in Int /\ balance[u] \in Int /\ balance[u] >= 0
      BY WalletAssumption DEF TypeOK, BalanceNotNegative
    <2>2. balance[u] + n >= 0
      BY <1>3, <2>1 DEF AdjustBalance
    <2>3. QED
      BY <1>3, <2>1, <2>2, OneMove DEF AdjustBalance
  <1>4. CASE UNCHANGED balanceVars
    BY <1>4 DEF balanceVars, BalanceNotNegative
  <1>5. QED
    BY <1>1, <1>2, <1>3, <1>4, BalanceWriters

(* Concurrent payments, refunds and adjustments never take a balance below *)
(* zero.                                                                   *)
THEOREM NeverOverdrawn == Spec => []BalanceNotNegative
  <1>1. Init => BalanceNotNegative
    BY DEF Init, BalanceNotNegative
  <1>2. TypeOK /\ BalanceNotNegative /\ [Next]_vars => BalanceNotNegative'
    BY BalanceSteps
  <1>3. QED
    BY <1>1, <1>2, TypeCorrect, PTL DEF Spec

(* The balances of the shop implement the ledger: one account at a time,   *)
(* always with its log, each order debited and refunded at most once.      *)
THEOREM LedgerImplemented == Spec => BalanceIsLedger
  <1>1. Init => Balances!LedgerInit
    BY DEF Init, Balances!LedgerInit
  <1>2. TypeOK /\ BalanceNotNegative /\ [Next]_vars
        => [Balances!LedgerNext]_<<balance, balanceLogged, balanceLog>>
    BY BalanceSteps
  <1>3. QED
    BY <1>1, <1>2, TypeCorrect, NeverOverdrawn, PTL
       DEF Spec, BalanceIsLedger, Balances!LedgerSpec

-----------------------------------------------------------------------------
(* The tier. *)

(* Only an admin gives a user a tier below the one the recharges earn.     *)
THEOREM TierEarned == Spec => []TierIsEarned
  <1>1. Init => TierIsEarned
    BY DEF Init, TierIsEarned
  <1>2. TypeOK /\ TierIsEarned /\ [Next]_vars => TierIsEarned'
    <2> SUFFICES ASSUME TypeOK, TierIsEarned, [Next]_vars PROVE TierIsEarned'
      OBVIOUS
    <2> USE DEF TypeOK, TierIsEarned
    <2>1. ASSUME NEW u \in Users, NEW n \in Amounts[u], AdjustBalance(u, n), n > 0
          PROVE  TierIsEarned'
      <3>1. n \in Int /\ totalRecharged[u] + n \in Nat
        BY <2>1, WalletAssumption
      <3>2. /\ totalRecharged' = [totalRecharged EXCEPT ![u] = @ + n]
            /\ lowered' = lowered
        BY <2>1 DEF AdjustBalance, Accrue
      <3>3. PICK t \in ComputeTier(totalRecharged[u] + n) :
               vipTier' = [vipTier EXCEPT ![u] = IF TierRank[t] > TierRank[@] THEN t ELSE @]
        BY <2>1 DEF AdjustBalance, Accrue
      <3>4. t \in VipTier
        BY <3>1, <3>3, TierTypes
      <3>5. \A x \in VipTier : TierRank[x] \in Nat
        BY DEF TierRank
      <3>6. TierRank[vipTier'[u]] >= TierRank[t] /\ totalRecharged'[u] = totalRecharged[u] + n
        BY <3>2, <3>3, <3>4, <3>5
      <3>7. \A v \in Users \ {u} : vipTier'[v] = vipTier[v] /\ totalRecharged'[v] = totalRecharged[v]
        BY <3>2, <3>3
      <3>8. QED
        BY <3>2, <3>3, <3>6, <3>7
    <2>2. ASSUME NEW u \in Users, NEW n \in Amounts[u], AdjustBalance(u, n), ~(n > 0)
          PROVE  TierIsEarned'
      BY <2>2 DEF AdjustBalance, vipVars
    <2>3. ASSUME NEW u \in Users, NEW t \in ManualTiers, ManualSet(u, t)
          PROVE  TierIsEarned'
      BY <2>3 DEF ManualSet
    <2>4. CASE UNCHANGED vipVars
      BY <2>4 DEF vipVars
    <2>5. QED
      BY <2>1, <2>2, <2>3, <2>4, TierWriters
  <1>3. QED
    BY <1>1, <1>2, TypeCorrect, PTL DEF Spec
-----------------------------------------------------------------------------
(* Orders and their rows. *)

(* Whatever acts on an order acts on one that has been created, and two    *)
(* deliveries act on it at once only without its lock.                     *)
CreatedInv ==
    /\ \A o \in Orders : paying[o] = "none" <=> status[o] = "NONE"
    /\ \A d \in Deliveries : delivering[d] # "idle" => paying[dorder[d]] # "none"
    /\ \A d, e \in Deliveries : d # e /\ dorder[d] = dorder[e] /\ dorder[d] # None
          => dorder[d] \in unlocked
    /\ \A a \in Admins : aop[a] \in {"refund", "cancel", "confirm"} => paying[atarget[a]] # "none"

Debited(o) ==
    \/ PayMethod[o] = "BALANCE" /\ <<o, "CONSUME">> \in balanceLog
    \/ PayMethod[o] = "POINTS" /\ <<o, "ORDER_DEDUCT", Buyer[o]>> \in pointLog

PaidBy(o) == Debited(o) \/ o \in confirmed

(* Whoever delivers or refunds an order knows of a payment. *)
PaidInv ==
    /\ \A o \in Orders :
        /\ status[o] \in {"PAID", "DELIVERED", "REFUNDED"} => PaidBy(o)
        /\ paying[o] = "deliver" => PaidBy(o)
        /\ <<o, "REFUND">> \in balanceLog => PayMethod[o] = "BALANCE" /\ PaidBy(o)
        /\ \A u \in Users : <<o, "ORDER_REFUND", u>> \in pointLog
              => PayMethod[o] = "POINTS" /\ u = Buyer[o] /\ PaidBy(o)
    /\ \A d \in Deliveries : delivering[d] # "idle" => PaidBy(dorder[d])
    /\ \A a \in Admins : aop[a] = "refund" => PaidBy(atarget[a])

(* What a log row tells of the status, while nobody overwrote it. *)
RowsInv ==
    /\ DebitIsHonoured
    /\ \A o \in Orders, u \in Users :
        /\ <<o, "ORDER_REWARD", u>> \in pointLog
           => \/ o \in cause \cup unlocked
              \/ status[o] \in {"DELIVERED", "REFUNDED"} /\ \A d \in Deliveries : dorder[d] # o
        /\ <<o, "ORDER_REFUND", u>> \in pointLog => o \in cause \/ status[o] = "REFUNDED"

(* The rows a delivery adds. *)
LEMMA RowShape ==
    ASSUME NEW d \in Deliveries, NEW p, NEW t, NEW u, <<p, t, u>> \in NewRows(d)
    PROVE  /\ p = dorder[d]
           /\ \/ t = "ORDER_REWARD" /\ EarnsReward(p, u)
              \/ t = "INVITE_REWARD" /\ EarnsInvite(d, u)
  BY DEF NewRows

LEMMA LogsGrow ==
    ASSUME [Next]_vars
    PROVE  balanceLog \subseteq balanceLog' /\ pointLog \subseteq pointLog' /\ confirmed \subseteq confirmed'
  BY DEF Next, OrderNext, DeliveryNext, AdminNext, UserNext, AdjustBalance, AdjustPointsRead,
         AdjustPointsWrite, AdminCancel, AdminConfirm, AdminFails,
         AdminRead, AdminRefund, CloseExpired, Create, DeliverPaid,
         DeliveryFails, ManualDeliver, ManualSet, PayFails, PayRead,
         PayWithBalance, PayWithPoints, Redeliver, SettleCommit,
         SettleRead, PaidFromWallet, vars, vipVars, pointVars,
         balanceVars, adminVars, orderVars, stepVars, deliveryVars

LEMMA PaidGrows ==
    ASSUME [Next]_vars, NEW o \in Orders, PaidBy(o)
    PROVE  PaidBy(o)'
  BY LogsGrow DEF PaidBy, Debited

LEMMA CreatedStep ==
    ASSUME TypeOK, CreatedInv, [Next]_vars
    PROVE  CreatedInv'
  <1>1. QED
  <2> USE TypeOK, CreatedInv, [Next]_vars
      DEF TypeOK, CreatedInv,
          balanceVars, pointVars, vipVars, orderVars, stepVars, deliveryVars, adminVars
  <2>1. ASSUME NEW o \in Orders, Create(o)
       PROVE  CreatedInv'
    BY <2>1 DEF Create, SetStatus
  <2>2. ASSUME NEW o \in Orders, PayRead(o)
       PROVE  CreatedInv'
    BY <2>2 DEF PayRead
  <2>3. ASSUME NEW o \in Orders, PayWithBalance(o)
       PROVE  CreatedInv'
    BY <2>3 DEF PayWithBalance, PaidFromWallet, SetStatus, Stale
  <2>4. ASSUME NEW o \in Orders, PayWithPoints(o)
       PROVE  CreatedInv'
    BY <2>4 DEF PayWithPoints, PaidFromWallet, SetStatus, Stale
  <2>5. ASSUME NEW o \in Orders, PayFails(o)
       PROVE  CreatedInv'
    BY <2>5 DEF PayFails
  <2>6. ASSUME NEW o \in Orders, CloseExpired(o)
       PROVE  CreatedInv'
    BY <2>6 DEF CloseExpired, SetStatus
  <2>7. ASSUME NEW o \in Orders, ManualDeliver(o)
       PROVE  CreatedInv'
    BY <2>7 DEF ManualDeliver, Adjusting, SetStatus, Stale
  <2>8. ASSUME NEW o \in Orders, DeliverPaid(o)
       PROVE  CreatedInv'
    BY <2>8 DEF DeliverPaid, StartDelivery, Lock, Adjusting
  <2>9. ASSUME NEW d \in Deliveries, NEW o \in Orders, Redeliver(d, o)
       PROVE  CreatedInv'
    BY <2>9 DEF Redeliver, StartDelivery, Lock, Adjusting
  <2>10. ASSUME NEW d \in Deliveries, SettleRead(d)
       PROVE  CreatedInv'
    BY <2>10 DEF SettleRead
  <2>11. ASSUME NEW d \in Deliveries, SettleCommit(d)
       PROVE  CreatedInv'
    BY <2>11 DEF SettleCommit, EndDelivery, SetStatus, Stale
  <2>12. ASSUME NEW d \in Deliveries, DeliveryFails(d)
       PROVE  CreatedInv'
    BY <2>12 DEF DeliveryFails, EndDelivery
  <2>13. ASSUME NEW a \in Admins, NEW o \in Orders, AdminRead(a, o)
       PROVE  CreatedInv'
    BY <2>13 DEF AdminRead
  <2>14. ASSUME NEW a \in Admins, NEW u \in Users, NEW n \in Amounts[u], AdjustPointsRead(a, u, n)
       PROVE  CreatedInv'
    BY <2>14 DEF AdjustPointsRead, Adjusting
  <2>15. ASSUME NEW a \in Admins, AdminCancel(a)
       PROVE  CreatedInv'
    BY <2>15 DEF AdminCancel, EndRequest, SetStatus, Stale
  <2>16. ASSUME NEW a \in Admins, AdminConfirm(a)
       PROVE  CreatedInv'
    BY <2>16 DEF AdminConfirm, EndRequest, SetStatus, Stale
  <2>17. ASSUME NEW a \in Admins, AdminRefund(a)
       PROVE  CreatedInv'
    BY <2>17 DEF AdminRefund, EndRequest, SetStatus, Stale
  <2>18. ASSUME NEW a \in Admins, AdminFails(a)
       PROVE  CreatedInv'
    BY <2>18 DEF AdminFails, EndRequest
  <2>19. ASSUME NEW a \in Admins, AdjustPointsWrite(a)
       PROVE  CreatedInv'
    BY <2>19 DEF AdjustPointsWrite, EndRequest
  <2>20. ASSUME NEW u \in Users, NEW n \in Amounts[u], AdjustBalance(u, n)
       PROVE  CreatedInv'
    BY <2>20 DEF AdjustBalance, Adjusting, Accrue
  <2>21. ASSUME NEW u \in Users, NEW t \in ManualTiers, ManualSet(u, t)
       PROVE  CreatedInv'
    BY <2>21 DEF ManualSet, Adjusting
  <2>22. CASE UNCHANGED vars
    BY <2>22 DEF vars
  <2> QED
    BY <2>1, <2>2, <2>3, <2>4, <2>5, <2>6, <2>7, <2>8, <2>9, <2>10, <2>11,
       <2>12, <2>13, <2>14, <2>15, <2>16, <2>17, <2>18, <2>19, <2>20, <2>21,
       <2>22
       DEF Next, OrderNext, DeliveryNext, AdminNext, UserNext

LEMMA PaidStep ==
    ASSUME TypeOK, PaidInv, [Next]_vars
    PROVE  PaidInv'
  <1>1. QED
  <2> USE TypeOK, PaidInv, [Next]_vars, PaidGrows, WalletAssumption
      DEF TypeOK, PaidInv,
          balanceVars, pointVars, vipVars, orderVars, stepVars, deliveryVars, adminVars
  <2>1. ASSUME NEW o \in Orders, Create(o)
       PROVE  PaidInv'
    BY <2>1 DEF Create, SetStatus
  <2>2. ASSUME NEW o \in Orders, PayRead(o)
       PROVE  PaidInv'
    BY <2>2 DEF PayRead
  <2>3. ASSUME NEW o \in Orders, PayWithBalance(o)
       PROVE  PaidInv'
    <3>1. PaidBy(o)'
      BY <2>3 DEF PayWithBalance, PaidBy, Debited
    <3>2. QED
      BY <2>3, <3>1 DEF PayWithBalance, PaidFromWallet, SetStatus
  <2>4. ASSUME NEW o \in Orders, PayWithPoints(o)
       PROVE  PaidInv'
    <3>1. PaidBy(o)'
      BY <2>4 DEF PayWithPoints, PaidBy, Debited
    <3>2. QED
      BY <2>4, <3>1 DEF PayWithPoints, PaidFromWallet, SetStatus
  <2>5. ASSUME NEW o \in Orders, PayFails(o)
       PROVE  PaidInv'
    BY <2>5 DEF PayFails
  <2>6. ASSUME NEW o \in Orders, CloseExpired(o)
       PROVE  PaidInv'
    BY <2>6 DEF CloseExpired, SetStatus
  <2>7. ASSUME NEW o \in Orders, ManualDeliver(o)
       PROVE  PaidInv'
    <3>1. PaidBy(o)'
      BY <2>7 DEF ManualDeliver, PaidBy, Debited
    <3>2. QED
      BY <2>7, <3>1 DEF ManualDeliver, SetStatus
  <2>8. ASSUME NEW o \in Orders, DeliverPaid(o)
       PROVE  PaidInv'
    <3>1. CASE UNCHANGED <<delivering, dorder, unlocked, adjusts>>
      BY <2>8, <3>1 DEF DeliverPaid
    <3>2. ASSUME NEW d \in Deliveries, StartDelivery(d, o)
          PROVE  PaidInv'
      <4>1. PaidBy(o)
        BY <2>8 DEF DeliverPaid
      <4>2. /\ paying' = [paying EXCEPT ![o] = "done"]
            /\ delivering' = [delivering EXCEPT ![d] = "finish"]
            /\ dorder' = [dorder EXCEPT ![d] = o]
            /\ UNCHANGED <<balanceVars, pointVars, orderVars, aop, atarget>>
        BY <2>8, <3>2 DEF DeliverPaid, StartDelivery
      <4>3. \A p \in Orders : PaidBy(p) => PaidBy(p)'
        BY PaidGrows
      <4>4. \A e \in Deliveries : delivering'[e] # "idle" => PaidBy(dorder[e]) \/ e = d
        BY <4>2
      <4>5. \A e \in Deliveries : delivering'[e] # "idle" => dorder'[e] \in Orders /\ PaidBy(dorder'[e])
        BY <4>1, <4>2, <4>4
      <4>6. UNCHANGED <<status, balanceLog, pointLog, confirmed>>
        BY <4>2
      <4>7. \A e \in Deliveries : delivering'[e] # "idle" => PaidBy(dorder[e])'
        BY <4>5, <4>6 DEF PaidBy, Debited
      <4>8. QED
        BY <4>2, <4>3, <4>6, <4>7
    <3>3. QED
      BY <2>8, <3>1, <3>2 DEF DeliverPaid
  <2>9. ASSUME NEW d \in Deliveries, NEW o \in Orders, Redeliver(d, o)
       PROVE  PaidInv'
    BY <2>9 DEF Redeliver, StartDelivery, Lock, Adjusting
  <2>10. ASSUME NEW d \in Deliveries, SettleRead(d)
       PROVE  PaidInv'
    BY <2>10 DEF SettleRead
  <2>11. ASSUME NEW d \in Deliveries, SettleCommit(d)
       PROVE  PaidInv'
    <3>o. PICK o \in Orders : o = dorder[d]
      BY <2>11 DEF SettleCommit
    <3>1. \A p \in Orders, u \in Users : <<p, "ORDER_REFUND", u>> \in pointLog'
             => <<p, "ORDER_REFUND", u>> \in pointLog
      BY <2>11, RowShape DEF SettleCommit
    <3>2. PaidBy(o)
      BY <2>11, <3>o DEF SettleCommit
    <3>3. QED
      BY <2>11, <3>o, <3>1, <3>2 DEF SettleCommit, EndDelivery, SetStatus
  <2>12. ASSUME NEW d \in Deliveries, DeliveryFails(d)
       PROVE  PaidInv'
    BY <2>12 DEF DeliveryFails, EndDelivery
  <2>13. ASSUME NEW a \in Admins, NEW o \in Orders, AdminRead(a, o)
       PROVE  PaidInv'
    <3>1. status[o] \in {"PAID", "DELIVERED"} => PaidBy(o)
      OBVIOUS
    <3>2. ASSUME NEW b \in Admins, aop'[b] = "refund"
          PROVE  PaidBy(atarget'[b])
      BY <2>13, <3>1, <3>2 DEF AdminRead
    <3>3. UNCHANGED <<status, paying, delivering, dorder, balanceLog, pointLog, confirmed>>
      BY <2>13 DEF AdminRead
    <3>4. \A b \in Admins : aop'[b] = "refund" => PaidBy(atarget[b])'
      BY <3>2, <3>3 DEF PaidBy, Debited
    <3>5. QED
      BY <3>3, <3>4
  <2>14. ASSUME NEW a \in Admins, NEW u \in Users, NEW n \in Amounts[u], AdjustPointsRead(a, u, n)
       PROVE  PaidInv'
    BY <2>14 DEF AdjustPointsRead, Adjusting
  <2>15. ASSUME NEW a \in Admins, AdminCancel(a)
       PROVE  PaidInv'
    BY <2>15 DEF AdminCancel, EndRequest, SetStatus, Stale
  <2>16. ASSUME NEW a \in Admins, AdminConfirm(a)
       PROVE  PaidInv'
    <3>1. PICK o \in Orders : o = atarget[a]
      BY <2>16 DEF AdminConfirm
    <3>2. PaidBy(o)'
      BY <2>16, <3>1 DEF AdminConfirm, PaidBy
    <3>3. status' = [status EXCEPT ![o] = "PAID"]
      BY <2>16, <3>1 DEF AdminConfirm, SetStatus
    <3>4. \A b \in Admins : aop'[b] = "refund" => aop[b] = "refund" /\ atarget'[b] = atarget[b]
      BY <2>16 DEF AdminConfirm, EndRequest
    <3>5. UNCHANGED <<paying, delivering, dorder, balanceLog, pointLog>>
      BY <2>16 DEF AdminConfirm
    <3>6. \A p \in Orders : PaidBy(p) => PaidBy(p)'
      BY PaidGrows
    <3>7. QED
      BY <3>2, <3>3, <3>4, <3>5, <3>6
  <2>17. ASSUME NEW a \in Admins, AdminRefund(a)
       PROVE  PaidInv'
    BY <2>17 DEF AdminRefund, EndRequest, SetStatus, Stale
  <2>18. ASSUME NEW a \in Admins, AdminFails(a)
       PROVE  PaidInv'
    BY <2>18 DEF AdminFails, EndRequest
  <2>19. ASSUME NEW a \in Admins, AdjustPointsWrite(a)
       PROVE  PaidInv'
    BY <2>19 DEF AdjustPointsWrite, EndRequest
  <2>20. ASSUME NEW u \in Users, NEW n \in Amounts[u], AdjustBalance(u, n)
       PROVE  PaidInv'
    BY <2>20 DEF AdjustBalance, Adjusting, Accrue
  <2>21. ASSUME NEW u \in Users, NEW t \in ManualTiers, ManualSet(u, t)
       PROVE  PaidInv'
    BY <2>21 DEF ManualSet, Adjusting
  <2>22. CASE UNCHANGED vars
    BY <2>22 DEF vars
  <2> QED
    BY <2>1, <2>2, <2>3, <2>4, <2>5, <2>6, <2>7, <2>8, <2>9, <2>10, <2>11,
       <2>12, <2>13, <2>14, <2>15, <2>16, <2>17, <2>18, <2>19, <2>20, <2>21,
       <2>22
       DEF Next, OrderNext, DeliveryNext, AdminNext, UserNext

LEMMA RowsStep ==
    ASSUME TypeOK, CreatedInv, RowsInv, [Next]_vars
    PROVE  RowsInv'
  <1>1. QED
  <2> USE TypeOK, CreatedInv, RowsInv, [Next]_vars, WalletAssumption
      DEF TypeOK, CreatedInv, RowsInv, DebitIsHonoured,
          balanceVars, pointVars, vipVars, orderVars, stepVars, deliveryVars, adminVars
  <2>1. ASSUME NEW o \in Orders, Create(o)
       PROVE  RowsInv'
    BY <2>1 DEF Create, SetStatus
  <2>2. ASSUME NEW o \in Orders, PayRead(o)
       PROVE  RowsInv'
    BY <2>2 DEF PayRead
  <2>3. ASSUME NEW o \in Orders, PayWithBalance(o)
       PROVE  RowsInv'
    BY <2>3 DEF PayWithBalance, PaidFromWallet, SetStatus, Stale
  <2>4. ASSUME NEW o \in Orders, PayWithPoints(o)
       PROVE  RowsInv'
    BY <2>4 DEF PayWithPoints, PaidFromWallet, SetStatus, Stale
  <2>5. ASSUME NEW o \in Orders, PayFails(o)
       PROVE  RowsInv'
    BY <2>5 DEF PayFails
  <2>6. ASSUME NEW o \in Orders, CloseExpired(o)
       PROVE  RowsInv'
    BY <2>6 DEF CloseExpired, SetStatus
  <2>7. ASSUME NEW o \in Orders, ManualDeliver(o)
       PROVE  RowsInv'
    BY <2>7 DEF ManualDeliver, Adjusting, SetStatus, Stale
  <2>8. ASSUME NEW o \in Orders, DeliverPaid(o)
       PROVE  RowsInv'
    BY <2>8 DEF DeliverPaid, StartDelivery, Lock, Adjusting
  <2>9. ASSUME NEW d \in Deliveries, NEW o \in Orders, Redeliver(d, o)
       PROVE  RowsInv'
    BY <2>9 DEF Redeliver, StartDelivery, Lock, Adjusting
  <2>10. ASSUME NEW d \in Deliveries, SettleRead(d)
       PROVE  RowsInv'
    BY <2>10 DEF SettleRead
  <2>11. ASSUME NEW d \in Deliveries, SettleCommit(d)
       PROVE  RowsInv'
    <3>o. PICK o \in Orders : o = dorder[d]
      BY <2>11 DEF SettleCommit
    <3>3. ASSUME NEW p \in Orders, NEW t, NEW u \in Users, <<p, t, u>> \in pointLog'
          PROVE  \/ <<p, t, u>> \in pointLog
                 \/ p = o /\ t \in {"ORDER_REWARD", "INVITE_REWARD"}
      <4>1. <<p, t, u>> \in pointLog \cup NewRows(d)
        BY <2>11, <3>3 DEF SettleCommit
      <4>2. QED
        BY <3>o, <4>1, RowShape
    <3>1. \A p \in Orders, u \in Users :
            /\ <<p, "ORDER_REFUND", u>> \in pointLog' => <<p, "ORDER_REFUND", u>> \in pointLog
            /\ <<p, "ORDER_DEDUCT", u>> \in pointLog' => <<p, "ORDER_DEDUCT", u>> \in pointLog
            /\ <<p, "ORDER_REWARD", u>> \in pointLog' => <<p, "ORDER_REWARD", u>> \in pointLog \/ p = o
      <4>1. \A p \in Orders, u \in Users :
              <<p, "ORDER_REFUND", u>> \in pointLog' => <<p, "ORDER_REFUND", u>> \in pointLog
        <5> SUFFICES ASSUME NEW p \in Orders, NEW u \in Users,
                            <<p, "ORDER_REFUND", u>> \in pointLog'
                     PROVE  <<p, "ORDER_REFUND", u>> \in pointLog
          OBVIOUS
        <5>1. "ORDER_REFUND" \notin {"ORDER_REWARD", "INVITE_REWARD"}
          OBVIOUS
        <5>2. QED
          BY <3>3, <5>1, Zenon
      <4>2. \A p \in Orders, u \in Users :
              <<p, "ORDER_DEDUCT", u>> \in pointLog' => <<p, "ORDER_DEDUCT", u>> \in pointLog
        <5> SUFFICES ASSUME NEW p \in Orders, NEW u \in Users,
                            <<p, "ORDER_DEDUCT", u>> \in pointLog'
                     PROVE  <<p, "ORDER_DEDUCT", u>> \in pointLog
          OBVIOUS
        <5>1. "ORDER_DEDUCT" \notin {"ORDER_REWARD", "INVITE_REWARD"}
          OBVIOUS
        <5>2. QED
          BY <3>3, <5>1, Zenon
      <4>3. \A p \in Orders, u \in Users :
              <<p, "ORDER_REWARD", u>> \in pointLog' => <<p, "ORDER_REWARD", u>> \in pointLog \/ p = o
        BY <3>3
      <4>4. QED
        BY <4>1, <4>2, <4>3
    <3>2. /\ status' = [status EXCEPT ![o] = "DELIVERED"]
          /\ cause' = IF status[o] \in Statuses \ {"REFUNDED"} THEN cause ELSE cause \cup {o}
          /\ dorder' = [dorder EXCEPT ![d] = None]
          /\ UNCHANGED <<balanceLog, unlocked>>
      BY <2>11, <3>o DEF SettleCommit, EndDelivery, SetStatus, Stale
    <3>8. \A p \in Orders \ {o} : status'[p] = status[p] /\ (p \in cause => p \in cause')
      BY <3>2
    <3>9. \A p \in Orders : <<p, "ORDER_DEDUCT", Buyer[p]>> \in pointLog'
             => <<p, "ORDER_DEDUCT", Buyer[p]>> \in pointLog
      BY <3>1
    <3>10. status'[o] = "DELIVERED" /\ balanceLog' = balanceLog
      BY <3>2
    <3>4. DebitIsHonoured'
      BY <3>8, <3>9, <3>10
    <3>5. ASSUME NEW p \in Orders, NEW u \in Users, <<p, "ORDER_REWARD", u>> \in pointLog'
          PROVE  \/ p \in cause' \cup unlocked'
                 \/ status'[p] \in {"DELIVERED", "REFUNDED"} /\ \A e \in Deliveries : dorder'[e] # p
      <4>1. CASE p = o
        <5>1. \A e \in Deliveries : e # d /\ dorder[e] = o => o \in unlocked
          BY <3>o
        <5>2. QED
          BY <3>2, <4>1, <5>1
      <4>2. CASE p # o
        <5>1. <<p, "ORDER_REWARD", u>> \in pointLog
          BY <3>1, <3>5, <4>2
        <5>2. \A e \in Deliveries : dorder'[e] = p => dorder[e] = p
          BY <3>2
        <5>3. \/ p \in cause \cup unlocked
              \/ status[p] \in {"DELIVERED", "REFUNDED"} /\ \A e \in Deliveries : dorder[e] # p
          BY <5>1
        <5>4. status'[p] = status[p] /\ unlocked' = unlocked /\ (p \in cause => p \in cause')
          BY <3>2, <3>8, <4>2
        <5>5. CASE p \in cause \cup unlocked
          BY <5>4, <5>5
        <5>6. CASE status[p] \in {"DELIVERED", "REFUNDED"} /\ \A e \in Deliveries : dorder[e] # p
          BY <5>2, <5>4, <5>6
        <5>7. QED
          BY <5>3, <5>5, <5>6
      <4>3. QED
        BY <4>1, <4>2
    <3>6. ASSUME NEW p \in Orders, NEW u \in Users, <<p, "ORDER_REFUND", u>> \in pointLog'
          PROVE  p \in cause' \/ status'[p] = "REFUNDED"
      <4>1. p \in cause \/ status[p] = "REFUNDED"
        BY <3>1, <3>6
      <4>2. CASE p = o
        BY <3>2, <4>1, <4>2
      <4>3. CASE p # o
        BY <3>8, <4>1, <4>3
      <4>4. QED
        BY <4>2, <4>3
    <3>7. QED
      BY <3>4, <3>5, <3>6
  <2>12. ASSUME NEW d \in Deliveries, DeliveryFails(d)
       PROVE  RowsInv'
    BY <2>12 DEF DeliveryFails, EndDelivery
  <2>13. ASSUME NEW a \in Admins, NEW o \in Orders, AdminRead(a, o)
       PROVE  RowsInv'
    BY <2>13 DEF AdminRead
  <2>14. ASSUME NEW a \in Admins, NEW u \in Users, NEW n \in Amounts[u], AdjustPointsRead(a, u, n)
       PROVE  RowsInv'
    BY <2>14 DEF AdjustPointsRead, Adjusting
  <2>15. ASSUME NEW a \in Admins, AdminCancel(a)
       PROVE  RowsInv'
    BY <2>15 DEF AdminCancel, EndRequest, SetStatus, Stale
  <2>16. ASSUME NEW a \in Admins, AdminConfirm(a)
       PROVE  RowsInv'
    BY <2>16 DEF AdminConfirm, EndRequest, SetStatus, Stale
  <2>17. ASSUME NEW a \in Admins, AdminRefund(a)
       PROVE  RowsInv'
    BY <2>17 DEF AdminRefund, EndRequest, SetStatus, Stale
  <2>18. ASSUME NEW a \in Admins, AdminFails(a)
       PROVE  RowsInv'
    BY <2>18 DEF AdminFails, EndRequest
  <2>19. ASSUME NEW a \in Admins, AdjustPointsWrite(a)
       PROVE  RowsInv'
    BY <2>19 DEF AdjustPointsWrite, EndRequest
  <2>20. ASSUME NEW u \in Users, NEW n \in Amounts[u], AdjustBalance(u, n)
       PROVE  RowsInv'
    BY <2>20 DEF AdjustBalance, Adjusting, Accrue
  <2>21. ASSUME NEW u \in Users, NEW t \in ManualTiers, ManualSet(u, t)
       PROVE  RowsInv'
    BY <2>21 DEF ManualSet, Adjusting
  <2>22. CASE UNCHANGED vars
    BY <2>22 DEF vars
  <2> QED
    BY <2>1, <2>2, <2>3, <2>4, <2>5, <2>6, <2>7, <2>8, <2>9, <2>10, <2>11,
       <2>12, <2>13, <2>14, <2>15, <2>16, <2>17, <2>18, <2>19, <2>20, <2>21,
       <2>22
       DEF Next, OrderNext, DeliveryNext, AdminNext, UserNext

THEOREM OrdersAreConsistent == Spec => [](CreatedInv /\ PaidInv /\ RowsInv)
  <1>1. Init => CreatedInv /\ PaidInv /\ RowsInv
    BY DEF Init, CreatedInv, PaidInv, RowsInv, DebitIsHonoured
  <1>2. TypeOK /\ CreatedInv /\ PaidInv /\ RowsInv /\ [Next]_vars
        => (CreatedInv /\ PaidInv /\ RowsInv)'
    BY CreatedStep, PaidStep, RowsStep
  <1>3. QED
    BY <1>1, <1>2, TypeCorrect, PTL DEF Spec

(* Money and points are given back only for orders they were taken for or  *)
(* that somebody confirmed as paid.                                        *)
THEOREM RefundsHaveDebits == Spec => []RefundNeedsDebit
  <1>1. PaidInv => RefundNeedsDebit
    BY WalletAssumption DEF PaidInv, PaidBy, Debited, RefundNeedsDebit
  <1>2. QED
    BY <1>1, OrdersAreConsistent, PTL

(* Only a writer that acts on an older status lets an order that the       *)
(* wallet paid for end as cancelled, closed or unpaid.                     *)
THEOREM DebitsAreHonoured == Spec => []DebitIsHonoured
  <1>1. RowsInv => DebitIsHonoured
    BY DEF RowsInv
  <1>2. QED
    BY <1>1, OrdersAreConsistent, PTL

-----------------------------------------------------------------------------
(* Points. *)

LEMMA RewardNat ==
    ASSUME TypeOK, NEW d \in Deliveries, delivering[d] = "settle"
    PROVE  /\ dorder[d] \in Orders
           /\ Reward(dorder[d]) \in Nat
           /\ \A u \in Users : Earns(d, u) \in Nat
  <1>1. dorder[d] \in Orders
    BY DEF TypeOK
  <1>2. Reward(dorder[d]) \in Nat
    BY <1>1, RewardType, WalletAssumption DEF TypeOK, Reward
  <1>3. QED
    BY <1>1, <1>2 DEF Earns

(* An invitation is rewarded when inviteRewardedAt is set, and only then. *)
InviteInv ==
    /\ InviteRewardedOnce
    /\ \A o \in Orders, u \in Users :
          <<o, "INVITE_REWARD", u>> \in pointLog => u = Inviter[Buyer[o]] /\ Buyer[o] \in rewarded

LEMMA InviteStep ==
    ASSUME TypeOK, InviteInv, [Next]_vars
    PROVE  InviteInv'
  <1> USE DEF TypeOK, InviteInv, InviteRewardedOnce
  <1>1. ASSUME NEW d \in Deliveries, SettleCommit(d)
        PROVE  InviteInv'
    <2>o. PICK o \in Orders : o = dorder[d]
      BY <1>1 DEF SettleCommit
    <2>1. \A p \in Orders, u \in Users : <<p, "INVITE_REWARD", u>> \in pointLog'
             => \/ <<p, "INVITE_REWARD", u>> \in pointLog
                \/ p = o /\ EarnsInvite(d, u)
      BY <1>1, <2>o, RowShape DEF SettleCommit
    <2>2. rewarded' = IF \E u \in Users : EarnsInvite(d, u)
                      THEN rewarded \cup {Buyer[o]} ELSE rewarded
      BY <1>1, <2>o DEF SettleCommit
    <2>3. \A u \in Users : EarnsInvite(d, u) => u = Inviter[Buyer[o]] /\ Buyer[o] \notin rewarded
      BY <2>o DEF EarnsInvite
    <2> DEFINE given == \E u \in Users : EarnsInvite(d, u)
    <2>4. \A p \in Orders, u \in Users : <<p, "INVITE_REWARD", u>> \in pointLog'
             => u = Inviter[Buyer[p]] /\ Buyer[p] \in rewarded'
      BY <2>1, <2>2, <2>3
    <2>5. \A p \in Orders, u \in Users :
             <<p, "INVITE_REWARD", u>> \in pointLog' /\ Buyer[p] = Buyer[o] /\ given => p = o
      BY <2>1, <2>3
    <2>6. ~ given => \A p \in Orders, u \in Users :
             <<p, "INVITE_REWARD", u>> \in pointLog' => <<p, "INVITE_REWARD", u>> \in pointLog
      BY <2>1
    <2>7. InviteRewardedOnce'
      BY <2>1, <2>5, <2>6
    <2>8. QED
      BY <2>4, <2>7
  <1>2. ASSUME NEW o \in Orders, PayWithPoints(o)
        PROVE  InviteInv'
    BY <1>2 DEF PayWithPoints
  <1>3. ASSUME NEW a \in Admins, AdminRefund(a)
        PROVE  InviteInv'
    BY <1>3 DEF AdminRefund
  <1>4. ASSUME NEW a \in Admins, AdjustPointsWrite(a)
        PROVE  InviteInv'
    BY <1>4 DEF AdjustPointsWrite
  <1>5. CASE UNCHANGED pointVars
    BY <1>5 DEF pointVars
  <1>6. QED
    BY <1>1, <1>2, <1>3, <1>4, <1>5, PointWriters

(* A user earns the inviter one reward, however many of the user's orders  *)
(* are delivered at the same time.                                         *)
THEOREM InvitesRewardedOnce == Spec => []InviteRewardedOnce
  <1>1. Init => InviteInv
    BY DEF Init, InviteInv, InviteRewardedOnce
  <1>2. TypeOK /\ InviteInv /\ [Next]_vars => InviteInv'
    BY InviteStep
  <1>3. InviteInv => InviteRewardedOnce
    BY DEF InviteInv
  <1>4. QED
    BY <1>1, <1>2, <1>3, TypeCorrect, PTL DEF Spec

(* What the points a delivery gives and the rows it writes have in common: *)
(* no row goes without its increment, and an increment without its row is  *)
(* the buyer's, for an order whose reward was logged before.               *)
LEMMA SettleLogs ==
    ASSUME TypeOK, InviteInv, NEW d \in Deliveries, delivering[d] = "settle", NEW u \in Users,
           NEW n, n = IF \E row \in NewRows(d) : row[3] = u THEN Reward(dorder[d]) ELSE 0
    PROVE  /\ n \in Nat /\ n <= Earns(d, u)
           /\ n # Earns(d, u) => /\ u = Buyer[dorder[d]]
                                  /\ <<dorder[d], "ORDER_REWARD", u>> \in pointLog
  <1> DEFINE o == dorder[d]
  <1>1. o \in Orders /\ Reward(o) \in Nat
    BY RewardNat
  <1>2. (\E row \in NewRows(d) : row[3] = u) => EarnsReward(o, u) \/ EarnsInvite(d, u)
    BY DEF NewRows
  <1>3. CASE Reward(o) = 0
    BY <1>3 DEF Earns
  <1>4. CASE Reward(o) # 0
    <2>1. EarnsInvite(d, u) => <<o, "INVITE_REWARD", u>> \in NewRows(d)
      <3>1. EarnsInvite(d, u) => <<o, "INVITE_REWARD", u>> \notin pointLog
        BY <1>1 DEF InviteInv, EarnsInvite
      <3>2. QED
        BY <1>4, <3>1 DEF NewRows
    <2>2. EarnsReward(o, u) => <<o, "ORDER_REWARD", u>> \in NewRows(d) \cup pointLog
      BY <1>4 DEF NewRows
    <2>3. n # Earns(d, u) => EarnsReward(o, u) /\ <<o, "ORDER_REWARD", u>> \in pointLog
      BY <1>2, <2>1, <2>2 DEF Earns
    <2>4. n \in Nat /\ n <= Earns(d, u)
      BY <1>1, <1>2 DEF Earns
    <2>5. QED
      BY <2>3, <2>4 DEF EarnsReward
  <1>5. QED
    BY <1>3, <1>4

(* The order that explains points a user has beyond the log. *)
Explains(o, u) ==
    /\ u = Buyer[o]
    /\ {<<o, "ORDER_REWARD", u>>, <<o, "ORDER_REFUND", u>>} \cap pointLog # {}

LEMMA PointsStep ==
    ASSUME TypeOK, CreatedInv, InviteInv, RowsInv, PointsAreLogged, [Next]_vars
    PROVE  PointsAreLogged'
  <1> SUFFICES ASSUME NEW u \in Users
               PROVE  /\ points'[u] >= pointsLogged'[u]
                      /\ points'[u] > pointsLogged'[u]
                            => \E o \in cause' \cup unlocked' : Explains(o, u)'
    BY DEF PointsAreLogged, Explains
  <1> USE DEF TypeOK
  <1>1. /\ points[u] \in Int /\ pointsLogged[u] \in Int /\ points[u] >= pointsLogged[u]
        /\ points[u] > pointsLogged[u] => \E o \in cause \cup unlocked : Explains(o, u)
    BY DEF PointsAreLogged, Explains
  <1>2. \A o \in cause \cup unlocked : Explains(o, u) => o \in cause' \cup unlocked' /\ Explains(o, u)'
    BY CauseGrows, LogsGrow DEF Explains
  <1> DEFINE Goal == /\ points'[u] >= pointsLogged'[u]
                     /\ points'[u] > pointsLogged'[u]
                           => \E o \in cause' \cup unlocked' : Explains(o, u)'
  <1>3. ASSUME NEW n \in Nat, NEW k \in Nat, n <= k,
               points'[u] = points[u] + k, pointsLogged'[u] = pointsLogged[u] + n,
               n # k => \E o \in cause' \cup unlocked' : Explains(o, u)'
        PROVE  Goal
    BY <1>1, <1>2, <1>3
  <1>4. ASSUME NEW d \in Deliveries, SettleCommit(d)
        PROVE  Goal
    <2>o. PICK o \in Orders : o = dorder[d]
      BY <1>4 DEF SettleCommit
    <2>1. points'[u] = points[u] + Earns(d, u)
      BY <1>4 DEF SettleCommit
    <2>2. PICK n : /\ n = IF \E row \in NewRows(d) : row[3] = u THEN Reward(dorder[d]) ELSE 0
                   /\ pointsLogged'[u] = pointsLogged[u] + n
      BY <1>4 DEF SettleCommit
    <2>s. delivering[d] = "settle"
      BY <1>4 DEF SettleCommit
    <2>3. /\ n \in Nat /\ n <= Earns(d, u) /\ Earns(d, u) \in Nat
          /\ n # Earns(d, u) => u = Buyer[o] /\ <<o, "ORDER_REWARD", u>> \in pointLog
      BY <2>o, <2>2, <2>s, SettleLogs, RewardNat
    <2>4. <<o, "ORDER_REWARD", u>> \in pointLog => o \in cause \cup unlocked
      BY <2>o, <2>s DEF RowsInv
    <2>5. n # Earns(d, u) => o \in cause \cup unlocked /\ Explains(o, u)
      BY <2>3, <2>4 DEF Explains
    <2>6. QED
      BY <1>2, <1>3, <2>1, <2>2, <2>3, <2>5
  <1>5. ASSUME NEW a \in Admins, AdminRefund(a)
        PROVE  Goal
    <2>o. PICK o \in Orders : o = atarget[a] /\ Buyer[o] \in Users /\ pointsUsed[o] \in Nat
      BY <1>5, WalletAssumption DEF AdminRefund
    <2> DEFINE row == <<o, "ORDER_REFUND", Buyer[o]>>
    <2>1. CASE PayMethod[o] = "POINTS" /\ pointsUsed[o] > 0 /\ u = Buyer[o]
      <3>1. points'[u] = points[u] + pointsUsed[o]
        BY <1>5, <2>o, <2>1 DEF AdminRefund
      <3>2. pointsLogged'[u] = IF row \in pointLog THEN pointsLogged[u]
                               ELSE pointsLogged[u] + pointsUsed[o]
        BY <1>5, <2>o, <2>1 DEF AdminRefund
      <3>3. CASE row \in pointLog
        <4>1. o \in cause \/ status[o] = "REFUNDED"
          BY <2>o, <3>3 DEF RowsInv
        <4>2. o \in cause'
          BY <1>5, <2>o, <4>1, CauseGrows DEF AdminRefund, Stale
        <4>3. Explains(o, u)'
          BY <2>1, <3>3, LogsGrow DEF Explains
        <4>4. pointsLogged'[u] = pointsLogged[u] + 0
          BY <1>1, <3>2, <3>3
        <4>5. \E p \in cause' \cup unlocked' : Explains(p, u)'
          BY <4>2, <4>3
        <4>6. 0 \in Nat /\ 0 <= pointsUsed[o]
          BY <2>o
        <4>7. QED
          BY <1>3, <2>o, <3>1, <4>4, <4>5, <4>6
      <3>4. CASE row \notin pointLog
        BY <1>3, <2>o, <3>1, <3>2, <3>4
      <3>5. QED
        BY <3>3, <3>4
    <2>2. CASE ~(PayMethod[o] = "POINTS" /\ pointsUsed[o] > 0 /\ u = Buyer[o])
      <3>1. points'[u] = points[u] /\ pointsLogged'[u] = pointsLogged[u]
        BY <1>5, <2>o, <2>2 DEF AdminRefund
      <3>2. QED
        BY <1>1, <1>2, <3>1
    <2>3. QED
      BY <2>1, <2>2
  <1>6. ASSUME NEW n \in Int, points'[u] = points[u] + n, pointsLogged'[u] = pointsLogged[u] + n
        PROVE  Goal
    BY <1>1, <1>2, <1>6
  <1>7. ASSUME NEW o \in Orders, PayWithPoints(o)
        PROVE  Goal
    <2>1. pointsUsed[o] \in Nat /\ Buyer[o] \in Users
      BY WalletAssumption
    <2>2. CASE u = Buyer[o]
      <3>1. /\ points'[u] = points[u] - pointsUsed[o]
            /\ pointsLogged'[u] = pointsLogged[u] - pointsUsed[o]
        BY <1>7, <2>1, <2>2 DEF PayWithPoints
      <3>2. /\ points'[u] = points[u] + (- pointsUsed[o])
            /\ pointsLogged'[u] = pointsLogged[u] + (- pointsUsed[o])
            /\ - pointsUsed[o] \in Int
        BY <1>1, <2>1, <3>1
      <3>3. QED
        BY <1>6, <3>2
    <2>3. CASE u # Buyer[o]
      <3>1. points'[u] = points[u] /\ pointsLogged'[u] = pointsLogged[u]
        BY <1>7, <2>1, <2>3 DEF PayWithPoints
      <3>2. QED
        BY <1>1, <1>2, <3>1
    <2>4. QED
      BY <2>2, <2>3
  <1>8. ASSUME NEW a \in Admins, AdjustPointsWrite(a)
        PROVE  Goal
    <2>1. aamount[a] \in Int /\ atarget[a] \in Users
      BY <1>8 DEF AdjustPointsWrite
    <2>2. CASE u = atarget[a]
      <3>1. /\ points'[u] = points[u] + aamount[a]
            /\ pointsLogged'[u] = pointsLogged[u] + aamount[a]
        BY <1>8, <2>1, <2>2 DEF AdjustPointsWrite
      <3>2. QED
        BY <1>6, <2>1, <3>1
    <2>3. CASE u # atarget[a]
      <3>1. points'[u] = points[u] /\ pointsLogged'[u] = pointsLogged[u]
        BY <1>8, <2>1, <2>3 DEF AdjustPointsWrite
      <3>2. QED
        BY <1>1, <1>2, <3>1
    <2>4. QED
      BY <2>2, <2>3
  <1>9. CASE UNCHANGED pointVars
    BY <1>1, <1>2, <1>9 DEF pointVars
  <1>10. QED
    BY <1>4, <1>5, <1>7, <1>8, <1>9, PointWriters

(* Points never fall behind the log, and run ahead of it only for an order *)
(* that was overwritten on a stale read or delivered without the lock, and *)
(* that had its row already.                                               *)
THEOREM PointsLogged == Spec => []PointsAreLogged
  <1>1. Init => InviteInv /\ PointsAreLogged
    BY DEF Init, InviteInv, InviteRewardedOnce, PointsAreLogged
  <1>2. TypeOK /\ InviteInv /\ [Next]_vars => InviteInv'
    BY InviteStep
  <1>3. TypeOK /\ CreatedInv /\ InviteInv /\ RowsInv /\ PointsAreLogged /\ [Next]_vars
        => PointsAreLogged'
    BY PointsStep
  <1>4. QED
    BY <1>1, <1>2, <1>3, TypeCorrect, OrdersAreConsistent, PTL DEF Spec

(* An adjustment under way was checked against what it read. *)
AdjustInv ==
    /\ PointsNotNegative
    /\ \A a \in Admins : aop[a] = "adjust" => aread[a] + aamount[a] >= 0

LEMMA AdjustStep ==
    ASSUME TypeOK, AdjustInv, [Next]_vars
    PROVE  AdjustInv'
  <1>1. QED
  <2> USE TypeOK, AdjustInv, [Next]_vars, WalletAssumption
      DEF TypeOK, AdjustInv, PointsNotNegative,
          balanceVars, pointVars, vipVars, orderVars, stepVars, deliveryVars, adminVars
  <2>1. ASSUME NEW o \in Orders, Create(o)
       PROVE  AdjustInv'
    BY <2>1 DEF Create, SetStatus
  <2>2. ASSUME NEW o \in Orders, PayRead(o)
       PROVE  AdjustInv'
    BY <2>2 DEF PayRead
  <2>3. ASSUME NEW o \in Orders, PayWithBalance(o)
       PROVE  AdjustInv'
    BY <2>3 DEF PayWithBalance, PaidFromWallet, SetStatus, Stale
  <2>4. ASSUME NEW o \in Orders, PayWithPoints(o)
       PROVE  AdjustInv'
    BY <2>4 DEF PayWithPoints, PaidFromWallet, SetStatus, Stale
  <2>5. ASSUME NEW o \in Orders, PayFails(o)
       PROVE  AdjustInv'
    BY <2>5 DEF PayFails
  <2>6. ASSUME NEW o \in Orders, CloseExpired(o)
       PROVE  AdjustInv'
    BY <2>6 DEF CloseExpired, SetStatus
  <2>7. ASSUME NEW o \in Orders, ManualDeliver(o)
       PROVE  AdjustInv'
    BY <2>7 DEF ManualDeliver, Adjusting, SetStatus, Stale
  <2>8. ASSUME NEW o \in Orders, DeliverPaid(o)
       PROVE  AdjustInv'
    BY <2>8 DEF DeliverPaid, StartDelivery, Lock, Adjusting
  <2>9. ASSUME NEW d \in Deliveries, NEW o \in Orders, Redeliver(d, o)
       PROVE  AdjustInv'
    BY <2>9 DEF Redeliver, StartDelivery, Lock, Adjusting
  <2>10. ASSUME NEW d \in Deliveries, SettleRead(d)
       PROVE  AdjustInv'
    BY <2>10 DEF SettleRead
  <2>11. ASSUME NEW d \in Deliveries, SettleCommit(d)
       PROVE  AdjustInv'
    <3>1. \A u \in Users : Earns(d, u) \in Nat /\ points'[u] = points[u] + Earns(d, u)
      BY <2>11, RewardNat DEF SettleCommit
    <3>2. UNCHANGED adminVars
      BY <2>11 DEF SettleCommit
    <3>3. QED
      BY <3>1, <3>2
  <2>12. ASSUME NEW d \in Deliveries, DeliveryFails(d)
       PROVE  AdjustInv'
    BY <2>12 DEF DeliveryFails, EndDelivery
  <2>13. ASSUME NEW a \in Admins, NEW o \in Orders, AdminRead(a, o)
       PROVE  AdjustInv'
    BY <2>13 DEF AdminRead
  <2>14. ASSUME NEW a \in Admins, NEW u \in Users, NEW n \in Amounts[u], AdjustPointsRead(a, u, n)
       PROVE  AdjustInv'
    <3>1. n \in Int
      OBVIOUS
    <3>2. QED
      BY <2>14, <3>1 DEF AdjustPointsRead
  <2>15. ASSUME NEW a \in Admins, AdminCancel(a)
       PROVE  AdjustInv'
    BY <2>15 DEF AdminCancel, EndRequest, SetStatus, Stale
  <2>16. ASSUME NEW a \in Admins, AdminConfirm(a)
       PROVE  AdjustInv'
    BY <2>16 DEF AdminConfirm, EndRequest, SetStatus, Stale
  <2>17. ASSUME NEW a \in Admins, AdminRefund(a)
       PROVE  AdjustInv'
    <3>1. \A u \in Users : points'[u] \in Int /\ points'[u] >= points[u]
      <4>1. atarget[a] \in Orders /\ pointsUsed[atarget[a]] \in Nat
        BY <2>17 DEF AdminRefund
      <4>2. CASE UNCHANGED points
        BY <4>2
      <4>3. CASE points' = [points EXCEPT ![Buyer[atarget[a]]] = @ + pointsUsed[atarget[a]]]
        BY <4>1, <4>3
      <4>4. QED
        BY <2>17, <4>2, <4>3 DEF AdminRefund
    <3>2. /\ raced' = raced
          /\ \A b \in Admins : aop'[b] = "adjust"
                => aop[b] = "adjust" /\ aread'[b] = aread[b] /\ aamount'[b] = aamount[b]
      BY <2>17 DEF AdminRefund, EndRequest
    <3>3. PointsNotNegative'
      BY <3>1, <3>2
    <3>4. QED
      BY <3>2, <3>3
  <2>18. ASSUME NEW a \in Admins, AdminFails(a)
       PROVE  AdjustInv'
    BY <2>18 DEF AdminFails, EndRequest
  <2>19. ASSUME NEW a \in Admins, AdjustPointsWrite(a)
       PROVE  AdjustInv'
    BY <2>19 DEF AdjustPointsWrite, EndRequest
  <2>20. ASSUME NEW u \in Users, NEW n \in Amounts[u], AdjustBalance(u, n)
       PROVE  AdjustInv'
    BY <2>20 DEF AdjustBalance, Adjusting, Accrue
  <2>21. ASSUME NEW u \in Users, NEW t \in ManualTiers, ManualSet(u, t)
       PROVE  AdjustInv'
    BY <2>21 DEF ManualSet, Adjusting
  <2>22. CASE UNCHANGED vars
    BY <2>22 DEF vars
  <2> QED
    BY <2>1, <2>2, <2>3, <2>4, <2>5, <2>6, <2>7, <2>8, <2>9, <2>10, <2>11,
       <2>12, <2>13, <2>14, <2>15, <2>16, <2>17, <2>18, <2>19, <2>20, <2>21,
       <2>22
       DEF Next, OrderNext, DeliveryNext, AdminNext, UserNext

(* Points fall below zero only if they moved while an admin's adjustment   *)
(* was between its check and its increment.                                *)
THEOREM PointsStayPositive == Spec => []PointsNotNegative
  <1>1. Init => AdjustInv
    BY DEF Init, AdjustInv, PointsNotNegative
  <1>2. TypeOK /\ AdjustInv /\ [Next]_vars => AdjustInv'
    BY AdjustStep
  <1>3. AdjustInv => PointsNotNegative
    BY DEF AdjustInv
  <1>4. QED
    BY <1>1, <1>2, <1>3, TypeCorrect, PTL DEF Spec

-----------------------------------------------------------------------------
(* The price. *)

LEMMA PriceWriters ==
    ASSUME TypeOK, CreatedInv, [Next]_vars
    PROVE  \/ \E o \in Orders : Create(o)
           \/ /\ UNCHANGED payAmount
              /\ \A o \in Orders : status[o] = "NONE" => status'[o] = "NONE"
  <1> DEFINE Kept == /\ UNCHANGED payAmount
                     /\ \A p \in Orders : status[p] = "NONE" => status'[p] = "NONE"
  <1> SUFFICES ASSUME ~ \E o \in Orders : Create(o)
               PROVE  Kept
    OBVIOUS
  <1>1. QED
  <2> USE TypeOK, CreatedInv, [Next]_vars
      DEF TypeOK, CreatedInv,
          balanceVars, pointVars, vipVars, orderVars, stepVars, deliveryVars, adminVars
  <2>1. ASSUME NEW o \in Orders, Create(o)
       PROVE  Kept
    BY <2>1
  <2>2. ASSUME NEW o \in Orders, PayRead(o)
       PROVE  Kept
    BY <2>2 DEF PayRead
  <2>3. ASSUME NEW o \in Orders, PayWithBalance(o)
       PROVE  Kept
    BY <2>3 DEF PayWithBalance, PaidFromWallet, SetStatus, Stale
  <2>4. ASSUME NEW o \in Orders, PayWithPoints(o)
       PROVE  Kept
    BY <2>4 DEF PayWithPoints, PaidFromWallet, SetStatus, Stale
  <2>5. ASSUME NEW o \in Orders, PayFails(o)
       PROVE  Kept
    BY <2>5 DEF PayFails
  <2>6. ASSUME NEW o \in Orders, CloseExpired(o)
       PROVE  Kept
    BY <2>6 DEF CloseExpired, SetStatus
  <2>7. ASSUME NEW o \in Orders, ManualDeliver(o)
       PROVE  Kept
    BY <2>7 DEF ManualDeliver, Adjusting, SetStatus, Stale
  <2>8. ASSUME NEW o \in Orders, DeliverPaid(o)
       PROVE  Kept
    BY <2>8 DEF DeliverPaid, StartDelivery, Lock, Adjusting
  <2>9. ASSUME NEW d \in Deliveries, NEW o \in Orders, Redeliver(d, o)
       PROVE  Kept
    BY <2>9 DEF Redeliver, StartDelivery, Lock, Adjusting
  <2>10. ASSUME NEW d \in Deliveries, SettleRead(d)
       PROVE  Kept
    BY <2>10 DEF SettleRead
  <2>11. ASSUME NEW d \in Deliveries, SettleCommit(d)
       PROVE  Kept
    BY <2>11 DEF SettleCommit, EndDelivery, SetStatus, Stale
  <2>12. ASSUME NEW d \in Deliveries, DeliveryFails(d)
       PROVE  Kept
    BY <2>12 DEF DeliveryFails, EndDelivery
  <2>13. ASSUME NEW a \in Admins, NEW o \in Orders, AdminRead(a, o)
       PROVE  Kept
    BY <2>13 DEF AdminRead
  <2>14. ASSUME NEW a \in Admins, NEW u \in Users, NEW n \in Amounts[u], AdjustPointsRead(a, u, n)
       PROVE  Kept
    BY <2>14 DEF AdjustPointsRead, Adjusting
  <2>15. ASSUME NEW a \in Admins, AdminCancel(a)
       PROVE  Kept
    BY <2>15 DEF AdminCancel, EndRequest, SetStatus, Stale
  <2>16. ASSUME NEW a \in Admins, AdminConfirm(a)
       PROVE  Kept
    BY <2>16 DEF AdminConfirm, EndRequest, SetStatus, Stale
  <2>17. ASSUME NEW a \in Admins, AdminRefund(a)
       PROVE  Kept
    BY <2>17 DEF AdminRefund, EndRequest, SetStatus, Stale
  <2>18. ASSUME NEW a \in Admins, AdminFails(a)
       PROVE  Kept
    BY <2>18 DEF AdminFails, EndRequest
  <2>19. ASSUME NEW a \in Admins, AdjustPointsWrite(a)
       PROVE  Kept
    BY <2>19 DEF AdjustPointsWrite, EndRequest
  <2>20. ASSUME NEW u \in Users, NEW n \in Amounts[u], AdjustBalance(u, n)
       PROVE  Kept
    BY <2>20 DEF AdjustBalance, Adjusting, Accrue
  <2>21. ASSUME NEW u \in Users, NEW t \in ManualTiers, ManualSet(u, t)
       PROVE  Kept
    BY <2>21 DEF ManualSet, Adjusting
  <2>22. CASE UNCHANGED vars
    BY <2>22 DEF vars
  <2> QED
    BY <2>1, <2>2, <2>3, <2>4, <2>5, <2>6, <2>7, <2>8, <2>9, <2>10, <2>11,
       <2>12, <2>13, <2>14, <2>15, <2>16, <2>17, <2>18, <2>19, <2>20, <2>21,
       <2>22
       DEF Next, OrderNext, DeliveryNext, AdminNext, UserNext

LEMMA PriceStep ==
    ASSUME TypeOK, CreatedInv, FairPrice, [Next]_vars
    PROVE  FairPrice'
  <1>1. ASSUME NEW o \in Orders, Create(o)
        PROVE  FairPrice'
    <2> DEFINE amount == ApplyDiscount(Price[o], GetDiscount(Buyer[o], vipTier[Buyer[o]], o))
    <2>1. 2 * amount + 1 >= Price[o] /\ amount <= Price[o]
      BY DiscountBounds, PriceBounds, WalletAssumption DEF TypeOK
    <2>2. payAmount' = [payAmount EXCEPT ![o] = amount]
      BY <1>1 DEF Create
    <2> HIDE DEF amount
    <2>3. QED
      BY <1>1, <2>1, <2>2 DEF Create, SetStatus, TypeOK, FairPrice
  <1>2. CASE /\ UNCHANGED payAmount
             /\ \A o \in Orders : status[o] = "NONE" => status'[o] = "NONE"
    BY <1>2 DEF FairPrice
  <1>3. QED
    BY <1>1, <1>2, PriceWriters

(* Every order costs between half its price, to the half cent, and its     *)
(* price, whatever the configuration, the tier and the doubles.            *)
THEOREM PricesAreFair == Spec => []FairPrice
  <1>1. Init => FairPrice
    BY DEF Init, FairPrice
  <1>2. TypeOK /\ CreatedInv /\ FairPrice /\ [Next]_vars => FairPrice'
    BY PriceStep
  <1>3. QED
    BY <1>1, <1>2, TypeCorrect, OrdersAreConsistent, PTL DEF Spec
=============================================================================
