----------------------------- MODULE VipPricing -----------------------------
(***************************************************************************)
(* Membership tiers and the price a member pays:                           *)
(* apps/api/src/modules/vip/vip.service.ts.  Money is in cents, discounts  *)
(* Decimal(5, 4), in units of 0.0001.  The rows of vip_configs and         *)
(* product_discounts and a user's customDiscount do not change here.       *)
(***************************************************************************)
EXTENDS Integers

CONSTANTS
    Threshold,          \* Threshold[t]: recharged total that earns tier t
    DefaultDiscount,    \* DefaultDiscount[t]
    ProductDiscount,    \* ProductDiscount[<<product, t>>], where there is a row
    CustomDiscount,     \* CustomDiscount[user]; One where the column is null
    FallsShort          \* <<amount, rate>> whose product in doubles falls short

PaidTiers == {"GOLD", "DIAMOND", "SUPREME"}
VipTier == PaidTiers \cup {"NONE"}

(* The multiplier 1.0000, and DISCOUNT_FLOOR. *)
One == 10000
Floor == 5000

ASSUME ThresholdAssumption == Threshold \in [PaidTiers -> Nat]
ASSUME DiscountAssumption ==
    /\ DefaultDiscount \in [PaidTiers -> Nat]
    /\ \A row \in DOMAIN ProductDiscount : ProductDiscount[row] \in Nat
    /\ \A u \in DOMAIN CustomDiscount : CustomDiscount[u] \in Nat
    /\ FallsShort \subseteq (Nat \ {0}) \X (Nat \ {0})

TierRank == [t \in VipTier |->
    CASE t = "NONE" -> 0 [] t = "GOLD" -> 1 [] t = "DIAMOND" -> 2 [] OTHER -> 3]

(* The first row, by descending threshold, that the total reaches.  With   *)
(* equal thresholds the database may return either row first.              *)
ComputeTier(total) ==
    LET reached == {t \in PaidTiers : total >= Threshold[t]} IN
    IF reached = {} THEN {"NONE"}
    ELSE {t \in reached : \A r \in reached : Threshold[r] <= Threshold[t]}

VipDiscount(tier, product) ==
    IF tier = "NONE" THEN One
    ELSE IF <<product, tier>> \in DOMAIN ProductDiscount
         THEN ProductDiscount[<<product, tier>>]
         ELSE DefaultDiscount[tier]

(* The better of two discounts is the lower multiplier. *)
Better(d, e) == IF e < d THEN e ELSE d

(* Mutant of Clamp: no floor. *)
Clamp_NoFloor(d) == IF d > One THEN One ELSE d

Clamp(d) == IF d < Floor THEN Floor ELSE IF d > One THEN One ELSE d

GetDiscount(user, tier, product) ==
    Clamp(Better(VipDiscount(tier, product), CustomDiscount[user]))

(* An amount times a rate, both doubles.  The error is far below a unit    *)
(* here and shows only where the exact product lies on the edge of a       *)
(* rounding: 2.01 * 0.5 is 1.00499..., and 1.00 once it is rounded.        *)
Product(amount, rate) ==
    IF <<amount, rate>> \in FallsShort THEN amount * rate - 1 ELSE amount * rate

(* round2: half a cent upwards, of the product as the machine has it *)
ApplyDiscount(amount, discount) ==
    IF discount >= One \/ amount <= 0 THEN amount
    ELSE (Product(amount, discount) + One \div 2) \div One
=============================================================================
