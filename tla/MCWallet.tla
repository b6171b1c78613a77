------------------------------ MODULE MCWallet ------------------------------
(* Instances of Wallet for TLC: a buyer who was invited, two orders. *)
EXTENDS Wallet, TLC

CONSTANTS u1, u2, o1, o2

BuyerU1 == [o \in Orders |-> u1]
U2Invites == (u1 :> u2) @@ (u2 :> None)
Prices == (o1 :> 201) @@ (o2 :> 200)
BalanceAndPoints == (o1 :> "BALANCE") @@ (o2 :> "POINTS")
Rates == [o \in Orders |-> 10000]

SmallAmounts == (u1 :> {-201, 201}) @@ (u2 :> {})

(* 2.01 at half the price is 1.00 in doubles, where 1.005 is exact. *)
HalfOf201 == {<<201, 5000>>}

(* The requests of the back office are alike, and so are the deliveries. *)
Symmetry == Permutations(Admins) \cup Permutations(Deliveries)

Thresholds == "GOLD" :> 200 @@ "DIAMOND" :> 400 @@ "SUPREME" :> 1000
Defaults == "GOLD" :> 9000 @@ "DIAMOND" :> 3000 @@ "SUPREME" :> 5000
OneProduct == <<o2, "GOLD">> :> 12000
CustomDiscounts == (u1 :> 9500) @@ (u2 :> 10000)
=============================================================================
