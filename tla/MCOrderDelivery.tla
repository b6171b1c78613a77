------------------------- MODULE MCOrderDelivery -------------------------
(* Instances of OrderDelivery for TLC: two order numbers and how many cards *)
(* each of them buys.                                                       *)
EXTENDS OrderDelivery, TLC

CONSTANTS o1, o2

BuyTwo == o1 :> 2
BuyOne == o1 :> 1
BuyOneEach == o1 :> 1 @@ o2 :> 1
BuyOneAndTwo == o1 :> 1 @@ o2 :> 2
=============================================================================
