------------------------- MODULE MCPaymentWindow -------------------------
(* Instances of PaymentWindow for TLC.  A behaviour has the bills, the      *)
(* calls, the pushes and the failures of one member of Mixes, chosen at the *)
(* start, so that one run covers recharges with failures, orders marked by  *)
(* hand, and orders within the batches of the cron tasks.                   *)
EXTENDS PaymentWindow, TLC

CONSTANTS Mixes, o1, o2, r1, c1, c2

VARIABLE mix

Mix(ofBills, ofCalls, most, byHand, f) ==
    [bills |-> ofBills, calls |-> ofCalls, pushes |-> most, hands |-> byHand, faults |-> f]

Recharging == Mix({r1}, {c1, c2}, 3, FALSE, 2)
Marking == Mix({o1}, {c1}, 2, TRUE, 1)
Ordering == Mix({o1, o2}, {c1}, 1, FALSE, 0)
Racing == Mix({r1}, {c1}, 1, FALSE, 0)

AllMixes == {Recharging, Marking, Ordering}
RaceMix == {Racing}

Within ==
    /\ \A b \in Bills \ mix.bills : status'[b] = status[b]
    /\ \A c \in Calls \ mix.calls : ppc'[c] = "idle"
    /\ \A k \in Kinds \ {KindOf(b) : b \in mix.bills} : cstep'[k] = "idle" /\ rstep'[k] = "idle"
    /\ mix.bills \subseteq Orders => creator' = creator
    /\ mix.hands \/ (marker' = None /\ canceller' = None)
    /\ \A b \in Bills : pushes'[b] <= mix.pushes
    /\ faults' <= mix.faults

MixInit == Init /\ mix \in Mixes
MixNext == Next /\ Within /\ UNCHANGED mix
MixSpec == MixInit /\ [][MixNext]_<<vars, mix>> /\ Fairness
=============================================================================
