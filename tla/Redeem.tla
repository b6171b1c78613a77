------------------------------- MODULE Redeem -------------------------------
(***************************************************************************)
(* Redeem codes (redeem.service.ts).  A redemption reserves one use of its *)
(* code in a transaction with an optimistic lock on usedCount, and spends  *)
(* it afterwards, statement by statement: the order, the record, the       *)
(* delivery.  Between any two of them the back office may disable or       *)
(* delete the code, its product may go, and the process may stop.          *)
(*                                                                         *)
(*   Requests   redemptions that can be under way together                 *)
(***************************************************************************)
EXTENDS Common

CONSTANTS
    Codes, Requests,
    MaxUses         \* redeem_codes.maxUses

ASSUME RedeemAssumption ==
    /\ MaxUses \in [Codes -> Nat \ {0}]
    /\ None \notin Codes
    /\ IsFiniteSet(Requests)

VARIABLES
    status, used,       \* redeem_codes: status, usedCount
    expired,            \* codes whose expireAt has passed
    goods,              \* codes whose sku exists and is delivered locally
    made,               \* orders: the code an order was made from
    recorded,           \* orders with a row in redeem_records
    rstep, rcode,       \* a redemption: step, code
    rused,              \* usedCount as its transaction read it
    rorder,             \* the order it made
    dcode,              \* a deletion: the code it found unused
    lost                \* history: uses reserved for which no order was made

codeVars == <<status, used, expired, goods>>
orderVars == <<made, recorded>>
requestVars == <<rstep, rcode, rused, rorder>>
redeemVars == <<codeVars, orderVars, requestVars, dcode, lost>>

CodeStatuses == {"NONE", "ACTIVE", "DISABLED", "EXHAUSTED", "GONE"}
RequestSteps == {"idle", "reserve", "load", "rollback", "order", "record", "deliver"}

RedeemTypeOK ==
    /\ status \in [Codes -> CodeStatuses]
    /\ used \in [Codes -> Int]
    /\ expired \subseteq Codes
    /\ goods \subseteq Codes
    /\ made \in [Orders -> Codes \cup {None}]
    /\ recorded \subseteq Orders
    /\ rstep \in [Requests -> RequestSteps]
    /\ rcode \in [Requests -> Codes \cup {None}]
    /\ rused \in [Requests -> Int]
    /\ rorder \in [Requests -> Orders \cup {None}]
    /\ dcode \in [Admins -> Codes \cup {None}]
    /\ lost \in [Codes -> Nat]
    /\ \A q \in Requests : rstep[q] # "idle" => rcode[q] \in Codes
    /\ \A q \in Requests : rstep[q] \in {"record", "deliver"} => rorder[q] \in Orders

RedeemInit ==
    /\ status = [c \in Codes |-> "NONE"]
    /\ used = [c \in Codes |-> 0]
    /\ expired = {}
    /\ goods = Codes
    /\ made = [o \in Orders |-> None]
    /\ recorded = {}
    /\ rstep = [q \in Requests |-> "idle"]
    /\ rcode = [q \in Requests |-> None]
    /\ rused = [q \in Requests |-> 0]
    /\ rorder = [q \in Requests |-> None]
    /\ dcode = [a \in Admins |-> None]
    /\ lost = [c \in Codes |-> 0]

Exists(c) == status[c] \notin {"NONE", "GONE"}
OrdersOf(c) == {o \in Orders : made[o] = c}

(* Redemptions that hold a reserved use for which there is no order yet.   *)
Holding(c) == {q \in Requests : rcode[q] = c /\ rstep[q] \in {"load", "rollback", "order"}}

Goto(q, s) == rstep' = [rstep EXCEPT ![q] = s]

(* The request ends and forgets what it read.                              *)
End(q) ==
    /\ Goto(q, "idle")
    /\ rcode' = [rcode EXCEPT ![q] = None]
    /\ rused' = [rused EXCEPT ![q] = 0]
    /\ rorder' = [rorder EXCEPT ![q] = None]

Lose(c) == lost' = [lost EXCEPT ![c] = @ + 1]

-----------------------------------------------------------------------------
(* The back office and the world. *)

(* One code of a batch; a random code that exists already is drawn again.  *)
Generate(c) ==
    /\ status[c] = "NONE"
    /\ status' = [status EXCEPT ![c] = "ACTIVE"]
    /\ UNCHANGED <<used, expired, goods, orderVars, requestVars, dcode, lost, faults>>

(* An update by id, whatever the status is.                                *)
ToggleStatus(c, s) ==
    /\ Exists(c)
    /\ status' = [status EXCEPT ![c] = s]
    /\ UNCHANGED <<used, expired, goods, orderVars, requestVars, dcode, lost, faults>>

RemoveRead(a, c) ==
    /\ dcode[a] = None
    /\ Exists(c)
    /\ used[c] <= 0
    /\ dcode' = [dcode EXCEPT ![a] = c]
    /\ UNCHANGED <<codeVars, orderVars, requestVars, lost, faults>>

(* The row goes with its records, used meanwhile or not.                   *)
RemoveWrite(a) ==
    LET c == dcode[a] IN
    /\ c # None
    /\ status' = [status EXCEPT ![c] = IF Exists(c) THEN "GONE" ELSE @]
    /\ recorded' = IF Exists(c) THEN recorded \ OrdersOf(c) ELSE recorded
    /\ dcode' = [dcode EXCEPT ![a] = None]
    /\ UNCHANGED <<used, expired, goods, made, requestVars, lost, faults>>

BatchRemove(c) ==
    /\ Exists(c)
    /\ used[c] = 0
    /\ status' = [status EXCEPT ![c] = "GONE"]
    /\ recorded' = recorded \ OrdersOf(c)
    /\ UNCHANGED <<used, expired, goods, made, requestVars, dcode, lost, faults>>

Expires(c) ==
    /\ Exists(c)
    /\ c \notin expired
    /\ expired' = expired \cup {c}
    /\ UNCHANGED <<status, used, goods, orderVars, requestVars, dcode, lost, faults>>

(* The sku is deleted, or its product handed to another channel, or back.  *)
GoodsChange(c) ==
    /\ goods' = IF c \in goods THEN goods \ {c} ELSE goods \cup {c}
    /\ UNCHANGED <<status, used, expired, orderVars, requestVars, dcode, lost, faults>>

-----------------------------------------------------------------------------
(* A redemption. *)

(* What the transaction reads and refuses.  It means to store EXPIRED, but *)
(* throws in the same transaction, so an expired code keeps its status.    *)
Redeemable(c) ==
    /\ Exists(c)
    /\ c \in goods
    /\ status[c] \notin {"DISABLED", "EXHAUSTED"}
    /\ used[c] < MaxUses[c]
    /\ c \notin expired

ReserveRead(q, c) ==
    /\ rstep[q] = "idle"
    /\ Redeemable(c)
    /\ Goto(q, "reserve")
    /\ rcode' = [rcode EXCEPT ![q] = c]
    /\ rused' = [rused EXCEPT ![q] = used[c]]
    /\ UNCHANGED <<codeVars, orderVars, rorder, dcode, lost, faults>>

(* Mutant: usedCount is not compared with the one read.                    *)
ReserveWrite_NoLock(q) ==
    LET c == rcode[q]  next == rused[q] + 1 IN
    /\ rstep[q] = "reserve"
    /\ status[c] = "ACTIVE"
    /\ used' = [used EXCEPT ![c] = next]
    /\ status' = [status EXCEPT ![c] = IF next >= MaxUses[c] THEN "EXHAUSTED" ELSE "ACTIVE"]
    /\ Goto(q, "load")
    /\ UNCHANGED <<expired, goods, orderVars, rcode, rused, rorder, dcode, lost, faults>>

(* updateMany where usedCount is the one read and status is ACTIVE; the    *)
(* transaction fails when no row matches.                                  *)
ReserveWrite(q) ==
    LET c == rcode[q]  next == rused[q] + 1 IN
    /\ rstep[q] = "reserve"
    /\ used[c] = rused[q] /\ status[c] = "ACTIVE"
    /\ used' = [used EXCEPT ![c] = next]
    /\ status' = [status EXCEPT ![c] = IF next >= MaxUses[c] THEN "EXHAUSTED" ELSE "ACTIVE"]
    /\ Goto(q, "load")
    /\ UNCHANGED <<expired, goods, orderVars, rcode, rused, rorder, dcode, lost, faults>>

ReserveBusy(q) ==
    /\ rstep[q] = "reserve"
    /\ ~(used[rcode[q]] = rused[q] /\ status[rcode[q]] = "ACTIVE")
    /\ End(q)
    /\ UNCHANGED <<codeVars, orderVars, dcode, lost, faults>>

(* The code and its sku are read again after the transaction.              *)
Load(q) ==
    LET c == rcode[q] IN
    /\ rstep[q] = "load"
    /\ Exists(c)
    /\ Goto(q, IF c \in goods THEN "order" ELSE "rollback")
    /\ UNCHANGED <<codeVars, orderVars, rcode, rused, rorder, dcode, lost, faults>>

LoadFindsNothing(q) ==
    /\ rstep[q] = "load"
    /\ ~Exists(rcode[q])
    /\ Lose(rcode[q])
    /\ End(q)
    /\ UNCHANGED <<codeVars, orderVars, dcode, faults>>

(* rollbackUsage: the use is given back and the code ACTIVE, also when it  *)
(* was disabled meanwhile.                                                 *)
Rollback(q) ==
    LET c == rcode[q] IN
    /\ rstep[q] = "rollback"
    /\ Exists(c)
    /\ used' = [used EXCEPT ![c] = @ - 1]
    /\ status' = [status EXCEPT ![c] = "ACTIVE"]
    /\ End(q)
    /\ UNCHANGED <<expired, goods, orderVars, dcode, lost, faults>>

(* Its errors are swallowed: a deleted code, or the database.              *)
RollbackFails(q) ==
    /\ rstep[q] = "rollback"
    /\ IF Exists(rcode[q]) THEN Fault("database") ELSE UNCHANGED faults
    /\ Lose(rcode[q])
    /\ End(q)
    /\ UNCHANGED <<codeVars, orderVars, dcode>>

MakeOrder(q, o) ==
    /\ rstep[q] = "order"
    /\ made[o] = None
    /\ made' = [made EXCEPT ![o] = rcode[q]]
    /\ rorder' = [rorder EXCEPT ![q] = o]
    /\ Goto(q, "record")
    /\ UNCHANGED <<codeVars, recorded, rcode, rused, dcode, lost, faults>>

(* The record refers to the code; without it the insert fails, and the     *)
(* order stays PAID without a delivery.                                    *)
MakeRecord(q) ==
    /\ rstep[q] = "record"
    /\ IF Exists(rcode[q])
       THEN /\ recorded' = recorded \cup {rorder[q]}
            /\ Goto(q, "deliver")
            /\ UNCHANGED <<rcode, rused, rorder>>
       ELSE End(q) /\ UNCHANGED recorded
    /\ UNCHANGED <<codeVars, made, dcode, lost, faults>>

(* Mutant: a failed delivery gives the use back.                           *)
Deliver_GivesBack(q) ==
    /\ rstep[q] = "deliver"
    /\ used' = [used EXCEPT ![rcode[q]] = @ - 1]
    /\ status' = [status EXCEPT ![rcode[q]] = "ACTIVE"]
    /\ End(q)
    /\ UNCHANGED <<expired, goods, orderVars, dcode, lost, faults>>

(* markPaidAndDeliver; whatever it does, the use stays spent.              *)
Deliver(q) ==
    /\ rstep[q] = "deliver"
    /\ End(q)
    /\ UNCHANGED <<codeVars, orderVars, dcode, lost, faults>>

(* The process stops in the middle of a redemption.                        *)
Dies(q) ==
    /\ rstep[q] # "idle"
    /\ Fault("crash")
    /\ lost' = IF q \in Holding(rcode[q]) THEN [lost EXCEPT ![rcode[q]] = @ + 1] ELSE lost
    /\ End(q)
    /\ UNCHANGED <<codeVars, orderVars, dcode>>

-----------------------------------------------------------------------------
BackOffice ==
    \/ \E c \in Codes : Generate(c) \/ BatchRemove(c)
    \/ \E c \in Codes, s \in {"ACTIVE", "DISABLED"} : ToggleStatus(c, s)
    \/ \E a \in Admins : RemoveWrite(a) \/ \E c \in Codes : RemoveRead(a, c)
    \/ \E c \in Codes : Expires(c) \/ GoodsChange(c)

(* A redemption up to its delivery.                                        *)
Redemption(q) ==
    \/ \E c \in Codes : ReserveRead(q, c)
    \/ ReserveWrite(q) \/ ReserveBusy(q)
    \/ Load(q) \/ LoadFindsNothing(q)
    \/ Rollback(q) \/ RollbackFails(q)
    \/ \E o \in Orders : MakeOrder(q, o)
    \/ MakeRecord(q)
    \/ Dies(q)

RedeemNext == BackOffice \/ \E q \in Requests : Redemption(q) \/ Deliver(q)

RedeemSpec == RedeemInit /\ faults = 0 /\ [][RedeemNext]_<<redeemVars, faults>>

-----------------------------------------------------------------------------
(* No more orders are made from a code than it has uses: however many      *)
(* redemptions, toggles and rollbacks run together (redeem: "防并发超用").  *)
NeverOverused == \A c \in Codes : Cardinality(OrdersOf(c)) <= MaxUses[c]

(* usedCount neither drifts nor forgets: it counts the orders, the uses    *)
(* reserved by redemptions under way, and those lost with a request that   *)
(* died or found its code deleted.                                         *)
UsesAddUp ==
    \A c \in Codes :
        used[c] = Cardinality(OrdersOf(c)) + Cardinality(Holding(c)) + lost[c]
=============================================================================
