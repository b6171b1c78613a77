--------------------------- MODULE PaymentWindow ---------------------------
(***************************************************************************)
(* The window in which a bill can be paid through Alipay: card orders      *)
(* (orders.service.ts, orders.cron.ts) and recharges (recharge/), from     *)
(* their creation to PAID, EXPIRED or CANCELLED.  What follows PAID is     *)
(* OrderDelivery.  The trade at Alipay and its notifications are external. *)
(*                                                                         *)
(*   Calls   requests that confirm a payment: Alipay's notification, the   *)
(*           browser's return, an admin's query                            *)
(*   Kinds   the two pairs of cron tasks, one for orders, one for          *)
(*           recharges; each confirms payments too (recoverLostNotify)     *)
(*                                                                         *)
(* All bills are one user's.  A run of a cron task ends before the next    *)
(* run of the same task starts.                                            *)
(***************************************************************************)
EXTENDS Integers, FiniteSets

CONSTANTS
    Orders,         \* card orders with payMethod ALIPAY
    Recharges,
    Calls,
    MaxPushes,      \* Alipay's attempts to notify (8 after the first)
    CloseBatch,     \* take: 50 in the expiry tasks
    RecoverBatch,   \* take: 20 in recoverLostNotify
    MaxPending,     \* MAX_PENDING_PER_24H
    MaxPaid,        \* MAX_PAID_PER_24H
    Creators,       \* requests that create a recharge
    None,
    FaultKinds,     \* the failures of the environment that occur
    MaxFaults       \* bound on their number

Bills == Orders \cup Recharges
KindOf(b) == IF b \in Orders THEN "order" ELSE "recharge"
Kinds == {KindOf(b) : b \in Bills}
Procs == Calls \cup Kinds

(* lost: a notification does not arrive; check: one arrives and is not     *)
(* accepted, as the shop's keys, seller or switch have changed; amount: a  *)
(* trade is paid with another amount; early: a buyer is sent back before   *)
(* the trade is paid; abort: a transaction fails; network: a call of       *)
(* Alipay's gateway fails; crash: the process stops.                       *)
AllFaultKinds == {"lost", "check", "amount", "early", "abort", "network", "crash"}

ASSUME BillsAssumption == Orders \cap Recharges = {} /\ None \notin Bills
ASSUME ProcsAssumption == Calls \cap Kinds = {}
ASSUME BatchAssumption == CloseBatch \in Nat \ {0} /\ RecoverBatch \in Nat \ {0}
ASSUME LimitAssumption == MaxPushes \in Nat /\ MaxPending \in Nat /\ MaxPaid \in Nat
ASSUME FaultAssumption == MaxFaults \in Nat /\ FaultKinds \subseteq AllFaultKinds

VARIABLES
    status,             \* orders.status and recharge_orders.status
    age,                \* createdAt and expireAt against the clock
    credits,            \* how often a recharge was added to users.balance
    logged,             \* recharges with a RECHARGE row in balance_logs
    trade, linked,      \* the trade at Alipay; a pay link was handed out
    mispaid,            \* trades whose amount is not the bill's
    pushes, acked,      \* notifications sent; one was answered 'success'
    refused,            \* history: answered 'success' without being accepted
    onTrust,            \* history: bills confirmed by hand, or on a return
                        \* that came before the money
    ppc, pbill, psrc,   \* a confirmation: step, bill, who makes it
    cstep, cdue, clist, \* an expiry run: step, bills overdue, trades to close
    rstep, rlist, rseen,\* a recovery run: step, bills to query, of those paid
    creator,            \* a request that has counted the recharges
    canceller,          \* the order an admin is about to cancel
    marker,             \* the order that is about to be marked paid by hand
    closed, swept,      \* history: tradeClose said ok; a recovery run saw it paid
    faults

billVars == <<status, age, credits, logged, onTrust>>
tradeVars == <<trade, linked, mispaid, pushes>>
ackVars == <<acked, refused>>
alipayVars == <<tradeVars, ackVars>>
callVars == <<ppc, pbill, psrc>>
closeVars == <<cstep, cdue, clist, closed>>
recoverVars == <<rstep, rlist, rseen, swept>>
requestVars == <<creator, canceller, marker>>
vars == <<billVars, alipayVars, callVars, closeVars, recoverVars, requestVars, faults>>

Statuses == {"NONE", "PENDING", "PAID", "EXPIRED", "CANCELLED"}
AgeStates == {"fresh", "open", "overdue"}
Sources == {"notify", "return", "recover"}

Take(n, S) == {T \in SUBSET S : Cardinality(T) = n \/ (T = S /\ Cardinality(S) < n)}

TypeOK ==
    /\ status \in [Bills -> Statuses]
    /\ age \in [Bills -> AgeStates]
    /\ credits \in [Recharges -> Nat]
    /\ logged \subseteq Recharges
    /\ trade \in [Bills -> {"none", "wait", "paid", "closed"}]
    /\ linked \subseteq Bills
    /\ pushes \in [Bills -> 0..MaxPushes]
    /\ acked \subseteq Bills /\ refused \subseteq Bills
    /\ mispaid \subseteq Bills /\ onTrust \subseteq Bills
    /\ ppc \in [Procs -> {"idle", "write"}]
    /\ pbill \in [Procs -> Bills \cup {None}]
    /\ psrc \in [Procs -> Sources \cup {None}]
    /\ cstep \in [Kinds -> {"idle", "expire", "close"}]
    /\ cdue \in [Kinds -> SUBSET Bills]
    /\ clist \in [Kinds -> SUBSET Bills]
    /\ rstep \in [Kinds -> {"idle", "query"}]
    /\ rlist \in [Kinds -> SUBSET Bills]
    /\ rseen \in [Kinds -> SUBSET Bills]
    /\ creator \in [Creators -> {"idle", "counted"}]
    /\ canceller \in Orders \cup {None} /\ marker \in Orders \cup {None}
    /\ closed \subseteq Bills
    /\ swept \subseteq Bills
    /\ faults \in 0..MaxFaults
    /\ \A p \in Procs : ppc[p] = "write" => pbill[p] \in Bills

Init ==
    /\ status = [b \in Bills |-> "NONE"]
    /\ age = [b \in Bills |-> "fresh"]
    /\ credits = [b \in Recharges |-> 0]
    /\ logged = {}
    /\ trade = [b \in Bills |-> "none"]
    /\ linked = {}
    /\ pushes = [b \in Bills |-> 0]
    /\ acked = {} /\ refused = {} /\ mispaid = {} /\ onTrust = {}
    /\ ppc = [p \in Procs |-> "idle"]
    /\ pbill = [p \in Procs |-> None]
    /\ psrc = [p \in Procs |-> None]
    /\ cstep = [k \in Kinds |-> "idle"]
    /\ cdue = [k \in Kinds |-> {}]
    /\ clist = [k \in Kinds |-> {}]
    /\ rstep = [k \in Kinds |-> "idle"]
    /\ rlist = [k \in Kinds |-> {}]
    /\ rseen = [k \in Kinds |-> {}]
    /\ creator = [c \in Creators |-> "idle"]
    /\ canceller = None /\ marker = None
    /\ closed = {}
    /\ swept = {}
    /\ faults = 0

Fault(kind) == kind \in FaultKinds /\ faults < MaxFaults /\ faults' = faults + 1

-----------------------------------------------------------------------------
(* Creating a bill and its link. *)

PlaceOrder(b) ==
    /\ status[b] = "NONE"
    /\ status' = [status EXCEPT ![b] = "PENDING"]
    /\ UNCHANGED <<age, credits, logged, onTrust, alipayVars, callVars, closeVars, recoverVars, requestVars, faults>>

CountOf(s) == Cardinality({b \in Recharges : status[b] = s})

(* The limits are checked in one transaction... *)
CountRecharges(c) ==
    /\ creator[c] = "idle"
    /\ CountOf("PENDING") < MaxPending
    /\ CountOf("PAID") < MaxPaid
    /\ creator' = [creator EXCEPT ![c] = "counted"]
    /\ UNCHANGED <<billVars, alipayVars, callVars, closeVars, recoverVars, canceller, marker, faults>>

(* ... and the row is inserted after it. *)
CreateRecharge(c, b) ==
    /\ creator[c] = "counted"
    /\ status[b] = "NONE"
    /\ status' = [status EXCEPT ![b] = "PENDING"]
    /\ creator' = [creator EXCEPT ![c] = "idle"]
    /\ UNCHANGED <<age, credits, logged, onTrust, alipayVars, callVars, closeVars, recoverVars, canceller, marker, faults>>

(* createdAt < now - 90 s, then expireAt < now. *)
Ages(b, from, to) ==
    /\ status[b] # "NONE"
    /\ age[b] = from
    /\ age' = [age EXCEPT ![b] = to]
    /\ UNCHANGED <<status, credits, logged, onTrust, alipayVars, callVars, closeVars, recoverVars, requestVars, faults>>

Opens(b) == Ages(b, "fresh", "open")
RunsOut(b) == Ages(b, "open", "overdue")

(* The link is only signed: Alipay hears of the trade when it is opened. *)
CreatePayUrl(b) ==
    /\ status[b] = "PENDING"
    /\ age[b] # "overdue"
    /\ b \notin linked
    /\ linked' = linked \cup {b}
    /\ UNCHANGED <<billVars, trade, mispaid, pushes, ackVars, callVars, closeVars, recoverVars, requestVars, faults>>

-----------------------------------------------------------------------------
(* Alipay and the buyer: a trade comes from an opened link, and waits for  *)
(* 15 minutes of its own (timeout_express).                                *)

Trade(b, from, to) ==
    /\ trade[b] = from
    /\ trade' = [trade EXCEPT ![b] = to]
    /\ UNCHANGED <<billVars, linked, pushes, ackVars, callVars, closeVars, recoverVars, requestVars>>

OpenTrade(b) == b \in linked /\ Trade(b, "none", "wait") /\ UNCHANGED <<mispaid, faults>>
BuyerPays(b) == Trade(b, "wait", "paid") /\ UNCHANGED <<mispaid, faults>>
TradeTimeout(b) == Trade(b, "wait", "closed") /\ UNCHANGED <<mispaid, faults>>

(* What the service compares with the bill is the amount Alipay reports.   *)
BuyerPaysOther(b) ==
    /\ Trade(b, "wait", "paid")
    /\ Fault("amount")
    /\ mispaid' = mispaid \cup {b}

-----------------------------------------------------------------------------
(* Confirming a payment: markPaidOnly and markPaidAndCredit. *)

EndCall(p, success) ==
    /\ ppc' = [ppc EXCEPT ![p] = "idle"]
    /\ pbill' = [pbill EXCEPT ![p] = None]
    /\ psrc' = [psrc EXCEPT ![p] = None]
    /\ acked' = IF psrc[p] = "notify" /\ success THEN acked \cup {pbill[p]} ELSE acked
    /\ UNCHANGED refused

(* Mutant of StartCall: 'success' is answered before the bill is written. *)
StartCall_AckFirst(p, b, src) ==
    /\ ppc[p] = "idle"
    /\ IF status[b] = "PENDING"
       THEN /\ ppc' = [ppc EXCEPT ![p] = "write"]
            /\ pbill' = [pbill EXCEPT ![p] = b]
            /\ psrc' = [psrc EXCEPT ![p] = src]
       ELSE UNCHANGED callVars
    /\ acked' = IF src = "notify" THEN acked \cup {b} ELSE acked
    /\ UNCHANGED refused

(* The row is read.  Another amount throws '金额不一致', PAID and CANCELLED  *)
(* answer 'already', EXPIRED throws '不允许': all of them make the           *)
(* notification answer 'success', the first whatever the status is.        *)
StartCall(p, b, src) ==
    /\ ppc[p] = "idle"
    /\ IF status[b] = "PENDING" /\ b \notin mispaid
       THEN /\ ppc' = [ppc EXCEPT ![p] = "write"]
            /\ pbill' = [pbill EXCEPT ![p] = b]
            /\ psrc' = [psrc EXCEPT ![p] = src]
            /\ UNCHANGED ackVars
       ELSE /\ acked' = IF src = "notify" THEN acked \cup {b} ELSE acked
            /\ refused' = IF src = "notify" /\ b \in mispaid THEN refused \cup {b} ELSE refused
            /\ UNCHANGED callVars

Pushable(b) == trade[b] = "paid" /\ b \notin acked /\ pushes[b] < MaxPushes

(* TRADE_SUCCESS is pushed until 'success' is answered. *)
Notify(p, b) ==
    /\ Pushable(b)
    /\ pushes' = [pushes EXCEPT ![b] = @ + 1]
    /\ StartCall(p, b, "notify")
    /\ UNCHANGED <<billVars, trade, linked, mispaid, closeVars, recoverVars, requestVars, faults>>

(* verifyNotify says no, and 'success' is answered all the same, so that   *)
(* Alipay does not push again.                                             *)
NotifyRefused(b) ==
    /\ Pushable(b)
    /\ Fault("check")
    /\ pushes' = [pushes EXCEPT ![b] = @ + 1]
    /\ acked' = acked \cup {b}
    /\ refused' = refused \cup {b}
    /\ UNCHANGED <<billVars, trade, linked, mispaid, callVars, closeVars, recoverVars, requestVars>>

NotifyLost(b) ==
    /\ Pushable(b)
    /\ Fault("lost")
    /\ pushes' = [pushes EXCEPT ![b] = @ + 1]
    /\ UNCHANGED <<billVars, trade, linked, mispaid, ackVars, callVars, closeVars, recoverVars, requestVars>>

(* The browser comes back with a signed query, or an admin queries the     *)
(* trade; the answer does not matter to Alipay.                            *)
Return(p, b) ==
    /\ trade[b] = "paid"
    /\ StartCall(p, b, "return")
    /\ UNCHANGED <<billVars, tradeVars, closeVars, recoverVars, requestVars, faults>>

(* The handler of the return looks at the signature and the amount, not at *)
(* the trade's status: it relies on Alipay to send nobody back early.      *)
ReturnEarly(p, b) ==
    /\ trade[b] = "wait"
    /\ Fault("early")
    /\ StartCall(p, b, "return")
    /\ onTrust' = onTrust \cup {b}
    /\ UNCHANGED <<status, age, credits, logged, tradeVars, closeVars, recoverVars, requestVars>>

(* order.update by orderNo, whatever the status is by now. *)
MarkPaid(p) ==
    /\ ppc[p] = "write"
    /\ pbill[p] \in Orders
    /\ status' = [status EXCEPT ![pbill[p]] = "PAID"]
    /\ EndCall(p, TRUE)
    /\ UNCHANGED <<age, credits, logged, onTrust, tradeVars, closeVars, recoverVars, requestVars, faults>>

(* Mutant of Credit: the status that was read is trusted, and the log has  *)
(* no unique column.                                                       *)
Credit_TrustsRead(p) ==
    LET b == pbill[p] IN
    /\ ppc[p] = "write"
    /\ b \in Recharges
    /\ status' = [status EXCEPT ![b] = "PAID"]
    /\ credits' = [credits EXCEPT ![b] = @ + 1]
    /\ logged' = logged \cup {b}
    /\ EndCall(p, TRUE)
    /\ UNCHANGED <<age, onTrust, tradeVars, closeVars, recoverVars, requestVars, faults>>

(* One transaction: updateMany PENDING -> PAID, the balance, the log whose *)
(* (refOrder, type) is unique.  Nothing updated, or a second log: 'already'*)
Credit(p) ==
    LET b == pbill[p] IN
    /\ ppc[p] = "write"
    /\ b \in Recharges
    /\ IF status[b] = "PENDING" /\ b \notin logged
       THEN /\ status' = [status EXCEPT ![b] = "PAID"]
            /\ credits' = [credits EXCEPT ![b] = @ + 1]
            /\ logged' = logged \cup {b}
       ELSE UNCHANGED <<status, credits, logged>>
    /\ EndCall(p, TRUE)
    /\ UNCHANGED <<age, onTrust, tradeVars, closeVars, recoverVars, requestVars, faults>>

(* The database fails: 'fail' is answered; a recovery run goes on. *)
CallFails(p) ==
    /\ ppc[p] = "write"
    /\ Fault("abort")
    /\ EndCall(p, FALSE)
    /\ rseen' = [k \in Kinds |-> IF k = p THEN rseen[k] \ {pbill[p]} ELSE rseen[k]]
    /\ UNCHANGED <<billVars, tradeVars, closeVars, rstep, rlist, swept, requestVars>>

-----------------------------------------------------------------------------
(* The expiry tasks: closeExpired and expireOverdue. *)

Overdue(k) == {b \in Bills : KindOf(b) = k /\ age[b] = "overdue"}
OverduePending(k) == {b \in Overdue(k) : status[b] = "PENDING"}

(* findMany, at most CloseBatch. *)
ListOverdue(k) ==
    /\ cstep[k] = "idle"
    /\ cstep' = [cstep EXCEPT ![k] = "expire"]
    /\ cdue' = [cdue EXCEPT ![k] = Overdue(k)]
    /\ \E list \in Take(CloseBatch, OverduePending(k)) : clist' = [clist EXCEPT ![k] = list]
    /\ UNCHANGED <<billVars, alipayVars, callVars, closed, recoverVars, requestVars, faults>>

(* updateMany of all of them; for orders those overdue when the run began, *)
(* for recharges those overdue by now.                                     *)
ExpireOverdue(k) ==
    LET due == IF k = "order" THEN cdue[k] ELSE Overdue(k) IN
    /\ cstep[k] = "expire"
    /\ status' = [b \in Bills |-> IF b \in due /\ status[b] = "PENDING" THEN "EXPIRED" ELSE status[b]]
    /\ cstep' = [cstep EXCEPT ![k] = "close"]
    /\ UNCHANGED <<age, credits, logged, onTrust, alipayVars, callVars, cdue, clist, closed, recoverVars, requestVars, faults>>

(* Mutant of CloseTrade: the close request is forgotten. *)
CloseTrade_Skips(k, b) ==
    /\ cstep[k] = "close"
    /\ b \in clist[k]
    /\ clist' = [clist EXCEPT ![k] = @ \ {b}]
    /\ UNCHANGED <<billVars, alipayVars, callVars, cstep, cdue, closed, recoverVars, requestVars, faults>>

(* tradeClose; a trade that does not exist or is paid counts as closed. *)
CloseTrade(k, b) ==
    /\ cstep[k] = "close"
    /\ b \in clist[k]
    /\ clist' = [clist EXCEPT ![k] = @ \ {b}]
    /\ trade' = [trade EXCEPT ![b] = IF @ = "wait" THEN "closed" ELSE @]
    /\ closed' = closed \cup {b}
    /\ UNCHANGED <<billVars, linked, mispaid, pushes, ackVars, callVars, cstep, cdue, recoverVars, requestVars, faults>>

CloseTradeFails(k, b) ==
    /\ cstep[k] = "close"
    /\ b \in clist[k]
    /\ Fault("network")
    /\ clist' = [clist EXCEPT ![k] = @ \ {b}]
    /\ UNCHANGED <<billVars, alipayVars, callVars, cstep, cdue, closed, recoverVars, requestVars>>

EndClosing(k) ==
    /\ cstep[k] = "close"
    /\ clist[k] = {}
    /\ cstep' = [cstep EXCEPT ![k] = "idle"]
    /\ cdue' = [cdue EXCEPT ![k] = {}]
    /\ UNCHANGED <<billVars, alipayVars, callVars, clist, closed, recoverVars, requestVars, faults>>

-----------------------------------------------------------------------------
(* recoverLostNotify of orders and of recharges. *)

Recoverable(k) == {b \in Bills : KindOf(b) = k /\ status[b] = "PENDING" /\ age[b] = "open"}

(* findMany, at most RecoverBatch, in no particular order. *)
ListPending(k) ==
    /\ rstep[k] = "idle"
    /\ Recoverable(k) # {}
    /\ rstep' = [rstep EXCEPT ![k] = "query"]
    /\ \E list \in Take(RecoverBatch, Recoverable(k)) : rlist' = [rlist EXCEPT ![k] = list]
    /\ rseen' = [rseen EXCEPT ![k] = {b \in Recoverable(k) : trade[b] = "paid" /\ b \notin mispaid}]
    /\ UNCHANGED <<billVars, alipayVars, callVars, closeVars, swept, requestVars, faults>>

(* Mutant of QueryTrade: the answer is not acted upon. *)
QueryTrade_Ignores(k, b) ==
    /\ rstep[k] = "query"
    /\ b \in rlist[k]
    /\ ppc[k] = "idle"
    /\ rlist' = [rlist EXCEPT ![k] = @ \ {b}]
    /\ UNCHANGED <<billVars, alipayVars, callVars, closeVars, rstep, rseen, swept, requestVars, faults>>

(* Mutant of QueryTrade: the trade exists, its status is not looked at.    *)
QueryTrade_AnyStatus(k, b) ==
    /\ rstep[k] = "query"
    /\ b \in rlist[k]
    /\ ppc[k] = "idle"
    /\ rlist' = [rlist EXCEPT ![k] = @ \ {b}]
    /\ IF trade[b] # "none" THEN StartCall(k, b, "recover") ELSE UNCHANGED <<callVars, ackVars>>
    /\ UNCHANGED <<billVars, tradeVars, closeVars, rstep, rseen, swept, requestVars, faults>>

(* One order after the other: tradeQuery, and the confirmation if paid. *)
QueryTrade(k, b) ==
    /\ rstep[k] = "query"
    /\ b \in rlist[k]
    /\ ppc[k] = "idle"
    /\ rlist' = [rlist EXCEPT ![k] = @ \ {b}]
    /\ IF trade[b] = "paid" THEN StartCall(k, b, "recover") ELSE UNCHANGED <<callVars, ackVars>>
    /\ UNCHANGED <<billVars, tradeVars, closeVars, rstep, rseen, swept, requestVars, faults>>

QueryTradeFails(k, b) ==
    /\ rstep[k] = "query"
    /\ b \in rlist[k]
    /\ ppc[k] = "idle"
    /\ Fault("network")
    /\ rlist' = [rlist EXCEPT ![k] = @ \ {b}]
    /\ rseen' = [rseen EXCEPT ![k] = @ \ {b}]
    /\ UNCHANGED <<billVars, alipayVars, callVars, closeVars, rstep, swept, requestVars>>

EndRecovery(k) ==
    /\ rstep[k] = "query"
    /\ rlist[k] = {}
    /\ ppc[k] = "idle"
    /\ rstep' = [rstep EXCEPT ![k] = "idle"]
    /\ swept' = swept \cup rseen[k]
    /\ rseen' = [rseen EXCEPT ![k] = {}]
    /\ UNCHANGED <<billVars, alipayVars, callVars, closeVars, rlist, requestVars, faults>>

-----------------------------------------------------------------------------
(* adminCancel reads, then writes without looking again. *)

CancelRead(b) ==
    /\ canceller = None
    /\ status[b] = "PENDING"
    /\ canceller' = b
    /\ UNCHANGED <<billVars, alipayVars, callVars, closeVars, recoverVars, creator, marker, faults>>

CancelWrite ==
    /\ canceller # None
    /\ status' = [status EXCEPT ![canceller] = "CANCELLED"]
    /\ canceller' = None
    /\ UNCHANGED <<age, credits, logged, onTrust, alipayVars, callVars, closeVars, recoverVars, creator, marker, faults>>

(* adminMarkPaid and mockPay look for PENDING; markPaidAndDeliver reads the*)
(* order again and writes PAID.                                            *)
MarkRead(b) ==
    /\ marker = None
    /\ status[b] = "PENDING"
    /\ marker' = b
    /\ UNCHANGED <<billVars, alipayVars, callVars, closeVars, recoverVars, creator, canceller, faults>>

MarkByHand ==
    /\ marker # None
    /\ status' = [status EXCEPT ![marker] = "PAID"]
    /\ onTrust' = onTrust \cup {marker}
    /\ marker' = None
    /\ UNCHANGED <<age, credits, logged, alipayVars, callVars, closeVars, recoverVars, creator, canceller, faults>>

(* The process stops: everything under way is forgotten. *)
Crash ==
    /\ Fault("crash")
    /\ ppc' = [p \in Procs |-> "idle"]
    /\ pbill' = [p \in Procs |-> None]
    /\ psrc' = [p \in Procs |-> None]
    /\ cstep' = [k \in Kinds |-> "idle"]
    /\ cdue' = [k \in Kinds |-> {}]
    /\ clist' = [k \in Kinds |-> {}]
    /\ rstep' = [k \in Kinds |-> "idle"]
    /\ rlist' = [k \in Kinds |-> {}]
    /\ rseen' = [k \in Kinds |-> {}]
    /\ creator' = [c \in Creators |-> "idle"]
    /\ canceller' = None /\ marker' = None
    /\ UNCHANGED <<billVars, alipayVars, closed, swept>>

-----------------------------------------------------------------------------
Write(p) == MarkPaid(p) \/ Credit(p)

Creating ==
    \/ \E b \in Orders : PlaceOrder(b)
    \/ \E c \in Creators : CountRecharges(c) \/ (\E b \in Recharges : CreateRecharge(c, b))
    \/ \E b \in Bills : Opens(b) \/ RunsOut(b) \/ CreatePayUrl(b)

Paying == \E b \in Bills :
    OpenTrade(b) \/ BuyerPays(b) \/ BuyerPaysOther(b) \/ TradeTimeout(b) \/ NotifyLost(b)

Confirming ==
    \/ \E p \in Calls, b \in Bills : Notify(p, b) \/ Return(p, b) \/ ReturnEarly(p, b)
    \/ \E b \in Bills : NotifyRefused(b)
    \/ \E p \in Procs : Write(p) \/ CallFails(p)

Expiring == \E k \in Kinds :
    \/ ListOverdue(k) \/ ExpireOverdue(k) \/ EndClosing(k)
    \/ \E b \in Bills : CloseTrade(k, b) \/ CloseTradeFails(k, b)

Recovering == \E k \in Kinds :
    \/ ListPending(k) \/ EndRecovery(k)
    \/ \E b \in Bills : QueryTrade(k, b) \/ QueryTradeFails(k, b)

ByHand ==
    \/ CancelWrite \/ MarkByHand
    \/ \E b \in Orders : CancelRead(b) \/ MarkRead(b)

Next == Creating \/ Paying \/ Confirming \/ Expiring \/ Recovering \/ ByHand \/ Crash

Spec == Init /\ [][Next]_vars

(* Bills become 90 seconds old, the recovery task is run again and again   *)
(* and goes through its list, and a call that has read its bill writes it. *)
(* Nothing is assumed of the notifications, nor that a bill runs out.      *)
Fairness ==
    /\ \A b \in Bills : WF_vars(Opens(b))
    /\ \A k \in Kinds :
        /\ WF_vars(ListPending(k)) /\ WF_vars(EndRecovery(k))
        /\ WF_vars(\E b \in Bills : QueryTrade(k, b))
    /\ \A p \in Procs : WF_vars(Write(p))

FairSpec == Spec /\ Fairness

-----------------------------------------------------------------------------
(* Properties *)

(* A recharge is credited once, exactly when it is PAID and logged, however*)
(* many notifications, returns and recovery runs confirm it together.      *)
CreditedOnce ==
    \A b \in Recharges :
        /\ credits[b] = IF status[b] = "PAID" THEN 1 ELSE 0
        /\ b \in logged <=> status[b] = "PAID"

(* Whoever confirms it, a bill that is PAID has its own amount at Alipay:  *)
(* notifications, queries and recovery runs look at the trade's status and *)
(* amount.  Only an order marked by hand, or a return before the money,    *)
(* goes without.                                                           *)
PaidHasMoney ==
    \A b \in Bills \ onTrust : status[b] = "PAID" => trade[b] = "paid" /\ b \notin mispaid

(* 'success' stops Alipay's retries.  Of a notification that was accepted  *)
(* it is answered only when the bill has left PENDING, so a failed or      *)
(* crashed handler never swallows a payment that the bill could still take.*)
AckedIsSettled == \A b \in acked \ refused : status[b] \in {"PAID", "EXPIRED", "CANCELLED"}

(* A recovery run that began when the right sum was there leaves no such   *)
(* bill PENDING (as long as not more bills are PENDING than it takes).     *)
SweptIsSettled == \A b \in swept : status[b] # "PENDING"

(* A recharge that is PAID or EXPIRED stays so: expiry cron and crediting  *)
(* exclude each other.                                                     *)
RechargeIsFinal ==
    [][\A b \in Recharges : status[b] \in {"PAID", "EXPIRED"} => status'[b] = status[b]]_vars

(* Without failures, an expiry run leaves no order that it expired with a  *)
(* trade it did not ask Alipay to close, however payments, cancellations   *)
(* and further orders run into it (closeExpired).                          *)
ExpiredIsClosed ==
    \A b \in Orders :
        status[b] = "EXPIRED" /\ cstep["order"] = "idle" /\ faults = 0 => b \in closed

(* The right sum that arrives is recorded unless the bill becomes overdue  *)
(* or is cancelled first, even if every notification is lost, refused or   *)
(* answered 'fail': the recovery task asks Alipay.                         *)
PaidIsRecorded ==
    \A b \in Bills : trade[b] = "paid" /\ b \notin mispaid ~>
        \/ status[b] \in {"PAID", "CANCELLED"}
        \/ age[b] = "overdue"

-----------------------------------------------------------------------------
(* 'success' means that the payment was handled: what the comment of notify*)
(* says, and the code does not keep.                                       *)
SuccessMeansHandled == \A b \in acked : status[b] = "PAID"
=============================================================================
