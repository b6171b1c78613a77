------------------------ MODULE PaymentWindowProofs ------------------------
(* Theorems of PaymentWindow, for any bills, calls, limits and number of   *)
(* failures.                                                               *)
EXTENDS PaymentWindow, FiniteSetTheorems, TLAPS

(* A call is under way only for the right sum, or on trust. *)
CallInv == \A p \in Procs : ppc[p] = "write" =>
    \/ trade[pbill[p]] = "paid" /\ pbill[p] \notin mispaid
    \/ pbill[p] \in onTrust

(* A trade comes from a link, and a link or a confirmation from a bill. *)
LinkInv ==
    /\ \A b \in linked \cup onTrust : status[b] # "NONE"
    /\ \A b \in Bills : trade[b] # "none" => b \in linked
    /\ mispaid \subseteq {b \in Bills : trade[b] = "paid"}

(* A bill that a recovery run found paid is being confirmed or settled:    *)
(* the run still has to query it, or is about to write it.                 *)
SweepInv ==
    /\ \A k \in Kinds : \A b \in rseen[k] :
        /\ rstep[k] = "query"
        /\ trade[b] = "paid" /\ b \notin mispaid
        /\ status[b] = "PENDING" => b \in rlist[k] \/ (ppc[k] = "write" /\ pbill[k] = b)
    /\ \A b \in swept : status[b] \notin {"NONE", "PENDING"}

(* An expiry run has what it will expire on its list of trades to close,   *)
(* and what it expired is closed or still on that list.                    *)
CloseInv ==
    \A b \in Orders :
        /\ status[b] = "NONE" => age[b] = "fresh"
        /\ b \in cdue["order"] => age[b] = "overdue"
        /\ faults = 0 =>
            /\ cstep["order"] = "expire" /\ b \in cdue["order"] /\ status[b] = "PENDING" =>
                    b \in clist["order"]
            /\ status[b] = "EXPIRED" =>
                    b \in closed \/ (cstep["order"] = "close" /\ b \in clist["order"])

(* The bills a recovery run may query, or the orders an expiry run may     *)
(* close, fit into one batch.                                              *)
RecoveryFits ==
    \A k \in Kinds : IsFiniteSet(Recoverable(k)) /\ Cardinality(Recoverable(k)) <= RecoverBatch
ExpiryFits ==
    /\ IsFiniteSet(OverduePending("order"))
    /\ Cardinality(OverduePending("order")) <= CloseBatch

(* What the safety properties of a bill rest on together. *)
IInv == CallInv /\ LinkInv /\ CreditedOnce /\ PaidHasMoney /\ AckedIsSettled

-----------------------------------------------------------------------------
(* A call that starts is typed and names its bill. *)
LEMMA StartCallType ==
    ASSUME TypeOK, NEW p \in Procs, NEW b \in Bills, NEW src \in Sources, StartCall(p, b, src)
    PROVE  /\ ppc' \in [Procs -> {"idle", "write"}]
           /\ pbill' \in [Procs -> Bills \cup {None}]
           /\ psrc' \in [Procs -> Sources \cup {None}]
           /\ acked' \subseteq Bills /\ refused' \subseteq Bills
           /\ \A q \in Procs : ppc'[q] = "write" => pbill'[q] \in Bills
BY DEF StartCall, TypeOK, callVars, ackVars

(* Every variable keeps its type, and a call that is about to write names  *)
(* a bill.                                                                 *)
THEOREM TypeCorrect == Spec => []TypeOK
<1>1. Init => TypeOK
  BY BillsAssumption, LimitAssumption, FaultAssumption
      DEF Init, TypeOK, Statuses, AgeStates, Sources, Bills, Kinds, KindOf, Procs
<1>2. TypeOK /\ [Next]_vars => TypeOK'
  <2> SUFFICES ASSUME TypeOK, [Next]_vars PROVE TypeOK'
    OBVIOUS
  <2> USE BillsAssumption, ProcsAssumption, LimitAssumption, FaultAssumption, TypeOK
      DEF TypeOK, Statuses, AgeStates, Sources, Bills, Kinds, KindOf, Procs, billVars, alipayVars, tradeVars, ackVars,
           callVars, closeVars, recoverVars, requestVars
  <2>1. ASSUME NEW b \in Orders, PlaceOrder(b)
       PROVE TypeOK'
    BY <2>1 DEF PlaceOrder
  <2>2. ASSUME NEW c \in Creators, CountRecharges(c)
       PROVE TypeOK'
    BY <2>2 DEF CountRecharges
  <2>3. ASSUME NEW c \in Creators, NEW b \in Recharges, CreateRecharge(c, b)
       PROVE TypeOK'
    BY <2>3 DEF CreateRecharge
  <2>4. ASSUME NEW b \in Bills, Opens(b) \/ RunsOut(b)
       PROVE TypeOK'
    BY <2>4 DEF Opens, RunsOut, Ages
  <2>5. ASSUME NEW b \in Bills, CreatePayUrl(b)
       PROVE TypeOK'
    BY <2>5 DEF CreatePayUrl
  <2>6. ASSUME NEW b \in Bills, OpenTrade(b)
       PROVE TypeOK'
    BY <2>6 DEF OpenTrade, Trade
  <2>7. ASSUME NEW b \in Bills, BuyerPays(b)
       PROVE TypeOK'
    BY <2>7 DEF BuyerPays, Trade
  <2>8. ASSUME NEW b \in Bills, TradeTimeout(b)
       PROVE TypeOK'
    BY <2>8 DEF TradeTimeout, Trade
  <2>9. ASSUME NEW b \in Bills, NotifyLost(b)
       PROVE TypeOK'
    BY <2>9 DEF NotifyLost, Pushable, Fault
  <2>10. ASSUME NEW p \in Calls, NEW b \in Bills, Notify(p, b)
       PROVE TypeOK'
    <3>1. p \in Procs
      OBVIOUS
    <3>2. pushes[b] \in Nat /\ pushes[b] < MaxPushes
      BY <2>10 DEF Notify, Pushable
    <3>3. pushes' \in [Bills -> 0..MaxPushes]
      BY <2>10, <3>2 DEF Notify
    <3>4. StartCall(p, b, "notify")
      BY <2>10 DEF Notify
    <3>5. /\ ppc' \in [Procs -> {"idle", "write"}]
          /\ pbill' \in [Procs -> Bills \cup {None}]
          /\ psrc' \in [Procs -> Sources \cup {None}]
          /\ acked' \subseteq Bills /\ refused' \subseteq Bills
          /\ \A q \in Procs : ppc'[q] = "write" => pbill'[q] \in Bills
      BY <3>1, <3>4, StartCallType
    <3>6. QED
      BY <2>10, <3>3, <3>5 DEF Notify
  <2>11. ASSUME NEW p \in Calls, NEW b \in Bills, Return(p, b)
       PROVE TypeOK'
    BY <2>11, StartCallType DEF Return
  <2>12. ASSUME NEW p \in Procs, MarkPaid(p)
       PROVE TypeOK'
    BY <2>12 DEF MarkPaid, EndCall
  <2>13. ASSUME NEW p \in Procs, Credit(p)
       PROVE TypeOK'
    BY <2>13 DEF Credit, EndCall
  <2>14. ASSUME NEW p \in Procs, CallFails(p)
       PROVE TypeOK'
    BY <2>14 DEF CallFails, EndCall, Fault
  <2>15. ASSUME NEW k \in Kinds, ListOverdue(k)
       PROVE TypeOK'
    BY <2>15 DEF ListOverdue, Take, OverduePending, Overdue
  <2>16. ASSUME NEW k \in Kinds, ExpireOverdue(k)
       PROVE TypeOK'
    BY <2>16 DEF ExpireOverdue, Overdue
  <2>17. ASSUME NEW k \in Kinds, NEW b \in Bills, CloseTrade(k, b)
       PROVE TypeOK'
    BY <2>17 DEF CloseTrade
  <2>18. ASSUME NEW k \in Kinds, NEW b \in Bills, CloseTradeFails(k, b)
       PROVE TypeOK'
    BY <2>18 DEF CloseTradeFails, Fault
  <2>19. ASSUME NEW k \in Kinds, EndClosing(k)
       PROVE TypeOK'
    BY <2>19 DEF EndClosing
  <2>20. ASSUME NEW k \in Kinds, ListPending(k)
       PROVE TypeOK'
    BY <2>20 DEF ListPending, Take, Recoverable
  <2>21. ASSUME NEW k \in Kinds, NEW b \in Bills, QueryTrade(k, b)
       PROVE TypeOK'
    BY <2>21, StartCallType DEF QueryTrade
  <2>22. ASSUME NEW k \in Kinds, NEW b \in Bills, QueryTradeFails(k, b)
       PROVE TypeOK'
    BY <2>22 DEF QueryTradeFails, Fault
  <2>23. ASSUME NEW k \in Kinds, EndRecovery(k)
       PROVE TypeOK'
    BY <2>23 DEF EndRecovery
  <2>24. ASSUME NEW b \in Orders, CancelRead(b)
       PROVE TypeOK'
    BY <2>24 DEF CancelRead
  <2>28. ASSUME NEW b \in Bills, BuyerPaysOther(b)
       PROVE TypeOK'
    BY <2>28 DEF BuyerPaysOther, Trade, Fault
  <2>29. ASSUME NEW b \in Bills, NotifyRefused(b)
       PROVE TypeOK'
    BY <2>29 DEF NotifyRefused, Pushable, Fault
  <2>30. ASSUME NEW p \in Calls, NEW b \in Bills, ReturnEarly(p, b)
       PROVE TypeOK'
    <3>1. p \in Procs /\ StartCall(p, b, "return") /\ faults' = faults + 1 /\ faults < MaxFaults
      BY <2>30 DEF ReturnEarly, Fault
    <3>2. /\ ppc' \in [Procs -> {"idle", "write"}]
          /\ pbill' \in [Procs -> Bills \cup {None}]
          /\ psrc' \in [Procs -> Sources \cup {None}]
          /\ acked' \subseteq Bills /\ refused' \subseteq Bills
          /\ \A q \in Procs : ppc'[q] = "write" => pbill'[q] \in Bills
      BY <3>1, StartCallType
    <3>3. faults' \in 0..MaxFaults /\ onTrust' \subseteq Bills
      BY <2>30, <3>1 DEF ReturnEarly
    <3>4. UNCHANGED <<status, age, credits, logged, tradeVars, closeVars, recoverVars, requestVars>>
      BY <2>30 DEF ReturnEarly
    <3>5. QED
      BY <3>2, <3>3, <3>4
  <2>31. ASSUME NEW b \in Orders, MarkRead(b)
       PROVE TypeOK'
    BY <2>31 DEF MarkRead
  <2>32. CASE MarkByHand
    BY <2>32 DEF MarkByHand
  <2>25. CASE CancelWrite
    BY <2>25 DEF CancelWrite
  <2>26. CASE Crash
    BY <2>26 DEF Crash, Fault
  <2>27. CASE UNCHANGED vars
    BY <2>27 DEF vars
  <2> QED
    BY <2>1, <2>2, <2>3, <2>4, <2>5, <2>6, <2>7, <2>8, <2>9, <2>10, <2>11, <2>12, <2>13, <2>14,
             <2>15, <2>16, <2>17, <2>18, <2>19, <2>20, <2>21, <2>22, <2>23, <2>24, <2>25,
             <2>26, <2>27, <2>28, <2>29, <2>30, <2>31, <2>32
        DEF Next, Creating, Paying, Confirming, Write, Expiring, Recovering, ByHand
<1>3. QED
  BY <1>1, <1>2, PTL DEF Spec

(* The strengthening is inductive: one step per action of the service, of  *)
(* Alipay and of the cron tasks.                                           *)
LEMMA BillInvariant == Spec => []IInv
<1>1. Init => IInv
  BY BillsAssumption
      DEF Init, IInv, CallInv, LinkInv, CreditedOnce, PaidHasMoney, AckedIsSettled, Bills, Procs
<1>2. TypeOK /\ IInv /\ [Next]_vars => IInv'
  <2> SUFFICES ASSUME TypeOK, IInv, [Next]_vars PROVE IInv'
    OBVIOUS
  <2> USE DEF IInv, CallInv, LinkInv, CreditedOnce, PaidHasMoney, AckedIsSettled
  <2> USE BillsAssumption, ProcsAssumption, TypeOK, IInv
      DEF TypeOK, Statuses, AgeStates, Sources, Bills, Kinds, KindOf, Procs, billVars, alipayVars, tradeVars, ackVars,
           callVars, closeVars, recoverVars, requestVars
  <2>1. ASSUME NEW b \in Orders, PlaceOrder(b)
       PROVE IInv'
    BY <2>1 DEF PlaceOrder
  <2>2. ASSUME NEW c \in Creators, CountRecharges(c)
       PROVE IInv'
    BY <2>2 DEF CountRecharges
  <2>3. ASSUME NEW c \in Creators, NEW b \in Recharges, CreateRecharge(c, b)
       PROVE IInv'
    BY <2>3 DEF CreateRecharge
  <2>4. ASSUME NEW b \in Bills, Opens(b) \/ RunsOut(b)
       PROVE IInv'
    BY <2>4 DEF Opens, RunsOut, Ages
  <2>5. ASSUME NEW b \in Bills, CreatePayUrl(b)
       PROVE IInv'
    BY <2>5 DEF CreatePayUrl
  <2>6. ASSUME NEW b \in Bills, OpenTrade(b)
       PROVE IInv'
    BY <2>6 DEF OpenTrade, Trade
  <2>7. ASSUME NEW b \in Bills, BuyerPays(b)
       PROVE IInv'
    BY <2>7 DEF BuyerPays, Trade
  <2>8. ASSUME NEW b \in Bills, TradeTimeout(b)
       PROVE IInv'
    BY <2>8 DEF TradeTimeout, Trade
  <2>9. ASSUME NEW b \in Bills, NotifyLost(b)
       PROVE IInv'
    BY <2>9 DEF NotifyLost, Pushable, Fault
  <2>10. ASSUME NEW p \in Calls, NEW b \in Bills, Notify(p, b)
       PROVE IInv'
    BY <2>10 DEF Notify, Pushable, StartCall
  <2>11. ASSUME NEW p \in Calls, NEW b \in Bills, Return(p, b)
       PROVE IInv'
    BY <2>11 DEF Return, StartCall
  <2>12. ASSUME NEW p \in Procs, MarkPaid(p)
       PROVE IInv'
    BY <2>12 DEF MarkPaid, EndCall
  <2>13. ASSUME NEW p \in Procs, Credit(p)
       PROVE IInv'
    <3>1. UNCHANGED <<age, onTrust, tradeVars, refused>>
      BY <2>13 DEF Credit, EndCall
    <3>2. pbill[p] \in Recharges /\ ppc[p] = "write"
      BY <2>13 DEF Credit
    <3>3. PICK b \in Recharges : b = pbill[p]
      BY <3>2
    <3>4. status' = IF status[b] = "PENDING" THEN [status EXCEPT ![b] = "PAID"] ELSE status
      BY <2>13, <3>3 DEF Credit
    <3>5. /\ credits' = IF status[b] = "PENDING" THEN [credits EXCEPT ![b] = @ + 1] ELSE credits
          /\ logged' = IF status[b] = "PENDING" THEN logged \cup {b} ELSE logged
      BY <2>13, <3>3 DEF Credit
    <3>6. CreditedOnce'
      BY <3>4, <3>5
    <3>7. PaidHasMoney' /\ LinkInv'
      BY <3>1, <3>2, <3>3, <3>4
    <3>8. CallInv'
      BY <2>13, <3>1 DEF Credit, EndCall
    <3>9. status[b] # "NONE" /\ acked' \subseteq acked \cup {b}
      <4>1. status[b] # "NONE"
        BY <3>2, <3>3
      <4>2. acked' \subseteq acked \cup {b}
        BY <2>13, <3>3 DEF Credit, EndCall
      <4>3. QED
        BY <4>1, <4>2
    <3>10. AckedIsSettled'
      BY <3>1, <3>3, <3>4, <3>9
    <3>11. QED
      BY <3>6, <3>7, <3>8, <3>10
  <2>14. ASSUME NEW p \in Procs, CallFails(p)
       PROVE IInv'
    BY <2>14 DEF CallFails, EndCall, Fault
  <2>15. ASSUME NEW k \in Kinds, ListOverdue(k)
       PROVE IInv'
    BY <2>15 DEF ListOverdue, Take, OverduePending, Overdue
  <2>16. ASSUME NEW k \in Kinds, ExpireOverdue(k)
       PROVE IInv'
    BY <2>16 DEF ExpireOverdue, Overdue
  <2>17. ASSUME NEW k \in Kinds, NEW b \in Bills, CloseTrade(k, b)
       PROVE IInv'
    BY <2>17 DEF CloseTrade
  <2>18. ASSUME NEW k \in Kinds, NEW b \in Bills, CloseTradeFails(k, b)
       PROVE IInv'
    BY <2>18 DEF CloseTradeFails, Fault
  <2>19. ASSUME NEW k \in Kinds, EndClosing(k)
       PROVE IInv'
    BY <2>19 DEF EndClosing
  <2>20. ASSUME NEW k \in Kinds, ListPending(k)
       PROVE IInv'
    BY <2>20 DEF ListPending, Take, Recoverable
  <2>21. ASSUME NEW k \in Kinds, NEW b \in Bills, QueryTrade(k, b)
       PROVE IInv'
    BY <2>21 DEF QueryTrade, StartCall
  <2>22. ASSUME NEW k \in Kinds, NEW b \in Bills, QueryTradeFails(k, b)
       PROVE IInv'
    BY <2>22 DEF QueryTradeFails, Fault
  <2>23. ASSUME NEW k \in Kinds, EndRecovery(k)
       PROVE IInv'
    BY <2>23 DEF EndRecovery
  <2>24. ASSUME NEW b \in Orders, CancelRead(b)
       PROVE IInv'
    BY <2>24 DEF CancelRead
  <2>28. ASSUME NEW b \in Bills, BuyerPaysOther(b)
       PROVE IInv'
    BY <2>28 DEF BuyerPaysOther, Trade, Fault
  <2>29. ASSUME NEW b \in Bills, NotifyRefused(b)
       PROVE IInv'
    BY <2>29 DEF NotifyRefused, Pushable, Fault
  <2>30. ASSUME NEW p \in Calls, NEW b \in Bills, ReturnEarly(p, b)
       PROVE IInv'
    BY <2>30 DEF ReturnEarly, Fault, StartCall
  <2>31. ASSUME NEW b \in Orders, MarkRead(b)
       PROVE IInv'
    BY <2>31 DEF MarkRead
  <2>32. CASE MarkByHand
    BY <2>32 DEF MarkByHand
  <2>25. CASE CancelWrite
    BY <2>25 DEF CancelWrite
  <2>26. CASE Crash
    BY <2>26 DEF Crash, Fault
  <2>27. CASE UNCHANGED vars
    BY <2>27 DEF vars
  <2> QED
    BY <2>1, <2>2, <2>3, <2>4, <2>5, <2>6, <2>7, <2>8, <2>9, <2>10, <2>11, <2>12, <2>13, <2>14,
             <2>15, <2>16, <2>17, <2>18, <2>19, <2>20, <2>21, <2>22, <2>23, <2>24, <2>25,
             <2>26, <2>27, <2>28, <2>29, <2>30, <2>31, <2>32
        DEF Next, Creating, Paying, Confirming, Write, Expiring, Recovering, ByHand
<1>3. QED
  BY <1>1, <1>2, TypeCorrect, PTL DEF Spec

(* A recharge adds to the balance once, with one row in the log, exactly   *)
(* when it is PAID: markPaidAndCredit under any number of confirmations.   *)
THEOREM RechargesAreCreditedOnce == Spec => []CreditedOnce
<1>1. IInv => CreditedOnce
  BY DEF IInv
<1>2. QED
  BY <1>1, BillInvariant, PTL

(* Whoever confirms it, no order and no recharge is PAID without its own   *)
(* amount at Alipay, unless it was marked by hand or on an early return:   *)
(* the status and amount checks of notify, adminQuery, recoverLostNotify,  *)
(* markPaidOnly and markPaidAndCredit.                                     *)
THEOREM PaidBillsHaveMoney == Spec => []PaidHasMoney
<1>1. IInv => PaidHasMoney
  BY DEF IInv
<1>2. QED
  BY <1>1, BillInvariant, PTL

(* A notification that is accepted (its signature, seller and amount) is   *)
(* answered 'success' only when its bill has left PENDING: notify.         *)
THEOREM AcksAreSettled == Spec => []AckedIsSettled
<1>1. IInv => AckedIsSettled
  BY DEF IInv
<1>2. QED
  BY <1>1, BillInvariant, PTL

(* PAID and EXPIRED are final for a recharge: the crediting transaction    *)
(* and the expiry task take only PENDING ones.                             *)
THEOREM RechargesAreFinal == Spec => RechargeIsFinal
<1> DEFINE Final == \A b \in Recharges : status[b] \in {"PAID", "EXPIRED"} => status'[b] = status[b]
<1>1. TypeOK /\ [Next]_vars => [Final]_vars
  <2> SUFFICES ASSUME TypeOK, [Next]_vars PROVE Final
    OBVIOUS
  <2> USE BillsAssumption, ProcsAssumption, TypeOK
      DEF TypeOK, Statuses, AgeStates, Sources, Bills, Kinds, KindOf, Procs, billVars, alipayVars, tradeVars, ackVars,
           callVars, closeVars, recoverVars, requestVars
  <2>1. ASSUME NEW b \in Orders, PlaceOrder(b)
       PROVE Final
    BY <2>1 DEF PlaceOrder
  <2>2. ASSUME NEW c \in Creators, CountRecharges(c)
       PROVE Final
    BY <2>2 DEF CountRecharges
  <2>3. ASSUME NEW c \in Creators, NEW b \in Recharges, CreateRecharge(c, b)
       PROVE Final
    BY <2>3 DEF CreateRecharge
  <2>4. ASSUME NEW b \in Bills, Opens(b) \/ RunsOut(b)
       PROVE Final
    BY <2>4 DEF Opens, RunsOut, Ages
  <2>5. ASSUME NEW b \in Bills, CreatePayUrl(b)
       PROVE Final
    BY <2>5 DEF CreatePayUrl
  <2>6. ASSUME NEW b \in Bills, OpenTrade(b)
       PROVE Final
    BY <2>6 DEF OpenTrade, Trade
  <2>7. ASSUME NEW b \in Bills, BuyerPays(b)
       PROVE Final
    BY <2>7 DEF BuyerPays, Trade
  <2>8. ASSUME NEW b \in Bills, TradeTimeout(b)
       PROVE Final
    BY <2>8 DEF TradeTimeout, Trade
  <2>9. ASSUME NEW b \in Bills, NotifyLost(b)
       PROVE Final
    BY <2>9 DEF NotifyLost, Pushable, Fault
  <2>10. ASSUME NEW p \in Calls, NEW b \in Bills, Notify(p, b)
       PROVE Final
    BY <2>10 DEF Notify, Pushable, StartCall
  <2>11. ASSUME NEW p \in Calls, NEW b \in Bills, Return(p, b)
       PROVE Final
    BY <2>11 DEF Return, StartCall
  <2>12. ASSUME NEW p \in Procs, MarkPaid(p)
       PROVE Final
    BY <2>12 DEF MarkPaid, EndCall
  <2>13. ASSUME NEW p \in Procs, Credit(p)
       PROVE Final
    BY <2>13 DEF Credit, EndCall
  <2>14. ASSUME NEW p \in Procs, CallFails(p)
       PROVE Final
    BY <2>14 DEF CallFails, EndCall, Fault
  <2>15. ASSUME NEW k \in Kinds, ListOverdue(k)
       PROVE Final
    BY <2>15 DEF ListOverdue, Take, OverduePending, Overdue
  <2>16. ASSUME NEW k \in Kinds, ExpireOverdue(k)
       PROVE Final
    BY <2>16 DEF ExpireOverdue, Overdue
  <2>17. ASSUME NEW k \in Kinds, NEW b \in Bills, CloseTrade(k, b)
       PROVE Final
    BY <2>17 DEF CloseTrade
  <2>18. ASSUME NEW k \in Kinds, NEW b \in Bills, CloseTradeFails(k, b)
       PROVE Final
    BY <2>18 DEF CloseTradeFails, Fault
  <2>19. ASSUME NEW k \in Kinds, EndClosing(k)
       PROVE Final
    BY <2>19 DEF EndClosing
  <2>20. ASSUME NEW k \in Kinds, ListPending(k)
       PROVE Final
    BY <2>20 DEF ListPending, Take, Recoverable
  <2>21. ASSUME NEW k \in Kinds, NEW b \in Bills, QueryTrade(k, b)
       PROVE Final
    BY <2>21 DEF QueryTrade, StartCall
  <2>22. ASSUME NEW k \in Kinds, NEW b \in Bills, QueryTradeFails(k, b)
       PROVE Final
    BY <2>22 DEF QueryTradeFails, Fault
  <2>23. ASSUME NEW k \in Kinds, EndRecovery(k)
       PROVE Final
    BY <2>23 DEF EndRecovery
  <2>24. ASSUME NEW b \in Orders, CancelRead(b)
       PROVE Final
    BY <2>24 DEF CancelRead
  <2>28. ASSUME NEW b \in Bills, BuyerPaysOther(b)
       PROVE Final
    BY <2>28 DEF BuyerPaysOther, Trade, Fault
  <2>29. ASSUME NEW b \in Bills, NotifyRefused(b)
       PROVE Final
    BY <2>29 DEF NotifyRefused, Pushable, Fault
  <2>30. ASSUME NEW p \in Calls, NEW b \in Bills, ReturnEarly(p, b)
       PROVE Final
    BY <2>30 DEF ReturnEarly, Fault, StartCall
  <2>31. ASSUME NEW b \in Orders, MarkRead(b)
       PROVE Final
    BY <2>31 DEF MarkRead
  <2>32. CASE MarkByHand
    BY <2>32 DEF MarkByHand
  <2>25. CASE CancelWrite
    BY <2>25 DEF CancelWrite
  <2>26. CASE Crash
    BY <2>26 DEF Crash, Fault
  <2>27. CASE UNCHANGED vars
    BY <2>27 DEF vars
  <2> QED
    BY <2>1, <2>2, <2>3, <2>4, <2>5, <2>6, <2>7, <2>8, <2>9, <2>10, <2>11, <2>12, <2>13, <2>14,
             <2>15, <2>16, <2>17, <2>18, <2>19, <2>20, <2>21, <2>22, <2>23, <2>24, <2>25,
             <2>26, <2>27, <2>28, <2>29, <2>30, <2>31, <2>32
        DEF Next, Creating, Paying, Confirming, Write, Expiring, Recovering, ByHand
<1>2. QED
  BY <1>1, TypeCorrect, PTL DEF Spec, RechargeIsFinal

-----------------------------------------------------------------------------
(* Taking at most n of a set that has no more than n elements takes all of *)
(* them (findMany with take).                                              *)
LEMMA TakeAll ==
    ASSUME NEW S, IsFiniteSet(S), NEW n \in Nat, Cardinality(S) <= n, NEW T \in Take(n, S)
    PROVE  T = S
<1>1. T \in SUBSET S /\ (Cardinality(T) = n \/ T = S)
  BY DEF Take
<1>2. Cardinality(T) = n => Cardinality(T) = Cardinality(S)
  BY <1>1, FS_Subset, FS_CardinalityType
<1> QED
  BY <1>1, <1>2, FS_Subset

(* While the recoverable bills fit into one batch, a recovery run settles  *)
(* what it found paid: every step of the calls and the cron tasks keeps    *)
(* SweepInv.                                                               *)
LEMMA SweepInvariant == Spec /\ []RecoveryFits => []SweepInv
<1>1. Init => SweepInv
  BY BillsAssumption DEF Init, SweepInv, Bills, Kinds, KindOf
<1>2. TypeOK /\ IInv /\ RecoveryFits /\ SweepInv /\ [Next]_vars => SweepInv'
  <2> SUFFICES ASSUME TypeOK, IInv, RecoveryFits, SweepInv, [Next]_vars PROVE SweepInv'
    OBVIOUS
  <2>a. \A b \in Bills : trade[b] = "paid" => status[b] # "NONE"
    BY DEF IInv, LinkInv
  <2>b. \A b \in Recharges : status[b] = "PENDING" => b \notin logged
    BY DEF IInv, CreditedOnce
  <2> USE DEF SweepInv
  <2> USE BillsAssumption, ProcsAssumption, TypeOK
      DEF TypeOK, Statuses, AgeStates, Sources, Bills, Kinds, KindOf, Procs, billVars, alipayVars, tradeVars, ackVars,
           callVars, closeVars, recoverVars, requestVars
  <2>1. ASSUME NEW b \in Orders, PlaceOrder(b)
       PROVE SweepInv'
    BY <2>1, <2>a DEF PlaceOrder
  <2>2. ASSUME NEW c \in Creators, CountRecharges(c)
       PROVE SweepInv'
    BY <2>2 DEF CountRecharges
  <2>3. ASSUME NEW c \in Creators, NEW b \in Recharges, CreateRecharge(c, b)
       PROVE SweepInv'
    BY <2>3, <2>a DEF CreateRecharge
  <2>4. ASSUME NEW b \in Bills, Opens(b) \/ RunsOut(b)
       PROVE SweepInv'
    BY <2>4 DEF Opens, RunsOut, Ages
  <2>5. ASSUME NEW b \in Bills, CreatePayUrl(b)
       PROVE SweepInv'
    BY <2>5 DEF CreatePayUrl
  <2>6. ASSUME NEW b \in Bills, OpenTrade(b)
       PROVE SweepInv'
    BY <2>6 DEF OpenTrade, Trade
  <2>7. ASSUME NEW b \in Bills, BuyerPays(b)
       PROVE SweepInv'
    BY <2>7 DEF BuyerPays, Trade
  <2>8. ASSUME NEW b \in Bills, TradeTimeout(b)
       PROVE SweepInv'
    BY <2>8 DEF TradeTimeout, Trade
  <2>9. ASSUME NEW b \in Bills, NotifyLost(b)
       PROVE SweepInv'
    BY <2>9 DEF NotifyLost, Pushable, Fault
  <2>10. ASSUME NEW p \in Calls, NEW b \in Bills, Notify(p, b)
       PROVE SweepInv'
    BY <2>10 DEF Notify, Pushable, StartCall
  <2>11. ASSUME NEW p \in Calls, NEW b \in Bills, Return(p, b)
       PROVE SweepInv'
    BY <2>11 DEF Return, StartCall
  <2>12. ASSUME NEW p \in Procs, MarkPaid(p)
       PROVE SweepInv'
    BY <2>12 DEF MarkPaid, EndCall
  <2>13. ASSUME NEW p \in Procs, Credit(p)
       PROVE SweepInv'
    BY <2>13, <2>b DEF Credit, EndCall
  <2>14. ASSUME NEW p \in Procs, CallFails(p)
       PROVE SweepInv'
    BY <2>14 DEF CallFails, EndCall, Fault
  <2>15. ASSUME NEW k \in Kinds, ListOverdue(k)
       PROVE SweepInv'
    BY <2>15 DEF ListOverdue, Take, OverduePending, Overdue
  <2>16. ASSUME NEW k \in Kinds, ExpireOverdue(k)
       PROVE SweepInv'
    BY <2>16 DEF ExpireOverdue, Overdue
  <2>17. ASSUME NEW k \in Kinds, NEW b \in Bills, CloseTrade(k, b)
       PROVE SweepInv'
    BY <2>17 DEF CloseTrade
  <2>18. ASSUME NEW k \in Kinds, NEW b \in Bills, CloseTradeFails(k, b)
       PROVE SweepInv'
    BY <2>18 DEF CloseTradeFails, Fault
  <2>19. ASSUME NEW k \in Kinds, EndClosing(k)
       PROVE SweepInv'
    BY <2>19 DEF EndClosing
  <2>20. ASSUME NEW k \in Kinds, ListPending(k)
       PROVE SweepInv'
    <3>1. PICK list \in Take(RecoverBatch, Recoverable(k)) : rlist' = [rlist EXCEPT ![k] = list]
      BY <2>20 DEF ListPending
    <3>2. list = Recoverable(k)
      BY <3>1, TakeAll, BatchAssumption DEF RecoveryFits
    <3> QED
      BY <2>20, <3>1, <3>2 DEF ListPending, Recoverable
  <2>21. ASSUME NEW k \in Kinds, NEW b \in Bills, QueryTrade(k, b)
       PROVE SweepInv'
    BY <2>21 DEF QueryTrade, StartCall
  <2>22. ASSUME NEW k \in Kinds, NEW b \in Bills, QueryTradeFails(k, b)
       PROVE SweepInv'
    BY <2>22 DEF QueryTradeFails, Fault
  <2>23. ASSUME NEW k \in Kinds, EndRecovery(k)
       PROVE SweepInv'
    BY <2>23, <2>a DEF EndRecovery
  <2>24. ASSUME NEW b \in Orders, CancelRead(b)
       PROVE SweepInv'
    BY <2>24 DEF CancelRead
  <2>28. ASSUME NEW b \in Bills, BuyerPaysOther(b)
       PROVE SweepInv'
    BY <2>28 DEF BuyerPaysOther, Trade, Fault
  <2>29. ASSUME NEW b \in Bills, NotifyRefused(b)
       PROVE SweepInv'
    BY <2>29 DEF NotifyRefused, Pushable, Fault
  <2>30. ASSUME NEW p \in Calls, NEW b \in Bills, ReturnEarly(p, b)
       PROVE SweepInv'
    BY <2>30 DEF ReturnEarly, Fault, StartCall
  <2>31. ASSUME NEW b \in Orders, MarkRead(b)
       PROVE SweepInv'
    BY <2>31 DEF MarkRead
  <2>32. CASE MarkByHand
    BY <2>32 DEF MarkByHand
  <2>25. CASE CancelWrite
    BY <2>25 DEF CancelWrite
  <2>26. CASE Crash
    BY <2>26 DEF Crash, Fault
  <2>27. CASE UNCHANGED vars
    BY <2>27 DEF vars
  <2> QED
    BY <2>1, <2>2, <2>3, <2>4, <2>5, <2>6, <2>7, <2>8, <2>9, <2>10, <2>11, <2>12, <2>13, <2>14,
             <2>15, <2>16, <2>17, <2>18, <2>19, <2>20, <2>21, <2>22, <2>23, <2>24, <2>25,
             <2>26, <2>27, <2>28, <2>29, <2>30, <2>31, <2>32
        DEF Next, Creating, Paying, Confirming, Write, Expiring, Recovering, ByHand
<1>3. QED
  BY <1>1, <1>2, TypeCorrect, BillInvariant, PTL DEF Spec

(* While the overdue orders fit into one batch, an expiry run closes what  *)
(* it expires: every step keeps CloseInv.                                  *)
LEMMA CloseInvariant == Spec /\ []ExpiryFits => []CloseInv
<1>1. Init => CloseInv
  BY BillsAssumption DEF Init, CloseInv, Bills, Kinds, KindOf
<1>2. TypeOK /\ ExpiryFits /\ CloseInv /\ [Next]_vars => CloseInv'
  <2> SUFFICES ASSUME TypeOK, ExpiryFits, CloseInv, [Next]_vars PROVE CloseInv'
    OBVIOUS
  <2> USE DEF CloseInv
  <2> USE BillsAssumption, ProcsAssumption, TypeOK
      DEF TypeOK, Statuses, AgeStates, Sources, Bills, Kinds, KindOf, Procs, billVars, alipayVars, tradeVars, ackVars,
           callVars, closeVars, recoverVars, requestVars
  <2>1. ASSUME NEW b \in Orders, PlaceOrder(b)
       PROVE CloseInv'
    BY <2>1 DEF PlaceOrder
  <2>2. ASSUME NEW c \in Creators, CountRecharges(c)
       PROVE CloseInv'
    BY <2>2 DEF CountRecharges
  <2>3. ASSUME NEW c \in Creators, NEW b \in Recharges, CreateRecharge(c, b)
       PROVE CloseInv'
    BY <2>3 DEF CreateRecharge
  <2>4. ASSUME NEW b \in Bills, Opens(b) \/ RunsOut(b)
       PROVE CloseInv'
    BY <2>4 DEF Opens, RunsOut, Ages
  <2>5. ASSUME NEW b \in Bills, CreatePayUrl(b)
       PROVE CloseInv'
    BY <2>5 DEF CreatePayUrl
  <2>6. ASSUME NEW b \in Bills, OpenTrade(b)
       PROVE CloseInv'
    BY <2>6 DEF OpenTrade, Trade
  <2>7. ASSUME NEW b \in Bills, BuyerPays(b)
       PROVE CloseInv'
    BY <2>7 DEF BuyerPays, Trade
  <2>8. ASSUME NEW b \in Bills, TradeTimeout(b)
       PROVE CloseInv'
    BY <2>8 DEF TradeTimeout, Trade
  <2>9. ASSUME NEW b \in Bills, NotifyLost(b)
       PROVE CloseInv'
    BY <2>9 DEF NotifyLost, Pushable, Fault
  <2>10. ASSUME NEW p \in Calls, NEW b \in Bills, Notify(p, b)
       PROVE CloseInv'
    BY <2>10 DEF Notify, Pushable, StartCall
  <2>11. ASSUME NEW p \in Calls, NEW b \in Bills, Return(p, b)
       PROVE CloseInv'
    BY <2>11 DEF Return, StartCall
  <2>12. ASSUME NEW p \in Procs, MarkPaid(p)
       PROVE CloseInv'
    BY <2>12 DEF MarkPaid, EndCall
  <2>13. ASSUME NEW p \in Procs, Credit(p)
       PROVE CloseInv'
    BY <2>13 DEF Credit, EndCall
  <2>14. ASSUME NEW p \in Procs, CallFails(p)
       PROVE CloseInv'
    BY <2>14 DEF CallFails, EndCall, Fault
  <2>15. ASSUME NEW k \in Kinds, ListOverdue(k)
       PROVE CloseInv'
    <3>1. PICK list \in Take(CloseBatch, OverduePending(k)) : clist' = [clist EXCEPT ![k] = list]
      BY <2>15 DEF ListOverdue
    <3>2. k = "order" => list = OverduePending(k)
      BY <3>1, TakeAll, BatchAssumption DEF ExpiryFits
    <3> QED
      BY <2>15, <3>1, <3>2 DEF ListOverdue, OverduePending, Overdue
  <2>16. ASSUME NEW k \in Kinds, ExpireOverdue(k)
       PROVE CloseInv'
    BY <2>16 DEF ExpireOverdue, Overdue
  <2>17. ASSUME NEW k \in Kinds, NEW b \in Bills, CloseTrade(k, b)
       PROVE CloseInv'
    BY <2>17 DEF CloseTrade
  <2>18. ASSUME NEW k \in Kinds, NEW b \in Bills, CloseTradeFails(k, b)
       PROVE CloseInv'
    BY <2>18 DEF CloseTradeFails, Fault
  <2>19. ASSUME NEW k \in Kinds, EndClosing(k)
       PROVE CloseInv'
    BY <2>19 DEF EndClosing
  <2>20. ASSUME NEW k \in Kinds, ListPending(k)
       PROVE CloseInv'
    BY <2>20 DEF ListPending, Take, Recoverable
  <2>21. ASSUME NEW k \in Kinds, NEW b \in Bills, QueryTrade(k, b)
       PROVE CloseInv'
    BY <2>21 DEF QueryTrade, StartCall
  <2>22. ASSUME NEW k \in Kinds, NEW b \in Bills, QueryTradeFails(k, b)
       PROVE CloseInv'
    BY <2>22 DEF QueryTradeFails, Fault
  <2>23. ASSUME NEW k \in Kinds, EndRecovery(k)
       PROVE CloseInv'
    BY <2>23 DEF EndRecovery
  <2>24. ASSUME NEW b \in Orders, CancelRead(b)
       PROVE CloseInv'
    BY <2>24 DEF CancelRead
  <2>28. ASSUME NEW b \in Bills, BuyerPaysOther(b)
       PROVE CloseInv'
    BY <2>28 DEF BuyerPaysOther, Trade, Fault
  <2>29. ASSUME NEW b \in Bills, NotifyRefused(b)
       PROVE CloseInv'
    BY <2>29 DEF NotifyRefused, Pushable, Fault
  <2>30. ASSUME NEW p \in Calls, NEW b \in Bills, ReturnEarly(p, b)
       PROVE CloseInv'
    BY <2>30 DEF ReturnEarly, Fault, StartCall
  <2>31. ASSUME NEW b \in Orders, MarkRead(b)
       PROVE CloseInv'
    BY <2>31 DEF MarkRead
  <2>32. CASE MarkByHand
    BY <2>32 DEF MarkByHand
  <2>25. CASE CancelWrite
    BY <2>25 DEF CancelWrite
  <2>26. CASE Crash
    BY <2>26 DEF Crash, Fault
  <2>27. CASE UNCHANGED vars
    BY <2>27 DEF vars
  <2> QED
    BY <2>1, <2>2, <2>3, <2>4, <2>5, <2>6, <2>7, <2>8, <2>9, <2>10, <2>11, <2>12, <2>13, <2>14,
             <2>15, <2>16, <2>17, <2>18, <2>19, <2>20, <2>21, <2>22, <2>23, <2>24, <2>25,
             <2>26, <2>27, <2>28, <2>29, <2>30, <2>31, <2>32
        DEF Next, Creating, Paying, Confirming, Write, Expiring, Recovering, ByHand
<1>3. QED
  BY <1>1, <1>2, TypeCorrect, PTL DEF Spec

(* A recovery run leaves no bill PENDING whose own amount was at Alipay    *)
(* when it listed it, whatever confirms, expires or cancels bills          *)
(* meanwhile, as long as the bills it may query fit into its batch of 20:  *)
(* recoverLostNotify.                                                      *)
THEOREM SweptBillsAreSettled == Spec /\ []RecoveryFits => []SweptIsSettled
<1>1. SweepInv => SweptIsSettled
  BY DEF SweepInv, SweptIsSettled
<1>2. QED
  BY <1>1, SweepInvariant, PTL

(* Without failures an expiry run has asked Alipay to close every order it *)
(* expired, as long as the overdue orders fit into its batch of 50:        *)
(* closeExpired.                                                           *)
THEOREM ExpiredOrdersAreClosed == Spec /\ []ExpiryFits => []ExpiredIsClosed
<1>1. TypeOK /\ CloseInv => ExpiredIsClosed
  BY DEF CloseInv, ExpiredIsClosed
<1>2. QED
  BY <1>1, TypeCorrect, CloseInvariant, PTL
=============================================================================
