------------------------ MODULE OrderDeliveryProofs ------------------------
(* Theorems of OrderDelivery, for any orders, cards, jobs, confirmations,  *)
(* admins and number of failures.                                          *)
EXTENDS OrderDelivery, FiniteSetTheorems, TLAPS

(* The lock of an order is held while a delivery of it is under way. *)
MutexInv ==
    \A o \in Orders : "lock" \notin cause[o] =>
        \A j \in Jobs : Delivering(j, o) =>
            lock[o] /\ \A i \in Jobs : Delivering(i, o) => i = j

(* What a delivery job may rely on at each step. *)
JobInv(j, o) ==
    /\ jpc[j] \in {"markPaid", "pick", "cas"} =>
            Owned(o) = {} /\ status[o] \notin {"DELIVERED", "REFUNDED"}
    /\ jpc[j] = "cas" => Cardinality(jpicked[j]) = Quantity[o]
    /\ jpc[j] = "finish" => status[o] # "REFUNDED" /\ Cardinality(Owned(o)) = Quantity[o]

(* The cards of an order whose history is clean. *)
OrderInv(o) ==
    /\ Owned(o) = {} \/ Cardinality(Owned(o)) = Quantity[o]
    /\ Owned(o) # {} => \/ status[o] \in {"DELIVERED", "REFUNDED"}
                        \/ \E j \in Jobs : jorder[j] = o /\ jpc[j] = "finish"
    /\ status[o] = "DELIVERED" => Cardinality(Owned(o)) = Quantity[o]
    /\ \A j \in Jobs : jorder[j] = o => JobInv(j, o)

CancelInv == \A a \in Admins : aop[a] = "cancel" => aseen[a] = "PENDING"

CleanInv == \A o \in Orders : cause[o] = {} => OrderInv(o)

IInv == KeyOwnership /\ MutexInv /\ CancelInv /\ CleanInv

-----------------------------------------------------------------------------
(* Every variable keeps its type, and a request or job that is under way   *)
(* names an order: all the handlers of orders.service.ts.                  *)
THEOREM TypeCorrect == Spec => []TypeOK
<1>1. Init => TypeOK
  BY BoundAssumption DEF Init, TypeOK, Statuses, KeyStatuses, JobSteps, Keys
<1>2. TypeOK /\ [Next]_vars => TypeOK'
  <2> SUFFICES ASSUME TypeOK, [Next]_vars PROVE TypeOK'
    OBVIOUS
  <2> USE BoundAssumption, QuantityAssumption
  <2> USE DEF TypeOK, Statuses, KeyStatuses, JobSteps, Causes, AllAdminOps, Keys,
              orderVars, jobVars, confVars, adminVars
  <2>1. ASSUME NEW c \in Confirmers, NEW o \in Orders, ConfirmRead(c, o) PROVE TypeOK'
    BY <2>1 DEF ConfirmRead
  <2>2. ASSUME NEW c \in Confirmers, ConfirmWrite(c) PROVE TypeOK'
    BY <2>2 DEF ConfirmWrite, Blame, BlameIf
  <2>3. ASSUME NEW c \in Confirmers, ConfirmFails(c) PROVE TypeOK'
    BY <2>3 DEF ConfirmFails
  <2>4. ASSUME NEW c \in Confirmers, DeliverAsync(c) PROVE TypeOK'
    BY <2>4 DEF DeliverAsync, StartJob
  <2>5. ASSUME NEW c \in Confirmers, ConfirmDies(c) PROVE TypeOK'
    BY <2>5 DEF ConfirmDies, Fault
  <2>6. ASSUME NEW j \in Jobs, AcquireLock(j) PROVE TypeOK'
    BY <2>6 DEF AcquireLock, Goto
  <2>7. ASSUME NEW j \in Jobs, LockBusy(j) PROVE TypeOK'
    BY <2>7 DEF LockBusy, EndJob
  <2>8. ASSUME NEW j \in Jobs, LockDegraded(j) PROVE TypeOK'
    BY <2>8 DEF LockDegraded, Goto, Fault, Blame
  <2>9. ASSUME NEW j \in Jobs, ReadOrder(j) PROVE TypeOK'
    BY <2>9 DEF ReadOrder, Goto
  <2>10. ASSUME NEW j \in Jobs, MarkPaid(j) PROVE TypeOK'
    BY <2>10 DEF MarkPaid, Goto, Blame, BlameIf
  <2>11. ASSUME NEW j \in Jobs, ListKeys(j) PROVE TypeOK'
    BY <2>11 DEF ListKeys, Goto, Available
  <2>12. ASSUME NEW j \in Jobs, SellKeys(j) PROVE TypeOK'
    BY <2>12 DEF SellKeys, Goto, Available
  <2>13. ASSUME NEW j \in Jobs, FinishDelivery(j) PROVE TypeOK'
    BY <2>13 DEF FinishDelivery, Goto
  <2>14. ASSUME NEW j \in Jobs, FinishFails(j) PROVE TypeOK'
    BY <2>14 DEF FinishFails, Goto, Fault, Blame
  <2>15. ASSUME NEW j \in Jobs, ReleaseLock(j) PROVE TypeOK'
    BY <2>15 DEF ReleaseLock, EndJob
  <2>16. ASSUME NEW j \in Jobs, JobDies(j) PROVE TypeOK'
    BY <2>16 DEF JobDies, EndJob, Fault, Blame, BlameIf
  <2>17. ASSUME NEW o \in Orders, LockExpires(o) PROVE TypeOK'
    BY <2>17 DEF LockExpires
  <2>18. ASSUME NEW o \in Orders, LockOverrun(o) PROVE TypeOK'
    BY <2>18 DEF LockOverrun, Fault, Blame
  <2>19. ASSUME NEW o \in Orders, CloseExpired(o) PROVE TypeOK'
    BY <2>19 DEF CloseExpired
  <2>20. ASSUME NEW j \in Jobs, NEW o \in Orders, AdminMarkPaid(j, o) PROVE TypeOK'
    BY <2>20 DEF AdminMarkPaid, StartJob
  <2>21. ASSUME NEW j \in Jobs, NEW o \in Orders, AdminRedeliver(j, o) PROVE TypeOK'
    BY <2>21 DEF AdminRedeliver, StartJob
  <2>22. ASSUME NEW a \in Admins, NEW o \in Orders, AdminRead(a, o) PROVE TypeOK'
    BY <2>22 DEF AdminRead, Owned
  <2>23. ASSUME NEW a \in Admins, AdminCancel(a) PROVE TypeOK'
    BY <2>23 DEF AdminCancel, AdminWrite, EndRequest
  <2>24. ASSUME NEW a \in Admins, AdminDelete(a) PROVE TypeOK'
    BY <2>24 DEF AdminDelete, AdminWrite, EndRequest
  <2>25. ASSUME NEW a \in Admins, AdminRefund(a) PROVE TypeOK'
    BY <2>25 DEF AdminRefund, AdminWrite, EndRequest
  <2>26. ASSUME NEW a \in Admins, AlipayRefund(a) PROVE TypeOK'
    BY <2>26 DEF AlipayRefund, AdminWrite, EndRequest
  <2>27. ASSUME NEW a \in Admins, AdminManualDeliver(a) PROVE TypeOK'
    BY <2>27 DEF AdminManualDeliver, AdminWrite, EndRequest
  <2>28. ASSUME NEW a \in Admins, AdminFails(a) PROVE TypeOK'
    BY <2>28 DEF AdminFails, EndRequest
  <2>29. CASE UNCHANGED vars
    BY <2>29 DEF vars
  <2> QED
    BY <2>1, <2>2, <2>3, <2>4, <2>5, <2>6, <2>7, <2>8, <2>9, <2>10, <2>11, <2>12, <2>13, <2>14, <2>15, <2>16, <2>17, <2>18, <2>19, <2>20, <2>21, <2>22, <2>23, <2>24, <2>25, <2>26, <2>27, <2>28, <2>29 DEF Next, ConfirmStep, JobStep, AdminStep
<1> QED
  BY <1>1, <1>2, PTL DEF Spec

-----------------------------------------------------------------------------
(* Every card that belongs to an order is SOLD and the order exists: the   *)
(* pick, refund, delete and manual delivery transactions together.         *)
THEOREM CardsBelong == Spec => []KeyOwnership
<1>1. Init => KeyOwnership
  BY DEF Init, KeyOwnership
<1>2. TypeOK /\ KeyOwnership /\ [Next]_vars => KeyOwnership'
  <2> SUFFICES ASSUME TypeOK, KeyOwnership, [Next]_vars PROVE KeyOwnership'
    OBVIOUS
  <2> USE OrdersAssumption
  <2> USE DEF TypeOK, KeyOwnership, orderVars, jobVars, confVars, adminVars
  <2>1. ASSUME NEW c \in Confirmers, NEW o \in Orders, ConfirmRead(c, o) PROVE KeyOwnership'
    BY <2>1 DEF ConfirmRead
  <2>2. ASSUME NEW c \in Confirmers, ConfirmWrite(c) PROVE KeyOwnership'
    BY <2>2 DEF ConfirmWrite, Blame, BlameIf
  <2>3. ASSUME NEW c \in Confirmers, ConfirmFails(c) PROVE KeyOwnership'
    BY <2>3 DEF ConfirmFails
  <2>4. ASSUME NEW c \in Confirmers, DeliverAsync(c) PROVE KeyOwnership'
    BY <2>4 DEF DeliverAsync, StartJob
  <2>5. ASSUME NEW c \in Confirmers, ConfirmDies(c) PROVE KeyOwnership'
    BY <2>5 DEF ConfirmDies, Fault
  <2>6. ASSUME NEW j \in Jobs, AcquireLock(j) PROVE KeyOwnership'
    BY <2>6 DEF AcquireLock, Goto
  <2>7. ASSUME NEW j \in Jobs, LockBusy(j) PROVE KeyOwnership'
    BY <2>7 DEF LockBusy, EndJob
  <2>8. ASSUME NEW j \in Jobs, LockDegraded(j) PROVE KeyOwnership'
    BY <2>8 DEF LockDegraded, Goto, Fault, Blame
  <2>9. ASSUME NEW j \in Jobs, ReadOrder(j) PROVE KeyOwnership'
    BY <2>9 DEF ReadOrder, Goto
  <2>10. ASSUME NEW j \in Jobs, MarkPaid(j) PROVE KeyOwnership'
    BY <2>10 DEF MarkPaid, Goto, Blame, BlameIf
  <2>11. ASSUME NEW j \in Jobs, ListKeys(j) PROVE KeyOwnership'
    BY <2>11 DEF ListKeys, Goto, Available
  <2>12. ASSUME NEW j \in Jobs, SellKeys(j) PROVE KeyOwnership'
    BY <2>12 DEF SellKeys, Goto, Available
  <2>13. ASSUME NEW j \in Jobs, FinishDelivery(j) PROVE KeyOwnership'
    BY <2>13 DEF FinishDelivery, Goto
  <2>14. ASSUME NEW j \in Jobs, FinishFails(j) PROVE KeyOwnership'
    BY <2>14 DEF FinishFails, Goto, Fault, Blame
  <2>15. ASSUME NEW j \in Jobs, ReleaseLock(j) PROVE KeyOwnership'
    BY <2>15 DEF ReleaseLock, EndJob
  <2>16. ASSUME NEW j \in Jobs, JobDies(j) PROVE KeyOwnership'
    BY <2>16 DEF JobDies, EndJob, Fault, Blame, BlameIf
  <2>17. ASSUME NEW o \in Orders, LockExpires(o) PROVE KeyOwnership'
    BY <2>17 DEF LockExpires
  <2>18. ASSUME NEW o \in Orders, LockOverrun(o) PROVE KeyOwnership'
    BY <2>18 DEF LockOverrun, Fault, Blame
  <2>19. ASSUME NEW o \in Orders, CloseExpired(o) PROVE KeyOwnership'
    BY <2>19 DEF CloseExpired
  <2>20. ASSUME NEW j \in Jobs, NEW o \in Orders, AdminMarkPaid(j, o) PROVE KeyOwnership'
    BY <2>20 DEF AdminMarkPaid, StartJob
  <2>21. ASSUME NEW j \in Jobs, NEW o \in Orders, AdminRedeliver(j, o) PROVE KeyOwnership'
    BY <2>21 DEF AdminRedeliver, StartJob
  <2>22. ASSUME NEW a \in Admins, NEW o \in Orders, AdminRead(a, o) PROVE KeyOwnership'
    BY <2>22 DEF AdminRead, Owned
  <2>23. ASSUME NEW a \in Admins, AdminCancel(a) PROVE KeyOwnership'
    BY <2>23 DEF AdminCancel, AdminWrite, EndRequest
  <2>24. ASSUME NEW a \in Admins, AdminDelete(a) PROVE KeyOwnership'
    BY <2>24 DEF AdminDelete, AdminWrite, EndRequest, Owned
  <2>25. ASSUME NEW a \in Admins, AdminRefund(a) PROVE KeyOwnership'
    BY <2>25 DEF AdminRefund, AdminWrite, EndRequest
  <2>26. ASSUME NEW a \in Admins, AlipayRefund(a) PROVE KeyOwnership'
    BY <2>26 DEF AlipayRefund, AdminWrite, EndRequest
  <2>27. ASSUME NEW a \in Admins, AdminManualDeliver(a) PROVE KeyOwnership'
    BY <2>27 DEF AdminManualDeliver, AdminWrite, EndRequest, Keys
  <2>28. ASSUME NEW a \in Admins, AdminFails(a) PROVE KeyOwnership'
    BY <2>28 DEF AdminFails, EndRequest
  <2>29. CASE UNCHANGED vars
    BY <2>29 DEF vars
  <2> QED
    BY <2>1, <2>2, <2>3, <2>4, <2>5, <2>6, <2>7, <2>8, <2>9, <2>10, <2>11, <2>12, <2>13, <2>14, <2>15, <2>16, <2>17, <2>18, <2>19, <2>20, <2>21, <2>22, <2>23, <2>24, <2>25, <2>26, <2>27, <2>28, <2>29 DEF Next, ConfirmStep, JobStep, AdminStep
<1> QED
  BY <1>1, <1>2, TypeCorrect, PTL DEF Spec

(* A card reaches an order only from stock or newly created: the CAS of    *)
(* the pick transaction and adminManualDeliver.                            *)
THEOREM CardsAreNotHandedOver == Spec => NoHandover
<1> DEFINE Step == \A k \in Keys : keyOwner'[k] # keyOwner[k] /\ keyOwner'[k] # None =>
                        keyStatus[k] \in {"AVAILABLE", "NONE"}
<1>1. TypeOK /\ [Next]_vars => [Step]_vars
  <2> SUFFICES ASSUME TypeOK, [Next]_vars PROVE Step \/ UNCHANGED vars
    OBVIOUS
  <2> USE DEF TypeOK, orderVars, jobVars, confVars, adminVars
  <2>1. ASSUME NEW c \in Confirmers, NEW o \in Orders, ConfirmRead(c, o) PROVE Step
    BY <2>1 DEF ConfirmRead
  <2>2. ASSUME NEW c \in Confirmers, ConfirmWrite(c) PROVE Step
    BY <2>2 DEF ConfirmWrite, Blame, BlameIf
  <2>3. ASSUME NEW c \in Confirmers, ConfirmFails(c) PROVE Step
    BY <2>3 DEF ConfirmFails
  <2>4. ASSUME NEW c \in Confirmers, DeliverAsync(c) PROVE Step
    BY <2>4 DEF DeliverAsync, StartJob
  <2>5. ASSUME NEW c \in Confirmers, ConfirmDies(c) PROVE Step
    BY <2>5 DEF ConfirmDies, Fault
  <2>6. ASSUME NEW j \in Jobs, AcquireLock(j) PROVE Step
    BY <2>6 DEF AcquireLock, Goto
  <2>7. ASSUME NEW j \in Jobs, LockBusy(j) PROVE Step
    BY <2>7 DEF LockBusy, EndJob
  <2>8. ASSUME NEW j \in Jobs, LockDegraded(j) PROVE Step
    BY <2>8 DEF LockDegraded, Goto, Fault, Blame
  <2>9. ASSUME NEW j \in Jobs, ReadOrder(j) PROVE Step
    BY <2>9 DEF ReadOrder, Goto
  <2>10. ASSUME NEW j \in Jobs, MarkPaid(j) PROVE Step
    BY <2>10 DEF MarkPaid, Goto, Blame, BlameIf
  <2>11. ASSUME NEW j \in Jobs, ListKeys(j) PROVE Step
    BY <2>11 DEF ListKeys, Goto, Available
  <2>12. ASSUME NEW j \in Jobs, SellKeys(j) PROVE Step
    BY <2>12 DEF SellKeys, Goto, Available
  <2>13. ASSUME NEW j \in Jobs, FinishDelivery(j) PROVE Step
    BY <2>13 DEF FinishDelivery, Goto
  <2>14. ASSUME NEW j \in Jobs, FinishFails(j) PROVE Step
    BY <2>14 DEF FinishFails, Goto, Fault, Blame
  <2>15. ASSUME NEW j \in Jobs, ReleaseLock(j) PROVE Step
    BY <2>15 DEF ReleaseLock, EndJob
  <2>16. ASSUME NEW j \in Jobs, JobDies(j) PROVE Step
    BY <2>16 DEF JobDies, EndJob, Fault, Blame, BlameIf
  <2>17. ASSUME NEW o \in Orders, LockExpires(o) PROVE Step
    BY <2>17 DEF LockExpires
  <2>18. ASSUME NEW o \in Orders, LockOverrun(o) PROVE Step
    BY <2>18 DEF LockOverrun, Fault, Blame
  <2>19. ASSUME NEW o \in Orders, CloseExpired(o) PROVE Step
    BY <2>19 DEF CloseExpired
  <2>20. ASSUME NEW j \in Jobs, NEW o \in Orders, AdminMarkPaid(j, o) PROVE Step
    BY <2>20 DEF AdminMarkPaid, StartJob
  <2>21. ASSUME NEW j \in Jobs, NEW o \in Orders, AdminRedeliver(j, o) PROVE Step
    BY <2>21 DEF AdminRedeliver, StartJob
  <2>22. ASSUME NEW a \in Admins, NEW o \in Orders, AdminRead(a, o) PROVE Step
    BY <2>22 DEF AdminRead, Owned
  <2>23. ASSUME NEW a \in Admins, AdminCancel(a) PROVE Step
    BY <2>23 DEF AdminCancel, AdminWrite, EndRequest
  <2>24. ASSUME NEW a \in Admins, AdminDelete(a) PROVE Step
    BY <2>24 DEF AdminDelete, AdminWrite, EndRequest
  <2>25. ASSUME NEW a \in Admins, AdminRefund(a) PROVE Step
    BY <2>25 DEF AdminRefund, AdminWrite, EndRequest
  <2>26. ASSUME NEW a \in Admins, AlipayRefund(a) PROVE Step
    BY <2>26 DEF AlipayRefund, AdminWrite, EndRequest
  <2>27. ASSUME NEW a \in Admins, AdminManualDeliver(a) PROVE Step
    BY <2>27 DEF AdminManualDeliver, Keys
  <2>28. ASSUME NEW a \in Admins, AdminFails(a) PROVE Step
    BY <2>28 DEF AdminFails, EndRequest
  <2>29. CASE UNCHANGED vars
    BY <2>29 DEF vars
  <2> QED
    BY <2>1, <2>2, <2>3, <2>4, <2>5, <2>6, <2>7, <2>8, <2>9, <2>10, <2>11, <2>12, <2>13, <2>14, <2>15, <2>16, <2>17, <2>18, <2>19, <2>20, <2>21, <2>22, <2>23, <2>24, <2>25, <2>26, <2>27, <2>28, <2>29 DEF Next, ConfirmStep, JobStep, AdminStep
<1> QED
  BY <1>1, TypeCorrect, PTL DEF Spec, NoHandover

-----------------------------------------------------------------------------
(* The lock is held while its order is being delivered, by one job only,   *)
(* until it is lost: SET NX EX at the start of markPaidAndDeliver, DEL in  *)
(* its finally block.                                                      *)
LEMMA MutexInvariant == Spec => []MutexInv
<1>1. Init => MutexInv
  BY DEF Init, MutexInv, Delivering
<1>2. TypeOK /\ MutexInv /\ [Next]_vars => MutexInv'
  <2> SUFFICES ASSUME TypeOK, MutexInv, [Next]_vars PROVE MutexInv'
    OBVIOUS
  <2> USE DEF TypeOK, MutexInv, Delivering, orderVars, jobVars, confVars, adminVars
  <2>1. ASSUME NEW c \in Confirmers, NEW o \in Orders, ConfirmRead(c, o) PROVE MutexInv'
    BY <2>1 DEF ConfirmRead
  <2>2. ASSUME NEW c \in Confirmers, ConfirmWrite(c) PROVE MutexInv'
    BY <2>2 DEF ConfirmWrite, Blame, BlameIf
  <2>3. ASSUME NEW c \in Confirmers, ConfirmFails(c) PROVE MutexInv'
    BY <2>3 DEF ConfirmFails
  <2>4. ASSUME NEW c \in Confirmers, DeliverAsync(c) PROVE MutexInv'
    BY <2>4 DEF DeliverAsync, StartJob
  <2>5. ASSUME NEW c \in Confirmers, ConfirmDies(c) PROVE MutexInv'
    BY <2>5 DEF ConfirmDies, Fault
  <2>6. ASSUME NEW j \in Jobs, AcquireLock(j) PROVE MutexInv'
    BY <2>6 DEF AcquireLock, Goto
  <2>7. ASSUME NEW j \in Jobs, LockBusy(j) PROVE MutexInv'
    BY <2>7 DEF LockBusy, EndJob
  <2>8. ASSUME NEW j \in Jobs, LockDegraded(j) PROVE MutexInv'
    BY <2>8 DEF LockDegraded, Goto, Fault, Blame
  <2>9. ASSUME NEW j \in Jobs, ReadOrder(j) PROVE MutexInv'
    BY <2>9 DEF ReadOrder, Goto
  <2>10. ASSUME NEW j \in Jobs, MarkPaid(j) PROVE MutexInv'
    BY <2>10 DEF MarkPaid, Goto, Blame, BlameIf
  <2>11. ASSUME NEW j \in Jobs, ListKeys(j) PROVE MutexInv'
    BY <2>11 DEF ListKeys, Goto, Available
  <2>12. ASSUME NEW j \in Jobs, SellKeys(j) PROVE MutexInv'
    BY <2>12 DEF SellKeys, Goto, Available
  <2>13. ASSUME NEW j \in Jobs, FinishDelivery(j) PROVE MutexInv'
    BY <2>13 DEF FinishDelivery, Goto
  <2>14. ASSUME NEW j \in Jobs, FinishFails(j) PROVE MutexInv'
    BY <2>14 DEF FinishFails, Goto, Fault, Blame
  <2>15. ASSUME NEW j \in Jobs, ReleaseLock(j) PROVE MutexInv'
    BY <2>15 DEF ReleaseLock, EndJob
  <2>16. ASSUME NEW j \in Jobs, JobDies(j) PROVE MutexInv'
    BY <2>16 DEF JobDies, EndJob, Fault, Blame, BlameIf
  <2>17. ASSUME NEW o \in Orders, LockExpires(o) PROVE MutexInv'
    BY <2>17 DEF LockExpires, BeingDelivered
  <2>18. ASSUME NEW o \in Orders, LockOverrun(o) PROVE MutexInv'
    BY <2>18 DEF LockOverrun, Fault, Blame
  <2>19. ASSUME NEW o \in Orders, CloseExpired(o) PROVE MutexInv'
    BY <2>19 DEF CloseExpired
  <2>20. ASSUME NEW j \in Jobs, NEW o \in Orders, AdminMarkPaid(j, o) PROVE MutexInv'
    BY <2>20 DEF AdminMarkPaid, StartJob
  <2>21. ASSUME NEW j \in Jobs, NEW o \in Orders, AdminRedeliver(j, o) PROVE MutexInv'
    BY <2>21 DEF AdminRedeliver, StartJob
  <2>22. ASSUME NEW a \in Admins, NEW o \in Orders, AdminRead(a, o) PROVE MutexInv'
    BY <2>22 DEF AdminRead, Owned
  <2>23. ASSUME NEW a \in Admins, AdminCancel(a) PROVE MutexInv'
    BY <2>23 DEF AdminCancel, AdminWrite, EndRequest
  <2>24. ASSUME NEW a \in Admins, AdminDelete(a) PROVE MutexInv'
    BY <2>24 DEF AdminDelete, AdminWrite, EndRequest
  <2>25. ASSUME NEW a \in Admins, AdminRefund(a) PROVE MutexInv'
    BY <2>25 DEF AdminRefund, AdminWrite, EndRequest
  <2>26. ASSUME NEW a \in Admins, AlipayRefund(a) PROVE MutexInv'
    BY <2>26 DEF AlipayRefund, AdminWrite, EndRequest
  <2>27. ASSUME NEW a \in Admins, AdminManualDeliver(a) PROVE MutexInv'
    BY <2>27 DEF AdminManualDeliver, AdminWrite, EndRequest
  <2>28. ASSUME NEW a \in Admins, AdminFails(a) PROVE MutexInv'
    BY <2>28 DEF AdminFails, EndRequest
  <2>29. CASE UNCHANGED vars
    BY <2>29 DEF vars
  <2> QED
    BY <2>1, <2>2, <2>3, <2>4, <2>5, <2>6, <2>7, <2>8, <2>9, <2>10, <2>11, <2>12, <2>13, <2>14, <2>15, <2>16, <2>17, <2>18, <2>19, <2>20, <2>21, <2>22, <2>23, <2>24, <2>25, <2>26, <2>27, <2>28, <2>29 DEF Next, ConfirmStep, JobStep, AdminStep
<1> QED
  BY <1>1, <1>2, TypeCorrect, PTL DEF Spec

(* No two jobs deliver the same order at once while its lock lasts. *)
THEOREM DeliveriesExclude == Spec => []DeliveryMutex
<1>1. MutexInv => DeliveryMutex
  BY DEF MutexInv, DeliveryMutex
<1> QED
  BY <1>1, MutexInvariant, PTL

(* adminCancel goes on only from a PENDING order. *)
LEMMA CancelInvariant == Spec => []CancelInv
<1>1. Init => CancelInv
  BY DEF Init, CancelInv
<1>2. TypeOK /\ CancelInv /\ [Next]_vars => CancelInv'
  <2> SUFFICES ASSUME TypeOK, CancelInv, [Next]_vars PROVE CancelInv'
    OBVIOUS
  <2> USE DEF TypeOK, CancelInv, orderVars, jobVars, confVars, adminVars
  <2>1. ASSUME NEW c \in Confirmers, NEW o \in Orders, ConfirmRead(c, o) PROVE CancelInv'
    BY <2>1 DEF ConfirmRead
  <2>2. ASSUME NEW c \in Confirmers, ConfirmWrite(c) PROVE CancelInv'
    BY <2>2 DEF ConfirmWrite, Blame, BlameIf
  <2>3. ASSUME NEW c \in Confirmers, ConfirmFails(c) PROVE CancelInv'
    BY <2>3 DEF ConfirmFails
  <2>4. ASSUME NEW c \in Confirmers, DeliverAsync(c) PROVE CancelInv'
    BY <2>4 DEF DeliverAsync, StartJob
  <2>5. ASSUME NEW c \in Confirmers, ConfirmDies(c) PROVE CancelInv'
    BY <2>5 DEF ConfirmDies, Fault
  <2>6. ASSUME NEW j \in Jobs, AcquireLock(j) PROVE CancelInv'
    BY <2>6 DEF AcquireLock, Goto
  <2>7. ASSUME NEW j \in Jobs, LockBusy(j) PROVE CancelInv'
    BY <2>7 DEF LockBusy, EndJob
  <2>8. ASSUME NEW j \in Jobs, LockDegraded(j) PROVE CancelInv'
    BY <2>8 DEF LockDegraded, Goto, Fault, Blame
  <2>9. ASSUME NEW j \in Jobs, ReadOrder(j) PROVE CancelInv'
    BY <2>9 DEF ReadOrder, Goto
  <2>10. ASSUME NEW j \in Jobs, MarkPaid(j) PROVE CancelInv'
    BY <2>10 DEF MarkPaid, Goto, Blame, BlameIf
  <2>11. ASSUME NEW j \in Jobs, ListKeys(j) PROVE CancelInv'
    BY <2>11 DEF ListKeys, Goto, Available
  <2>12. ASSUME NEW j \in Jobs, SellKeys(j) PROVE CancelInv'
    BY <2>12 DEF SellKeys, Goto, Available
  <2>13. ASSUME NEW j \in Jobs, FinishDelivery(j) PROVE CancelInv'
    BY <2>13 DEF FinishDelivery, Goto
  <2>14. ASSUME NEW j \in Jobs, FinishFails(j) PROVE CancelInv'
    BY <2>14 DEF FinishFails, Goto, Fault, Blame
  <2>15. ASSUME NEW j \in Jobs, ReleaseLock(j) PROVE CancelInv'
    BY <2>15 DEF ReleaseLock, EndJob
  <2>16. ASSUME NEW j \in Jobs, JobDies(j) PROVE CancelInv'
    BY <2>16 DEF JobDies, EndJob, Fault, Blame, BlameIf
  <2>17. ASSUME NEW o \in Orders, LockExpires(o) PROVE CancelInv'
    BY <2>17 DEF LockExpires
  <2>18. ASSUME NEW o \in Orders, LockOverrun(o) PROVE CancelInv'
    BY <2>18 DEF LockOverrun, Fault, Blame
  <2>19. ASSUME NEW o \in Orders, CloseExpired(o) PROVE CancelInv'
    BY <2>19 DEF CloseExpired
  <2>20. ASSUME NEW j \in Jobs, NEW o \in Orders, AdminMarkPaid(j, o) PROVE CancelInv'
    BY <2>20 DEF AdminMarkPaid, StartJob
  <2>21. ASSUME NEW j \in Jobs, NEW o \in Orders, AdminRedeliver(j, o) PROVE CancelInv'
    BY <2>21 DEF AdminRedeliver, StartJob
  <2>22. ASSUME NEW a \in Admins, NEW o \in Orders, AdminRead(a, o) PROVE CancelInv'
    BY <2>22 DEF AdminRead, Owned
  <2>23. ASSUME NEW a \in Admins, AdminCancel(a) PROVE CancelInv'
    BY <2>23 DEF AdminCancel, AdminWrite, EndRequest
  <2>24. ASSUME NEW a \in Admins, AdminDelete(a) PROVE CancelInv'
    BY <2>24 DEF AdminDelete, AdminWrite, EndRequest
  <2>25. ASSUME NEW a \in Admins, AdminRefund(a) PROVE CancelInv'
    BY <2>25 DEF AdminRefund, AdminWrite, EndRequest
  <2>26. ASSUME NEW a \in Admins, AlipayRefund(a) PROVE CancelInv'
    BY <2>26 DEF AlipayRefund, AdminWrite, EndRequest
  <2>27. ASSUME NEW a \in Admins, AdminManualDeliver(a) PROVE CancelInv'
    BY <2>27 DEF AdminManualDeliver, AdminWrite, EndRequest
  <2>28. ASSUME NEW a \in Admins, AdminFails(a) PROVE CancelInv'
    BY <2>28 DEF AdminFails, EndRequest
  <2>29. CASE UNCHANGED vars
    BY <2>29 DEF vars
  <2> QED
    BY <2>1, <2>2, <2>3, <2>4, <2>5, <2>6, <2>7, <2>8, <2>9, <2>10, <2>11, <2>12, <2>13, <2>14, <2>15, <2>16, <2>17, <2>18, <2>19, <2>20, <2>21, <2>22, <2>23, <2>24, <2>25, <2>26, <2>27, <2>28, <2>29 DEF Next, ConfirmStep, JobStep, AdminStep
<1> QED
  BY <1>1, <1>2, TypeCorrect, PTL DEF Spec

-----------------------------------------------------------------------------
(* An order with a clean history holds nothing or all it paid for, and a   *)
(* delivery job about to take cards takes the first ones.                  *)
LEMMA CleanInvariant == Spec => []CleanInv
<1>1. Init => CleanInv
  <2> SUFFICES ASSUME Init, NEW p \in Orders PROVE OrderInv(p)
    BY DEF CleanInv
  <2>1. Owned(p) = {}
    BY OrdersAssumption DEF Init, Owned
  <2> QED
    BY <2>1 DEF Init, OrderInv, JobInv
<1>2. TypeOK /\ KeyOwnership /\ MutexInv /\ CancelInv /\ CleanInv /\ [Next]_vars => CleanInv'
  <2> SUFFICES ASSUME TypeOK, KeyOwnership, MutexInv, CancelInv, CleanInv, [Next]_vars,
                      NEW p \in Orders, cause'[p] = {}
               PROVE OrderInv(p)'
    BY DEF CleanInv
  <2> USE OrdersAssumption
  <2>a. cause[p] = {} => OrderInv(p)
    BY DEF CleanInv
  <2>b. \A j \in Jobs : cause[p] = {} /\ Delivering(j, p) =>
            \A i \in Jobs : Delivering(i, p) => i = j
    BY DEF MutexInv
  <2> USE DEF TypeOK, orderVars, jobVars, confVars, adminVars
  <2>1. ASSUME NEW c \in Confirmers, NEW o \in Orders, ConfirmRead(c, o) PROVE OrderInv(p)'
    BY <2>1, <2>a, <2>b DEF ConfirmRead, OrderInv, JobInv, Owned, Delivering
  <2>2. ASSUME NEW c \in Confirmers, ConfirmWrite(c) PROVE OrderInv(p)'
    <3>1. Owned(p)' = Owned(p)
      BY <2>2 DEF ConfirmWrite, Owned
    <3>2. cause[p] = {} /\ OrderInv(p)
      BY <2>2, <2>a DEF ConfirmWrite, Blame, BlameIf
    <3>3. \/ status'[p] = status[p]
          \/ status[p] \notin {"DELIVERED", "REFUNDED"} /\ status'[p] = "PAID"
      <4>1. ASSUME corder[c] = p, status[p] \in {"DELIVERED", "REFUNDED"} PROVE FALSE
        <5>1. cause' = [cause EXCEPT ![p] = cause[p] \cup {"stale"}]
          BY <2>2, <4>1 DEF ConfirmWrite, Blame, BlameIf
        <5> QED
          BY <5>1
      <4> QED
        BY <2>2, <4>1 DEF ConfirmWrite
    <3>4. UNCHANGED jobVars
      BY <2>2 DEF ConfirmWrite
    <3> QED
      BY <3>1, <3>2, <3>3, <3>4 DEF OrderInv, JobInv
  <2>3. ASSUME NEW c \in Confirmers, ConfirmFails(c) PROVE OrderInv(p)'
    BY <2>3, <2>a, <2>b DEF ConfirmFails, OrderInv, JobInv, Owned, Delivering
  <2>4. ASSUME NEW c \in Confirmers, DeliverAsync(c) PROVE OrderInv(p)'
    BY <2>4, <2>a, <2>b DEF DeliverAsync, StartJob, OrderInv, JobInv, Owned, Delivering
  <2>5. ASSUME NEW c \in Confirmers, ConfirmDies(c) PROVE OrderInv(p)'
    BY <2>5, <2>a, <2>b DEF ConfirmDies, Fault, OrderInv, JobInv, Owned, Delivering
  <2>6. ASSUME NEW j \in Jobs, AcquireLock(j) PROVE OrderInv(p)'
    BY <2>6, <2>a, <2>b DEF AcquireLock, Goto, OrderInv, JobInv, Owned, Delivering
  <2>7. ASSUME NEW j \in Jobs, LockBusy(j) PROVE OrderInv(p)'
    BY <2>7, <2>a, <2>b DEF LockBusy, EndJob, OrderInv, JobInv, Owned, Delivering
  <2>8. ASSUME NEW j \in Jobs, LockDegraded(j) PROVE OrderInv(p)'
    BY <2>8, <2>a, <2>b DEF LockDegraded, Goto, Fault, Blame, OrderInv, JobInv, Owned, Delivering
  <2>9. ASSUME NEW j \in Jobs, ReadOrder(j) PROVE OrderInv(p)'
    BY <2>9, <2>a, <2>b DEF ReadOrder, Goto, OrderInv, JobInv, Owned, Delivering
  <2>10. ASSUME NEW j \in Jobs, MarkPaid(j) PROVE OrderInv(p)'
    BY <2>10, <2>a, <2>b DEF MarkPaid, Goto, Blame, BlameIf, OrderInv, JobInv, Owned, Delivering
  <2>11. ASSUME NEW j \in Jobs, ListKeys(j) PROVE OrderInv(p)'
    BY <2>11, <2>a, <2>b DEF ListKeys, Goto, Available, OrderInv, JobInv, Owned, Delivering
  <2>12. ASSUME NEW j \in Jobs, SellKeys(j) PROVE OrderInv(p)'
    <3>1. cause[p] = {} /\ OrderInv(p)
      BY <2>12, <2>a DEF SellKeys
    <3>2. CASE ~(jpicked[j] \subseteq Available /\ status[jorder[j]] # "GONE")
      <4>1. Owned(p)' = Owned(p)
        BY <2>12, <3>2 DEF SellKeys, Owned
      <4> QED
        BY <2>12, <3>1, <3>2, <4>1 DEF SellKeys, Goto, OrderInv, JobInv
    <3>3. CASE jpicked[j] \subseteq Available /\ status[jorder[j]] # "GONE" /\ jorder[j] # p
      <4>1. \A k \in jpicked[j] : keyOwner[k] # p
        BY <2>12, <3>3 DEF Available, KeyOwnership, Keys
      <4>2. Owned(p)' = Owned(p)
        BY <2>12, <3>3, <4>1 DEF SellKeys, Owned
      <4> QED
        BY <2>12, <3>1, <3>3, <4>2 DEF SellKeys, Goto, OrderInv, JobInv
    <3>4. CASE jpicked[j] \subseteq Available /\ status[jorder[j]] # "GONE" /\ jorder[j] = p
      <4>1. /\ Owned(p) = {}
            /\ status[p] \notin {"DELIVERED", "REFUNDED"}
            /\ Cardinality(jpicked[j]) = Quantity[p]
        BY <2>12, <3>1, <3>4 DEF SellKeys, OrderInv, JobInv
      <4>2. Owned(p)' = jpicked[j]
        BY <2>12, <3>4, <4>1 DEF SellKeys, Owned, Keys
      <4>3. Cardinality(Owned(p)') = Quantity[p]
        BY <4>1, <4>2
      <4>4. \A i \in Jobs : jorder[i] = p /\ i # j => jpc[i] \in {"idle", "start"}
        BY <2>12, <2>b, <3>1, <3>4 DEF SellKeys, Delivering
      <4> QED
        BY <2>12, <3>4, <4>1, <4>3, <4>4 DEF SellKeys, Goto, OrderInv, JobInv
    <3> QED
      BY <3>2, <3>3, <3>4
  <2>13. ASSUME NEW j \in Jobs, FinishDelivery(j) PROVE OrderInv(p)'
    <3>1. cause[p] = {} /\ OrderInv(p)
      BY <2>13, <2>a DEF FinishDelivery
    <3>2. Owned(p)' = Owned(p)
      BY <2>13 DEF FinishDelivery, Owned
    <3>3. CASE jorder[j] # p
      BY <2>13, <3>1, <3>2, <3>3 DEF FinishDelivery, Goto, OrderInv, JobInv
    <3>4. CASE jorder[j] = p
      <4>1. \A i \in Jobs : jorder[i] = p /\ i # j => jpc[i] \in {"idle", "start"}
        BY <2>13, <2>b, <3>1, <3>4 DEF FinishDelivery, Delivering
      <4>2. CASE status[p] = "GONE"
        <5>1. Owned(p) = {}
          BY <4>2 DEF Owned, KeyOwnership
        <5> QED
          BY <2>13, <3>1, <3>2, <3>4, <4>1, <4>2, <5>1 DEF FinishDelivery, Goto, OrderInv, JobInv
      <4>3. CASE status[p] # "GONE"
        <5>1. Cardinality(Owned(p)) = Quantity[p]
          BY <2>13, <3>1, <3>4 DEF FinishDelivery, OrderInv, JobInv
        <5> QED
          BY <2>13, <3>2, <3>4, <4>1, <4>3, <5>1 DEF FinishDelivery, Goto, OrderInv, JobInv
      <4> QED
        BY <4>2, <4>3
    <3> QED
      BY <3>3, <3>4
  <2>14. ASSUME NEW j \in Jobs, FinishFails(j) PROVE OrderInv(p)'
    BY <2>14, <2>a, <2>b DEF FinishFails, Goto, Fault, Blame, OrderInv, JobInv, Owned, Delivering
  <2>15. ASSUME NEW j \in Jobs, ReleaseLock(j) PROVE OrderInv(p)'
    BY <2>15, <2>a, <2>b DEF ReleaseLock, EndJob, OrderInv, JobInv, Owned, Delivering
  <2>16. ASSUME NEW j \in Jobs, JobDies(j) PROVE OrderInv(p)'
    <3>1. cause[p] = {} /\ OrderInv(p)
      BY <2>16, <2>a DEF JobDies, Blame, BlameIf
    <3>2. Owned(p)' = Owned(p) /\ status'[p] = status[p]
      BY <2>16 DEF JobDies, Owned
    <3>3. jorder[j] = p => jpc[j] # "finish"
      <4>1. ASSUME jorder[j] = p, jpc[j] = "finish" PROVE FALSE
        <5>1. cause' = [cause EXCEPT ![p] = cause[p] \cup {"abort"}]
          BY <2>16, <4>1 DEF JobDies, Blame, BlameIf
        <5> QED
          BY <5>1
      <4> QED
        BY <4>1
    <3>4. \A i \in Jobs : IF i = j THEN jpc'[i] = "idle"
                          ELSE jpc'[i] = jpc[i] /\ jorder'[i] = jorder[i] /\ jpicked'[i] = jpicked[i]
      BY <2>16 DEF JobDies, EndJob
    <3> QED
      BY <3>1, <3>2, <3>3, <3>4 DEF OrderInv, JobInv
  <2>17. ASSUME NEW o \in Orders, LockExpires(o) PROVE OrderInv(p)'
    BY <2>17, <2>a, <2>b DEF LockExpires, OrderInv, JobInv, Owned, Delivering
  <2>18. ASSUME NEW o \in Orders, LockOverrun(o) PROVE OrderInv(p)'
    BY <2>18, <2>a, <2>b DEF LockOverrun, Fault, Blame, OrderInv, JobInv, Owned, Delivering
  <2>19. ASSUME NEW o \in Orders, CloseExpired(o) PROVE OrderInv(p)'
    BY <2>19, <2>a, <2>b DEF CloseExpired, OrderInv, JobInv, Owned, Delivering
  <2>20. ASSUME NEW j \in Jobs, NEW o \in Orders, AdminMarkPaid(j, o) PROVE OrderInv(p)'
    BY <2>20, <2>a, <2>b DEF AdminMarkPaid, StartJob, OrderInv, JobInv, Owned, Delivering
  <2>21. ASSUME NEW j \in Jobs, NEW o \in Orders, AdminRedeliver(j, o) PROVE OrderInv(p)'
    BY <2>21, <2>a, <2>b DEF AdminRedeliver, StartJob, OrderInv, JobInv, Owned, Delivering
  <2>22. ASSUME NEW a \in Admins, NEW o \in Orders, AdminRead(a, o) PROVE OrderInv(p)'
    BY <2>22, <2>a, <2>b DEF AdminRead, Owned, OrderInv, JobInv, Owned, Delivering
  <2>23. ASSUME NEW a \in Admins, AdminCancel(a) PROVE OrderInv(p)'
    <3>1. cause[p] = {} /\ OrderInv(p)
      BY <2>23, <2>a DEF AdminCancel, AdminWrite
    <3>2. UNCHANGED jobVars
      BY <2>23 DEF AdminCancel, AdminWrite
    <3>3. Owned(p)' = Owned(p)
      BY <2>23 DEF AdminCancel, Owned
    <3>4. CASE aorder[a] # p
      BY <2>23, <3>1, <3>2, <3>3, <3>4 DEF AdminCancel, OrderInv, JobInv
    <3>5. CASE aorder[a] = p
      <4>1. ~ReadIsStale(a)
        BY <2>23, <3>5 DEF AdminCancel, AdminWrite
      <4>2. status[p] = "PENDING" /\ \A j \in Jobs : ~Delivering(j, p)
        BY <2>23, <3>5, <4>1 DEF AdminCancel, AdminWrite, ReadIsStale, BeingDelivered, CancelInv
      <4>3. Owned(p) = {}
        BY <3>1, <4>2 DEF OrderInv, Delivering
      <4> QED
        BY <2>23, <3>1, <3>2, <3>3, <3>5, <4>2, <4>3 DEF AdminCancel, OrderInv, JobInv, Delivering
    <3> QED
      BY <3>4, <3>5
  <2>24. ASSUME NEW a \in Admins, AdminDelete(a) PROVE OrderInv(p)'
    <3>1. cause[p] = {} /\ OrderInv(p)
      BY <2>24, <2>a DEF AdminDelete, AdminWrite
    <3>2. UNCHANGED jobVars
      BY <2>24 DEF AdminDelete, AdminWrite
    <3>3. CASE aorder[a] # p
      <4>1. Owned(p) \cap akeys[a] = {}
        BY <2>24, <3>3 DEF AdminDelete, AdminWrite, TakesFrom
      <4>2. Owned(p)' = Owned(p)
        BY <2>24, <3>3, <4>1 DEF AdminDelete, Owned
      <4> QED
        BY <2>24, <3>1, <3>2, <3>3, <4>2 DEF AdminDelete, OrderInv, JobInv
    <3>4. CASE aorder[a] = p
      <4>1. Owned(p) = akeys[a] /\ \A j \in Jobs : ~Delivering(j, p)
        BY <2>24, <3>4 DEF AdminDelete, AdminWrite, ReadIsStale, BeingDelivered
      <4>2. Owned(p)' = {}
        BY <2>24, <3>4, <4>1 DEF AdminDelete, Owned
      <4>3. status'[p] = "GONE"
        BY <2>24, <3>4 DEF AdminDelete
      <4> QED
        BY <3>2, <4>1, <4>2, <4>3 DEF OrderInv, JobInv, Delivering
    <3> QED
      BY <3>3, <3>4
  <2>25. ASSUME NEW a \in Admins, AdminRefund(a) PROVE OrderInv(p)'
    <3>1. cause[p] = {} /\ OrderInv(p)
      BY <2>25, <2>a DEF AdminRefund, AdminWrite
    <3>2. UNCHANGED jobVars
      BY <2>25 DEF AdminRefund, AdminWrite
    <3>3. CASE aorder[a] # p
      <4>1. Owned(p) \cap akeys[a] = {}
        BY <2>25, <3>3 DEF AdminRefund, AdminWrite, TakesFrom
      <4>2. Owned(p)' = Owned(p)
        BY <2>25, <3>3, <4>1 DEF AdminRefund, Owned
      <4> QED
        BY <2>25, <3>1, <3>2, <3>3, <4>2 DEF AdminRefund, OrderInv, JobInv
    <3>4. CASE aorder[a] = p
      <4>1. Owned(p) = akeys[a] /\ \A j \in Jobs : ~Delivering(j, p)
        BY <2>25, <3>4 DEF AdminRefund, AdminWrite, ReadIsStale, BeingDelivered
      <4>2. Owned(p)' = {}
        BY <2>25, <3>4, <4>1 DEF AdminRefund, Owned
      <4>3. status'[p] = "REFUNDED"
        BY <2>25, <3>4 DEF AdminRefund
      <4> QED
        BY <3>2, <4>1, <4>2, <4>3 DEF OrderInv, JobInv, Delivering
    <3> QED
      BY <3>3, <3>4
  <2>26. ASSUME NEW a \in Admins, AlipayRefund(a) PROVE OrderInv(p)'
    BY <2>26, <2>a, <2>b DEF AlipayRefund, AdminWrite, EndRequest, OrderInv, JobInv, Owned, Delivering, BeingDelivered, ReadIsStale
  <2>27. ASSUME NEW a \in Admins, AdminManualDeliver(a) PROVE OrderInv(p)'
    <3>1. cause[p] = {} /\ OrderInv(p)
      BY <2>27, <2>a DEF AdminManualDeliver, AdminWrite
    <3>2. UNCHANGED jobVars
      BY <2>27 DEF AdminManualDeliver, AdminWrite
    <3>3. PICK S \in SUBSET {k \in ManualKeys : keyStatus[k] = "NONE"} :
             /\ Cardinality(S) = Quantity[aorder[a]] - Cardinality(akeys[a])
             /\ keyOwner' = [k \in Keys |-> IF k \in S THEN aorder[a] ELSE keyOwner[k]]
      BY <2>27 DEF AdminManualDeliver
    <3>4. S \subseteq Keys /\ \A k \in S : keyOwner[k] = None
      BY <3>3 DEF KeyOwnership, Keys
    <3>5. CASE aorder[a] # p
      <4>1. Owned(p)' = Owned(p)
        BY <3>3, <3>4, <3>5 DEF Owned
      <4> QED
        BY <2>27, <3>1, <3>2, <3>5, <4>1 DEF AdminManualDeliver, OrderInv, JobInv
    <3>6. CASE aorder[a] = p
      <4>1. Owned(p) = akeys[a] /\ \A j \in Jobs : ~Delivering(j, p)
        BY <2>27, <3>6 DEF AdminManualDeliver, AdminWrite, ReadIsStale, BeingDelivered
      <4>2. Owned(p)' = Owned(p) \cup S
        BY <3>3, <3>4, <3>6 DEF Owned
      <4>3. Cardinality(Owned(p)') = Quantity[p]
        <5>1. CASE Owned(p) = {}
          BY <3>3, <3>6, <4>1, <4>2, <5>1, FS_EmptySet, QuantityAssumption
        <5>2. CASE Cardinality(Owned(p)) = Quantity[p]
          <6>1. Cardinality(S) = 0
            BY <3>3, <3>6, <4>1, <5>2, QuantityAssumption
          <6>2. IsFiniteSet(S)
            BY KeysAssumption, FS_Subset
          <6>3. S = {}
            BY <6>1, <6>2, FS_EmptySet
          <6> QED
            BY <4>2, <5>2, <6>3
        <5> QED
          BY <3>1, <5>1, <5>2 DEF OrderInv
      <4>4. status'[p] = "DELIVERED"
        BY <2>27, <3>6 DEF AdminManualDeliver
      <4> QED
        BY <3>2, <4>1, <4>3, <4>4 DEF OrderInv, JobInv, Delivering
    <3> QED
      BY <3>5, <3>6
  <2>28. ASSUME NEW a \in Admins, AdminFails(a) PROVE OrderInv(p)'
    BY <2>28, <2>a, <2>b DEF AdminFails, EndRequest, OrderInv, JobInv, Owned, Delivering
  <2>29. CASE UNCHANGED vars
    <3>1. Owned(p)' = Owned(p)
      BY <2>29 DEF vars, Owned
    <3> QED
      BY <2>29, <2>a, <3>1 DEF vars, OrderInv, JobInv
  <2> QED
    BY <2>1, <2>2, <2>3, <2>4, <2>5, <2>6, <2>7, <2>8, <2>9, <2>10, <2>11, <2>12, <2>13, <2>14, <2>15, <2>16, <2>17, <2>18, <2>19, <2>20, <2>21, <2>22, <2>23, <2>24, <2>25, <2>26, <2>27, <2>28, <2>29 DEF Next, ConfirmStep, JobStep, AdminStep
<1> QED
  BY <1>1, <1>2, TypeCorrect, CardsBelong, MutexInvariant, CancelInvariant, PTL DEF Spec

(* Whatever the number of orders, cards, jobs and failures: without a lost *)
(* lock, a stale confirmation, a broken-off delivery or a racing admin, an *)
(* order never holds a wrong number of cards (pick and finish transactions *)
(* of markPaidAndDeliver).                                                 *)
THEOREM OrdersAreDeliveredExactly == Spec => []DeliverExactly
<1>1. CleanInv => DeliverExactly
  BY DEF CleanInv, OrderInv, DeliverExactly
<1> QED
  BY <1>1, CleanInvariant, PTL

(* Under the same exclusions DELIVERED means that the cards are there. *)
THEOREM DeliveredOrdersHaveKeys == Spec => []DeliveredHasKeys
<1>1. CleanInv => DeliveredHasKeys
  BY DEF CleanInv, OrderInv, DeliveredHasKeys
<1> QED
  BY <1>1, CleanInvariant, PTL

(* Under the same exclusions a refunded order is not delivered again: the  *)
(* early return of markPaidAndDeliver and the guards of the admin requests.*)
THEOREM RefundsAreFinal == Spec => RefundIsFinal
<1> DEFINE Step == \A o \in Orders : status[o] = "REFUNDED" /\ cause'[o] = {} =>
                        \/ status'[o] \in {"REFUNDED", "GONE"}
                        \/ \E a \in Admins : AdminManualDeliver(a)
<1>1. TypeOK /\ CancelInv /\ CleanInv /\ [Next]_vars => [Step]_vars
  <2> SUFFICES ASSUME TypeOK, CancelInv, CleanInv, [Next]_vars,
                      NEW p \in Orders, status[p] = "REFUNDED", cause'[p] = {},
                      \A a \in Admins : ~AdminManualDeliver(a)
               PROVE status'[p] \in {"REFUNDED", "GONE"}
    OBVIOUS
  <2>a. cause[p] = {} => \A j \in Jobs : jorder[j] = p =>
            jpc[j] \notin {"markPaid", "pick", "cas", "finish"}
    BY DEF CleanInv, OrderInv, JobInv
  <2> USE DEF TypeOK, orderVars, jobVars, confVars, adminVars
  <2>1. ASSUME NEW c \in Confirmers, NEW o \in Orders, ConfirmRead(c, o) PROVE status'[p] \in {"REFUNDED", "GONE"}
    BY <2>1 DEF ConfirmRead
  <2>2. ASSUME NEW c \in Confirmers, ConfirmWrite(c) PROVE status'[p] \in {"REFUNDED", "GONE"}
    <3>1. corder[c] = p => "stale" \in cause'[p]
      BY <2>2 DEF ConfirmWrite, Blame, BlameIf
    <3> QED
      BY <2>2, <3>1 DEF ConfirmWrite
  <2>3. ASSUME NEW c \in Confirmers, ConfirmFails(c) PROVE status'[p] \in {"REFUNDED", "GONE"}
    BY <2>3 DEF ConfirmFails
  <2>4. ASSUME NEW c \in Confirmers, DeliverAsync(c) PROVE status'[p] \in {"REFUNDED", "GONE"}
    BY <2>4 DEF DeliverAsync, StartJob
  <2>5. ASSUME NEW c \in Confirmers, ConfirmDies(c) PROVE status'[p] \in {"REFUNDED", "GONE"}
    BY <2>5 DEF ConfirmDies, Fault
  <2>6. ASSUME NEW j \in Jobs, AcquireLock(j) PROVE status'[p] \in {"REFUNDED", "GONE"}
    BY <2>6 DEF AcquireLock, Goto
  <2>7. ASSUME NEW j \in Jobs, LockBusy(j) PROVE status'[p] \in {"REFUNDED", "GONE"}
    BY <2>7 DEF LockBusy, EndJob
  <2>8. ASSUME NEW j \in Jobs, LockDegraded(j) PROVE status'[p] \in {"REFUNDED", "GONE"}
    BY <2>8 DEF LockDegraded, Goto, Fault, Blame
  <2>9. ASSUME NEW j \in Jobs, ReadOrder(j) PROVE status'[p] \in {"REFUNDED", "GONE"}
    BY <2>9 DEF ReadOrder, Goto
  <2>10. ASSUME NEW j \in Jobs, MarkPaid(j) PROVE status'[p] \in {"REFUNDED", "GONE"}
    <3>1. jorder[j] # p
      BY <2>10, <2>a, "stale" \notin cause'[p] DEF MarkPaid, Blame, BlameIf
    <3> QED
      BY <2>10, <3>1 DEF MarkPaid
  <2>11. ASSUME NEW j \in Jobs, ListKeys(j) PROVE status'[p] \in {"REFUNDED", "GONE"}
    BY <2>11 DEF ListKeys, Goto, Available
  <2>12. ASSUME NEW j \in Jobs, SellKeys(j) PROVE status'[p] \in {"REFUNDED", "GONE"}
    BY <2>12 DEF SellKeys, Goto, Available
  <2>13. ASSUME NEW j \in Jobs, FinishDelivery(j) PROVE status'[p] \in {"REFUNDED", "GONE"}
    BY <2>13, <2>a DEF FinishDelivery
  <2>14. ASSUME NEW j \in Jobs, FinishFails(j) PROVE status'[p] \in {"REFUNDED", "GONE"}
    BY <2>14 DEF FinishFails, Goto, Fault, Blame
  <2>15. ASSUME NEW j \in Jobs, ReleaseLock(j) PROVE status'[p] \in {"REFUNDED", "GONE"}
    BY <2>15 DEF ReleaseLock, EndJob
  <2>16. ASSUME NEW j \in Jobs, JobDies(j) PROVE status'[p] \in {"REFUNDED", "GONE"}
    BY <2>16 DEF JobDies, EndJob, Fault, Blame, BlameIf
  <2>17. ASSUME NEW o \in Orders, LockExpires(o) PROVE status'[p] \in {"REFUNDED", "GONE"}
    BY <2>17 DEF LockExpires
  <2>18. ASSUME NEW o \in Orders, LockOverrun(o) PROVE status'[p] \in {"REFUNDED", "GONE"}
    BY <2>18 DEF LockOverrun, Fault, Blame
  <2>19. ASSUME NEW o \in Orders, CloseExpired(o) PROVE status'[p] \in {"REFUNDED", "GONE"}
    BY <2>19 DEF CloseExpired
  <2>20. ASSUME NEW j \in Jobs, NEW o \in Orders, AdminMarkPaid(j, o) PROVE status'[p] \in {"REFUNDED", "GONE"}
    BY <2>20 DEF AdminMarkPaid, StartJob
  <2>21. ASSUME NEW j \in Jobs, NEW o \in Orders, AdminRedeliver(j, o) PROVE status'[p] \in {"REFUNDED", "GONE"}
    BY <2>21 DEF AdminRedeliver, StartJob
  <2>22. ASSUME NEW a \in Admins, NEW o \in Orders, AdminRead(a, o) PROVE status'[p] \in {"REFUNDED", "GONE"}
    BY <2>22 DEF AdminRead, Owned
  <2>23. ASSUME NEW a \in Admins, AdminCancel(a) PROVE status'[p] \in {"REFUNDED", "GONE"}
    <3>1. aorder[a] = p => "admin" \in cause'[p]
      BY <2>23 DEF AdminCancel, AdminWrite, ReadIsStale, CancelInv
    <3> QED
      BY <2>23, <3>1 DEF AdminCancel
  <2>24. ASSUME NEW a \in Admins, AdminDelete(a) PROVE status'[p] \in {"REFUNDED", "GONE"}
    BY <2>24 DEF AdminDelete, AdminWrite, EndRequest
  <2>25. ASSUME NEW a \in Admins, AdminRefund(a) PROVE status'[p] \in {"REFUNDED", "GONE"}
    BY <2>25 DEF AdminRefund, AdminWrite, EndRequest
  <2>26. ASSUME NEW a \in Admins, AlipayRefund(a) PROVE status'[p] \in {"REFUNDED", "GONE"}
    BY <2>26 DEF AlipayRefund, AdminWrite, EndRequest
  <2>27. ASSUME NEW a \in Admins, AdminManualDeliver(a) PROVE status'[p] \in {"REFUNDED", "GONE"}
    BY <2>27
  <2>28. ASSUME NEW a \in Admins, AdminFails(a) PROVE status'[p] \in {"REFUNDED", "GONE"}
    BY <2>28 DEF AdminFails, EndRequest
  <2>29. CASE UNCHANGED vars
    BY <2>29 DEF vars
  <2> QED
    BY <2>1, <2>2, <2>3, <2>4, <2>5, <2>6, <2>7, <2>8, <2>9, <2>10, <2>11, <2>12, <2>13, <2>14, <2>15, <2>16, <2>17, <2>18, <2>19, <2>20, <2>21, <2>22, <2>23, <2>24, <2>25, <2>26, <2>27, <2>28, <2>29 DEF Next, ConfirmStep, JobStep, AdminStep
<1> QED
  BY <1>1, TypeCorrect, CancelInvariant, CleanInvariant, PTL DEF Spec, RefundIsFinal

(* A card that is SOLD and belongs to no order was lost by an admin who    *)
(* deleted an order on an outdated read, while its delivery was under way: *)
(* no sale, refund, manual delivery or failure leaves such a card behind.  *)
THEOREM OrphansAreExplained == Spec => []NoOrphanCard
<1>1. Init => NoOrphanCard
  BY DEF Init, NoOrphanCard
<1>2. TypeOK /\ KeyOwnership /\ NoOrphanCard /\ [Next]_vars => NoOrphanCard'
  <2> SUFFICES ASSUME TypeOK, KeyOwnership, NoOrphanCard, [Next]_vars PROVE NoOrphanCard'
    OBVIOUS
  <2> USE OrdersAssumption
  <2> USE DEF TypeOK, KeyOwnership, NoOrphanCard, orderVars, jobVars, confVars, adminVars
  <2>1. ASSUME NEW c \in Confirmers, NEW o \in Orders, ConfirmRead(c, o) PROVE NoOrphanCard'
    BY <2>1 DEF ConfirmRead
  <2>2. ASSUME NEW c \in Confirmers, ConfirmWrite(c) PROVE NoOrphanCard'
    BY <2>2 DEF ConfirmWrite, Blame, BlameIf
  <2>3. ASSUME NEW c \in Confirmers, ConfirmFails(c) PROVE NoOrphanCard'
    BY <2>3 DEF ConfirmFails
  <2>4. ASSUME NEW c \in Confirmers, DeliverAsync(c) PROVE NoOrphanCard'
    BY <2>4 DEF DeliverAsync, StartJob
  <2>5. ASSUME NEW c \in Confirmers, ConfirmDies(c) PROVE NoOrphanCard'
    BY <2>5 DEF ConfirmDies, Fault
  <2>6. ASSUME NEW j \in Jobs, AcquireLock(j) PROVE NoOrphanCard'
    BY <2>6 DEF AcquireLock, Goto
  <2>7. ASSUME NEW j \in Jobs, LockBusy(j) PROVE NoOrphanCard'
    BY <2>7 DEF LockBusy, EndJob
  <2>8. ASSUME NEW j \in Jobs, LockDegraded(j) PROVE NoOrphanCard'
    BY <2>8 DEF LockDegraded, Goto, Fault, Blame
  <2>9. ASSUME NEW j \in Jobs, ReadOrder(j) PROVE NoOrphanCard'
    BY <2>9 DEF ReadOrder, Goto
  <2>10. ASSUME NEW j \in Jobs, MarkPaid(j) PROVE NoOrphanCard'
    BY <2>10 DEF MarkPaid, Goto, Blame, BlameIf
  <2>11. ASSUME NEW j \in Jobs, ListKeys(j) PROVE NoOrphanCard'
    BY <2>11 DEF ListKeys, Goto, Available
  <2>12. ASSUME NEW j \in Jobs, SellKeys(j) PROVE NoOrphanCard'
    BY <2>12 DEF SellKeys, Goto, Available
  <2>13. ASSUME NEW j \in Jobs, FinishDelivery(j) PROVE NoOrphanCard'
    BY <2>13 DEF FinishDelivery, Goto
  <2>14. ASSUME NEW j \in Jobs, FinishFails(j) PROVE NoOrphanCard'
    BY <2>14 DEF FinishFails, Goto, Fault, Blame
  <2>15. ASSUME NEW j \in Jobs, ReleaseLock(j) PROVE NoOrphanCard'
    BY <2>15 DEF ReleaseLock, EndJob
  <2>16. ASSUME NEW j \in Jobs, JobDies(j) PROVE NoOrphanCard'
    BY <2>16 DEF JobDies, EndJob, Fault, Blame, BlameIf
  <2>17. ASSUME NEW o \in Orders, LockExpires(o) PROVE NoOrphanCard'
    BY <2>17 DEF LockExpires
  <2>18. ASSUME NEW o \in Orders, LockOverrun(o) PROVE NoOrphanCard'
    BY <2>18 DEF LockOverrun, Fault, Blame
  <2>19. ASSUME NEW o \in Orders, CloseExpired(o) PROVE NoOrphanCard'
    BY <2>19 DEF CloseExpired
  <2>20. ASSUME NEW j \in Jobs, NEW o \in Orders, AdminMarkPaid(j, o) PROVE NoOrphanCard'
    BY <2>20 DEF AdminMarkPaid, StartJob
  <2>21. ASSUME NEW j \in Jobs, NEW o \in Orders, AdminRedeliver(j, o) PROVE NoOrphanCard'
    BY <2>21 DEF AdminRedeliver, StartJob
  <2>22. ASSUME NEW a \in Admins, NEW o \in Orders, AdminRead(a, o) PROVE NoOrphanCard'
    BY <2>22 DEF AdminRead, Owned
  <2>23. ASSUME NEW a \in Admins, AdminCancel(a) PROVE NoOrphanCard'
    BY <2>23 DEF AdminCancel, AdminWrite, EndRequest
  <2>24. ASSUME NEW a \in Admins, AdminDelete(a) PROVE NoOrphanCard'
    <3>1. aorder[a] \in Orders /\ status'[aorder[a]] = "GONE"
      BY <2>24 DEF AdminDelete, AdminWrite, AllAdminOps
    <3>2. \A o \in Orders : status[o] = "GONE" => status'[o] = "GONE" /\ cause[o] \subseteq cause'[o]
      BY <2>24, <3>1 DEF AdminDelete, AdminWrite
    <3>3. ASSUME NEW k \in Keys, keyStatus'[k] = "SOLD", keyOwner'[k] = None
          PROVE  \E o \in Orders : status'[o] = "GONE" /\ "admin" \in cause'[o]
      <4>1. k \notin akeys[a] /\ keyStatus[k] = "SOLD"
        BY <2>24, <3>3 DEF AdminDelete
      <4>2. CASE keyOwner[k] = None
        BY <3>2, <4>1, <4>2
      <4>3. CASE keyOwner[k] # None
        <5>1. k \in Owned(aorder[a])
          BY <2>24, <3>3, <4>1, <4>3 DEF AdminDelete
        <5>2. ReadIsStale(a)
          BY <4>1, <5>1 DEF ReadIsStale
        <5>3. "admin" \in cause'[aorder[a]]
          BY <2>24, <3>1, <5>2 DEF AdminDelete, AdminWrite
        <5> QED
          BY <3>1, <5>3
      <4> QED
        BY <4>2, <4>3
    <3> QED
      BY <3>3
  <2>25. ASSUME NEW a \in Admins, AdminRefund(a) PROVE NoOrphanCard'
    BY <2>25 DEF AdminRefund, AdminWrite, EndRequest
  <2>26. ASSUME NEW a \in Admins, AlipayRefund(a) PROVE NoOrphanCard'
    BY <2>26 DEF AlipayRefund, AdminWrite, EndRequest
  <2>27. ASSUME NEW a \in Admins, AdminManualDeliver(a) PROVE NoOrphanCard'
    BY <2>27 DEF AdminManualDeliver, AdminWrite, EndRequest, Keys
  <2>28. ASSUME NEW a \in Admins, AdminFails(a) PROVE NoOrphanCard'
    BY <2>28 DEF AdminFails, EndRequest
  <2>29. CASE UNCHANGED vars
    BY <2>29 DEF vars
  <2> QED
    BY <2>1, <2>2, <2>3, <2>4, <2>5, <2>6, <2>7, <2>8, <2>9, <2>10, <2>11, <2>12, <2>13, <2>14, <2>15, <2>16, <2>17, <2>18, <2>19, <2>20, <2>21, <2>22, <2>23, <2>24, <2>25, <2>26, <2>27, <2>28, <2>29 DEF Next, ConfirmStep, JobStep, AdminStep
<1> QED
  BY <1>1, <1>2, TypeCorrect, CardsBelong, PTL DEF Spec
=============================================================================
