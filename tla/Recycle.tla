------------------------------ MODULE Recycle ------------------------------
(***************************************************************************)
(* Recycling (apps/api/src/modules/recycle): a buyer asks, by the email of *)
(* an account, for its refund at Cursor; once the account is seen to be    *)
(* free its row leaves the warehouse.  The row is looked up first, Cursor  *)
(* is asked next, and the rows to delete are chosen by the order number    *)
(* that was read at the start.                                             *)
(*                                                                         *)
(*   Recyclers   requests of submit and refresh that can be under way      *)
(*   Requests    ids of recycle_requests                                   *)
(***************************************************************************)
EXTENDS Warehouse

CONSTANTS Recyclers, RecycleIds

ASSUME RecycleAssumption == None \notin RecycleIds

VARIABLES
    qstat, qacct, qorder,   \* recycle_requests: status ("NONE": no row), email, orderNo
    ystep,                  \* a request under way: step,
    yacct, yorder,          \* the account and the order number it read,
    yreq,                   \* the record it refreshes; None: it submits one
    yrows                   \* the rows it is about to delete

requestTable == <<qstat, qacct, qorder>>
recyclerVars == <<ystep, yacct, yorder, yreq, yrows>>
recycleVars == <<requestTable, recyclerVars>>

RecycleTypeOK ==
    /\ qstat \in [RecycleIds -> {"NONE", "PENDING", "SUCCESS", "UNKNOWN", "GONE"}]
    /\ qacct \in [RecycleIds -> Accounts \cup {None}]
    /\ qorder \in [RecycleIds -> Orders \cup {None}]
    /\ ystep \in [Recyclers -> {"idle", "ask", "list", "delete"}]
    /\ yacct \in [Recyclers -> Accounts \cup {None}]
    /\ yorder \in [Recyclers -> Orders \cup {None}]
    /\ yreq \in [Recyclers -> RecycleIds \cup {None}]
    /\ yrows \in [Recyclers -> SUBSET Rows]
    /\ \A y \in Recyclers : ystep[y] # "idle" => yacct[y] \in Accounts

RecycleInit ==
    /\ qstat = [i \in RecycleIds |-> "NONE"]
    /\ qacct = [i \in RecycleIds |-> None]
    /\ qorder = [i \in RecycleIds |-> None]
    /\ ystep = [y \in Recyclers |-> "idle"]
    /\ yacct = [y \in Recyclers |-> None]
    /\ yorder = [y \in Recyclers |-> None]
    /\ yreq = [y \in Recyclers |-> None]
    /\ yrows = [y \in Recyclers |-> {}]

Filed(i) == qstat[i] \notin {"NONE", "GONE"}

(* resolveMailbox: the row of the account with the largest id.             *)
Newest(x, r) == r \in RowsOf(x) /\ \A s \in RowsOf(x) : s <= r

Begin(y, x, o, i) ==
    /\ ystep[y] = "idle"
    /\ ystep' = [ystep EXCEPT ![y] = "ask"]
    /\ yacct' = [yacct EXCEPT ![y] = x]
    /\ yorder' = [yorder EXCEPT ![y] = o]
    /\ yreq' = [yreq EXCEPT ![y] = i]
    /\ UNCHANGED <<requestTable, yrows, wvars>>

Finish(y) ==
    /\ ystep' = [ystep EXCEPT ![y] = "idle"]
    /\ yacct' = [yacct EXCEPT ![y] = None]
    /\ yorder' = [yorder EXCEPT ![y] = None]
    /\ yreq' = [yreq EXCEPT ![y] = None]
    /\ yrows' = [yrows EXCEPT ![y] = {}]

Submit(y, x) == \E r \in Rows : Newest(x, r) /\ Begin(y, x, worder[r], None)

(* A row without an order number leaves the one of the record.             *)
Refresh(y, i) == \E r \in Rows :
    /\ Filed(i)
    /\ Newest(qacct[i], r)
    /\ Begin(y, qacct[i], IF worder[r] = None THEN qorder[i] ELSE worder[r], i)

(* classifyPlan of what Cursor says of the account; no answer: UNKNOWN.    *)
Plan(x, s) == s \in {"UNKNOWN", IF x \in free THEN "SUCCESS" ELSE "PENDING"}

(* Once the account is free its rows are to go.                            *)
Answered(y, s) ==
    IF s = "SUCCESS"
    THEN ystep' = [ystep EXCEPT ![y] = "list"] /\ UNCHANGED <<yacct, yorder, yreq, yrows>>
    ELSE Finish(y)

(* A submission becomes a record, a refreshed record takes the answer.     *)
Answer(y, i, s) ==
    /\ ystep[y] = "ask"
    /\ Plan(yacct[y], s)
    /\ IF yreq[y] = None THEN qstat[i] = "NONE" ELSE i = yreq[y] /\ Filed(i)
    /\ qstat' = [qstat EXCEPT ![i] = s]
    /\ qacct' = [qacct EXCEPT ![i] = yacct[y]]
    /\ qorder' = [qorder EXCEPT ![i] = yorder[y]]
    /\ Answered(y, s)
    /\ UNCHANGED wvars

(* A submission that cannot be recorded goes on all the same.              *)
AnswerUnrecorded(y, s) ==
    /\ ystep[y] = "ask" /\ yreq[y] = None
    /\ Plan(yacct[y], s)
    /\ Fault("database")
    /\ Answered(y, s)
    /\ UNCHANGED <<requestTable, rowVars, refundVars, cardVars, free, adminVars, todo, cause>>

(* The refreshed record was deleted meanwhile: the update throws.          *)
AnswerFindsNothing(y) ==
    /\ ystep[y] = "ask"
    /\ yreq[y] # None /\ ~Filed(yreq[y])
    /\ Finish(y)
    /\ UNCHANGED <<requestTable, wvars>>

(* Mutant: without an order number any row goes.                           *)
Recycled_AnyStatus(y) ==
    IF yorder[y] # None
    THEN {r \in Rows : Stored(r) /\ worder[r] = yorder[y]}
    ELSE RowsOf(yacct[y])

(* autoDeleteWarehouseForRecycled: by order number, whatever the status    *)
(* of the row; without one by account, if SOLD.                            *)
Recycled(y) ==
    IF yorder[y] # None
    THEN {r \in Rows : Stored(r) /\ worder[r] = yorder[y]}
    ELSE {r \in RowsOf(yacct[y]) : wstatus[r] = "SOLD"}

ListRecycled(y) ==
    /\ ystep[y] = "list"
    /\ IF Recycled(y) = {}
       THEN Finish(y)
       ELSE /\ ystep' = [ystep EXCEPT ![y] = "delete"]
            /\ yrows' = [yrows EXCEPT ![y] = Recycled(y)]
            /\ UNCHANGED <<yacct, yorder, yreq>>
    /\ UNCHANGED <<requestTable, wvars>>

DeleteRecycled(y) ==
    LET gone == {r \in yrows[y] : Stored(r)} IN
    /\ ystep[y] = "delete"
    /\ wstatus' = [r \in Rows |-> IF r \in gone THEN "GONE" ELSE wstatus[r]]
    /\ card' = [r \in Rows |-> IF r \in gone THEN None ELSE card[r]]
    /\ Finish(y)
    /\ UNCHANGED <<account, refs, worder, refundVars, cardVars, free, adminVars,
                   todo, cause, faults, requestTable>>

RemoveRequest(i) ==
    /\ Filed(i)
    /\ qstat' = [qstat EXCEPT ![i] = "GONE"]
    /\ UNCHANGED <<qacct, qorder, recyclerVars, wvars>>

(* Cursor grants the refund that was asked for by mail.                    *)
SupportRefunds(x) ==
    /\ \E i \in RecycleIds : Filed(i) /\ qacct[i] = x
    /\ free' = free \cup {x}
    /\ UNCHANGED <<rowVars, refundVars, cardVars, adminVars, todo, cause, faults, recycleVars>>

RecycleSteps(y) ==
    \/ \E x \in Accounts : Submit(y, x)
    \/ \E i \in RecycleIds : Refresh(y, i)
    \/ \E s \in {"PENDING", "SUCCESS", "UNKNOWN"} :
           AnswerUnrecorded(y, s) \/ \E i \in RecycleIds : Answer(y, i, s)
    \/ AnswerFindsNothing(y)
    \/ ListRecycled(y) \/ DeleteRecycled(y)

RecycleNext ==
    \/ \E y \in Recyclers : RecycleSteps(y)
    \/ \E i \in RecycleIds : RemoveRequest(i)
    \/ \E x \in Accounts : SupportRefunds(x)

-----------------------------------------------------------------------------
(* Recycling never takes an account off the shelf: the rows it deletes are *)
(* sold, or were; exceptions as in SoldOnce.  The row may have changed     *)
(* since the lookup, and the order number since the sale.                  *)
RecycleSparesStock == [][\A y \in Recyclers : DeleteRecycled(y) =>
    \A r \in yrows[y] :
        wstatus[r] \in {"PENDING", "ASSIGNED"} => cause[account[r]] # {}]_<<wvars, recycleVars>>

(* autoDeleteWarehouseForRecycled (recycle.service.ts:286): the account    *)
(* that was recycled leaves the warehouse, and no other.                   *)
RecycledRowsOnly == [][\A y \in Recyclers : DeleteRecycled(y) =>
    \A r \in yrows[y] : Stored(r) => account[r] = yacct[y]]_<<wvars, recycleVars>>
=============================================================================
