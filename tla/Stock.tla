------------------------------- MODULE Stock -------------------------------
(***************************************************************************)
(* What feeds and empties the stock of the shop, together: the warehouse,  *)
(* recycling, the pool of subscriptions, the pool of accounts for quota    *)
(* packages, and the redemption of codes.  They meet in the rows of the    *)
(* warehouse and in the delivery of an order, of card keys or of a quota   *)
(* package, which a redemption ends in as a purchase does.                 *)
(*                                                                         *)
(* load says which activities, accounts and callers a behaviour has; it is *)
(* chosen at the start and only keeps an instance small: one run of TLC    *)
(* covers the behaviours of every member of Workloads.                     *)
(***************************************************************************)
EXTENDS Recycle, CursorSub, Redeem, PoolGrants

CONSTANT Workloads

Activities ==
    AllAdminOps \cup {"push", "first", "import", "sale", "cron", "byhand", "recycle",
                    "sub", "sync", "redeem",
                    "quota", "poll", "bind", "ends", "accounts", "network"} \cup PoolOps

ASSUME WorkloadAssumption ==
    Workloads \subseteq
        [does : SUBSET Activities, accounts : SUBSET Accounts, callers : SUBSET Callers]

VARIABLE load

svars == <<wvars, recycleVars, subVars, redeemVars, poolVars, load>>

TypeOK ==
    /\ WarehouseTypeOK /\ RecycleTypeOK /\ SubTypeOK /\ RedeemTypeOK /\ PoolTypeOK
    /\ load \in Workloads

Init ==
    /\ WarehouseInit
    /\ RecycleInit
    /\ SubInit
    /\ RedeemInit
    /\ PoolInit
    /\ load \in Workloads

-----------------------------------------------------------------------------
On(activity) == activity \in load.does

Quiet(others) == UNCHANGED others /\ UNCHANGED load

WarehouseSteps ==
    /\ \/ On("push") /\ \E x \in load.accounts, r \in Rows : Push(x, r)
       \/ On("first") /\ \E x \in load.accounts, r \in Rows :
              Push(x, r) /\ \A s \in Rows : account[s] # x
       \/ On("import") /\ \E x \in load.accounts, r \in Rows : Import(x, r)
       \/ \E a \in Admins : Request(a, load.does)
       \/ On("sale") /\ \E o \in Orders :
              ReturnCards(o) \/ (made[o] = None /\ Purchase(o))
       \/ On("cron") /\ \E c \in Crons : CronSteps(c)
       \/ On("byhand") /\ \E r \in Rows : ByHand(r)
    /\ Quiet(<<recycleVars, subVars, redeemVars, poolVars>>)

Recycling == On("recycle") /\ RecycleNext /\ Quiet(<<subVars, redeemVars, poolVars>>)

Subscriptions ==
    /\ \/ (On("sub") \/ On("sync")) /\ EnterSteps(load.accounts)
       \/ On("sub") /\ PushSteps(load.accounts)
       \/ On("sync") /\ StatusSteps(load.accounts)
    /\ Quiet(<<recycleVars, redeemVars, poolVars>>)

(* A redemption up to its delivery; its order number is a new one.         *)
Redeeming ==
    /\ On("redeem")
    /\ BackOffice \/ \E q \in Requests : Redemption(q)
    /\ \A o \in Orders : made[o] # made'[o] => o \notin delivered
    /\ Quiet(<<rowVars, refundVars, cardVars, free, adminVars, todo, cause,
               recycleVars, subVars, poolVars>>)

(* The delivery of a quota package creates its grant.                      *)
DeliverQuota(o) ==
    /\ o \notin delivered
    /\ CreateGrant(o)
    /\ delivered' = delivered \cup {o}
    /\ UNCHANGED <<rowVars, refundVars, kstatus, kaccount, korder, free, adminVars, todo, cause>>

(* A redemption ends in the delivery of any order of its goods; out of     *)
(* stock, or a quota package for nobody who is logged in, the order stays  *)
(* PAID.                                                                   *)
RedeemDelivery(q) ==
    /\ On("redeem")
    /\ Deliver(q)
    /\ \/ ~On("quota") /\ UNCHANGED poolVars /\
              \/ \E S \in SUBSET Cards : Oldest(1, S) /\ Sell(rorder[q], S)
              \/ Available = {} /\ UNCHANGED wvars
       \/ On("quota") /\ (DeliverQuota(rorder[q]) \/ UNCHANGED <<wvars, poolVars>>)
    /\ Quiet(<<recycleVars, subVars>>)

Pooling ==
    /\ On("quota")
    /\ \/ \E o \in Orders : made[o] = None /\ DeliverQuota(o)
       \/ /\ \/ PoolWorld
             \/ On("accounts") /\ PoolAdmin
             \/ On("bind") /\ \E o \in Orders : BindUserToken(o)
             \/ On("ends") /\ \E o \in Orders : GrantEnds(o)
             \/ On("poll") /\ RefreshAll(Poller)
             \/ \E c \in load.callers : Asks(c, load.does)
             \/ \E c \in Procs : Proceed(c)
          /\ UNCHANGED <<rowVars, refundVars, cardVars, free, adminVars, todo, cause>>
    /\ On("network") \/ UNCHANGED faults
    /\ Quiet(<<recycleVars, subVars, redeemVars>>)

Next ==
    \/ WarehouseSteps
    \/ Recycling
    \/ Subscriptions
    \/ Pooling
    \/ Redeeming
    \/ \E q \in Requests : RedeemDelivery(q)

Spec == Init /\ [][Next]_svars

(* The refund job is started every minute and the refresh of the pool      *)
(* every ten, their calls are answered or time out, and a row that stays   *)
(* due reaches its time.                                                   *)
FairSpec ==
    /\ Spec
    /\ \A r \in Rows : WF_svars(
           On("cron") /\ \E c \in Crons, S \in SUBSET Rows : r \in S /\ ListDue(c, S)
                      /\ Quiet(<<recycleVars, subVars, redeemVars, poolVars>>))
    /\ \A c \in Crons : WF_svars(
           On("cron") /\ \E r \in Rows, res \in Outcomes : RefundRow(c, r, res)
                      /\ Quiet(<<recycleVars, subVars, redeemVars, poolVars>>))
    /\ WF_svars(On("poll") /\ (RefreshAll(Poller) \/ Proceed(Poller))
                /\ Quiet(<<recycleVars, subVars, redeemVars, rowVars, refundVars, cardVars,
                           free, adminVars, todo, cause>>))

-----------------------------------------------------------------------------
(* A sold account is refunded, or tried as often as the job tries, unless  *)
(* its row stops being SOLD: no failure, crash or row deleted under a run  *)
(* keeps the job from it for ever (runAutoRefunds).                        *)
RefundEnds ==
    \A r \in Rows : (On("cron") /\ wstatus[r] = "SOLD") ~>
        (refund[r] = "DONE" \/ attempts[r] >= MaxAttempts \/ wstatus[r] # "SOLD")

(* A grant that is used up on its account does not stay so: the job        *)
(* notices, while no other grant is in the way (refreshAllAccounts).       *)
UsedUpIsNoticed ==
    \A o \in Orders : (On("poll") /\ UsedUpOnAccount(o)) ~> ~UsedUpOnAccount(o)
=============================================================================
