---------------------------- MODULE TokenRefund ----------------------------
(***************************************************************************)
(* The token refund as a paid service (customer-refund.service.ts): a      *)
(* record of token_refund_logs from the application over the fee to a      *)
(* refund task, which runs the remote chain of cursor-refund.service.ts;   *)
(* with the tasks' recovery after a restart and the back office's recheck, *)
(* retry and removal.  Alipay and the account at Cursor are external.      *)
(*                                                                         *)
(*   Tasks   runs of executeTokenRefund that can be under way together     *)
(*   Calls   markFeePaid for a notification, a return or an admin's query  *)
(*   Crons   instances of the server that run the recovery                 *)
(*   Admins  requests of the back office                                   *)
(***************************************************************************)
EXTENDS Integers, FiniteSets

CONSTANTS
    Logs,           \* rows of token_refund_logs
    Accounts,       \* accounts at Cursor
    AccountOf,      \* the account of a row's token
    Tasks, Calls, Crons, Admins,
    RecoverBatch,   \* limit = 10
    None,
    FaultKinds,     \* the failures of the environment that occur
    MaxFaults       \* bound on their number

(* crash: an instance of the server stops; database: a statement fails;    *)
(* key: the server restarts with a key that does not decrypt old tokens;   *)
(* slow: a task of at most 18 minutes is suspended for more than 20.       *)
AllFaultKinds == {"crash", "database", "key", "slow"}

ASSUME LogsAssumption == None \notin Logs /\ AccountOf \in [Logs -> Accounts]
ASSUME BatchAssumption == RecoverBatch \in Nat \ {0}
ASSUME FaultAssumption == MaxFaults \in Nat /\ FaultKinds \subseteq AllFaultKinds

VARIABLES
    status, payStatus,  \* the columns of a row
    token,              \* cursorTokenEnc: absent, readable, not decryptable
    stale,              \* rows whose updatedAt is more than 20 minutes ago
    money,              \* rows whose fee was paid at Alipay
    member,             \* membership of an account at Cursor
    tstep, tlog, sawFree, \* a task: step, row; the tasks that saw 'free'
    pstep, plog,        \* a markFeePaid: step, row it read
    astep, alog,        \* a request of the back office: step, row it read
    rlist,              \* a recovery run: rows it still has to take over
    freed,              \* history: rows whose account was free since they exist
    overrun,            \* history: rows that became stale under a running task
    faults

rowVars == <<status, payStatus, token, stale>>
worldVars == <<money, member, freed>>
taskVars == <<tstep, tlog, sawFree>>
callVars == <<pstep, plog>>
adminVars == <<astep, alog>>
vars == <<rowVars, worldVars, taskVars, callVars, adminVars, rlist, overrun, faults>>

Statuses == {"NONE", "NEED_PAY", "PROCESSING", "FAILED", "DONE", "GONE"}
TaskSteps == {"idle", "check", "invite", "remove", "verify", "record", "fallback"}

TypeOK ==
    /\ status \in [Logs -> Statuses]
    /\ payStatus \in [Logs -> {"NONE", "UNPAID", "PAID"}]
    /\ token \in [Logs -> {"none", "ok", "bad"}]
    /\ stale \subseteq Logs
    /\ money \subseteq Logs
    /\ member \in [Accounts -> {"paid", "team", "leaving", "free"}]
    /\ tstep \in [Tasks -> TaskSteps]
    /\ tlog \in [Tasks -> Logs \cup {None}]
    /\ sawFree \subseteq Tasks
    /\ pstep \in [Calls -> {"idle", "claim", "lost"}]
    /\ plog \in [Calls -> Logs \cup {None}]
    /\ astep \in [Admins -> {"idle", "ask", "free", "other", "retry", "remove"}]
    /\ alog \in [Admins -> Logs \cup {None}]
    /\ rlist \in [Crons -> SUBSET Logs]
    /\ freed \subseteq Logs
    /\ overrun \subseteq Logs
    /\ faults \in 0..MaxFaults
    /\ \A t \in Tasks : tstep[t] # "idle" => tlog[t] \in Logs
    /\ \A c \in Calls : pstep[c] # "idle" => plog[c] \in Logs
    /\ \A a \in Admins : astep[a] # "idle" => alog[a] \in Logs

Init ==
    /\ status = [l \in Logs |-> "NONE"]
    /\ payStatus = [l \in Logs |-> "NONE"]
    /\ token = [l \in Logs |-> "none"]
    /\ stale = {}
    /\ money = {}
    /\ member \in [Accounts -> {"paid", "free"}]
    /\ tstep = [t \in Tasks |-> "idle"]
    /\ tlog = [t \in Tasks |-> None]
    /\ sawFree = {}
    /\ pstep = [c \in Calls |-> "idle"]
    /\ plog = [c \in Calls |-> None]
    /\ astep = [a \in Admins |-> "idle"]
    /\ alog = [a \in Admins |-> None]
    /\ rlist = [c \in Crons |-> {}]
    /\ freed = {}
    /\ overrun = {}
    /\ faults = 0

Fault(kind) == kind \in FaultKinds /\ faults < MaxFaults /\ faults' = faults + 1

Works(t, l) == tstep[t] # "idle" /\ tlog[t] = l
Working(l) == \E t \in Tasks : Works(t, l)

(* An update of a row sets updatedAt. *)
Update(l, s, tk) ==
    /\ status' = [status EXCEPT ![l] = s]
    /\ token' = [token EXCEPT ![l] = tk]
    /\ stale' = stale \ {l}

(* updateMany of a row in one of the statuses S; of none otherwise. *)
UpdateIf(l, S, s, tk) ==
    IF status[l] \in S THEN Update(l, s, tk) ELSE UNCHANGED <<status, token, stale>>

-----------------------------------------------------------------------------
(* The application, and the world outside. *)

(* checkMembership and create: nobody sees the row before it is created.   *)
(* A free account is done at once, another one costs a fee.                *)
ApplyByToken(l) ==
    LET free == member[AccountOf[l]] = "free" IN
    /\ status[l] = "NONE"
    /\ Update(l, IF free THEN "DONE" ELSE "NEED_PAY", IF free THEN "none" ELSE "ok")
    /\ payStatus' = [payStatus EXCEPT ![l] = IF free THEN "NONE" ELSE "UNPAID"]
    /\ freed' = IF free THEN freed \cup {l} ELSE freed
    /\ UNCHANGED <<money, member, taskVars, callVars, adminVars, rlist, overrun, faults>>

(* The link of a row that waits for its fee is paid. *)
BuyerPays(l) ==
    /\ status[l] = "NEED_PAY"
    /\ l \notin money
    /\ money' = money \cup {l}
    /\ UNCHANGED <<rowVars, member, freed, taskVars, callVars, adminVars, rlist, overrun, faults>>

Member(a, m) ==
    /\ member' = [member EXCEPT ![a] = m]
    /\ freed' = IF m = "free"
                THEN freed \cup {l \in Logs : AccountOf[l] = a /\ status[l] # "NONE"}
                ELSE freed

(* An account that was removed from the team becomes free some time later; *)
(* a subscription runs out or is bought again.                             *)
AccountChanges(a) ==
    /\ \/ member[a] \in {"leaving", "paid"} /\ Member(a, "free")
       \/ member[a] = "free" /\ Member(a, "paid")
    /\ UNCHANGED <<rowVars, money, taskVars, callVars, adminVars, rlist, overrun, faults>>

-----------------------------------------------------------------------------
(* markFeePaid *)

(* Mutant of StartTask: the task does not know its row. *)
StartTask_NoRow(t, l) ==
    /\ tstep[t] = "idle"
    /\ tstep' = [tstep EXCEPT ![t] = "check"]
    /\ sawFree' = sawFree \ {t}
    /\ UNCHANGED tlog

StartTask(t, l) ==
    /\ tstep[t] = "idle"
    /\ tstep' = [tstep EXCEPT ![t] = "check"]
    /\ tlog' = [tlog EXCEPT ![t] = l]
    /\ sawFree' = sawFree \ {t}

Call(c, step, l) ==
    /\ pstep' = [pstep EXCEPT ![c] = step]
    /\ plog' = [plog EXCEPT ![c] = l]

(* The row is read; one that is not NEED_PAY and UNPAID ends the call. *)
FeeRead(c, l) ==
    /\ pstep[c] = "idle"
    /\ l \in money
    /\ status[l] = "NEED_PAY" /\ payStatus[l] = "UNPAID"
    /\ Call(c, "claim", l)
    /\ UNCHANGED <<rowVars, worldVars, taskVars, adminVars, rlist, overrun, faults>>

(* Mutant of FeeClaim: an update without condition. *)
FeeClaim_NoCondition(c, t) ==
    LET l == plog[c] IN
    /\ pstep[c] = "claim"
    /\ Update(l, "PROCESSING", token[l])
    /\ payStatus' = [payStatus EXCEPT ![l] = "PAID"]
    /\ StartTask(t, l)
    /\ Call(c, "idle", None)
    /\ UNCHANGED <<worldVars, adminVars, rlist, overrun, faults>>

(* Mutant of FeeClaim: payStatus is not written. *)
FeeClaim_StaysUnpaid(c, t) ==
    LET l == plog[c] IN
    /\ pstep[c] = "claim"
    /\ IF status[l] = "NEED_PAY"
       THEN /\ Update(l, "PROCESSING", token[l])
            /\ IF token[l] = "ok"
               THEN StartTask(t, l) /\ Call(c, "idle", None)
               ELSE Call(c, "lost", l) /\ UNCHANGED taskVars
       ELSE Call(c, "idle", None) /\ UNCHANGED <<status, token, stale, taskVars>>
    /\ UNCHANGED <<payStatus, worldVars, adminVars, rlist, overrun, faults>>

(* The conditional update; who makes it starts the task. *)
FeeClaim(c, t) ==
    LET l == plog[c] IN
    /\ pstep[c] = "claim"
    /\ IF status[l] = "NEED_PAY" /\ payStatus[l] = "UNPAID"
       THEN /\ Update(l, "PROCESSING", token[l])
            /\ payStatus' = [payStatus EXCEPT ![l] = "PAID"]
            /\ IF token[l] = "ok"
               THEN StartTask(t, l) /\ Call(c, "idle", None)
               ELSE Call(c, "lost", l) /\ UNCHANGED taskVars
       ELSE Call(c, "idle", None) /\ UNCHANGED <<rowVars, taskVars>>
    /\ UNCHANGED <<worldVars, adminVars, rlist, overrun, faults>>

(* The token cannot be read: the row fails in a statement of its own. *)
FeeTokenLost(c) ==
    /\ pstep[c] = "lost"
    /\ UpdateIf(plog[c], {"PROCESSING"}, "FAILED", token[plog[c]])
    /\ Call(c, "idle", None)
    /\ UNCHANGED <<payStatus, worldVars, taskVars, adminVars, rlist, overrun, faults>>

-----------------------------------------------------------------------------
(* executeTokenRefund: the chain of refundOne, then the result. *)

Goto(t, step, ok) ==
    /\ tstep' = [tstep EXCEPT ![t] = step]
    /\ sawFree' = IF ok THEN sawFree \cup {t} ELSE sawFree \ {t}
    /\ tlog' = IF step = "idle" THEN [tlog EXCEPT ![t] = None] ELSE tlog

(* getConfig, fillMe, membership, previewRefundUsd, resolveInvite. *)
CheckAccount(t) ==
    /\ tstep[t] = "check"
    /\ \/ member[AccountOf[tlog[t]]] = "free" /\ Goto(t, "record", TRUE)
       \/ member[AccountOf[tlog[t]]] # "free" /\ Goto(t, "invite", FALSE)
       \/ Goto(t, "record", FALSE)
    /\ UNCHANGED <<rowVars, worldVars, callVars, adminVars, rlist, overrun, faults>>

(* accept-invite; an error may hide that the account joined. *)
AcceptInvite(t) ==
    /\ tstep[t] = "invite"
    /\ \/ Member(AccountOf[tlog[t]], "team") /\ \E s \in {"remove", "record"} : Goto(t, s, FALSE)
       \/ UNCHANGED <<member, freed>> /\ Goto(t, "record", FALSE)
    /\ UNCHANGED <<rowVars, money, callVars, adminVars, rlist, overrun, faults>>

(* Mutant of RemoveMember: a removed account is taken for a free one. *)
RemoveMember_Trusts(t) ==
    /\ tstep[t] = "remove"
    /\ member[AccountOf[tlog[t]]] = "team"
    /\ Member(AccountOf[tlog[t]], "leaving")
    /\ Goto(t, "record", TRUE)
    /\ UNCHANGED <<rowVars, money, callVars, adminVars, rlist, overrun, faults>>

(* remove-member, with the same uncertainty. *)
RemoveMember(t) ==
    /\ tstep[t] = "remove"
    /\ \/ /\ member[AccountOf[tlog[t]]] = "team"
          /\ Member(AccountOf[tlog[t]], "leaving")
          /\ \E s \in {"verify", "record"} : Goto(t, s, FALSE)
       \/ UNCHANGED <<member, freed>> /\ Goto(t, "record", FALSE)
    /\ UNCHANGED <<rowVars, money, callVars, adminVars, rlist, overrun, faults>>

(* Up to 24 looks at the membership: one finds it free, or none does. *)
VerifyFree(t) ==
    /\ tstep[t] = "verify"
    /\ \/ member[AccountOf[tlog[t]]] = "free" /\ Goto(t, "record", TRUE)
       \/ Goto(t, "record", FALSE)
    /\ UNCHANGED <<rowVars, worldVars, callVars, adminVars, rlist, overrun, faults>>

(* Mutant of RecordResult: a failure is written whatever the status is. *)
RecordResult_Overwrites(t) ==
    LET l == tlog[t] IN
    /\ tstep[t] = "record"
    /\ IF t \in sawFree
       THEN UpdateIf(l, {"PROCESSING", "FAILED"}, "DONE", "none")
       ELSE UpdateIf(l, {"PROCESSING", "DONE"}, "FAILED", token[l])
    /\ Goto(t, "idle", FALSE)
    /\ UNCHANGED <<payStatus, worldVars, callVars, adminVars, rlist, overrun, faults>>

(* Mutant of RecordResult: a failure clears the token too. *)
RecordResult_DropsToken(t) ==
    LET l == tlog[t] IN
    /\ tstep[t] = "record"
    /\ IF t \in sawFree
       THEN UpdateIf(l, {"PROCESSING", "FAILED"}, "DONE", "none")
       ELSE UpdateIf(l, {"PROCESSING"}, "FAILED", "none")
    /\ Goto(t, "idle", FALSE)
    /\ UNCHANGED <<payStatus, worldVars, callVars, adminVars, rlist, overrun, faults>>

(* Success may overwrite a failure, a failure never a success. *)
RecordResult(t) ==
    LET l == tlog[t] IN
    /\ tstep[t] = "record"
    /\ IF t \in sawFree
       THEN UpdateIf(l, {"PROCESSING", "FAILED"}, "DONE", "none")
       ELSE UpdateIf(l, {"PROCESSING"}, "FAILED", token[l])
    /\ Goto(t, "idle", FALSE)
    /\ UNCHANGED <<payStatus, worldVars, callVars, adminVars, rlist, overrun, faults>>

(* The catch clause: a result that could not be written is a failure. *)
RecordFails(t) ==
    /\ tstep[t] = "record"
    /\ Fault("database")
    /\ Goto(t, "fallback", FALSE)
    /\ UNCHANGED <<rowVars, worldVars, callVars, adminVars, rlist, overrun>>

Fallback(t) ==
    /\ tstep[t] = "fallback"
    /\ UpdateIf(tlog[t], {"PROCESSING"}, "FAILED", token[tlog[t]])
    /\ Goto(t, "idle", FALSE)
    /\ UNCHANGED <<payStatus, worldVars, callVars, adminVars, rlist, overrun, faults>>

(* The same outage of the database: the row stays PROCESSING. *)
FallbackFails(t) ==
    /\ tstep[t] = "fallback"
    /\ Goto(t, "idle", FALSE)
    /\ UNCHANGED <<rowVars, worldVars, callVars, adminVars, rlist, overrun, faults>>

-----------------------------------------------------------------------------
(* recoverStaleTokenRefunds, every minute *)

(* 20 minutes pass without an update of the row. *)
GoesStale(l) ==
    /\ status[l] = "PROCESSING"
    /\ l \notin stale
    /\ stale' = stale \cup {l}
    /\ IF Working(l)
       THEN Fault("slow") /\ overrun' = overrun \cup {l}
       ELSE UNCHANGED <<overrun, faults>>
    /\ UNCHANGED <<status, payStatus, token, worldVars, taskVars, callVars, adminVars, rlist>>

Stalled == {l \in stale : status[l] = "PROCESSING"}

(* Stale rows that are not paid or have no token fail; the others, up to   *)
(* RecoverBatch of them, are listed.                                       *)
ListStale(c) ==
    LET missing == {l \in Stalled : payStatus[l] # "PAID" \/ token[l] = "none"}
        candidates == Stalled \ missing IN
    /\ rlist[c] = {}
    /\ Stalled # {}
    /\ status' = [l \in Logs |-> IF l \in missing THEN "FAILED" ELSE status[l]]
    /\ stale' = stale \ missing
    /\ \E list \in SUBSET candidates :
          /\ IF Cardinality(candidates) <= RecoverBatch
             THEN list = candidates
             ELSE Cardinality(list) = RecoverBatch
          /\ rlist' = [rlist EXCEPT ![c] = list]
    /\ UNCHANGED <<payStatus, token, worldVars, taskVars, callVars, adminVars, overrun, faults>>

(* Mutant of TakeOver: the row is claimed and nothing is started. *)
TakeOver_ClaimOnly(c, l, t) ==
    /\ l \in rlist[c]
    /\ rlist' = [rlist EXCEPT ![c] = @ \ {l}]
    /\ IF l \in Stalled THEN Update(l, "PROCESSING", token[l]) ELSE UNCHANGED <<status, token, stale>>
    /\ UNCHANGED <<payStatus, worldVars, taskVars, callVars, adminVars, overrun, faults>>

(* updatedAt is the lease: the conditional update refreshes it. *)
TakeOver(c, l, t) ==
    /\ l \in rlist[c]
    /\ rlist' = [rlist EXCEPT ![c] = @ \ {l}]
    /\ IF l \notin Stalled
       THEN UNCHANGED <<status, token, stale, taskVars>>
       ELSE IF token[l] = "ok"
       THEN Update(l, "PROCESSING", token[l]) /\ StartTask(t, l)
       ELSE Update(l, "FAILED", token[l]) /\ UNCHANGED taskVars
    /\ UNCHANGED <<payStatus, worldVars, callVars, adminVars, overrun, faults>>

-----------------------------------------------------------------------------
(* The back office *)

Request(a, step, l) ==
    /\ astep' = [astep EXCEPT ![a] = step]
    /\ alog' = [alog EXCEPT ![a] = l]

(* A request reads its row... *)
AdminRead(a, l) ==
    /\ astep[a] = "idle"
    /\ \/ /\ status[l] \in {"PROCESSING", "FAILED"} /\ token[l] = "ok"
          /\ Request(a, "ask", l)
       \/ /\ status[l] = "FAILED" /\ payStatus[l] = "PAID" /\ token[l] = "ok"
          /\ Request(a, "retry", l)
       \/ /\ status[l] \in {"FAILED", "DONE"}
          /\ Request(a, "remove", l)
    /\ UNCHANGED <<rowVars, worldVars, taskVars, callVars, rlist, overrun, faults>>

(* ... recheckTokenRefund asks Cursor... *)
RecheckAsk(a) ==
    /\ astep[a] = "ask"
    /\ \/ member[AccountOf[alog[a]]] = "free" /\ Request(a, "free", alog[a])
       \/ Request(a, "other", alog[a])
    /\ UNCHANGED <<rowVars, worldVars, taskVars, callVars, rlist, overrun, faults>>

(* ... and writes the answer; one that is not free only updates a message. *)
RecheckWrite(a) ==
    LET l == alog[a] IN
    /\ \/ astep[a] = "free" /\ UpdateIf(l, {"PROCESSING", "FAILED"}, "DONE", "none")
       \/ astep[a] = "other" /\ UpdateIf(l, {"PROCESSING", "FAILED"}, status[l], token[l])
    /\ Request(a, "idle", None)
    /\ UNCHANGED <<payStatus, worldVars, taskVars, callVars, rlist, overrun, faults>>

(* Mutant of RetryWrite: the update has no condition. *)
RetryWrite_NoCondition(a, t) ==
    LET l == alog[a] IN
    /\ astep[a] = "retry"
    /\ status[l] # "GONE"
    /\ Update(l, "PROCESSING", token[l])
    /\ StartTask(t, l)
    /\ Request(a, "idle", None)
    /\ UNCHANGED <<payStatus, worldVars, callVars, rlist, overrun, faults>>

(* retryTokenRefund: a conditional update, then a new task. *)
RetryWrite(a, t) ==
    LET l == alog[a] IN
    /\ astep[a] = "retry"
    /\ IF status[l] = "FAILED" /\ payStatus[l] = "PAID" /\ token[l] # "none"
       THEN Update(l, "PROCESSING", token[l]) /\ StartTask(t, l)
       ELSE UNCHANGED <<status, token, stale, taskVars>>
    /\ Request(a, "idle", None)
    /\ UNCHANGED <<payStatus, worldVars, callVars, rlist, overrun, faults>>

(* removeTokenRefund deletes by id, whatever the row has become. *)
RemoveWrite(a) ==
    /\ astep[a] = "remove"
    /\ Update(alog[a], "GONE", "none")
    /\ Request(a, "idle", None)
    /\ UNCHANGED <<payStatus, worldVars, taskVars, callVars, rlist, overrun, faults>>

-----------------------------------------------------------------------------
(* What a set of instances was doing is forgotten. *)
Stop(T, C, R, A) ==
    /\ tstep' = [t \in Tasks |-> IF t \in T THEN "idle" ELSE tstep[t]]
    /\ tlog' = [t \in Tasks |-> IF t \in T THEN None ELSE tlog[t]]
    /\ sawFree' = sawFree \ T
    /\ pstep' = [c \in Calls |-> IF c \in C THEN "idle" ELSE pstep[c]]
    /\ plog' = [c \in Calls |-> IF c \in C THEN None ELSE plog[c]]
    /\ rlist' = [c \in Crons |-> IF c \in R THEN {} ELSE rlist[c]]
    /\ astep' = [a \in Admins |-> IF a \in A THEN "idle" ELSE astep[a]]
    /\ alog' = [a \in Admins |-> IF a \in A THEN None ELSE alog[a]]

(* One instance of the server stops, or all of them. *)
Crash ==
    /\ Fault("crash")
    /\ \E T \in SUBSET {t \in Tasks : tstep[t] # "idle"},
          C \in SUBSET {c \in Calls : pstep[c] # "idle"},
          R \in SUBSET {c \in Crons : rlist[c] # {}},
          A \in SUBSET {a \in Admins : astep[a] # "idle"} : Stop(T, C, R, A)
    /\ UNCHANGED <<rowVars, worldVars, overrun>>

(* The service restarts with another key. *)
KeyChanges ==
    /\ Fault("key")
    /\ token' = [l \in Logs |-> IF token[l] = "ok" THEN "bad" ELSE token[l]]
    /\ Stop(Tasks, Calls, Crons, Admins)
    /\ UNCHANGED <<status, payStatus, stale, worldVars, overrun>>

-----------------------------------------------------------------------------
Outside ==
    \/ \E l \in Logs : ApplyByToken(l) \/ BuyerPays(l)
    \/ \E a \in Accounts : AccountChanges(a)

Fee(c) == FeeTokenLost(c) \/ \E t \in Tasks : FeeClaim(c, t)

TaskStep(t) ==
    \/ CheckAccount(t) \/ AcceptInvite(t) \/ RemoveMember(t) \/ VerifyFree(t)
    \/ RecordResult(t) \/ Fallback(t) \/ FallbackFails(t)

Recovery(c) == ListStale(c) \/ \E l \in Logs, t \in Tasks : TakeOver(c, l, t)

Admin(a) ==
    \/ \E l \in Logs : AdminRead(a, l)
    \/ RecheckAsk(a) \/ RecheckWrite(a) \/ RemoveWrite(a)
    \/ \E t \in Tasks : RetryWrite(a, t)

Next ==
    \/ Outside
    \/ \E c \in Calls : Fee(c) \/ (\E l \in Logs : FeeRead(c, l))
    \/ \E t \in Tasks : TaskStep(t) \/ RecordFails(t)
    \/ \E l \in Logs : GoesStale(l)
    \/ \E c \in Crons : Recovery(c)
    \/ \E a \in Admins : Admin(a)
    \/ Crash \/ KeyChanges

Spec == Init /\ [][Next]_vars

(* The event loop runs what was started, time passes, cron goes on. *)
FairSpec ==
    /\ Spec
    /\ \A c \in Calls : WF_vars(Fee(c))
    /\ \A t \in Tasks : WF_vars(TaskStep(t))
    /\ \A l \in Logs : WF_vars(~Working(l) /\ GoesStale(l))
    /\ \A c \in Crons : WF_vars(Recovery(c))

-----------------------------------------------------------------------------
(* Properties *)

(* Two tasks never work on one record together, whether the fee's          *)
(* notification, a retry or the recovery started them: accept-invite is not*)
(* sent twice.  Unless a task outlived its lease of 20 minutes.            *)
SingleExecution ==
    \A l \in Logs \ overrun : \A t, u \in Tasks : Works(t, l) /\ Works(u, l) => t = u

(* No record is DONE whose account was not seen free since it exists. *)
DoneWasFree == \A l \in Logs : status[l] = "DONE" => l \in freed

(* The token is kept exactly as long as somebody may have to retry. *)
TokenKept == \A l \in Logs :
    token[l] # "none" <=> status[l] \in {"NEED_PAY", "PROCESSING", "FAILED"}

(* Nobody works on a record, or waits to retry it, whose fee did not arrive.*)
FeeBeforeWork == \A l \in Logs :
    status[l] \in {"PROCESSING", "FAILED"} \/ Working(l) => payStatus[l] = "PAID" /\ l \in money

(* A confirmed success is not overwritten, neither by a task that failed   *)
(* later nor by a retry that read the record before.                       *)
DoneIsFinal == [][\A l \in Logs : status[l] = "DONE" => status'[l] \in {"DONE", "GONE"}]_vars

(* The life of a record as PaidJob promises it: PROCESSING is RUNNING or,  *)
(* when its task is gone, INTERRUPTED.                                     *)
Phase == [l \in Logs |->
    CASE status[l] = "PROCESSING" /\ Working(l) -> "RUNNING"
      [] status[l] = "PROCESSING" /\ ~Working(l) -> "INTERRUPTED"
      [] OTHER -> status[l]]

Job == INSTANCE PaidJob WITH Jobs <- Logs, phase <- Phase
ImplementsPaidJob == Job!JobSpec

(* A record does not stay PROCESSING: its task ends it, or after a crash   *)
(* the recovery, as long as no admin asks for it over and over.            *)
ProcessingEnds ==
    \/ []<>(\E a \in Admins : astep[a] # "idle")
    \/ \A l \in Logs : status[l] = "PROCESSING" ~> status[l] # "PROCESSING"
=============================================================================
