------------------------- MODULE TokenRefundProofs -------------------------
(* Theorems of TokenRefund, for any records, accounts, tasks, calls,       *)
(* instances and admins, and any number of failures.                       *)
EXTENDS TokenRefund, TLAPS

(* What a request or a call has read of its row stays true of it. *)
ReadInv ==
    /\ \A c \in Calls : pstep[c] # "idle" => plog[c] \in money /\ status[plog[c]] # "NONE"
    /\ \A c \in Calls : pstep[c] = "lost" => token[plog[c]] # "ok"
    /\ \A a \in Admins : astep[a] # "idle" => status[alog[a]] \notin {"NONE", "NEED_PAY"}
    /\ \A a \in Admins : astep[a] = "retry" => token[alog[a]] # "bad"

(* A record that waits for nobody's work is paid and keeps its token. *)
RowInv == \A l \in Logs :
    /\ token[l] # "none" <=> status[l] \in {"NEED_PAY", "PROCESSING", "FAILED"}
    /\ status[l] \in {"PROCESSING", "FAILED"} => payStatus[l] = "PAID" /\ l \in money

(* A task works on a paid record, and as long as its lease was respected   *)
(* the record is not for anybody else to start.                            *)
WorkInv == \A t \in Tasks : tstep[t] # "idle" =>
    /\ status[tlog[t]] \notin {"NONE", "NEED_PAY"}
    /\ token[tlog[t]] # "bad"
    /\ payStatus[tlog[t]] = "PAID" /\ tlog[t] \in money
    /\ \/ tlog[t] \in overrun
       \/ status[tlog[t]] # "FAILED" /\ (status[tlog[t]] = "PROCESSING" => tlog[t] \notin stale)

(* Everybody who is about to write DONE saw the account free. *)
FreeInv ==
    /\ \A l \in Logs : status[l] = "DONE" => l \in freed
    /\ \A l \in Logs : status[l] # "NONE" /\ member[AccountOf[l]] = "free" => l \in freed
    /\ \A t \in Tasks : tstep[t] # "idle" /\ t \in sawFree => tlog[t] \in freed
    /\ \A a \in Admins : astep[a] = "free" => alog[a] \in freed

IInv == ReadInv /\ RowInv /\ WorkInv /\ SingleExecution /\ FreeInv

-----------------------------------------------------------------------------
(* Every variable keeps its type, and who is at work names its record. *)
THEOREM TypeCorrect == Spec => []TypeOK
<1>1. Init => TypeOK
  BY FaultAssumption DEF Init, TypeOK, Statuses, TaskSteps
<1>2. TypeOK /\ [Next]_vars => TypeOK'
  <2> SUFFICES ASSUME TypeOK, [Next]_vars PROVE TypeOK'
    OBVIOUS
  <2> USE LogsAssumption, BatchAssumption, FaultAssumption, TypeOK
      DEF TypeOK, Statuses, TaskSteps,
          rowVars, worldVars, taskVars, callVars, adminVars
  <2>1. ASSUME NEW l \in Logs, ApplyByToken(l)
       PROVE TypeOK'
    BY <2>1 DEF ApplyByToken, Update
  <2>2. ASSUME NEW l \in Logs, BuyerPays(l)
       PROVE TypeOK'
    BY <2>2 DEF BuyerPays
  <2>3. ASSUME NEW x \in Accounts, AccountChanges(x)
       PROVE TypeOK'
    BY <2>3 DEF AccountChanges, Member
  <2>4. ASSUME NEW c \in Calls, NEW l \in Logs, FeeRead(c, l)
       PROVE TypeOK'
    BY <2>4 DEF FeeRead, Call
  <2>5. ASSUME NEW c \in Calls, NEW t \in Tasks, FeeClaim(c, t)
       PROVE TypeOK'
    BY <2>5 DEF FeeClaim, Update, StartTask, Call
  <2>6. ASSUME NEW c \in Calls, FeeTokenLost(c)
       PROVE TypeOK'
    BY <2>6 DEF FeeTokenLost, UpdateIf, Update, Call
  <2>7. ASSUME NEW t \in Tasks, CheckAccount(t)
       PROVE TypeOK'
    BY <2>7 DEF CheckAccount, Goto
  <2>8. ASSUME NEW t \in Tasks, AcceptInvite(t)
       PROVE TypeOK'
    BY <2>8 DEF AcceptInvite, Goto, Member
  <2>9. ASSUME NEW t \in Tasks, RemoveMember(t)
       PROVE TypeOK'
    BY <2>9 DEF RemoveMember, Goto, Member
  <2>10. ASSUME NEW t \in Tasks, VerifyFree(t)
       PROVE TypeOK'
    BY <2>10 DEF VerifyFree, Goto
  <2>11. ASSUME NEW t \in Tasks, RecordResult(t)
       PROVE TypeOK'
    BY <2>11 DEF RecordResult, UpdateIf, Update, Goto
  <2>12. ASSUME NEW t \in Tasks, RecordFails(t)
       PROVE TypeOK'
    BY <2>12 DEF RecordFails, Goto, Fault
  <2>13. ASSUME NEW t \in Tasks, Fallback(t)
       PROVE TypeOK'
    BY <2>13 DEF Fallback, UpdateIf, Update, Goto
  <2>14. ASSUME NEW t \in Tasks, FallbackFails(t)
       PROVE TypeOK'
    BY <2>14 DEF FallbackFails, Goto
  <2>15. ASSUME NEW l \in Logs, GoesStale(l)
       PROVE TypeOK'
    BY <2>15 DEF GoesStale, Working, Works, Fault
  <2>16. ASSUME NEW c \in Crons, ListStale(c)
       PROVE TypeOK'
    BY <2>16 DEF ListStale, Stalled
  <2>17. ASSUME NEW c \in Crons, NEW l \in Logs, NEW t \in Tasks, TakeOver(c, l, t)
       PROVE TypeOK'
    BY <2>17 DEF TakeOver, Stalled, Update, StartTask
  <2>18. ASSUME NEW a \in Admins, NEW l \in Logs, AdminRead(a, l)
       PROVE TypeOK'
    BY <2>18 DEF AdminRead, Request
  <2>19. ASSUME NEW a \in Admins, RecheckAsk(a)
       PROVE TypeOK'
    BY <2>19 DEF RecheckAsk, Request
  <2>20. ASSUME NEW a \in Admins, RecheckWrite(a)
       PROVE TypeOK'
    BY <2>20 DEF RecheckWrite, UpdateIf, Update, Request
  <2>21. ASSUME NEW a \in Admins, NEW t \in Tasks, RetryWrite(a, t)
       PROVE TypeOK'
    BY <2>21 DEF RetryWrite, Update, StartTask, Request
  <2>22. ASSUME NEW a \in Admins, RemoveWrite(a)
       PROVE TypeOK'
    BY <2>22 DEF RemoveWrite, Update, Request
  <2>23. CASE Crash
    BY <2>23 DEF Crash, Stop, Fault
  <2>24. CASE KeyChanges
    BY <2>24 DEF KeyChanges, Stop, Fault
  <2>25. CASE UNCHANGED vars
    BY <2>25 DEF vars
  <2> QED
    BY <2>1, <2>2, <2>3, <2>4, <2>5, <2>6, <2>7, <2>8, <2>9, <2>10, <2>11, <2>12, <2>13,
       <2>14, <2>15, <2>16, <2>17, <2>18, <2>19, <2>20, <2>21, <2>22, <2>23, <2>24,
       <2>25
       DEF Next, Outside, Fee, TaskStep, Recovery, Admin
<1>3. QED
  BY <1>1, <1>2, PTL DEF Spec

(* The strengthening is inductive: one step per action of the service, of  *)
(* the back office and of the world outside.                               *)
LEMMA JobInvariant == Spec => []IInv
<1>1. Init => IInv
  BY LogsAssumption DEF Init, IInv, ReadInv, RowInv, WorkInv, SingleExecution, FreeInv, Works
<1>2. TypeOK /\ IInv /\ [Next]_vars => IInv'
  <2> SUFFICES ASSUME TypeOK, IInv, [Next]_vars PROVE IInv'
    OBVIOUS
  <2> USE DEF IInv, ReadInv, RowInv, WorkInv, SingleExecution, FreeInv, Works
  <2> USE LogsAssumption, TypeOK, IInv
      DEF TypeOK, Statuses, TaskSteps,
          rowVars, worldVars, taskVars, callVars, adminVars
  <2>1. ASSUME NEW l \in Logs, ApplyByToken(l)
       PROVE IInv'
    BY <2>1 DEF ApplyByToken, Update
  <2>2. ASSUME NEW l \in Logs, BuyerPays(l)
       PROVE IInv'
    BY <2>2 DEF BuyerPays
  <2>3. ASSUME NEW x \in Accounts, AccountChanges(x)
       PROVE IInv'
    BY <2>3 DEF AccountChanges, Member
  <2>4. ASSUME NEW c \in Calls, NEW l \in Logs, FeeRead(c, l)
       PROVE IInv'
    BY <2>4 DEF FeeRead, Call
  <2>5. ASSUME NEW c \in Calls, NEW t \in Tasks, FeeClaim(c, t)
       PROVE IInv'
    BY <2>5 DEF FeeClaim, Update, StartTask, Call
  <2>6. ASSUME NEW c \in Calls, FeeTokenLost(c)
       PROVE IInv'
    BY <2>6 DEF FeeTokenLost, UpdateIf, Update, Call
  <2>7. ASSUME NEW t \in Tasks, CheckAccount(t)
       PROVE IInv'
    BY <2>7 DEF CheckAccount, Goto
  <2>8. ASSUME NEW t \in Tasks, AcceptInvite(t)
       PROVE IInv'
    BY <2>8 DEF AcceptInvite, Goto, Member
  <2>9. ASSUME NEW t \in Tasks, RemoveMember(t)
       PROVE IInv'
    BY <2>9 DEF RemoveMember, Goto, Member
  <2>10. ASSUME NEW t \in Tasks, VerifyFree(t)
       PROVE IInv'
    BY <2>10 DEF VerifyFree, Goto
  <2>11. ASSUME NEW t \in Tasks, RecordResult(t)
       PROVE IInv'
    BY <2>11 DEF RecordResult, UpdateIf, Update, Goto
  <2>12. ASSUME NEW t \in Tasks, RecordFails(t)
       PROVE IInv'
    BY <2>12 DEF RecordFails, Goto, Fault
  <2>13. ASSUME NEW t \in Tasks, Fallback(t)
       PROVE IInv'
    BY <2>13 DEF Fallback, UpdateIf, Update, Goto
  <2>14. ASSUME NEW t \in Tasks, FallbackFails(t)
       PROVE IInv'
    BY <2>14 DEF FallbackFails, Goto
  <2>15. ASSUME NEW l \in Logs, GoesStale(l)
       PROVE IInv'
    BY <2>15 DEF GoesStale, Working, Works, Fault
  <2>16. ASSUME NEW c \in Crons, ListStale(c)
       PROVE IInv'
    BY <2>16 DEF ListStale, Stalled
  <2>17. ASSUME NEW c \in Crons, NEW l \in Logs, NEW t \in Tasks, TakeOver(c, l, t)
       PROVE IInv'
    BY <2>17 DEF TakeOver, Stalled, Update, StartTask
  <2>18. ASSUME NEW a \in Admins, NEW l \in Logs, AdminRead(a, l)
       PROVE IInv'
    <3>1. PICK s \in {"ask", "retry", "remove"} : Request(a, s, l)
      BY <2>18 DEF AdminRead
    <3>2. status[l] \notin {"NONE", "NEED_PAY"}
      BY <2>18 DEF AdminRead
    <3>3. s = "retry" => token[l] # "bad"
      BY <2>18, <3>1 DEF AdminRead, Request
    <3>4. QED
      BY <2>18, <3>1, <3>2, <3>3 DEF AdminRead, Request
  <2>19. ASSUME NEW a \in Admins, RecheckAsk(a)
       PROVE IInv'
    BY <2>19 DEF RecheckAsk, Request
  <2>20. ASSUME NEW a \in Admins, RecheckWrite(a)
       PROVE IInv'
    BY <2>20 DEF RecheckWrite, UpdateIf, Update, Request
  <2>21. ASSUME NEW a \in Admins, NEW t \in Tasks, RetryWrite(a, t)
       PROVE IInv'
    BY <2>21 DEF RetryWrite, Update, StartTask, Request
  <2>22. ASSUME NEW a \in Admins, RemoveWrite(a)
       PROVE IInv'
    BY <2>22 DEF RemoveWrite, Update, Request
  <2>23. CASE Crash
    BY <2>23 DEF Crash, Stop, Fault
  <2>24. CASE KeyChanges
    BY <2>24 DEF KeyChanges, Stop, Fault
  <2>25. CASE UNCHANGED vars
    BY <2>25 DEF vars
  <2> QED
    BY <2>1, <2>2, <2>3, <2>4, <2>5, <2>6, <2>7, <2>8, <2>9, <2>10, <2>11, <2>12, <2>13,
       <2>14, <2>15, <2>16, <2>17, <2>18, <2>19, <2>20, <2>21, <2>22, <2>23, <2>24,
       <2>25
       DEF Next, Outside, Fee, TaskStep, Recovery, Admin
<1>3. QED
  BY <1>1, <1>2, TypeCorrect, PTL DEF Spec

(* The fee, the retries and the recovery start one task at a time. *)
THEOREM TasksExclude == Spec => []SingleExecution
<1>1. IInv => SingleExecution
  BY DEF IInv, SingleExecution
<1>2. QED
  BY <1>1, JobInvariant, PTL

(* DONE is written only after the account was seen free. *)
THEOREM SuccessIsVerified == Spec => []DoneWasFree
<1>1. IInv => DoneWasFree
  BY DEF IInv, FreeInv, DoneWasFree
<1>2. QED
  BY <1>1, JobInvariant, PTL

(* A failed record keeps its token for a retry, a finished one loses it. *)
THEOREM TokensAreKept == Spec => []TokenKept
<1>1. IInv => TokenKept
  BY DEF IInv, RowInv, TokenKept
<1>2. QED
  BY <1>1, JobInvariant, PTL

(* Nobody works on a record whose fee did not arrive. *)
THEOREM WorkIsPaid == Spec => []FeeBeforeWork
<1>1. IInv => FeeBeforeWork
  BY DEF IInv, RowInv, WorkInv, FeeBeforeWork, Working, Works
<1>2. QED
  BY <1>1, JobInvariant, PTL

(* No task that fails later and no late retry overwrites DONE. *)
THEOREM SuccessIsFinal == Spec => DoneIsFinal
<1> DEFINE Final == \A l \in Logs : status[l] = "DONE" => status'[l] \in {"DONE", "GONE"}
<1>1. TypeOK /\ IInv /\ [Next]_vars => [Final]_vars
  <2> SUFFICES ASSUME TypeOK, IInv, [Next]_vars PROVE Final
    OBVIOUS
  <2> USE LogsAssumption, TypeOK, IInv
      DEF TypeOK, Statuses, TaskSteps, IInv, ReadInv,
          rowVars, worldVars, taskVars, callVars, adminVars
  <2>1. ASSUME NEW l \in Logs, ApplyByToken(l)
       PROVE Final
    BY <2>1 DEF ApplyByToken, Update
  <2>2. ASSUME NEW l \in Logs, BuyerPays(l)
       PROVE Final
    BY <2>2 DEF BuyerPays
  <2>3. ASSUME NEW x \in Accounts, AccountChanges(x)
       PROVE Final
    BY <2>3 DEF AccountChanges, Member
  <2>4. ASSUME NEW c \in Calls, NEW l \in Logs, FeeRead(c, l)
       PROVE Final
    BY <2>4 DEF FeeRead, Call
  <2>5. ASSUME NEW c \in Calls, NEW t \in Tasks, FeeClaim(c, t)
       PROVE Final
    BY <2>5 DEF FeeClaim, Update, StartTask, Call
  <2>6. ASSUME NEW c \in Calls, FeeTokenLost(c)
       PROVE Final
    BY <2>6 DEF FeeTokenLost, UpdateIf, Update, Call
  <2>7. ASSUME NEW t \in Tasks, CheckAccount(t)
       PROVE Final
    BY <2>7 DEF CheckAccount, Goto
  <2>8. ASSUME NEW t \in Tasks, AcceptInvite(t)
       PROVE Final
    BY <2>8 DEF AcceptInvite, Goto, Member
  <2>9. ASSUME NEW t \in Tasks, RemoveMember(t)
       PROVE Final
    BY <2>9 DEF RemoveMember, Goto, Member
  <2>10. ASSUME NEW t \in Tasks, VerifyFree(t)
       PROVE Final
    BY <2>10 DEF VerifyFree, Goto
  <2>11. ASSUME NEW t \in Tasks, RecordResult(t)
       PROVE Final
    BY <2>11 DEF RecordResult, UpdateIf, Update, Goto
  <2>12. ASSUME NEW t \in Tasks, RecordFails(t)
       PROVE Final
    BY <2>12 DEF RecordFails, Goto, Fault
  <2>13. ASSUME NEW t \in Tasks, Fallback(t)
       PROVE Final
    BY <2>13 DEF Fallback, UpdateIf, Update, Goto
  <2>14. ASSUME NEW t \in Tasks, FallbackFails(t)
       PROVE Final
    BY <2>14 DEF FallbackFails, Goto
  <2>15. ASSUME NEW l \in Logs, GoesStale(l)
       PROVE Final
    BY <2>15 DEF GoesStale, Working, Works, Fault
  <2>16. ASSUME NEW c \in Crons, ListStale(c)
       PROVE Final
    BY <2>16 DEF ListStale, Stalled
  <2>17. ASSUME NEW c \in Crons, NEW l \in Logs, NEW t \in Tasks, TakeOver(c, l, t)
       PROVE Final
    BY <2>17 DEF TakeOver, Stalled, Update, StartTask
  <2>18. ASSUME NEW a \in Admins, NEW l \in Logs, AdminRead(a, l)
       PROVE Final
    BY <2>18 DEF AdminRead, Request
  <2>19. ASSUME NEW a \in Admins, RecheckAsk(a)
       PROVE Final
    BY <2>19 DEF RecheckAsk, Request
  <2>20. ASSUME NEW a \in Admins, RecheckWrite(a)
       PROVE Final
    BY <2>20 DEF RecheckWrite, UpdateIf, Update, Request
  <2>21. ASSUME NEW a \in Admins, NEW t \in Tasks, RetryWrite(a, t)
       PROVE Final
    BY <2>21 DEF RetryWrite, Update, StartTask, Request
  <2>22. ASSUME NEW a \in Admins, RemoveWrite(a)
       PROVE Final
    BY <2>22 DEF RemoveWrite, Update, Request
  <2>23. CASE Crash
    BY <2>23 DEF Crash, Stop, Fault
  <2>24. CASE KeyChanges
    BY <2>24 DEF KeyChanges, Stop, Fault
  <2>25. CASE UNCHANGED vars
    BY <2>25 DEF vars
  <2> QED
    BY <2>1, <2>2, <2>3, <2>4, <2>5, <2>6, <2>7, <2>8, <2>9, <2>10, <2>11, <2>12, <2>13,
       <2>14, <2>15, <2>16, <2>17, <2>18, <2>19, <2>20, <2>21, <2>22, <2>23, <2>24,
       <2>25
       DEF Next, Outside, Fee, TaskStep, Recovery, Admin
<1>2. QED
  BY <1>1, TypeCorrect, JobInvariant, PTL DEF Spec, DoneIsFinal

-----------------------------------------------------------------------------
(* TokenRefund implements PaidJob.  What moves the phases of the records:  *)
(* nothing, one record, or the end of some tasks.                          *)
LEMMA NoRecordMoves ==
    ASSUME status' = status, \A k \in Logs : Working(k)' <=> Working(k)
    PROVE  [Job!JobNext]_Phase
BY DEF Phase

LEMMA OneRecordMoves ==
    ASSUME NEW l \in Logs,
           \A k \in Logs \ {l} : status'[k] = status[k] /\ (Working(k)' <=> Working(k)),
           \/ Phase'[l] = Phase[l]
           \/ Phase'[l] \in Job!Phases /\ Phase[l] \in Job!Before(Phase'[l])
    PROVE  [Job!JobNext]_Phase
<1>1. \A k \in Logs \ {l} : Phase'[k] = Phase[k]
  BY DEF Phase
<1>2. Phase' = [Phase EXCEPT ![l] = Phase'[l]]
  BY <1>1 DEF Phase
<1>3. CASE Phase'[l] = Phase[l]
  BY <1>2, <1>3 DEF Phase
<1>4. CASE Phase'[l] \in Job!Phases /\ Phase[l] \in Job!Before(Phase'[l])
  <2>1. Job!Advance(l)
    BY <1>2, <1>4 DEF Job!Advance
  <2>2. QED
    BY <2>1 DEF Job!JobNext
<1>5. QED
  BY <1>3, <1>4

LEMMA TasksStop ==
    ASSUME status' = status, \A k \in Logs : Working(k)' => Working(k)
    PROVE  [Job!JobNext]_Phase
<1> DEFINE S == {k \in Logs : status[k] = "PROCESSING" /\ Working(k) /\ ~Working(k)'}
<1>1. \A k \in S : Phase[k] = "RUNNING"
  BY DEF Phase
<1>2. Phase' = [k \in Logs |-> IF k \in S THEN "INTERRUPTED" ELSE Phase[k]]
  BY DEF Phase
<1>3. Job!Interrupt
  BY <1>1, <1>2 DEF Job!Interrupt
<1>4. QED
  BY <1>3 DEF Job!JobNext

(* What stops starts no task. *)
LEMMA StopEndsWork ==
    ASSUME NEW T \in SUBSET Tasks, NEW C \in SUBSET Calls, NEW R \in SUBSET Crons,
           NEW A \in SUBSET Admins, Stop(T, C, R, A)
    PROVE  \A k \in Logs : Working(k)' => Working(k)
BY DEF Stop, Working, Works

(* Every write of a record's status, whoever makes it, is one that PaidJob *)
(* allows.                                                                 *)
THEOREM Implementation == Spec => ImplementsPaidJob
<1>1. Init => Job!JobInit
  BY DEF Init, Job!JobInit, Phase
<1>2. TypeOK /\ IInv /\ [Next]_vars => [Job!JobNext]_Phase
  <2> SUFFICES ASSUME TypeOK, IInv, [Next]_vars PROVE [Job!JobNext]_Phase
    OBVIOUS
  <2> USE LogsAssumption, TypeOK, IInv
      DEF TypeOK, Statuses, TaskSteps, IInv, ReadInv, RowInv, WorkInv,
          rowVars, worldVars, taskVars, callVars, adminVars
  <2>1. ASSUME NEW l \in Logs, ApplyByToken(l)
       PROVE [Job!JobNext]_Phase
    <3>1. l \in Logs
      BY <2>1 DEF ApplyByToken
    <3>2. \A k \in Logs \ {l} : status'[k] = status[k] /\ (Working(k)' <=> Working(k))
      BY <2>1, <3>1 DEF ApplyByToken, Update, Working, Works
    <3>3. \/ Phase'[l] = Phase[l]
          \/ Phase'[l] \in Job!Phases /\ Phase[l] \in Job!Before(Phase'[l])
      BY <2>1, <3>1 DEF ApplyByToken, Update, Working, Works, Phase, Job!Phases, Job!Before
    <3>4. QED
      BY <3>1, <3>2, <3>3, OneRecordMoves
  <2>2. ASSUME NEW l \in Logs, BuyerPays(l)
       PROVE [Job!JobNext]_Phase
    <3>1. status' = status /\ \A k \in Logs : Working(k)' <=> Working(k)
      BY <2>2 DEF BuyerPays, Working, Works
    <3>2. QED
      BY <3>1, NoRecordMoves
  <2>3. ASSUME NEW x \in Accounts, AccountChanges(x)
       PROVE [Job!JobNext]_Phase
    <3>1. status' = status /\ \A k \in Logs : Working(k)' <=> Working(k)
      BY <2>3 DEF AccountChanges, Member, Working, Works
    <3>2. QED
      BY <3>1, NoRecordMoves
  <2>4. ASSUME NEW c \in Calls, NEW l \in Logs, FeeRead(c, l)
       PROVE [Job!JobNext]_Phase
    <3>1. status' = status /\ \A k \in Logs : Working(k)' <=> Working(k)
      BY <2>4 DEF FeeRead, Call, Working, Works
    <3>2. QED
      BY <3>1, NoRecordMoves
  <2>5. ASSUME NEW c \in Calls, NEW t \in Tasks, FeeClaim(c, t)
       PROVE [Job!JobNext]_Phase
    <3>1. plog[c] \in Logs
      BY <2>5 DEF FeeClaim
    <3>2. \A k \in Logs \ {plog[c]} : status'[k] = status[k] /\ (Working(k)' <=> Working(k))
      BY <2>5, <3>1 DEF FeeClaim, Update, StartTask, Call, Working, Works
    <3>3. \/ Phase'[plog[c]] = Phase[plog[c]]
          \/ Phase'[plog[c]] \in Job!Phases /\ Phase[plog[c]] \in Job!Before(Phase'[plog[c]])
      BY <2>5, <3>1 DEF FeeClaim, Update, StartTask, Call, Working, Works, Phase, Job!Phases, Job!Before
    <3>4. QED
      BY <3>1, <3>2, <3>3, OneRecordMoves
  <2>6. ASSUME NEW c \in Calls, FeeTokenLost(c)
       PROVE [Job!JobNext]_Phase
    <3>1. plog[c] \in Logs
      BY <2>6 DEF FeeTokenLost
    <3>2. \A k \in Logs \ {plog[c]} : status'[k] = status[k] /\ (Working(k)' <=> Working(k))
      BY <2>6, <3>1 DEF FeeTokenLost, UpdateIf, Update, Call, Working, Works
    <3>3. \/ Phase'[plog[c]] = Phase[plog[c]]
          \/ Phase'[plog[c]] \in Job!Phases /\ Phase[plog[c]] \in Job!Before(Phase'[plog[c]])
      BY <2>6, <3>1 DEF FeeTokenLost, UpdateIf, Update, Call, Working, Works, Phase, Job!Phases, Job!Before
    <3>4. QED
      BY <3>1, <3>2, <3>3, OneRecordMoves
  <2>7. ASSUME NEW t \in Tasks, CheckAccount(t)
       PROVE [Job!JobNext]_Phase
    <3>1. status' = status /\ \A k \in Logs : Working(k)' <=> Working(k)
      BY <2>7 DEF CheckAccount, Goto, Working, Works
    <3>2. QED
      BY <3>1, NoRecordMoves
  <2>8. ASSUME NEW t \in Tasks, AcceptInvite(t)
       PROVE [Job!JobNext]_Phase
    <3>1. status' = status /\ \A k \in Logs : Working(k)' <=> Working(k)
      BY <2>8 DEF AcceptInvite, Goto, Member, Working, Works
    <3>2. QED
      BY <3>1, NoRecordMoves
  <2>9. ASSUME NEW t \in Tasks, RemoveMember(t)
       PROVE [Job!JobNext]_Phase
    <3>1. status' = status /\ \A k \in Logs : Working(k)' <=> Working(k)
      BY <2>9 DEF RemoveMember, Goto, Member, Working, Works
    <3>2. QED
      BY <3>1, NoRecordMoves
  <2>10. ASSUME NEW t \in Tasks, VerifyFree(t)
       PROVE [Job!JobNext]_Phase
    <3>1. status' = status /\ \A k \in Logs : Working(k)' <=> Working(k)
      BY <2>10 DEF VerifyFree, Goto, Working, Works
    <3>2. QED
      BY <3>1, NoRecordMoves
  <2>11. ASSUME NEW t \in Tasks, RecordResult(t)
       PROVE [Job!JobNext]_Phase
    <3>1. tlog[t] \in Logs
      BY <2>11 DEF RecordResult
    <3>2. \A k \in Logs \ {tlog[t]} : status'[k] = status[k] /\ (Working(k)' <=> Working(k))
      BY <2>11, <3>1 DEF RecordResult, UpdateIf, Update, Goto, Working, Works
    <3>3. \/ Phase'[tlog[t]] = Phase[tlog[t]]
          \/ Phase'[tlog[t]] \in Job!Phases /\ Phase[tlog[t]] \in Job!Before(Phase'[tlog[t]])
      BY <2>11, <3>1 DEF RecordResult, UpdateIf, Update, Goto, Working, Works, Phase, Job!Phases, Job!Before
    <3>4. QED
      BY <3>1, <3>2, <3>3, OneRecordMoves
  <2>12. ASSUME NEW t \in Tasks, RecordFails(t)
       PROVE [Job!JobNext]_Phase
    <3>1. status' = status /\ \A k \in Logs : Working(k)' <=> Working(k)
      BY <2>12 DEF RecordFails, Goto, Fault, Working, Works
    <3>2. QED
      BY <3>1, NoRecordMoves
  <2>13. ASSUME NEW t \in Tasks, Fallback(t)
       PROVE [Job!JobNext]_Phase
    <3>1. tlog[t] \in Logs
      BY <2>13 DEF Fallback
    <3>2. \A k \in Logs \ {tlog[t]} : status'[k] = status[k] /\ (Working(k)' <=> Working(k))
      BY <2>13, <3>1 DEF Fallback, UpdateIf, Update, Goto, Working, Works
    <3>3. \/ Phase'[tlog[t]] = Phase[tlog[t]]
          \/ Phase'[tlog[t]] \in Job!Phases /\ Phase[tlog[t]] \in Job!Before(Phase'[tlog[t]])
      BY <2>13, <3>1 DEF Fallback, UpdateIf, Update, Goto, Working, Works, Phase, Job!Phases, Job!Before
    <3>4. QED
      BY <3>1, <3>2, <3>3, OneRecordMoves
  <2>14. ASSUME NEW t \in Tasks, FallbackFails(t)
       PROVE [Job!JobNext]_Phase
    <3>1. tlog[t] \in Logs
      BY <2>14 DEF FallbackFails
    <3>2. \A k \in Logs \ {tlog[t]} : status'[k] = status[k] /\ (Working(k)' <=> Working(k))
      BY <2>14, <3>1 DEF FallbackFails, Goto, Working, Works
    <3>3. \/ Phase'[tlog[t]] = Phase[tlog[t]]
          \/ Phase'[tlog[t]] \in Job!Phases /\ Phase[tlog[t]] \in Job!Before(Phase'[tlog[t]])
      BY <2>14, <3>1 DEF FallbackFails, Goto, Working, Works, Phase, Job!Phases, Job!Before
    <3>4. QED
      BY <3>1, <3>2, <3>3, OneRecordMoves
  <2>15. ASSUME NEW l \in Logs, GoesStale(l)
       PROVE [Job!JobNext]_Phase
    <3>1. status' = status /\ \A k \in Logs : Working(k)' <=> Working(k)
      BY <2>15 DEF GoesStale, Working, Works, Fault, Working, Works
    <3>2. QED
      BY <3>1, NoRecordMoves
  <2>16. ASSUME NEW c \in Crons, ListStale(c)
       PROVE [Job!JobNext]_Phase
    <3>1. status' = status /\ \A k \in Logs : Working(k)' <=> Working(k)
      BY <2>16 DEF ListStale, Stalled, Working, Works
    <3>2. QED
      BY <3>1, NoRecordMoves
  <2>17. ASSUME NEW c \in Crons, NEW l \in Logs, NEW t \in Tasks, TakeOver(c, l, t)
       PROVE [Job!JobNext]_Phase
    <3>1. l \in Logs
      BY <2>17 DEF TakeOver
    <3>2. \A k \in Logs \ {l} : status'[k] = status[k] /\ (Working(k)' <=> Working(k))
      BY <2>17, <3>1 DEF TakeOver, Stalled, Update, StartTask, Working, Works
    <3>3. \/ Phase'[l] = Phase[l]
          \/ Phase'[l] \in Job!Phases /\ Phase[l] \in Job!Before(Phase'[l])
      BY <2>17, <3>1 DEF TakeOver, Stalled, Update, StartTask, Working, Works, Phase, Job!Phases, Job!Before
    <3>4. QED
      BY <3>1, <3>2, <3>3, OneRecordMoves
  <2>18. ASSUME NEW a \in Admins, NEW l \in Logs, AdminRead(a, l)
       PROVE [Job!JobNext]_Phase
    <3>1. status' = status /\ \A k \in Logs : Working(k)' <=> Working(k)
      BY <2>18 DEF AdminRead, Request, Working, Works
    <3>2. QED
      BY <3>1, NoRecordMoves
  <2>19. ASSUME NEW a \in Admins, RecheckAsk(a)
       PROVE [Job!JobNext]_Phase
    <3>1. status' = status /\ \A k \in Logs : Working(k)' <=> Working(k)
      BY <2>19 DEF RecheckAsk, Request, Working, Works
    <3>2. QED
      BY <3>1, NoRecordMoves
  <2>20. ASSUME NEW a \in Admins, RecheckWrite(a)
       PROVE [Job!JobNext]_Phase
    <3>1. alog[a] \in Logs
      BY <2>20 DEF RecheckWrite
    <3>2. \A k \in Logs \ {alog[a]} : status'[k] = status[k] /\ (Working(k)' <=> Working(k))
      BY <2>20, <3>1 DEF RecheckWrite, UpdateIf, Update, Request, Working, Works
    <3>3. \/ Phase'[alog[a]] = Phase[alog[a]]
          \/ Phase'[alog[a]] \in Job!Phases /\ Phase[alog[a]] \in Job!Before(Phase'[alog[a]])
      BY <2>20, <3>1 DEF RecheckWrite, UpdateIf, Update, Request, Working, Works, Phase, Job!Phases, Job!Before
    <3>4. QED
      BY <3>1, <3>2, <3>3, OneRecordMoves
  <2>21. ASSUME NEW a \in Admins, NEW t \in Tasks, RetryWrite(a, t)
       PROVE [Job!JobNext]_Phase
    <3>1. alog[a] \in Logs
      BY <2>21 DEF RetryWrite
    <3>2. \A k \in Logs \ {alog[a]} : status'[k] = status[k] /\ (Working(k)' <=> Working(k))
      BY <2>21, <3>1 DEF RetryWrite, Update, StartTask, Request, Working, Works
    <3>3. \/ Phase'[alog[a]] = Phase[alog[a]]
          \/ Phase'[alog[a]] \in Job!Phases /\ Phase[alog[a]] \in Job!Before(Phase'[alog[a]])
      BY <2>21, <3>1 DEF RetryWrite, Update, StartTask, Request, Working, Works, Phase, Job!Phases, Job!Before
    <3>4. QED
      BY <3>1, <3>2, <3>3, OneRecordMoves
  <2>22. ASSUME NEW a \in Admins, RemoveWrite(a)
       PROVE [Job!JobNext]_Phase
    <3>1. alog[a] \in Logs
      BY <2>22 DEF RemoveWrite
    <3>2. \A k \in Logs \ {alog[a]} : status'[k] = status[k] /\ (Working(k)' <=> Working(k))
      BY <2>22, <3>1 DEF RemoveWrite, Update, Request, Working, Works
    <3>3. \/ Phase'[alog[a]] = Phase[alog[a]]
          \/ Phase'[alog[a]] \in Job!Phases /\ Phase[alog[a]] \in Job!Before(Phase'[alog[a]])
      BY <2>22, <3>1 DEF RemoveWrite, Update, Request, Working, Works, Phase, Job!Phases, Job!Before
    <3>4. QED
      BY <3>1, <3>2, <3>3, OneRecordMoves
  <2>23. CASE Crash
    <3>1. PICK T \in SUBSET Tasks, C \in SUBSET Calls, R \in SUBSET Crons, A \in SUBSET Admins :
             Stop(T, C, R, A)
      BY <2>23 DEF Crash
    <3>2. status' = status
      BY <2>23 DEF Crash
    <3>3. \A k \in Logs : Working(k)' => Working(k)
      BY <3>1, StopEndsWork
    <3>4. QED
      BY <3>2, <3>3, TasksStop
  <2>24. CASE KeyChanges
    <3>1. PICK T \in SUBSET Tasks, C \in SUBSET Calls, R \in SUBSET Crons, A \in SUBSET Admins :
             Stop(T, C, R, A)
      BY <2>24 DEF KeyChanges
    <3>2. status' = status
      BY <2>24 DEF KeyChanges
    <3>3. \A k \in Logs : Working(k)' => Working(k)
      BY <3>1, StopEndsWork
    <3>4. QED
      BY <3>2, <3>3, TasksStop
  <2>25. CASE UNCHANGED vars
    BY <2>25 DEF vars, Phase, Working, Works
  <2> QED
    BY <2>1, <2>2, <2>3, <2>4, <2>5, <2>6, <2>7, <2>8, <2>9, <2>10, <2>11, <2>12, <2>13,
       <2>14, <2>15, <2>16, <2>17, <2>18, <2>19, <2>20, <2>21, <2>22, <2>23, <2>24,
       <2>25
       DEF Next, Outside, Fee, TaskStep, Recovery, Admin
<1>3. QED
  BY <1>1, <1>2, TypeCorrect, JobInvariant, PTL DEF Spec, ImplementsPaidJob, Job!JobSpec
=============================================================================
