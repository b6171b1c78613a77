----------------------------- MODULE CursorSub -----------------------------
(***************************************************************************)
(* The pool of subscriptions (apps/api/src/modules/cursor-sub): accounts   *)
(* whose status follows their subscription at Cursor, and that are pushed  *)
(* to the warehouse under a reference of their own.  A push creates the    *)
(* row and notes the reference in two steps, a removal deletes the row and *)
(* the account in two, a synchronisation writes the answer of a remote     *)
(* call beside a status read before it.                                    *)
(*                                                                         *)
(*   Workers   requests of push, remove and sync that can be under way     *)
(*             together; syncMany runs five of them                        *)
(***************************************************************************)
EXTENDS Warehouse

CONSTANT Workers

VARIABLES
    sstatus,        \* cursor_sub_accounts.status; "NONE", "GONE": no such row
    linked,         \* accounts with a warehouseRef
    pstep, pacct,   \* a request under way: step, account
    pread,          \* the status a synchronisation read
    plinked,        \* requests that read a warehouseRef
    tangled         \* history: accounts whose push died half way, or was under
                    \* way together with their removal, or whose row was not deleted

workerVars == <<pstep, pacct, pread, plinked>>
subVars == <<sstatus, linked, workerVars, tangled>>

SubStatuses == {"unsubscribed", "subscribed", "expired", "unlisted"}
Known(x) == sstatus[x] \in SubStatuses

SubTypeOK ==
    /\ sstatus \in [Accounts -> SubStatuses \cup {"NONE", "GONE"}]
    /\ linked \subseteq Accounts
    /\ pstep \in [Workers -> {"idle", "push", "link", "unpush", "drop", "sync"}]
    /\ pacct \in [Workers -> Accounts \cup {None}]
    /\ pread \in [Workers -> SubStatuses \cup {None}]
    /\ plinked \subseteq Workers
    /\ tangled \subseteq Accounts
    /\ \A p \in Workers : pstep[p] # "idle" => pacct[p] \in Accounts

SubInit ==
    /\ sstatus = [x \in Accounts |-> "NONE"]
    /\ linked = {}
    /\ pstep = [p \in Workers |-> "idle"]
    /\ pacct = [p \in Workers |-> None]
    /\ pread = [p \in Workers |-> None]
    /\ plinked = {}
    /\ tangled = {}

SetStatus(x, s) == sstatus' = [sstatus EXCEPT ![x] = s]

(* create and the imports: unsubscribed, without a reference; a migrated   *)
(* account may bring its own status and the reference it had in cursor-jb. *)
Enter(x, s, withRef) ==
    /\ sstatus[x] = "NONE"
    /\ SetStatus(x, s)
    /\ linked' = IF withRef THEN linked \cup {x} ELSE linked
    /\ UNCHANGED <<workerVars, tangled, wvars>>

MarkPaid(x) ==
    /\ Known(x)
    /\ SetStatus(x, "subscribed")
    /\ UNCHANGED <<linked, workerVars, tangled, wvars>>

(* refreshExpiredStatus, once expiresAt has passed.                        *)
SubExpires(x) ==
    /\ sstatus[x] = "subscribed"
    /\ SetStatus(x, "expired")
    /\ UNCHANGED <<linked, workerVars, tangled, wvars>>

Busy(x, steps) == \E p \in Workers : pacct[p] = x /\ pstep[p] \in steps

(* A request reads its account and keeps what it read.                     *)
Take(p, x, step) ==
    /\ pstep[p] = "idle"
    /\ Known(x)
    /\ pstep' = [pstep EXCEPT ![p] = step]
    /\ pacct' = [pacct EXCEPT ![p] = x]
    /\ pread' = [pread EXCEPT ![p] = IF step = "sync" THEN sstatus[x] ELSE None]
    /\ plinked' = IF x \in linked THEN plinked \cup {p} ELSE plinked
    /\ UNCHANGED <<sstatus, linked, wvars>>

Leave(p) ==
    /\ pstep' = [pstep EXCEPT ![p] = "idle"]
    /\ pacct' = [pacct EXCEPT ![p] = None]
    /\ pread' = [pread EXCEPT ![p] = None]
    /\ plinked' = plinked \ {p}

Step(p, step) ==
    /\ pstep' = [pstep EXCEPT ![p] = step]
    /\ UNCHANGED <<pacct, pread, plinked>>

-----------------------------------------------------------------------------
(* pushToWarehouse *)

StartPush(p, x) ==
    /\ Take(p, x, "push")
    /\ tangled' = IF Busy(x, {"unpush", "drop"}) THEN tangled \cup {x} ELSE tangled

(* bulkImport swallows the failure of the row, and the push goes on.       *)
ImportFails ==
    /\ Fault("database")
    /\ UNCHANGED <<rowVars, refundVars, cardVars, free, adminVars, todo, cause>>

PushRow(p) ==
    LET x == pacct[p] IN
    /\ pstep[p] = "push"
    /\ \/ RefRows(x) = {} /\ \E r \in Rows : Push(x, r)
       \/ RefRows(x) # {} /\ UNCHANGED wvars
       \/ ImportFails
    /\ IF p \in plinked THEN Leave(p) ELSE Step(p, "link")
    /\ UNCHANGED <<sstatus, linked, tangled>>

(* Mutant: the push does not note the reference it used.                   *)
LinkRow_Forgets(p) ==
    /\ pstep[p] = "link"
    /\ Leave(p)
    /\ UNCHANGED <<sstatus, linked, tangled, wvars>>

(* The update of an account that is gone throws.                           *)
LinkRow(p) ==
    /\ pstep[p] = "link"
    /\ linked' = IF Known(pacct[p]) THEN linked \cup {pacct[p]} ELSE linked
    /\ Leave(p)
    /\ UNCHANGED <<sstatus, tangled, wvars>>

PushDies(p) ==
    /\ pstep[p] = "link"
    /\ Fault("crash")
    /\ tangled' = tangled \cup {pacct[p]}
    /\ Leave(p)
    /\ UNCHANGED <<sstatus, linked, rowVars, refundVars, cardVars, free, adminVars, todo, cause>>

-----------------------------------------------------------------------------
(* remove *)

StartRemoval(p, x) ==
    /\ Take(p, x, IF x \in linked THEN "unpush" ELSE "drop")
    /\ tangled' = IF Busy(x, {"push", "link"}) THEN tangled \cup {x} ELSE tangled

(* deleteByRef: the row goes, its card key stays.                          *)
Unpush(p) ==
    LET gone == RefRows(pacct[p]) IN
    /\ pstep[p] = "unpush"
    /\ wstatus' = [r \in Rows |-> IF r \in gone THEN "GONE" ELSE wstatus[r]]
    /\ card' = [r \in Rows |-> IF r \in gone THEN None ELSE card[r]]
    /\ Step(p, "drop")
    /\ UNCHANGED <<account, refs, worder, refundVars, cardVars, free, adminVars,
                   todo, cause, faults, sstatus, linked, tangled>>

(* The removal of the row is best effort: its failure is swallowed.        *)
UnpushFails(p) ==
    /\ pstep[p] = "unpush"
    /\ Fault("database")
    /\ tangled' = tangled \cup {pacct[p]}
    /\ Step(p, "drop")
    /\ UNCHANGED <<sstatus, linked, rowVars, refundVars, cardVars, free, adminVars, todo, cause>>

DropAccount(p) ==
    /\ pstep[p] = "drop"
    /\ SetStatus(pacct[p], "GONE")
    /\ linked' = linked \ {pacct[p]}
    /\ Leave(p)
    /\ UNCHANGED <<tangled, wvars>>

-----------------------------------------------------------------------------
(* syncSubscription *)

StartSync(p, x) == Take(p, x, "sync") /\ UNCHANGED tangled

(* What the answer makes of the status old: the membership decides, or the *)
(* end of the billing cycle, or nothing when the answer has neither.       *)
Synced(old, x) ==
    IF old = "unlisted" THEN {old}
    ELSE {IF x \in free THEN "unsubscribed" ELSE "subscribed"}
         \cup {"subscribed", "expired", old}

WriteSync(p) ==
    LET x == pacct[p] IN
    /\ pstep[p] = "sync"
    /\ IF Known(x) THEN \E s \in Synced(pread[p], x) : SetStatus(x, s)
                   ELSE UNCHANGED sstatus
    /\ Leave(p)
    /\ UNCHANGED <<linked, tangled, wvars>>

-----------------------------------------------------------------------------
(* X are the accounts concerned.                                           *)
EnterSteps(X) == \E x \in X, s \in SubStatuses, b \in BOOLEAN : Enter(x, s, b)

PushSteps(X) == \E p \in Workers :
    \/ \E x \in X : StartPush(p, x) \/ StartRemoval(p, x)
    \/ PushRow(p) \/ LinkRow(p) \/ PushDies(p)
    \/ Unpush(p) \/ UnpushFails(p) \/ DropAccount(p)

StatusSteps(X) ==
    \/ \E x \in X : MarkPaid(x) \/ SubExpires(x)
    \/ \E p \in Workers : WriteSync(p) \/ \E x \in X : StartSync(p, x)

-----------------------------------------------------------------------------
(* An account that was removed from the pool is not left in the warehouse, *)
(* to be assigned and sold: the removal takes its row along, unless it     *)
(* failed to, or a push was under way or had died half way.                *)
RowHasAccount ==
    \A x \in Accounts : sstatus[x] = "GONE" /\ x \notin tangled => RefRows(x) = {}
=============================================================================
