------------------------------ MODULE Desktop ------------------------------
(***************************************************************************)
(* The desktop client (apps/desktop/src-tauri/src): a refresh task that    *)
(* sleeps for the interval of the settings and replaces the accounts of a  *)
(* grant when they are used up (refresh.rs), the commands of the user      *)
(* (commands/), the local table of accounts (store/accounts.rs), and the   *)
(* two files in which Cursor keeps its login (cursor/).  Commands that     *)
(* write the files are asynchronous: they run beside each other and beside *)
(* the refresh task, and nothing but the mutex of the local table keeps    *)
(* them apart.  The shop's answers are any it may give (PoolGrants).       *)
(*                                                                         *)
(*   Tokens  access tokens, UNIQUE in the table   Orders  grants           *)
(*   Tasks   asynchronous commands under way      Loop    the refresh task *)
(***************************************************************************)
EXTENDS Integers, FiniteSets

CONSTANTS
    Tokens, Orders, Tasks, Loop, None, NoRow,
    Intervals,      \* autoRefreshSeconds; 0 turns the refresh off
    MaxSaves,       \* bound: saved settings
    Windows,        \* the client runs on Windows
    FaultKinds, MaxFaults

ASSUME DesktopAssumption ==
    /\ Loop \notin Tasks
    /\ None \notin Tokens \cup Orders /\ NoRow \notin Orders \cup {None}
    /\ Intervals \subseteq Nat /\ MaxSaves \in Nat /\ MaxFaults \in Nat
    /\ FaultKinds \subseteq {"read", "write", "crash"} /\ Windows \in BOOLEAN

Procs == Tasks \cup {Loop}

VARIABLES
    interval,       \* RefreshController.interval_secs
    stored,         \* auto_refresh_seconds in the settings table
    login,          \* shop_login under way: the interval it loaded, or None
    secs,           \* the interval the loop read
    todo,           \* the loop's list: pairs of token and order, still to visit
    old,            \* the token of the row the loop replaces or finishes
    dead,           \* tokens of the list whose row was deleted since
    pc, token, order,   \* of a task or the loop: next step, token, order to bind
    bound,          \* accounts: pool_grant_order_no of the row, or NoRow
    vscdb, storage, \* Cursor's files: cursorAuth.accessToken, cursor.accessToken
    copy,           \* storage.json as a task read it
    removed,        \* tasks that removed storage.json and have yet to rename
    missed,         \* history: the interval was raised while the loop was
                    \* between reading 0 and waiting
    reverted,       \* history: an interval was stored and the loop not told
    mixed, torn,    \* history: writers that overlapped; a store without the other
    doubled,        \* history: orders with a second row through a command
    saves, faults

loopVars == <<secs, todo, old>>
taskVars == <<pc, token, order, copy>>
settingVars == <<interval, stored, login, missed, reverted, saves>>
tableVars == <<bound, dead, doubled>>
fileVars == <<vscdb, storage, removed, mixed, torn>>
vars == <<loopVars, taskVars, settingVars, tableVars, fileVars, faults>>

(* Between these steps and the next a file of Cursor is written.           *)
WriteSteps == {"db", "json", "ids", "idsWrite", "off", "offWrite", "offDb"}
ReplaceSteps == {"json", "idsWrite", "offWrite"}   \* storage.json next
LoopSteps == {"top", "read", "sleep", "list", "next", "unbind", "clearOld"}

NoLogin == [auth |-> None, alt |-> None]
Logins == [auth : Tokens \cup {None}, alt : Tokens \cup {None}]

(* current_access_token of either file: the first key that is not empty.   *)
Current(file) == IF file.auth # None THEN file.auth ELSE file.alt

Writers == {p \in Procs : pc[p] \in WriteSteps}
Exists(x) == bound[x] # NoRow
Rows(o) == {x \in Tokens : bound[x] = o}

(* What the loop has read of an order and not yet acted on.                *)
Listed == {pair[1] : pair \in todo} \cup ({old} \ {None})
InHand(o) == order[Loop] = o \/ \E pair \in todo : pair[2] = o

DesktopTypeOK ==
    /\ interval \in Intervals /\ stored \in Intervals
    /\ login \in Intervals \cup {None}
    /\ secs \in Intervals
    /\ todo \subseteq Tokens \X Orders
    /\ old \in Tokens \cup {None}
    /\ dead \subseteq Tokens
    /\ pc \in [Procs -> WriteSteps \cup LoopSteps \cup {"idle", "upsert"}]
    /\ token \in [Procs -> Tokens \cup {None}]
    /\ order \in [Procs -> Orders \cup {None, NoRow}]
    /\ copy \in [Procs -> Logins]
    /\ bound \in [Tokens -> Orders \cup {None, NoRow}]
    /\ vscdb \in Logins /\ storage \in Logins
    /\ missed \in BOOLEAN /\ reverted \in BOOLEAN /\ torn \in BOOLEAN
    /\ mixed \subseteq Procs /\ removed \subseteq Procs /\ doubled \subseteq Orders
    /\ saves \in 0..MaxSaves /\ faults \in 0..MaxFaults

Init ==
    /\ stored \in Intervals /\ interval = stored
    /\ login = None /\ secs = stored /\ todo = {} /\ old = None /\ dead = {}
    /\ pc = [p \in Procs |-> IF p = Loop THEN "top" ELSE "idle"]
    /\ token = [p \in Procs |-> None]
    /\ order = [p \in Procs |-> None]
    /\ copy = [p \in Procs |-> NoLogin]
    /\ bound = [x \in Tokens |-> NoRow]
    /\ vscdb = NoLogin /\ storage = NoLogin /\ removed = {}
    /\ missed = FALSE /\ reverted = FALSE /\ torn = FALSE
    /\ mixed = {} /\ doubled = {}
    /\ saves = 0 /\ faults = 0

(***************************************************************************)
(* Settings: save_settings and update_interval.  notify_waiters wakes the  *)
(* loop only when it already waits.                                        *)
(***************************************************************************)

Goto(p, step) == pc' = [pc EXCEPT ![p] = step]

Fault(kind) == kind \in FaultKinds /\ faults < MaxFaults /\ faults' = faults + 1

(* Mutant of SaveSettings: update_interval notifies nobody.                *)
SaveSettings_Silent(n) ==
    /\ saves < MaxSaves
    /\ saves' = saves + 1
    /\ stored' = n
    /\ interval' = n
    /\ reverted' = FALSE
    /\ missed' = (missed \/ (pc[Loop] = "read" /\ secs = 0))
    /\ UNCHANGED <<login, loopVars, taskVars, tableVars, fileVars, faults>>

SaveSettings(n) ==
    /\ saves < MaxSaves
    /\ saves' = saves + 1
    /\ stored' = n
    /\ interval' = n
    /\ reverted' = FALSE
    /\ pc' = IF pc[Loop] = "sleep" THEN [pc EXCEPT ![Loop] = "top"] ELSE pc
    /\ missed' = ((missed /\ pc[Loop] # "sleep") \/ (pc[Loop] = "read" /\ secs = 0))
    /\ UNCHANGED <<login, loopVars, token, order, copy, tableVars, fileVars, faults>>

(* The settings are written row by row: a later one fails, and the command *)
(* ends before it tells the loop.                                          *)
SaveSettingsFails(n) ==
    /\ saves < MaxSaves
    /\ Fault("write")
    /\ saves' = saves + 1
    /\ stored' = n
    /\ reverted' = (n # interval)
    /\ UNCHANGED <<interval, login, missed, loopVars, taskVars, tableVars, fileVars>>

(* shop_login: all settings are loaded before the request and saved after  *)
(* it; a login that fails saves nothing.                                   *)
LoginRead ==
    /\ login = None
    /\ login' = stored
    /\ UNCHANGED <<interval, stored, missed, reverted, saves, loopVars, taskVars, tableVars, fileVars, faults>>

LoginFail ==
    /\ login # None
    /\ login' = None
    /\ UNCHANGED <<interval, stored, missed, reverted, saves, loopVars, taskVars, tableVars, fileVars, faults>>

LoginWrite ==
    /\ login # None
    /\ stored' = login
    /\ reverted' = (login # interval)
    /\ login' = None
    /\ UNCHANGED <<interval, missed, saves, loopVars, taskVars, tableVars, fileVars, faults>>

(***************************************************************************)
(* Writing the files: import_account_inner, machine_id::apply and          *)
(* cursor_logout (clear_cursor_login for the loop).                        *)
(***************************************************************************)

(* A job that writes begins.                                               *)
Begin(p) ==
    /\ mixed' = IF Writers = {} THEN mixed \ {p} ELSE mixed \cup Writers \cup {p}
    /\ torn' = (torn \/ Writers # {})

(* What follows the two stores: the row of a task, the old row of the loop. *)
AfterImport(p) ==
    IF p = Loop THEN "clearOld" ELSE IF order[p] = NoRow THEN "idle" ELSE "upsert"

(* write_account_to_state_db, a transaction.                               *)
WriteDb(p) ==
    /\ pc[p] = "db"
    /\ vscdb' = [auth |-> token[p], alt |-> token[p]]
    /\ Goto(p, "json")
    /\ UNCHANGED <<token, order, copy, storage, removed, mixed, torn, loopVars, settingVars, tableVars, faults>>

(* write_atomic on Windows: the file is removed before the other one is    *)
(* renamed, and whoever reads meanwhile finds no login.                    *)
RemoveFirst(p) ==
    /\ Windows /\ p \notin removed
    /\ pc[p] \in ReplaceSteps
    /\ storage' = NoLogin
    /\ removed' = removed \cup {p}
    /\ UNCHANGED <<vscdb, mixed, torn, taskVars, loopVars, settingVars, tableVars, faults>>

Replace(p, file) == storage' = file /\ removed' = removed \ {p}

(* read_or_empty: a file that cannot be read, or is not JSON, is empty.    *)
ReadFile(p) ==
    \/ copy' = [copy EXCEPT ![p] = storage] /\ UNCHANGED <<torn, faults>>
    \/ copy' = [copy EXCEPT ![p] = NoLogin] /\ torn' = TRUE /\ Fault("read")

(* write_account_to_storage_json; an import nobody overlapped leaves the   *)
(* stores in step.                                                         *)
WriteJson(p) ==
    /\ pc[p] = "json"
    /\ Replace(p, [auth |-> token[p], alt |-> token[p]])
    /\ torn' = (torn /\ p \in mixed)
    /\ \E reset \in BOOLEAN : Goto(p, IF reset THEN "ids" ELSE AfterImport(p))
    /\ UNCHANGED <<token, order, copy, vscdb, mixed, loopVars, settingVars, tableVars, faults>>

(* machine_id::apply reads storage.json and writes all of it back.         *)
ReadIds(p) ==
    /\ pc[p] = "ids"
    /\ ReadFile(p)
    /\ Goto(p, "idsWrite")
    /\ UNCHANGED <<token, order, vscdb, storage, removed, mixed, loopVars, settingVars, tableVars>>

WriteIds(p) ==
    /\ pc[p] = "idsWrite"
    /\ Replace(p, copy[p])
    /\ copy' = [copy EXCEPT ![p] = NoLogin]
    /\ Goto(p, IF token[p] = None THEN "idle" ELSE AfterImport(p))
    /\ UNCHANGED <<token, order, vscdb, mixed, torn, loopVars, settingVars, tableVars, faults>>

ReadLogin(p) ==
    /\ pc[p] = "off"
    /\ ReadFile(p)
    /\ Goto(p, "offWrite")
    /\ UNCHANGED <<token, order, vscdb, storage, removed, mixed, loopVars, settingVars, tableVars>>

(* cursorAuth.* is emptied; cursor.accessToken stays.                      *)
ClearJson(p) ==
    /\ pc[p] = "offWrite"
    /\ Replace(p, [copy[p] EXCEPT !.auth = None])
    /\ copy' = [copy EXCEPT ![p] = NoLogin]
    /\ Goto(p, "offDb")
    /\ UNCHANGED <<token, order, vscdb, mixed, torn, loopVars, settingVars, tableVars, faults>>

(* Mutant of ClearDb: the older key is emptied in this store only.         *)
ClearDb_BothKeys(p) ==
    /\ pc[p] = "offDb"
    /\ vscdb' = NoLogin
    /\ Goto(p, IF p = Loop THEN "next" ELSE "idle")
    /\ UNCHANGED <<token, order, copy, storage, removed, mixed, torn, loopVars, settingVars,
                   tableVars, faults>>

ClearDb(p) ==
    /\ pc[p] = "offDb"
    /\ vscdb' = [vscdb EXCEPT !.auth = None]
    /\ Goto(p, IF p = Loop THEN "next" ELSE "idle")
    /\ UNCHANGED <<token, order, copy, storage, removed, mixed, torn, loopVars, settingVars,
                   tableVars, faults>>

(* accounts::upsert: a binding that is not given stays (COALESCE).         *)
Bind(x, o) ==
    bound' = IF o = None /\ Exists(x) THEN bound ELSE [bound EXCEPT ![x] = o]

Upsert(p) ==
    LET o == order[p] IN
    /\ pc[p] = "upsert"
    /\ Bind(token[p], o)
    /\ doubled' =
           IF p # Loop /\ o \in Orders /\ (InHand(o) \/ Rows(o) \ {token[p]} # {})
           THEN doubled \cup {o} ELSE doubled
    /\ Goto(p, IF p = Loop THEN "next" ELSE "idle")
    /\ order' = [order EXCEPT ![p] = None]
    /\ token' = [token EXCEPT ![p] = None]
    /\ UNCHANGED <<copy, dead, fileVars, loopVars, settingVars, faults>>

(***************************************************************************)
(* The user's commands.                                                    *)
(***************************************************************************)

Start(t, step, x, o) ==
    /\ pc[t] = "idle"
    /\ pc' = [pc EXCEPT ![t] = step]
    /\ token' = [token EXCEPT ![t] = x]
    /\ order' = [order EXCEPT ![t] = o]
    /\ IF step = "upsert" THEN UNCHANGED <<mixed, torn>> ELSE Begin(t)
    /\ UNCHANGED <<copy, vscdb, storage, removed, loopVars, settingVars, tableVars, faults>>

(* import_account; switch_to_account, which writes no row.                 *)
ImportAccount(t, x) == Start(t, "db", x, None)
SwitchToAccount(t, x) == Exists(x) /\ Start(t, "db", x, NoRow)

(* pool_claim, pool_swap: the shop answered with an account, written to    *)
(* Cursor if the user wants it.                                            *)
PoolClaim(t, x, o) == \E step \in {"db", "upsert"} : Start(t, step, x, o)

ResetMachineId(t) == Start(t, "ids", None, NoRow)
CursorLogout(t) == Start(t, "off", None, NoRow)

(* pool_release: all rows of the order, in one use of the connection.      *)
PoolRelease(o) ==
    /\ bound' = [x \in Tokens |-> IF bound[x] = o THEN None ELSE bound[x]]
    /\ doubled' = IF InHand(o) THEN doubled ELSE doubled \ {o}
    /\ UNCHANGED <<dead, fileVars, taskVars, loopVars, settingVars, faults>>

SaveAccountFromRaw(x) ==
    /\ Bind(x, None)
    /\ UNCHANGED <<dead, doubled, fileVars, taskVars, loopVars, settingVars, faults>>

DeleteAccount(x) ==
    /\ Exists(x)
    /\ bound' = [bound EXCEPT ![x] = NoRow]
    /\ dead' = dead \cup ({x} \cap Listed)
    /\ UNCHANGED <<doubled, fileVars, taskVars, loopVars, settingVars, faults>>

(***************************************************************************)
(* The refresh task: spawn, refresh_once, handle_pool_account,             *)
(* grant_finish and apply_new_grant_to_cursor.                             *)
(***************************************************************************)

ReadInterval ==
    /\ pc[Loop] = "top"
    /\ secs' = interval
    /\ Goto(Loop, "read")
    /\ UNCHANGED <<todo, old, token, order, copy, settingVars, tableVars, fileVars, faults>>

(* notified(): from here on notify_waiters reaches the loop.               *)
Register ==
    /\ pc[Loop] = "read"
    /\ Goto(Loop, "sleep")
    /\ UNCHANGED <<loopVars, token, order, copy, settingVars, tableVars, fileVars, faults>>

Timer ==
    /\ pc[Loop] = "sleep" /\ secs > 0
    /\ Goto(Loop, "list")
    /\ UNCHANGED <<loopVars, token, order, copy, settingVars, tableVars, fileVars, faults>>

(* accounts::list; only rows bound to an order matter below.               *)
List ==
    /\ pc[Loop] = "list"
    /\ todo' = {<<x, bound[x]>> : x \in {y \in Tokens : bound[y] \in Orders}}
    /\ Goto(Loop, "next")
    /\ UNCHANGED <<secs, old, token, order, copy, tableVars, settingVars, fileVars, faults>>

RoundEnds ==
    /\ pc[Loop] = "next" /\ todo = {}
    /\ old' = None /\ dead' = {}
    /\ Goto(Loop, "top")
    /\ UNCHANGED <<secs, todo, token, order, copy, settingVars, bound, doubled, fileVars, faults>>

(* A row of the list: nothing to do or a request failed; a swap brought an *)
(* account; the grant is used up.                                          *)
Visit(x, o) ==
    /\ pc[Loop] = "next" /\ <<x, o>> \in todo
    /\ todo' = todo \ {<<x, o>>}
    /\ UNCHANGED <<secs, copy, settingVars, tableVars, vscdb, storage, removed, faults>>

Skip(x, o) ==
    /\ Visit(x, o)
    /\ order' = [order EXCEPT ![Loop] = None]
    /\ UNCHANGED <<old, pc, token, mixed, torn>>

Swap(x, o, y) ==
    /\ Visit(x, o)
    /\ old' = x
    /\ token' = [token EXCEPT ![Loop] = y]
    /\ order' = [order EXCEPT ![Loop] = o]
    /\ Goto(Loop, "db")
    /\ Begin(Loop)

Finish(x, o) ==
    /\ Visit(x, o)
    /\ old' = x
    /\ order' = [order EXCEPT ![Loop] = None]
    /\ Goto(Loop, "unbind")
    /\ UNCHANGED <<token, mixed, torn>>

(* clear_pool_binding by the id of the list: a row deleted since is not    *)
(* touched, whatever replaced it.                                          *)
Unbind(x) ==
    bound' = IF Exists(x) /\ x \notin dead THEN [bound EXCEPT ![x] = None] ELSE bound

(* poolClearCursorOnExhausted.                                             *)
MayLogOut ==
    \/ Goto(Loop, "off") /\ Begin(Loop)
    \/ Goto(Loop, "next") /\ UNCHANGED <<mixed, torn>>

(* grant_finish.                                                           *)
ReleaseRow ==
    /\ pc[Loop] = "unbind"
    /\ Unbind(old)
    /\ MayLogOut
    /\ UNCHANGED <<loopVars, token, order, copy, dead, doubled, vscdb, storage, removed,
                   settingVars, faults>>

(* Mutant of ClearOldRow: the old row keeps its order.                     *)
ClearOldRow_Keeps ==
    /\ pc[Loop] = "clearOld"
    /\ Goto(Loop, "upsert")
    /\ UNCHANGED <<loopVars, token, order, copy, tableVars, fileVars, settingVars, faults>>

ClearOldRow ==
    /\ pc[Loop] = "clearOld"
    /\ Unbind(old)
    /\ Goto(Loop, "upsert")
    /\ UNCHANGED <<loopVars, token, order, copy, dead, doubled, fileVars, settingVars, faults>>

(***************************************************************************)
(* Faults: a file or the table cannot be written; the client is stopped    *)
(* and started again.                                                      *)
(***************************************************************************)

(* One store is written and the other is not, or storage.json is gone.     *)
HalfDone(p) == pc[p] \in {"json", "offDb"} \/ p \in removed

(* The error ends the job; the loop logs it and goes on.                   *)
WriteFails(p) ==
    /\ pc[p] \in WriteSteps \cup {"upsert"}
    /\ Fault("write")
    /\ torn' = (torn \/ HalfDone(p))
    /\ Goto(p, IF p = Loop THEN "next" ELSE "idle")
    /\ token' = [token EXCEPT ![p] = None]
    /\ order' = [order EXCEPT ![p] = None]
    /\ copy' = [copy EXCEPT ![p] = NoLogin]
    /\ removed' = removed \ {p}
    /\ UNCHANGED <<vscdb, storage, mixed, loopVars, settingVars, tableVars>>

(* The loop ignores the error of its updates of the table: the row keeps   *)
(* its order.                                                              *)
UnbindFails ==
    /\ Fault("write")
    /\ \/ pc[Loop] = "clearOld" /\ Goto(Loop, "upsert") /\ doubled' = doubled \cup {order[Loop]}
          /\ UNCHANGED <<mixed, torn>>
       \/ pc[Loop] = "unbind" /\ MayLogOut /\ UNCHANGED doubled
    /\ UNCHANGED <<loopVars, token, order, copy, bound, dead, vscdb, storage, removed,
                   settingVars>>

(* lib.rs run: the controller starts from the stored interval.             *)
Restart ==
    /\ Fault("crash")
    /\ torn' = (torn \/ \E p \in Procs : HalfDone(p))
    /\ interval' = stored
    /\ login' = None /\ missed' = FALSE /\ reverted' = FALSE
    /\ todo' = {} /\ old' = None /\ secs' = stored
    /\ pc' = [p \in Procs |-> IF p = Loop THEN "top" ELSE "idle"]
    /\ token' = [p \in Procs |-> None]
    /\ order' = [p \in Procs |-> None]
    /\ copy' = [p \in Procs |-> NoLogin]
    /\ mixed' = {} /\ dead' = {} /\ removed' = {}
    /\ UNCHANGED <<stored, saves, bound, doubled, vscdb, storage>>

(***************************************************************************)
(* The specification.                                                      *)
(***************************************************************************)

WriteStep(p) ==
    \/ WriteDb(p) \/ RemoveFirst(p) \/ WriteJson(p) \/ ReadIds(p) \/ WriteIds(p)
    \/ ReadLogin(p) \/ ClearJson(p) \/ ClearDb(p) \/ Upsert(p)

Round ==
    \/ ReadInterval \/ Register \/ Timer \/ List \/ RoundEnds
    \/ ReleaseRow \/ ClearOldRow
    \/ \E x \in Tokens, o \in Orders :
           Skip(x, o) \/ Finish(x, o) \/ \E y \in Tokens : Swap(x, o, y)

Settings ==
    \/ \E n \in Intervals : SaveSettings(n) \/ SaveSettingsFails(n)
    \/ LoginRead \/ LoginFail \/ LoginWrite

FileCommand == \E t \in Tasks :
    \/ ResetMachineId(t) \/ CursorLogout(t)
    \/ \E x \in Tokens : ImportAccount(t, x) \/ SwitchToAccount(t, x)

PoolCommand == \E o \in Orders :
    PoolRelease(o) \/ \E t \in Tasks, x \in Tokens : PoolClaim(t, x, o)

TableCommand == \E x \in Tokens : SaveAccountFromRaw(x) \/ DeleteAccount(x)

Failure == Restart \/ UnbindFails \/ \E p \in Procs : WriteFails(p)

Next ==
    \/ Round \/ Settings \/ FileCommand \/ PoolCommand \/ TableCommand
    \/ Failure \/ \E p \in Procs : WriteStep(p)

Spec == Init /\ [][Next]_vars

(* The refresh task is scheduled while the client runs: its timer fires,   *)
(* its requests are answered or time out after 20 seconds, and its writes  *)
(* return.  Nothing is assumed of the user or of the other tasks.          *)
Fairness == WF_vars(Round \/ WriteStep(Loop))

FairSpec == Spec /\ Fairness

(***************************************************************************)
(* Properties.                                                             *)
(***************************************************************************)

(* A grant is bound to one row of the table, however the replacements of   *)
(* the refresh task fall between the commands: unless a claim or swap by   *)
(* hand bound a second row (pool.rs clears no old one), or bound one while *)
(* the task held the order in its list, or the clearing failed unnoticed   *)
(* (refresh.rs:376).                                                       *)
OneBinding == \A o \in Orders \ doubled : Cardinality(Rows(o)) <= 1

(* When nobody writes, Cursor's two files name the same login, unless a    *)
(* job stopped between them or while storage.json was gone, storage.json   *)
(* could not be read and was written back empty, or two jobs overlapped;   *)
(* and an import that has run alone since heals all of these.              *)
StoresAgree == Writers = {} /\ ~torn => Current(vscdb) = Current(storage)

(* An interval the user saved is followed by a round of the refresh task:  *)
(* unless the user turns it off, the interval was stored without telling   *)
(* the loop (by a login, or by a save that failed halfway), or the         *)
(* notification fell between the loop's reading 0 and its waiting.         *)
IntervalIsNoticed ==
    stored > 0 ~> (pc[Loop] = "list" \/ stored = 0 \/ missed \/ reverted)
=============================================================================
