--------------------------- MODULE DesktopProofs ---------------------------
(***************************************************************************)
(* Proofs about Desktop, for every set of tokens, orders and commands and  *)
(* any number of faults: the types, that a grant is bound to one row, and  *)
(* that Cursor's two files agree.                                          *)
(***************************************************************************)
EXTENDS Desktop, FiniteSetTheorems, TLAPS

(* Steps in which the task brings a new account, before and after the row  *)
(* it replaces is cleared.                                                 *)
SwapSteps == {"db", "json", "ids", "idsWrite", "clearOld"}

(* What the task has in hand while it works on its list.                   *)
LoopInv ==
    /\ pc[Loop] \in {"top", "read", "sleep", "list"} => todo = {} /\ old = None /\ dead = {}
    /\ pc[Loop] \in SwapSteps \cup {"upsert"} => token[Loop] \in Tokens /\ order[Loop] \in Orders
    /\ pc[Loop] \notin SwapSteps \cup {"upsert"} => order[Loop] = None
    /\ pc[Loop] \in SwapSteps \cup {"unbind"} => old \in Tokens

(* A row bound to the order is the row x, which was not deleted since it   *)
(* was listed.                                                             *)
OnlyRow(o, x) == \A y \in Rows(o) : y = x /\ x \notin dead

(* What is so of an order: one row, which is the one the task has listed   *)
(* or replaces; and the task has it in hand once.                          *)
BindingOf(o) ==
    /\ \A x \in Rows(o), y \in Rows(o) : x = y
    /\ \A x \in Tokens : <<x, o>> \in todo => OnlyRow(o, x)
    /\ \A x \in Tokens, y \in Tokens : <<x, o>> \in todo /\ <<y, o>> \in todo => x = y
    /\ order[Loop] = o => \A x \in Tokens : <<x, o>> \notin todo
    /\ order[Loop] = o /\ pc[Loop] \in SwapSteps => OnlyRow(o, old)
    /\ order[Loop] = o /\ pc[Loop] = "upsert" => Rows(o) = {}

BindingInv == \A o \in Orders \ doubled : BindingOf(o)

(* A job that nobody overlapped writes alone; unless its read failed, what *)
(* it has read is what is in both files, and the files differ only by what *)
(* it has still to write.                                                  *)
AloneOf(p) ==
    /\ Writers = {p}
    /\ pc[p] = "json" => vscdb = [auth |-> token[p], alt |-> token[p]]
    /\ pc[p] = "offDb" /\ ~torn => storage = [vscdb EXCEPT !.auth = None]
    /\ pc[p] \in {"idsWrite", "offWrite"} /\ ~torn => copy[p] = vscdb

WriteInv ==
    /\ \A p \in removed : pc[p] \in ReplaceSteps
    /\ ~torn => Writers \cap mixed = {}
    /\ ~torn /\ (\A p \in Procs : ~HalfDone(p)) => vscdb = storage
    /\ \A p \in Writers \ mixed : AloneOf(p)

-----------------------------------------------------------------------------
(* Types. *)

(* Every step keeps the types. *)
LEMMA TypeStep ==
    ASSUME DesktopTypeOK, LoopInv, [Next]_vars
    PROVE  DesktopTypeOK'
<1> USE DesktopAssumption
    DEF DesktopTypeOK, loopVars, taskVars, settingVars, tableVars, fileVars,
        WriteSteps, LoopSteps, Procs
<1>1. ASSUME NEW p \in Procs, WriteStep(p) PROVE DesktopTypeOK'
    <2>1. CASE WriteDb(p)
        BY <2>1 DEF WriteDb, Goto, Logins
    <2>5. CASE WriteJson(p)
        <3>1. torn' \in BOOLEAN
            BY <2>5, Zenon DEF WriteJson
        <3>2. storage' \in Logins
            BY <2>5 DEF WriteJson, Replace, Logins
        <3>3. pc' \in [Procs -> WriteSteps \cup LoopSteps \cup {"idle", "upsert"}]
            BY <2>5 DEF WriteJson, Goto, AfterImport
        <3> QED
            BY <2>5, <3>1, <3>2, <3>3 DEF WriteJson, Replace
    <2>2. CASE WriteIds(p)
        BY <2>2 DEF WriteIds, Replace, Goto, AfterImport, Logins, NoLogin
    <2>3. CASE ClearJson(p) \/ ClearDb(p)
        BY <2>3 DEF ClearJson, ClearDb, Replace, Goto, Logins, NoLogin
    <2>6. CASE RemoveFirst(p)
        BY <2>6 DEF RemoveFirst, Logins, NoLogin
    <2>7. CASE ReadIds(p) \/ ReadLogin(p)
        <3>1. ReadFile(p)
            BY <2>7 DEF ReadIds, ReadLogin
        <3>2. torn' \in BOOLEAN
            BY <3>1, Zenon DEF ReadFile
        <3>3. copy' \in [Procs -> Logins] /\ faults' \in 0..MaxFaults
            BY <3>1 DEF ReadFile, Fault, Logins, NoLogin
        <3> QED
            BY <2>7, <3>2, <3>3 DEF ReadIds, ReadLogin, Goto
    <2>4. CASE Upsert(p)
        BY <2>4 DEF Upsert, Bind, Goto
    <2> QED
        BY <1>1, <2>1, <2>2, <2>3, <2>4, <2>5, <2>6, <2>7 DEF WriteStep
<1>2. ASSUME NEW t \in Tasks, NEW step \in {"db", "ids", "off", "upsert"},
             NEW x \in Tokens \cup {None}, NEW o \in Orders \cup {None, NoRow},
             Start(t, step, x, o)
      PROVE DesktopTypeOK'
    BY <1>2 DEF Start, Begin, Writers
<1>3. CASE FileCommand
    BY <1>2, <1>3 DEF FileCommand, ResetMachineId, CursorLogout, ImportAccount, SwitchToAccount
<1>4. CASE PoolCommand
    BY <1>2, <1>4 DEF PoolCommand, PoolRelease, PoolClaim
<1>5. CASE TableCommand
    BY <1>5 DEF TableCommand, SaveAccountFromRaw, DeleteAccount, Bind
<1>6. CASE Settings
    <2>1. ASSUME NEW n \in Intervals, SaveSettings(n) PROVE DesktopTypeOK'
        <3>1. missed' \in BOOLEAN /\ reverted' \in BOOLEAN
            BY <2>1, Zenon DEF SaveSettings
        <3>2. saves' \in 0..MaxSaves
            BY <2>1 DEF SaveSettings
        <3> QED
            BY <2>1, <3>1, <3>2 DEF SaveSettings
    <2>4. ASSUME NEW n \in Intervals, SaveSettingsFails(n) PROVE DesktopTypeOK'
        <3>1. reverted' \in BOOLEAN
            BY <2>4, Zenon DEF SaveSettingsFails
        <3>2. saves' \in 0..MaxSaves /\ faults' \in 0..MaxFaults
            BY <2>4 DEF SaveSettingsFails, Fault
        <3> QED
            BY <2>4, <3>1, <3>2 DEF SaveSettingsFails
    <2>2. CASE LoginRead \/ LoginFail
        BY <2>2 DEF LoginRead, LoginFail
    <2>3. CASE LoginWrite
        <3>1. reverted' \in BOOLEAN
            BY <2>3, Zenon DEF LoginWrite
        <3> QED
            BY <2>3, <3>1 DEF LoginWrite
    <2> QED
        BY <1>6, <2>1, <2>2, <2>3, <2>4 DEF Settings
<1>7. CASE ReadInterval \/ Register \/ Timer \/ List \/ RoundEnds
    BY <1>7 DEF ReadInterval, Register, Timer, List, RoundEnds, Goto
<1>a. ASSUME NEW p \in Procs, Begin(p) \/ UNCHANGED <<mixed, torn>>
      PROVE torn' \in BOOLEAN /\ mixed' \subseteq Procs
    <2>1. torn' \in BOOLEAN
        BY <1>a, Zenon DEF Begin
    <2>2. mixed' \subseteq Procs
        BY <1>a DEF Begin, Writers
    <2> QED
        BY <2>1, <2>2
<1>b. ASSUME MayLogOut
      PROVE /\ torn' \in BOOLEAN /\ mixed' \subseteq Procs
            /\ pc' \in [Procs -> WriteSteps \cup LoopSteps \cup {"idle", "upsert"}]
    <2>1. torn' \in BOOLEAN /\ mixed' \subseteq Procs
        BY <1>a, <1>b DEF MayLogOut
    <2> QED
        BY <1>b, <2>1 DEF MayLogOut, Goto
<1>8. CASE ReleaseRow \/ ClearOldRow
    BY <1>b, <1>8 DEF ReleaseRow, ClearOldRow, Unbind, Goto
<1>13. CASE UnbindFails
    <2>1. faults' \in 0..MaxFaults
        BY <1>13 DEF UnbindFails, Fault
    <2>2. doubled' \subseteq Orders
        BY <1>13 DEF UnbindFails, LoopInv, SwapSteps
    <2>3. /\ torn' \in BOOLEAN /\ mixed' \subseteq Procs
          /\ pc' \in [Procs -> WriteSteps \cup LoopSteps \cup {"idle", "upsert"}]
        BY <1>b, <1>13 DEF UnbindFails, Goto
    <2>4. UNCHANGED <<loopVars, token, order, copy, bound, dead, vscdb, storage, removed,
                      settingVars>>
        BY <1>13 DEF UnbindFails
    <2> QED
        BY <2>1, <2>2, <2>3, <2>4
<1>9. ASSUME NEW x \in Tokens, NEW o \in Orders, NEW y \in Tokens,
             Skip(x, o) \/ Finish(x, o) \/ Swap(x, o, y)
      PROVE DesktopTypeOK'
    <2>1. todo' \subseteq Tokens \X Orders
        BY <1>9 DEF Skip, Finish, Swap, Visit
    <2>2. torn' \in BOOLEAN /\ mixed' \subseteq Procs
        BY <1>a, <1>9 DEF Skip, Finish, Swap
    <2>3. /\ pc' \in [Procs -> WriteSteps \cup LoopSteps \cup {"idle", "upsert"}]
          /\ token' \in [Procs -> Tokens \cup {None}]
          /\ order' \in [Procs -> Orders \cup {None, NoRow}]
          /\ old' \in Tokens \cup {None}
        BY <1>9 DEF Skip, Finish, Swap, Goto
    <2>4. UNCHANGED <<secs, copy, settingVars, tableVars, vscdb, storage, removed, faults>>
        BY <1>9 DEF Skip, Finish, Swap, Visit
    <2> QED
        BY <2>1, <2>2, <2>3, <2>4
<1>10. ASSUME NEW p \in Procs, WriteFails(p) PROVE DesktopTypeOK'
    <2>1. torn' \in BOOLEAN
        BY <1>10, Zenon DEF WriteFails
    <2> QED
        BY <1>10, <2>1 DEF WriteFails, Fault, Goto, Logins, NoLogin
<1>11. CASE Restart
    <2>1. torn' \in BOOLEAN
        BY <1>11, Zenon DEF Restart
    <2>2. faults' \in 0..MaxFaults
        BY <1>11 DEF Restart, Fault
    <2>3. copy' \in [Procs -> Logins]
        BY <1>11 DEF Restart, Logins, NoLogin
    <2>4. /\ pc' \in [Procs -> WriteSteps \cup LoopSteps \cup {"idle", "upsert"}]
          /\ token' \in [Procs -> Tokens \cup {None}]
          /\ order' \in [Procs -> Orders \cup {None, NoRow}]
        BY <1>11 DEF Restart
    <2>5. /\ interval' \in Intervals /\ secs' \in Intervals /\ login' \in Intervals \cup {None}
          /\ missed' \in BOOLEAN /\ reverted' \in BOOLEAN
        BY <1>11 DEF Restart
    <2>6. todo' = {} /\ old' = None /\ mixed' = {} /\ dead' = {} /\ removed' = {}
          /\ UNCHANGED <<stored, saves, bound, doubled, vscdb, storage>>
        BY <1>11 DEF Restart
    <2> QED
        BY <2>1, <2>2, <2>3, <2>4, <2>5, <2>6
<1>12. CASE UNCHANGED vars
    BY <1>12 DEF vars
<1> QED
    BY <1>1, <1>3, <1>4, <1>5, <1>6, <1>7, <1>8, <1>9, <1>10, <1>11, <1>12, <1>13
    DEF Next, Round, Failure

-----------------------------------------------------------------------------
(* What the task has in hand. *)

(* A step that is not the task's leaves what it has in hand; only deleted  *)
(* rows of its list are noted.                                             *)
LEMMA LoopStays ==
    ASSUME DesktopTypeOK, LoopInv, UNCHANGED <<todo, old>>,
           pc'[Loop] = pc[Loop], token'[Loop] = token[Loop], order'[Loop] = order[Loop],
           dead' \subseteq dead \cup Listed
    PROVE  LoopInv'
    BY DEF LoopInv, Listed

(* Every step keeps it. *)
LEMMA LoopStep ==
    ASSUME DesktopTypeOK, LoopInv, [Next]_vars
    PROVE  LoopInv'
<1> USE DesktopAssumption
    DEF loopVars, taskVars, settingVars, tableVars, fileVars, Goto, SwapSteps
<1>t. Loop \in Procs /\ Loop \notin Tasks
    BY DEF Procs
<1>1. ASSUME NEW p \in Procs, WriteStep(p) \/ WriteFails(p) PROVE LoopInv'
    <2>1. CASE p # Loop
        <3>1. pc'[Loop] = pc[Loop] /\ token'[Loop] = token[Loop] /\ order'[Loop] = order[Loop]
            BY <1>1, <1>t, <2>1
            DEF DesktopTypeOK, WriteStep, WriteDb, RemoveFirst, WriteJson, ReadIds, WriteIds,
                ReadLogin, ReadFile, ClearJson, ClearDb, Upsert, WriteFails
        <3>2. UNCHANGED <<todo, old, dead>>
            BY <1>1
            DEF WriteStep, WriteDb, RemoveFirst, WriteJson, ReadIds, WriteIds, ReadLogin,
                ClearJson, ClearDb, Upsert, WriteFails
        <3> QED
            BY <3>1, <3>2, LoopStays
    <2>2. CASE p = Loop /\ (WriteDb(p) \/ WriteJson(p) \/ ReadIds(p) \/ WriteIds(p))
        BY <1>t, <2>2
        DEF DesktopTypeOK, LoopInv, WriteDb, WriteJson, ReadIds, WriteIds, AfterImport
    <2>3. CASE p = Loop /\ (ReadLogin(p) \/ ClearJson(p) \/ ClearDb(p) \/ RemoveFirst(p))
        BY <1>t, <2>3
        DEF DesktopTypeOK, LoopInv, ReadLogin, ClearJson, ClearDb, RemoveFirst
    <2>4. CASE p = Loop /\ (Upsert(p) \/ WriteFails(p))
        BY <1>t, <2>4 DEF DesktopTypeOK, LoopInv, Upsert, WriteFails
    <2> QED
        BY <1>1, <2>1, <2>2, <2>3, <2>4 DEF WriteStep
<1>2. ASSUME NEW t \in Tasks, NEW step, NEW x, NEW o, Start(t, step, x, o) PROVE LoopInv'
    BY <1>2, <1>t, LoopStays DEF Start, DesktopTypeOK
<1>3. CASE FileCommand
    BY <1>2, <1>3 DEF FileCommand, ResetMachineId, CursorLogout, ImportAccount, SwitchToAccount
<1>4. ASSUME NEW o \in Orders, PoolRelease(o) PROVE LoopInv'
    BY <1>4, LoopStays DEF PoolRelease
<1>5. CASE PoolCommand
    BY <1>2, <1>4, <1>5 DEF PoolCommand, PoolClaim
<1>6. CASE TableCommand
    BY <1>6, LoopStays DEF TableCommand, SaveAccountFromRaw, DeleteAccount
<1>7. CASE Settings
    <2>1. ASSUME NEW n, SaveSettings(n) PROVE LoopInv'
        BY <1>t, <2>1 DEF SaveSettings, LoopInv, DesktopTypeOK
    <2> QED
        BY <1>7, <2>1, LoopStays
        DEF Settings, SaveSettingsFails, LoginRead, LoginFail, LoginWrite
<1>8. CASE ReadInterval \/ Register \/ Timer \/ List \/ RoundEnds
    BY <1>t, <1>8 DEF ReadInterval, Register, Timer, List, RoundEnds, LoopInv, DesktopTypeOK
<1>9. CASE ReleaseRow \/ ClearOldRow \/ UnbindFails
    BY <1>t, <1>9
    DEF ReleaseRow, ClearOldRow, UnbindFails, MayLogOut, LoopInv, DesktopTypeOK
<1>10. ASSUME NEW x \in Tokens, NEW o \in Orders, NEW y \in Tokens,
              Skip(x, o) \/ Finish(x, o) \/ Swap(x, o, y)
       PROVE LoopInv'
    BY <1>t, <1>10 DEF Skip, Finish, Swap, Visit, LoopInv, DesktopTypeOK
<1>11. CASE Restart
    BY <1>t, <1>11 DEF Restart, LoopInv
<1>12. CASE UNCHANGED vars
    BY <1>12, LoopStays DEF vars
<1> QED
    BY <1>1, <1>3, <1>5, <1>6, <1>7, <1>8, <1>9, <1>10, <1>11, <1>12 DEF Next, Round, Failure

(* The types and what the task has in hand hold in every state. *)
LEMMA LoopInvariant == Spec => [](DesktopTypeOK /\ LoopInv)
<1>1. ASSUME Init PROVE DesktopTypeOK /\ LoopInv
    <2>1. /\ stored \in Intervals /\ interval \in Intervals /\ secs \in Intervals
          /\ login \in Intervals \cup {None}
        BY <1>1 DEF Init
    <2>2. saves \in 0..MaxSaves /\ faults \in 0..MaxFaults
        BY <1>1, DesktopAssumption DEF Init
    <2>8. missed \in BOOLEAN /\ reverted \in BOOLEAN /\ torn \in BOOLEAN
        BY <1>1, Zenon DEF Init
    <2>3. /\ copy \in [Procs -> Logins] /\ vscdb \in Logins /\ storage \in Logins
          /\ bound \in [Tokens -> Orders \cup {None, NoRow}]
        BY <1>1 DEF Init, NoLogin, Logins
    <2>4. /\ pc \in [Procs -> WriteSteps \cup LoopSteps \cup {"idle", "upsert"}]
          /\ token \in [Procs -> Tokens \cup {None}]
          /\ order \in [Procs -> Orders \cup {None, NoRow}]
        BY <1>1 DEF Init, LoopSteps
    <2>5. todo = {} /\ old = None /\ dead = {} /\ mixed = {} /\ removed = {} /\ doubled = {}
        BY <1>1 DEF Init
    <2>6. DesktopTypeOK
        BY <2>1, <2>2, <2>3, <2>4, <2>5, <2>8 DEF DesktopTypeOK
    <2>7. LoopInv
        BY <1>1 DEF Init, LoopInv, Procs, SwapSteps
    <2> QED
        BY <2>6, <2>7
<1>2. DesktopTypeOK /\ LoopInv /\ [Next]_vars => DesktopTypeOK' /\ LoopInv'
    BY TypeStep, LoopStep
<1> QED
    BY <1>1, <1>2, PTL DEF Spec

(* The table, the settings, the tasks and the files keep their types. *)
THEOREM DesktopTypeCorrect == Spec => []DesktopTypeOK
    BY LoopInvariant, PTL

-----------------------------------------------------------------------------
(* A grant has one row. *)

(* Where rows are only unbound, or bound to other orders, and the task has *)
(* nothing new in hand, nothing is lost.                                   *)
LEMMA FewerRows ==
    ASSUME NEW o \in Orders, BindingOf(o), Rows(o)' \subseteq Rows(o), UNCHANGED dead,
           todo' \subseteq todo,
           order'[Loop] = o =>
               /\ order[Loop] = o /\ old' = old /\ todo' = todo
               /\ pc'[Loop] = pc[Loop] \/ {pc[Loop], pc'[Loop]} \subseteq SwapSteps
    PROVE  BindingOf(o)'
    BY DEF BindingOf, OnlyRow, SwapSteps

(* What is bound to an order by a command is bound to one that the task    *)
(* does not have in hand.                                                  *)
LEMMA OneMoreRow ==
    ASSUME NEW o \in Orders, NEW x \in Tokens, Rows(o)' = {x}, ~InHand(o),
           UNCHANGED todo, order'[Loop] = order[Loop]
    PROVE  BindingOf(o)'
    BY DEF BindingOf, InHand

(* Unbinding the row of the list leaves no row of an order that only it    *)
(* had.                                                                    *)
LEMMA UnbindOnly ==
    ASSUME DesktopTypeOK, NEW x \in Tokens, Unbind(x), NEW o \in Orders
    PROVE  /\ Rows(o)' \subseteq Rows(o)
           /\ OnlyRow(o, x) => Rows(o)' = {}
<1>1. None \notin Orders /\ NoRow \notin Orders
    BY DesktopAssumption
<1> QED
    BY <1>1 DEF DesktopTypeOK, Unbind, Rows, OnlyRow, Exists

(* Every step keeps it. *)
LEMMA BindingStep ==
    ASSUME DesktopTypeOK, LoopInv, BindingInv, [Next]_vars
    PROVE  BindingInv'
<1> SUFFICES ASSUME NEW o \in Orders, o \notin doubled' PROVE BindingOf(o)'
    BY DEF BindingInv
<1> USE DEF loopVars, taskVars, settingVars, tableVars, fileVars, Goto
<1>t. Loop \in Procs /\ Loop \notin Tasks /\ None \notin Orders /\ NoRow \notin Orders
      /\ None \notin Tokens
    BY DesktopAssumption DEF Procs
<1>i. o \notin doubled => BindingOf(o)
    BY DEF BindingInv
<1>s. ASSUME UNCHANGED <<bound, dead, old, todo>>, o \notin doubled,
             \/ order'[Loop] # o
             \/ order'[Loop] = order[Loop] /\ pc'[Loop] = pc[Loop]
             \/ order'[Loop] = order[Loop] /\ {pc[Loop], pc'[Loop]} \subseteq SwapSteps
      PROVE BindingOf(o)'
    BY <1>s, <1>i, FewerRows DEF Rows
<1>1. ASSUME NEW p \in Procs, WriteStep(p), ~Upsert(p) PROVE BindingOf(o)'
    <2>1. UNCHANGED <<bound, dead, old, todo, doubled, order>>
        BY <1>1
        DEF WriteStep, WriteDb, RemoveFirst, WriteJson, ReadIds, WriteIds, ReadLogin, ClearJson,
            ClearDb
    <2>2. CASE p # Loop
        <3>1. pc'[Loop] = pc[Loop]
            BY <1>1, <1>t, <2>2
            DEF DesktopTypeOK, WriteStep, WriteDb, RemoveFirst, WriteJson, ReadIds, WriteIds,
                ReadLogin, ClearJson, ClearDb
        <3> QED
            BY <1>s, <2>1, <3>1
    <2>3. CASE p = Loop /\ ~RemoveFirst(p)
        <3>1. {pc[Loop], pc'[Loop]} \subseteq SwapSteps \/ order'[Loop] # o
            BY <1>1, <1>t, <2>3
            DEF DesktopTypeOK, LoopInv, SwapSteps, WriteStep, WriteDb, WriteJson, ReadIds,
                WriteIds, ReadLogin, ClearJson, ClearDb, AfterImport
        <3> QED
            BY <1>s, <2>1, <3>1
    <2>4. CASE RemoveFirst(p)
        <3>1. pc' = pc
            BY <2>4 DEF RemoveFirst
        <3> QED
            BY <1>s, <2>1, <3>1
    <2> QED
        BY <2>2, <2>3, <2>4
<1>2. ASSUME NEW p \in Tasks, Upsert(p) PROVE BindingOf(o)'
    <2>1. /\ o \notin doubled /\ UNCHANGED <<dead, old, todo>>
          /\ order'[Loop] = order[Loop] /\ pc'[Loop] = pc[Loop] /\ Bind(token[p], order[p])
        BY <1>2, <1>t DEF Upsert, DesktopTypeOK
    <2>2. CASE order[p] # o \/ token[p] \notin Tokens
        <3>1. Rows(o)' \subseteq Rows(o)
            BY <2>1, <2>2, <1>t DEF Bind, Rows, DesktopTypeOK
        <3> QED
            BY <2>1, <3>1, <1>i, FewerRows
    <2>3. CASE order[p] = o /\ token[p] \in Tokens
        <3>1. ~InHand(o) /\ Rows(o) \ {token[p]} = {}
            BY <1>2, <1>t, <2>1, <2>3 DEF Upsert
        <3>2. PICK x \in Tokens : x = token[p]
            BY <2>3
        <3>3. Rows(o)' = {x}
            BY <1>t, <2>1, <2>3, <3>1, <3>2 DEF Bind, Rows, DesktopTypeOK
        <3> QED
            BY <2>1, <3>1, <3>3, OneMoreRow
    <2> QED
        BY <2>2, <2>3
<1>3. ASSUME Upsert(Loop) PROVE BindingOf(o)'
    <2>1. /\ o \notin doubled /\ UNCHANGED <<dead, old, todo>> /\ Bind(token[Loop], order[Loop])
          /\ order'[Loop] = None /\ pc[Loop] = "upsert"
        BY <1>3, <1>t DEF Upsert, DesktopTypeOK
    <2>2. CASE order[Loop] = o
        <3>1. Rows(o) = {} /\ \A x \in Tokens : <<x, o>> \notin todo
            BY <1>i, <2>1, <2>2 DEF BindingOf
        <3>2. Rows(o)' \subseteq {token[Loop]}
            BY <1>t, <2>1, <2>2, <3>1 DEF Bind, Rows, DesktopTypeOK
        <3> QED
            BY <1>t, <2>1, <3>1, <3>2 DEF BindingOf
    <2>3. CASE order[Loop] # o
        <3>1. Rows(o)' \subseteq Rows(o)
            BY <1>t, <2>1, <2>3 DEF Bind, Rows, DesktopTypeOK
        <3> QED
            BY <1>t, <2>1, <3>1, <1>i, FewerRows
    <2> QED
        BY <2>2, <2>3
<1>4. ASSUME NEW t \in Tasks, NEW step, NEW x, NEW p, Start(t, step, x, p) PROVE BindingOf(o)'
    BY <1>4, <1>s, <1>t DEF Start, DesktopTypeOK
<1>5. ASSUME NEW p \in Orders, PoolRelease(p) PROVE BindingOf(o)'
    <2>1. UNCHANGED <<dead, old, todo, order, pc>>
        BY <1>5 DEF PoolRelease
    <2>2. CASE o \notin doubled
        <3>1. Rows(o)' \subseteq Rows(o)
            BY <1>5, <1>t DEF PoolRelease, Rows
        <3> QED
            BY <2>1, <2>2, <3>1, <1>i, FewerRows
    <2>3. CASE o \in doubled
        <3>1. ~InHand(o) /\ p = o
            BY <1>5, <2>3 DEF PoolRelease
        <3>2. Rows(o)' = {}
            BY <1>5, <1>t, <3>1 DEF PoolRelease, Rows
        <3> QED
            BY <2>1, <3>1, <3>2 DEF BindingOf, InHand
    <2> QED
        BY <2>2, <2>3
<1>6. ASSUME NEW x \in Tokens, SaveAccountFromRaw(x) PROVE BindingOf(o)'
    <2>1. Rows(o)' \subseteq Rows(o)
        BY <1>6, <1>t DEF SaveAccountFromRaw, Bind, Rows, DesktopTypeOK
    <2> QED
        BY <1>6, <2>1, <1>i, FewerRows DEF SaveAccountFromRaw
<1>7. ASSUME NEW x \in Tokens, DeleteAccount(x) PROVE BindingOf(o)'
    <2>1. /\ Rows(o)' = Rows(o) \ {x} /\ dead' \subseteq dead \cup {x}
          /\ UNCHANGED <<doubled, old, todo, order, pc>>
        BY <1>7, <1>t DEF DeleteAccount, Rows, DesktopTypeOK
    <2>2. \A z : OnlyRow(o, z) => OnlyRow(o, z)'
        BY <2>1 DEF OnlyRow
    <2> QED
        BY <2>1, <2>2, <1>i DEF BindingOf
<1>8. CASE Settings
    <2>1. ASSUME NEW n, SaveSettings(n) PROVE BindingOf(o)'
        <3>1. pc'[Loop] = pc[Loop] \/ pc[Loop] = "sleep"
            BY <1>t, <2>1 DEF SaveSettings, DesktopTypeOK
        <3>2. pc[Loop] = "sleep" => order[Loop] = None
            BY DEF LoopInv, SwapSteps
        <3> QED
            BY <1>s, <1>t, <2>1, <3>1, <3>2 DEF SaveSettings
    <2> QED
        BY <1>8, <2>1, <1>s DEF Settings, SaveSettingsFails, LoginRead, LoginFail, LoginWrite
<1>9. CASE ReadInterval \/ Register \/ Timer
    <2>1. order[Loop] = None
        BY <1>9 DEF ReadInterval, Register, Timer, LoopInv, SwapSteps
    <2> QED
        BY <1>9, <1>s, <1>t, <2>1 DEF ReadInterval, Register, Timer
<1>10. CASE List
    <2>1. order[Loop] = None /\ dead = {} /\ UNCHANGED <<bound, dead, order, doubled>>
        BY <1>10 DEF List, LoopInv, SwapSteps
    <2>2. \A x : <<x, o>> \in todo' => x \in Rows(o)
        BY <1>10 DEF List, Rows
    <2> QED
        BY <1>i, <1>t, <2>1, <2>2 DEF BindingOf, OnlyRow, Rows
<1>11. CASE RoundEnds
    <2>1. order[Loop] = None /\ todo = {} /\ UNCHANGED <<bound, todo, order, doubled>>
        BY <1>11 DEF RoundEnds, LoopInv, SwapSteps
    <2> QED
        BY <1>i, <1>t, <2>1 DEF BindingOf, Rows
<1>12. CASE ReleaseRow
    <2>1. order[Loop] = None /\ old \in Tokens /\ Unbind(old)
          /\ UNCHANGED <<dead, old, todo, order, doubled>>
        BY <1>12 DEF ReleaseRow, LoopInv, SwapSteps
    <2>2. Rows(o)' \subseteq Rows(o)
        BY <2>1, UnbindOnly
    <2> QED
        BY <1>i, <1>t, <2>1, <2>2, FewerRows
<1>13. CASE ClearOldRow
    <2>1. old \in Tokens /\ Unbind(old) /\ pc[Loop] = "clearOld" /\ pc'[Loop] = "upsert"
          /\ UNCHANGED <<dead, old, todo, order, doubled>>
        BY <1>13, <1>t DEF ClearOldRow, LoopInv, SwapSteps, DesktopTypeOK
    <2>2. Rows(o)' \subseteq Rows(o) /\ (OnlyRow(o, old) => Rows(o)' = {})
        BY <2>1, UnbindOnly
    <2>3. CASE order[Loop] = o
        <3>1. OnlyRow(o, old) /\ \A x \in Tokens : <<x, o>> \notin todo
            BY <1>i, <2>1, <2>3 DEF BindingOf, SwapSteps
        <3> QED
            BY <2>1, <2>2, <3>1 DEF BindingOf, SwapSteps
    <2>4. CASE order[Loop] # o
        BY <1>i, <2>1, <2>2, <2>4, FewerRows
    <2> QED
        BY <2>3, <2>4
<1>14. CASE UnbindFails
    <2>1. UNCHANGED <<bound, dead, old, todo, order>> /\ o \notin doubled /\ order[Loop] # o
        BY <1>14, <1>t DEF UnbindFails, LoopInv, SwapSteps
    <2> QED
        BY <1>s, <2>1
<1>15. ASSUME NEW x \in Tokens, NEW p \in Orders, NEW y \in Tokens,
              Skip(x, p) \/ Finish(x, p) \/ Swap(x, p, y)
       PROVE BindingOf(o)'
    <2>1. /\ pc[Loop] = "next" /\ <<x, p>> \in todo /\ todo' = todo \ {<<x, p>>}
          /\ UNCHANGED <<bound, dead, doubled>>
        BY <1>15 DEF Skip, Finish, Swap, Visit
    <2>2. Rows(o)' = Rows(o)
        BY <2>1 DEF Rows
    <2>3. CASE order'[Loop] # o
        BY <1>i, <2>1, <2>2, <2>3, FewerRows
    <2>4. CASE order'[Loop] = o
        <3>1. p = o /\ old' = x /\ pc'[Loop] = "db"
            BY <1>15, <1>t, <2>4 DEF Skip, Finish, Swap, DesktopTypeOK
        <3>2. OnlyRow(o, x) /\ \A z \in Tokens : <<z, o>> \in todo => z = x
            BY <1>i, <2>1, <3>1 DEF BindingOf
        <3> QED
            BY <1>i, <2>1, <2>2, <3>1, <3>2 DEF BindingOf, OnlyRow, SwapSteps
    <2> QED
        BY <2>3, <2>4
<1>16. ASSUME NEW p \in Procs, WriteFails(p) PROVE BindingOf(o)'
    <2>1. UNCHANGED <<bound, dead, old, todo, doubled>>
        BY <1>16 DEF WriteFails
    <2>2. \/ order'[Loop] = None
          \/ order'[Loop] = order[Loop] /\ pc'[Loop] = pc[Loop]
        BY <1>16, <1>t DEF WriteFails, DesktopTypeOK
    <2> QED
        BY <1>s, <1>t, <2>1, <2>2
<1>17. CASE Restart
    <2>1. todo' = {} /\ order'[Loop] = None /\ UNCHANGED <<bound, doubled>>
        BY <1>17, <1>t DEF Restart
    <2> QED
        BY <1>i, <1>t, <2>1 DEF BindingOf, Rows
<1>18. CASE UNCHANGED vars
    BY <1>18, <1>s DEF vars
<1>19. ASSUME NEW p \in Procs, WriteStep(p) PROVE BindingOf(o)'
    BY <1>1, <1>2, <1>3, <1>19 DEF Procs
<1>20. CASE FileCommand \/ PoolCommand
    BY <1>4, <1>5, <1>20
    DEF FileCommand, ResetMachineId, CursorLogout, ImportAccount, SwitchToAccount,
        PoolCommand, PoolClaim
<1> QED
    BY <1>6, <1>7, <1>8, <1>9, <1>10, <1>11, <1>12, <1>13, <1>14, <1>15, <1>16, <1>17, <1>18,
       <1>19, <1>20
    DEF Next, Round, Failure, TableCommand

(* A grant is bound to one row, however the replacements of the refresh    *)
(* task and the commands fall, with the exceptions the history names.      *)
THEOREM GrantsHaveOneRow == Spec => []OneBinding
<1>1. Init => BindingInv
    BY DesktopAssumption DEF Init, BindingInv, BindingOf, Rows, Procs
<1>2. DesktopTypeOK /\ LoopInv /\ BindingInv /\ [Next]_vars => BindingInv'
    BY BindingStep
<1>3. BindingInv => OneBinding
    <2> SUFFICES ASSUME BindingInv, NEW o \in Orders \ doubled PROVE Cardinality(Rows(o)) <= 1
        BY DEF OneBinding
    <2>1. CASE Rows(o) = {}
        BY <2>1, FS_EmptySet
    <2>2. CASE Rows(o) # {}
        <3>1. PICK x : Rows(o) = {x}
            BY <2>2 DEF BindingInv, BindingOf
        <3> QED
            BY <3>1, FS_Singleton
    <2> QED
        BY <2>1, <2>2
<1> QED
    BY <1>1, <1>2, <1>3, LoopInvariant, PTL DEF Spec

-----------------------------------------------------------------------------
(* Cursor's files. *)

(* A step of no writer, or one that only looks at the table.               *)
LEMMA FilesStay ==
    ASSUME DesktopTypeOK, WriteInv, UNCHANGED <<vscdb, storage, removed, copy, mixed, torn>>,
           \A p \in Procs : pc'[p] = pc[p] \/ {pc[p], pc'[p]} \cap WriteSteps = {},
           \A p \in Writers : token'[p] = token[p]
    PROVE  WriteInv'
<1>1. Writers' = Writers
    BY DEF Writers
<1>2. \A p \in Procs : HalfDone(p)' <=> HalfDone(p)
    BY DEF HalfDone, WriteSteps
<1>4. \A p \in removed : p \in Procs /\ pc[p] \in ReplaceSteps /\ pc'[p] = pc[p]
    BY DEF WriteInv, DesktopTypeOK, ReplaceSteps, WriteSteps
<1>3. \A p \in Writers : AloneOf(p) => AloneOf(p)'
    BY <1>1 DEF AloneOf, Writers
<1> QED
    BY <1>1, <1>2, <1>3, <1>4 DEF WriteInv

(* A job that begins to write, with one of its first steps.                *)
LEMMA BeginStep ==
    ASSUME DesktopTypeOK, WriteInv, NEW p \in Procs, Begin(p), pc[p] \notin WriteSteps,
           pc'[p] \in {"db", "ids", "off"}, \A q \in Procs \ {p} : pc'[q] = pc[q],
           UNCHANGED <<vscdb, storage, removed, copy>>
    PROVE  WriteInv'
<1>1. Writers' = Writers \cup {p} /\ p \notin Writers
    BY DEF Writers, WriteSteps
<1>4. removed' \subseteq Writers /\ \A q \in removed' : pc'[q] \in ReplaceSteps
    BY DEF WriteInv, DesktopTypeOK, Writers, ReplaceSteps, WriteSteps
<1>2. CASE Writers = {}
    <2>1. mixed' = mixed \ {p} /\ (torn' <=> torn)
        BY <1>2 DEF Begin
    <2>2. \A q \in Procs : ~HalfDone(q)
        BY <1>2, <1>4 DEF HalfDone, Writers, WriteSteps
    <2>3. AloneOf(p)'
        BY <1>1, <1>2 DEF AloneOf
    <2> QED
        BY <1>1, <1>2, <1>4, <2>1, <2>2, <2>3 DEF WriteInv
<1>3. CASE Writers # {}
    <2>1. mixed' = mixed \cup Writers \cup {p} /\ torn'
        BY <1>3 DEF Begin
    <2> QED
        BY <1>1, <1>4, <2>1 DEF WriteInv
<1> QED
    BY <1>2, <1>3

(* A writer that stops, having finished neither or both of the files.      *)
LEMMA StopStep ==
    ASSUME DesktopTypeOK, WriteInv, NEW p \in Procs, pc'[p] \notin WriteSteps,
           \A q \in Procs \ {p} : pc'[q] = pc[q] /\ token'[q] = token[q] /\ copy'[q] = copy[q],
           UNCHANGED <<vscdb, storage, mixed>>, removed' = removed \ {p},
           torn => torn', ~torn' => ~torn /\ ~HalfDone(p)
    PROVE  WriteInv'
<1>1. Writers' = Writers \ {p}
    BY DEF Writers
<1>3. ASSUME NEW q \in Writers' \ mixed' PROVE AloneOf(q)'
    <2>1. q \in Writers \ mixed /\ q # p /\ AloneOf(q)
        BY <1>1, <1>3 DEF WriteInv, Writers
    <2>2. Writers' = Writers
        BY <1>1, <2>1 DEF AloneOf
    <2> QED
        BY <2>1, <2>2 DEF AloneOf, Writers
<1>4. ASSUME ~torn', \A q \in Procs : ~HalfDone(q)' PROVE vscdb' = storage'
    <2>1. \A q \in Procs : ~HalfDone(q)
        BY <1>4 DEF HalfDone
    <2> QED
        BY <1>4, <2>1 DEF WriteInv
<1>5. \A q \in removed' : pc'[q] \in ReplaceSteps
    BY DEF WriteInv, DesktopTypeOK
<1>6. ~torn' => Writers' \cap mixed' = {}
    BY <1>1 DEF WriteInv
<1> QED
    BY <1>3, <1>4, <1>5, <1>6 DEF WriteInv

(* What the steps of a writer do to the files. *)
LEMMA WriterStep ==
    ASSUME DesktopTypeOK, WriteInv, NEW p \in Procs, WriteStep(p), ~Upsert(p)
    PROVE  WriteInv'
<1> USE DEF fileVars, taskVars
<1>w. p \in Writers
    BY DEF WriteStep, WriteDb, RemoveFirst, WriteJson, ReadIds, WriteIds, ReadLogin, ClearJson,
           ClearDb, Writers, WriteSteps, ReplaceSteps
<1>r. \A q \in removed' : pc'[q] \in ReplaceSteps
    <2>1. removed \subseteq Procs /\ \A q \in removed : pc[q] \in ReplaceSteps
        BY DEF WriteInv, DesktopTypeOK
    <2>2. CASE RemoveFirst(p)
        BY <2>1, <2>2 DEF RemoveFirst
    <2>3. CASE WriteDb(p) \/ ReadIds(p) \/ ReadLogin(p) \/ ClearDb(p)
        BY <2>1, <2>3
        DEF WriteDb, ReadIds, ReadLogin, ClearDb, ReplaceSteps, Goto, DesktopTypeOK
    <2>4. CASE WriteJson(p) \/ WriteIds(p) \/ ClearJson(p)
        <3>1. removed' = removed \ {p} /\ \A q \in Procs \ {p} : pc'[q] = pc[q]
            BY <2>4 DEF WriteJson, WriteIds, ClearJson, Replace, Goto, DesktopTypeOK
        <3> QED
            BY <2>1, <3>1
    <2> QED
        BY <2>2, <2>3, <2>4 DEF WriteStep
<1>1. CASE p \in mixed
    (* torn already, and nobody else is alone *)
    <2>1. torn /\ Writers \subseteq mixed
        BY <1>w, <1>1 DEF WriteInv, AloneOf
    <2>2. torn' /\ mixed' = mixed /\ Writers' \subseteq Writers
        BY <1>1, <1>w, <2>1
        DEF WriteStep, WriteDb, RemoveFirst, WriteJson, ReadIds, WriteIds, ReadLogin, ReadFile,
            ClearJson, ClearDb, Writers, Goto, DesktopTypeOK
    <2> QED
        BY <1>r, <2>1, <2>2 DEF WriteInv
<1>2. CASE p \notin mixed
    <2>1. Writers = {p} /\ AloneOf(p)
        BY <1>w, <1>2 DEF WriteInv, AloneOf
    <2>2. mixed' = mixed /\ Writers' \subseteq {p} /\ \A q \in Procs \ {p} : pc'[q] = pc[q]
        BY <2>1
        DEF WriteStep, WriteDb, RemoveFirst, WriteJson, ReadIds, WriteIds, ReadLogin, ReadFile,
            ClearJson, ClearDb, Writers, Goto, DesktopTypeOK
    <2>3. \A q \in Procs \ {p} : ~HalfDone(q) /\ ~HalfDone(q)'
        <3>1. \A q \in Procs \ {p} : pc[q] \notin WriteSteps /\ pc'[q] \notin WriteSteps
            BY <2>1, <2>2 DEF Writers
        <3> QED
            BY <1>r, <3>1 DEF WriteInv, HalfDone, WriteSteps, ReplaceSteps
    <2>a. ASSUME p \in Writers' => AloneOf(p)', ~torn' /\ ~HalfDone(p)' => vscdb' = storage'
          PROVE WriteInv'
        BY <1>r, <1>2, <2>2, <2>a DEF WriteInv
    <2>b. p \in Writers' => Writers' = {p}
        BY <2>2
    <2>c. ~torn /\ ~HalfDone(p) => vscdb = storage
        BY <2>3 DEF WriteInv
    <2>4. CASE WriteDb(p)
        <3>1. pc'[p] = "json" /\ vscdb' = [auth |-> token'[p], alt |-> token'[p]]
            BY <2>4 DEF WriteDb, Goto, DesktopTypeOK
        <3> QED
            BY <2>a, <2>b, <3>1 DEF AloneOf, HalfDone
    <2>d. CASE RemoveFirst(p)
        <3>1. /\ pc' = pc /\ HalfDone(p)' /\ UNCHANGED <<vscdb, torn, copy, token>>
              /\ pc[p] # "offDb"
            BY <2>d DEF RemoveFirst, HalfDone, ReplaceSteps
        <3> QED
            BY <2>1, <2>a, <2>b, <3>1 DEF AloneOf
    <2>5. CASE WriteJson(p)
        <3>1. storage' = vscdb'
            BY <2>1, <2>5 DEF WriteJson, Replace, AloneOf
        <3>2. pc'[p] \in {"ids", "clearOld", "idle", "upsert"}
            BY <2>5 DEF WriteJson, Goto, AfterImport, DesktopTypeOK
        <3> QED
            BY <2>a, <2>b, <3>1, <3>2 DEF AloneOf
    <2>6. CASE ReadIds(p) \/ ReadLogin(p)
        <3>1. /\ pc'[p] \in {"idsWrite", "offWrite"} /\ UNCHANGED <<vscdb, storage, removed>>
              /\ pc[p] \in {"ids", "off"}
            BY <2>6 DEF ReadIds, ReadLogin, Goto, DesktopTypeOK
        <3>2. torn' \/ (copy'[p] = storage /\ (torn' <=> torn))
            BY <2>6 DEF ReadIds, ReadLogin, ReadFile, DesktopTypeOK
        <3>3. ~HalfDone(p)
            BY <3>1 DEF HalfDone, WriteInv, ReplaceSteps
        <3>4. ~torn' => ~torn /\ vscdb = storage
            BY <2>c, <3>2, <3>3
        <3> QED
            BY <2>a, <2>b, <3>1, <3>2, <3>4 DEF AloneOf
    <2>7. CASE WriteIds(p)
        <3>1. storage' = copy[p] /\ UNCHANGED <<vscdb, torn>> /\ pc[p] = "idsWrite"
            BY <2>7 DEF WriteIds, Replace
        <3>2. pc'[p] \in {"clearOld", "idle", "upsert"}
            BY <2>7 DEF WriteIds, Goto, AfterImport, DesktopTypeOK
        <3>3. ~torn => storage' = vscdb
            BY <2>1, <3>1 DEF AloneOf
        <3> QED
            BY <2>a, <2>b, <3>1, <3>2, <3>3 DEF AloneOf
    <2>8. CASE ClearJson(p)
        <3>1. /\ pc'[p] = "offDb" /\ storage' = [copy[p] EXCEPT !.auth = None]
              /\ UNCHANGED <<vscdb, torn>> /\ pc[p] = "offWrite"
            BY <2>8 DEF ClearJson, Replace, Goto, DesktopTypeOK
        <3>2. ~torn => copy[p] = vscdb
            BY <2>1, <3>1 DEF AloneOf
        <3> QED
            BY <2>a, <2>b, <3>1, <3>2 DEF AloneOf, HalfDone
    <2>9. CASE ClearDb(p)
        <3>1. /\ pc'[p] \in {"next", "idle"} /\ vscdb' = [vscdb EXCEPT !.auth = None]
              /\ UNCHANGED <<storage, torn>> /\ pc[p] = "offDb"
            BY <2>9 DEF ClearDb, Goto, DesktopTypeOK
        <3>2. ~torn => storage = [vscdb EXCEPT !.auth = None]
            BY <2>1, <3>1 DEF AloneOf
        <3> QED
            BY <2>a, <2>b, <3>1, <3>2 DEF AloneOf, HalfDone
    <2> QED
        BY <2>4, <2>5, <2>6, <2>7, <2>8, <2>9, <2>d DEF WriteStep
<1> QED
    BY <1>1, <1>2

(* Every step keeps it. *)
LEMMA WriteInvStep ==
    ASSUME DesktopTypeOK, LoopInv, WriteInv, [Next]_vars
    PROVE  WriteInv'
<1> USE DEF loopVars, taskVars, settingVars, tableVars, fileVars, Goto
<1>t. Loop \in Procs /\ \A t \in Tasks : t \in Procs
    BY DEF Procs
<1>1. ASSUME NEW p \in Procs, Upsert(p) PROVE WriteInv'
    <2>1. pc[p] = "upsert" /\ pc' = [pc EXCEPT ![p] = IF p = Loop THEN "next" ELSE "idle"]
          /\ token' = [token EXCEPT ![p] = None] /\ UNCHANGED <<copy, fileVars>>
        BY <1>1 DEF Upsert
    <2>2. \A q \in Procs : pc'[q] = pc[q] \/ {pc[q], pc'[q]} \cap WriteSteps = {}
        BY <2>1 DEF WriteSteps, DesktopTypeOK
    <2>3. \A q \in Writers : token'[q] = token[q]
        BY <2>1 DEF Writers, WriteSteps, DesktopTypeOK
    <2> QED
        BY <2>1, <2>2, <2>3, FilesStay
<1>2. ASSUME NEW t \in Tasks, NEW step \in {"db", "ids", "off", "upsert"}, NEW x, NEW o,
             Start(t, step, x, o)
      PROVE WriteInv'
    <2>1. pc[t] = "idle" /\ pc' = [pc EXCEPT ![t] = step] /\ token' = [token EXCEPT ![t] = x]
          /\ UNCHANGED <<copy, vscdb, storage, removed>>
        BY <1>2 DEF Start
    <2>2. CASE step = "upsert"
        <3>1. UNCHANGED <<mixed, torn>>
            BY <1>2, <2>2 DEF Start
        <3>2. \A q \in Procs : pc'[q] = pc[q] \/ {pc[q], pc'[q]} \cap WriteSteps = {}
            BY <2>1, <2>2 DEF WriteSteps, DesktopTypeOK
        <3>3. \A q \in Writers : token'[q] = token[q]
            BY <2>1 DEF Writers, WriteSteps, DesktopTypeOK
        <3> QED
            BY <2>1, <3>1, <3>2, <3>3, FilesStay
    <2>3. CASE step # "upsert"
        <3>1. Begin(t) /\ pc[t] \notin WriteSteps /\ pc'[t] \in {"db", "ids", "off"}
              /\ \A q \in Procs \ {t} : pc'[q] = pc[q]
            BY <1>2, <1>t, <2>1, <2>3 DEF Start, WriteSteps, DesktopTypeOK
        <3> QED
            BY <1>t, <2>1, <3>1, BeginStep
    <2> QED
        BY <2>2, <2>3
<1>3. CASE FileCommand \/ \E o \in Orders, t \in Tasks, x \in Tokens : PoolClaim(t, x, o)
    BY <1>2, <1>3
    DEF FileCommand, ResetMachineId, CursorLogout, ImportAccount, SwitchToAccount, PoolClaim
<1>4. ASSUME MayLogOut, pc[Loop] \in {"unbind"}, UNCHANGED <<token, copy, vscdb, storage, removed>>
      PROVE WriteInv'
    <2>1. CASE Goto(Loop, "off") /\ Begin(Loop)
        <3>1. pc[Loop] \notin WriteSteps /\ pc'[Loop] = "off"
              /\ \A q \in Procs \ {Loop} : pc'[q] = pc[q]
            BY <1>4, <1>t, <2>1 DEF WriteSteps, DesktopTypeOK
        <3> QED
            BY <1>4, <1>t, <2>1, <3>1, BeginStep
    <2>2. CASE Goto(Loop, "next") /\ UNCHANGED <<mixed, torn>>
        <3>1. \A q \in Procs : pc'[q] = pc[q] \/ {pc[q], pc'[q]} \cap WriteSteps = {}
            BY <1>4, <2>2 DEF WriteSteps, DesktopTypeOK
        <3> QED
            BY <1>4, <2>2, <3>1, FilesStay
    <2> QED
        BY <1>4, <2>1, <2>2 DEF MayLogOut
<1>5. ASSUME NEW s, pc' = [pc EXCEPT ![Loop] = s] \/ pc' = pc, s \notin WriteSteps,
             pc[Loop] \notin WriteSteps, UNCHANGED <<token, copy, fileVars>>
      PROVE WriteInv'
    <2>1. \A q \in Procs : pc'[q] = pc[q] \/ {pc[q], pc'[q]} \cap WriteSteps = {}
        BY <1>5 DEF DesktopTypeOK
    <2> QED
        BY <1>5, <2>1, FilesStay
<1>6. ASSUME UNCHANGED <<pc, token, copy, fileVars>> PROVE WriteInv'
    BY <1>6, FilesStay
<1>7. CASE Settings
    <2>1. ASSUME NEW n, SaveSettings(n) PROVE WriteInv'
        <3>1. CASE pc[Loop] = "sleep"
            BY <1>5, <2>1, <3>1 DEF SaveSettings, WriteSteps
        <3>2. CASE pc[Loop] # "sleep"
            BY <1>6, <2>1, <3>2 DEF SaveSettings
        <3> QED
            BY <3>1, <3>2
    <2> QED
        BY <1>6, <1>7, <2>1 DEF Settings, SaveSettingsFails, LoginRead, LoginFail, LoginWrite
<1>8. CASE TableCommand \/ \E o \in Orders : PoolRelease(o)
    BY <1>6, <1>8 DEF TableCommand, SaveAccountFromRaw, DeleteAccount, PoolRelease
<1>9. CASE ReadInterval \/ Register \/ Timer \/ List \/ RoundEnds \/ ClearOldRow
    BY <1>5, <1>9 DEF ReadInterval, Register, Timer, List, RoundEnds, ClearOldRow, WriteSteps
<1>10. CASE ReleaseRow
    BY <1>4, <1>10 DEF ReleaseRow
<1>11. CASE UnbindFails
    <2>1. CASE pc[Loop] = "clearOld" /\ Goto(Loop, "upsert") /\ UNCHANGED <<mixed, torn>>
        BY <1>5, <1>11, <2>1 DEF UnbindFails, WriteSteps
    <2>2. CASE pc[Loop] = "unbind" /\ MayLogOut
        BY <1>4, <1>11, <2>2 DEF UnbindFails
    <2> QED
        BY <1>11, <2>1, <2>2 DEF UnbindFails
<1>12. ASSUME NEW x, NEW o, Skip(x, o) \/ Finish(x, o) PROVE WriteInv'
    <2>1. pc[Loop] = "next" /\ UNCHANGED <<token, copy, fileVars>>
          /\ (pc' = pc \/ pc' = [pc EXCEPT ![Loop] = "unbind"])
        BY <1>12 DEF Skip, Finish, Visit
    <2> QED
        BY <1>5, <2>1 DEF WriteSteps
<1>13. ASSUME NEW x, NEW o, NEW y, Swap(x, o, y) PROVE WriteInv'
    <2>1. /\ pc[Loop] \notin WriteSteps /\ pc'[Loop] = "db" /\ Begin(Loop)
          /\ \A q \in Procs \ {Loop} : pc'[q] = pc[q]
          /\ UNCHANGED <<vscdb, storage, removed, copy>>
        BY <1>13, <1>t DEF Swap, Visit, WriteSteps, DesktopTypeOK
    <2> QED
        BY <1>t, <2>1, BeginStep
<1>14. ASSUME NEW p \in Procs, WriteFails(p) PROVE WriteInv'
    <2>1. /\ pc'[p] \notin WriteSteps
          /\ \A q \in Procs \ {p} : pc'[q] = pc[q] /\ token'[q] = token[q] /\ copy'[q] = copy[q]
          /\ UNCHANGED <<vscdb, storage, mixed>> /\ removed' = removed \ {p}
        BY <1>14 DEF WriteFails, WriteSteps, DesktopTypeOK
    <2>2. torn' <=> torn \/ HalfDone(p)
        BY <1>14 DEF WriteFails
    <2> QED
        BY <2>1, <2>2, StopStep
<1>15. CASE Restart
    <2>1. /\ mixed' = {} /\ removed' = {} /\ UNCHANGED <<vscdb, storage>> /\ Writers' = {}
          /\ (torn' <=> torn \/ \E p \in Procs : HalfDone(p))
        BY <1>15 DEF Restart, Writers, WriteSteps
    <2> QED
        BY <2>1 DEF WriteInv
<1>16. CASE UNCHANGED vars
    BY <1>6, <1>16 DEF vars
<1>17. ASSUME NEW p \in Procs, WriteStep(p) PROVE WriteInv'
    BY <1>1, <1>17, WriterStep
<1> QED
    BY <1>3, <1>7, <1>8, <1>9, <1>10, <1>11, <1>12, <1>13, <1>14, <1>15, <1>16, <1>17
    DEF Next, Round, Failure, PoolCommand

(* When nobody writes, Cursor's files name the same login, unless a job    *)
(* stopped between them or while storage.json was gone, storage.json could *)
(* not be read and was written back empty, or two jobs overlapped; and an  *)
(* import that has run alone since heals all of these.                     *)
THEOREM FilesAgree == Spec => []StoresAgree
<1>1. Init => WriteInv
    BY DEF Init, WriteInv, Writers, WriteSteps
<1>2. DesktopTypeOK /\ LoopInv /\ WriteInv /\ [Next]_vars => WriteInv'
    BY WriteInvStep
<1>3. WriteInv => StoresAgree
    <2> SUFFICES ASSUME WriteInv, Writers = {}, ~torn PROVE Current(vscdb) = Current(storage)
        BY DEF StoresAgree
    <2>1. \A p \in Procs : ~HalfDone(p)
        BY DEF WriteInv, Writers, HalfDone, WriteSteps, ReplaceSteps
    <2> QED
        BY <2>1 DEF WriteInv
<1> QED
    BY <1>1, <1>2, <1>3, LoopInvariant, PTL DEF Spec
=============================================================================
