----------------------------- MODULE PoolGrants -----------------------------
(***************************************************************************)
(* Quota packages (apps/api/src/modules/pool): an order of a package is a  *)
(* grant; its buyer claims an account of the pool, uses it, releases or    *)
(* swaps it.  What a grant has used is known only by asking Cursor what    *)
(* was charged on the account since the grant started.  Every request asks *)
(* first and writes what it learned by id, while others run.               *)
(*                                                                         *)
(*   Callers   requests of buyers and of the back office that can be       *)
(*             under way together                                          *)
(*   Poller    the job that refreshes all accounts every ten minutes       *)
(*   Quota     quotaTotal of the grant of an order, in units of use; that  *)
(*             of a redemption, which pays nothing, is the least           *)
(*                                                                         *)
(* shared is a history variable: no guard reads it.                        *)
(***************************************************************************)
EXTENDS Common, FiniteSetsExt

CONSTANTS
    PoolAccounts,       \* ids of pool_accounts
    Callers, Poller,
    Quota,
    MaxSpent            \* bound: what is used on one account

ASSUME PoolAssumption ==
    /\ PoolAccounts \subseteq Nat /\ None \notin PoolAccounts
    /\ Poller \notin Callers
    /\ Quota \in [Orders -> Nat \ {0}] /\ MaxSpent \in Nat

Procs == Callers \cup {Poller}

VARIABLES
    born,           \* pool_grants: the order of creation; 0: no row
    active, gacct,  \* active, accountId
    gused,          \* quotaUsed
    base,           \* what was spent on each account at startAt; None: not started
    ended,          \* grants whose endAt has passed
    pstat,          \* pool_accounts.status
    spent,          \* at Cursor: what was charged on an account
    call,           \* a request, or the job
    shared          \* history: accounts that overlapping requests may give twice

grantVars == <<born, active, gacct, gused, base, ended>>
poolVars == <<grantVars, pstat, spent, call, shared>>

PoolOps == {"refresh", "query", "release", "swap", "claim"}
PoolSteps == {"idle", "list", "sync", "write", "after", "claim", "take", "check", "assign"}

(* acct: the account at hand; grant, seen: the grant a look at it found    *)
(* and the use it will write; todo: accounts to refresh or to try.         *)
NoCall == [op |-> None, step |-> "idle", order |-> None, acct |-> None,
           grant |-> None, seen |-> 0, todo |-> {}]

PoolTypeOK ==
    /\ born \in [Orders -> Nat]
    /\ active \subseteq Orders
    /\ gacct \in [Orders -> PoolAccounts \cup {None}]
    /\ gused \in [Orders -> Nat]
    /\ base \in [Orders -> [PoolAccounts -> Nat] \cup {None}]
    /\ ended \subseteq Orders
    /\ pstat \in [PoolAccounts -> {"NONE", "OK", "UNKNOWN", "BANNED", "GONE"}]
    /\ spent \in [PoolAccounts -> Nat]
    /\ call \in [Procs ->
           [op : PoolOps \cup {None}, step : PoolSteps, order : Orders \cup {None},
            acct : PoolAccounts \cup {None}, grant : Orders \cup {None}, seen : Nat,
            todo : SUBSET PoolAccounts]]
    /\ shared \subseteq PoolAccounts

PoolInit ==
    /\ born = [o \in Orders |-> 0]
    /\ active = {}
    /\ gacct = [o \in Orders |-> None]
    /\ gused = [o \in Orders |-> 0]
    /\ base = [o \in Orders |-> None]
    /\ ended = {}
    /\ pstat = [x \in PoolAccounts |-> "NONE"]
    /\ spent = [x \in PoolAccounts |-> 0]
    /\ call = [c \in Procs |-> NoCall]
    /\ shared = {}

Granted(o) == born[o] > 0
Pooled(x) == pstat[x] \in {"OK", "UNKNOWN", "BANNED"}
HeldBy(x) == {o \in active : gacct[o] = x}
UsedUp(o) == gused[o] >= Quota[o]
Usable(o) == o \in active /\ o \notin ended /\ ~UsedUp(o)

(* What was spent on the account since the grant started.                  *)
Window(o, x) == IF base[o] = None THEN 0 ELSE spent[x] - base[o][x]

(* ASSIGNABLE_POOL_STATUSES, and no active grant.                          *)
Candidates == {x \in PoolAccounts : pstat[x] \in {"OK", "UNKNOWN"} /\ HeldBy(x) = {}}

In(c, step) == call[c].step = step
Keep(c, rec) == call' = [call EXCEPT ![c] = rec]
Hang(c) == Keep(c, NoCall)
GoOn(c, step) == Keep(c, [call[c] EXCEPT !.step = step])

SetAccount(x, s) == pstat' = [pstat EXCEPT ![x] = s]

-----------------------------------------------------------------------------
(* Orders, the back office, the buyers' use, the clock. *)

CreateGrant(o) ==
    /\ ~Granted(o)
    /\ born' = [born EXCEPT ![o] = 1 + Cardinality({p \in Orders : Granted(p)})]
    /\ active' = active \cup {o}
    /\ UNCHANGED <<gacct, gused, base, ended, pstat, spent, call, shared, faults>>

CreateAccount(x) ==
    /\ pstat[x] = "NONE"
    /\ \A y \in PoolAccounts : pstat[y] = "NONE" => x <= y
    /\ SetAccount(x, "UNKNOWN")
    /\ UNCHANGED <<grantVars, spent, call, shared, faults>>

UpdateAccount(x, s) ==
    /\ Pooled(x)
    /\ SetAccount(x, s)
    /\ UNCHANGED <<grantVars, spent, call, shared, faults>>

(* The grants that have the account lose it (ON DELETE SET NULL).          *)
RemoveAccount(x) ==
    /\ Pooled(x)
    /\ SetAccount(x, "GONE")
    /\ gacct' = [o \in Orders |-> IF gacct[o] = x THEN None ELSE gacct[o]]
    /\ UNCHANGED <<born, active, gused, base, ended, spent, call, shared, faults>>

(* A buyer keeps the token of an account, whatever became of the grant.    *)
Spend(x) ==
    /\ Pooled(x)
    /\ \E o \in Orders : base[o] # None
    /\ spent[x] < MaxSpent
    /\ spent' = [spent EXCEPT ![x] = @ + 1]
    /\ UNCHANGED <<grantVars, pstat, call, shared, faults>>

GrantEnds(o) ==
    /\ base[o] # None /\ o \notin ended
    /\ ended' = ended \cup {o}
    /\ UNCHANGED <<born, active, gacct, gused, base, pstat, spent, call, shared, faults>>

StartGrant(o) == base' = IF base[o] = None THEN [base EXCEPT ![o] = spent] ELSE base

(* A buyer's own token: the grant starts, and is active whatever it was.   *)
BindUserToken(o) ==
    /\ Granted(o)
    /\ StartGrant(o)
    /\ active' = active \cup {o}
    /\ shared' = IF o \in active \/ gacct[o] = None THEN shared ELSE shared \cup {gacct[o]}
    /\ UNCHANGED <<born, gacct, gused, ended, pstat, spent, call, faults>>

-----------------------------------------------------------------------------
(* Requests.  A claim whose grant has an account asks about that one; else *)
(* it looks for candidates, if the grant is usable.                        *)

Asking(op, o, x) == [NoCall EXCEPT !.op = op, !.step = "sync", !.order = o, !.acct = x]

Claiming(o) ==
    IF gacct[o] # None THEN Asking("claim", o, gacct[o])
    ELSE IF Usable(o) /\ Candidates # {}
    THEN [NoCall EXCEPT !.op = "claim", !.step = "take", !.order = o, !.todo = Candidates]
    ELSE NoCall

ClaimAccount(c, o) ==
    /\ In(c, "idle") /\ Granted(o)
    /\ Claiming(o) # NoCall
    /\ Keep(c, Claiming(o))
    /\ UNCHANGED <<grantVars, pstat, spent, shared, faults>>

(* queryQuota, releaseAccount, swapAccount.  Without an account a release  *)
(* does nothing, a query answers and a swap claims.                        *)
Visit(c, op, o) ==
    /\ In(c, "idle") /\ Granted(o)
    /\ op = "release" => gacct[o] # None
    /\ Keep(c, IF gacct[o] # None THEN Asking(op, o, gacct[o])
              ELSE [NoCall EXCEPT !.op = op, !.order = o,
                                  !.step = IF op = "swap" THEN "claim" ELSE "after"])
    /\ UNCHANGED <<grantVars, pstat, spent, shared, faults>>

RefreshAll(c) ==
    LET all == {x \in PoolAccounts : Pooled(x)} IN
    /\ In(c, "idle")
    /\ all # {}
    /\ Keep(c, [NoCall EXCEPT !.op = "refresh", !.step = "list", !.todo = all])
    /\ UNCHANGED <<grantVars, pstat, spent, shared, faults>>

RefreshNext(c) ==
    LET x == Min(call[c].todo) IN
    /\ In(c, "list")
    /\ Keep(c, [call[c] EXCEPT !.step = "sync", !.acct = x, !.todo = @ \ {x}])
    /\ UNCHANGED <<grantVars, pstat, spent, shared, faults>>

(* What follows a look at an account.                                      *)
Continue(c) ==
    CASE call[c].op = "claim" -> Hang(c)
      [] call[c].op = "refresh" ->
             IF call[c].todo = {} THEN Hang(c)
             ELSE Keep(c, [NoCall EXCEPT !.op = "refresh", !.step = "list", !.todo = call[c].todo])
      [] OTHER -> Keep(c, [NoCall EXCEPT !.op = call[c].op, !.step = "after",
                                        !.order = call[c].order])

-----------------------------------------------------------------------------
(* syncAccountUsage *)

FirstGrant(o, x) == o \in HeldBy(x) /\ \A p \in HeldBy(x) : born[o] <= born[p]

(* Mutant: the window opens with the account, not with the grant.          *)
Seen_Everything(o, x) == spent[x]

Seen(o, x) == Window(o, x)

(* The answer of Cursor: the use of the oldest active grant in its window, *)
(* or nothing, which leaves the use that was noted.                        *)
SyncRead(c, missing) ==
    LET x == call[c].acct
        none == HeldBy(x) = {}
        g == CHOOSE o \in Orders : FirstGrant(o, x)
    IN
    /\ In(c, "sync")
    /\ Pooled(x)
    /\ IF missing THEN ~none /\ Fault("network") ELSE UNCHANGED faults
    /\ Keep(c, [call[c] EXCEPT !.step = "write", !.grant = IF none THEN None ELSE g,
                              !.seen = IF none THEN 0
                                       ELSE IF missing THEN gused[g] ELSE Seen(g, x)])
    /\ UNCHANGED <<grantVars, pstat, spent, shared>>

(* Mutant: a grant that is used up stays active.                           *)
SyncWrite_KeepsActive(c) ==
    LET x == call[c].acct  g == call[c].grant  seen == call[c].seen IN
    /\ In(c, "write")
    /\ Pooled(x)
    /\ SetAccount(x, "OK")
    /\ gused' = IF g = None THEN gused ELSE [gused EXCEPT ![g] = seen]
    /\ Continue(c)
    /\ UNCHANGED <<born, active, gacct, base, ended, spent, shared, faults>>

(* The account and the grant are written in one transaction, by id: the    *)
(* grant may have moved, or been deactivated, since.                       *)
SyncWrite(c) ==
    LET x == call[c].acct  g == call[c].grant  seen == call[c].seen IN
    /\ In(c, "write")
    /\ Pooled(x)
    /\ SetAccount(x, "OK")
    /\ IF g = None
       THEN UNCHANGED <<gused, active, shared>>
       ELSE /\ gused' = [gused EXCEPT ![g] = seen]
            /\ active' = IF g \in ended \/ seen >= Quota[g] THEN active \ {g} ELSE active \cup {g}
            /\ shared' = IF g \in active' \ active /\ gacct[g] # None
                         THEN shared \cup {gacct[g]} ELSE shared
    /\ Continue(c)
    /\ UNCHANGED <<born, gacct, base, ended, spent, faults>>

(* No answer, or the account is deleted.  The refresh marks the account    *)
(* and, if that fails, ends; the other requests go on without the answer.  *)
SyncFails(c) ==
    LET x == call[c].acct IN
    /\ call[c].step \in {"sync", "write"}
    /\ IF Pooled(x) THEN In(c, "sync") /\ Fault("network") ELSE UNCHANGED faults
    /\ IF call[c].op = "refresh"
       THEN IF Pooled(x) THEN SetAccount(x, "UNKNOWN") /\ Continue(c)
                         ELSE Hang(c) /\ UNCHANGED pstat
       ELSE Continue(c) /\ UNCHANGED pstat
    /\ UNCHANGED <<grantVars, spent, shared>>

-----------------------------------------------------------------------------
(* After the look. *)

QueryQuota(c) ==
    LET o == call[c].order IN
    /\ In(c, "after") /\ call[c].op = "query"
    /\ active' = IF o \in ended \/ UsedUp(o) THEN active \ {o} ELSE active
    /\ Hang(c)
    /\ UNCHANGED <<born, gacct, gused, base, ended, pstat, spent, shared, faults>>

Unbind(o) == gacct' = [gacct EXCEPT ![o] = None]

ReleaseAccount(c) ==
    /\ In(c, "after") /\ call[c].op = "release"
    /\ Unbind(call[c].order)
    /\ Hang(c)
    /\ UNCHANGED <<born, active, gused, base, ended, pstat, spent, shared, faults>>

(* Released, and claimed again unless the grant is used up or has ended.   *)
SwapReleases(c) ==
    /\ In(c, "after") /\ call[c].op = "swap"
    /\ Unbind(call[c].order)
    /\ GoOn(c, "claim")
    /\ UNCHANGED <<born, active, gused, base, ended, pstat, spent, shared, faults>>

SwapClaims(c) ==
    /\ In(c, "claim")
    /\ Keep(c, IF call[c].order \in ended \/ UsedUp(call[c].order)
              THEN NoCall ELSE Claiming(call[c].order))
    /\ UNCHANGED <<grantVars, pstat, spent, shared, faults>>

-----------------------------------------------------------------------------
(* A claim tries its candidates in the order of their ids. *)

Skip(c, x) ==
    LET rest == call[c].todo \ {x} IN
    IF rest = {} THEN Hang(c)
    ELSE Keep(c, [call[c] EXCEPT !.step = "take", !.acct = None, !.todo = rest])

(* A candidate that does not answer is skipped.                            *)
TryCandidate(c, answers) ==
    LET x == Min(call[c].todo) IN
    /\ In(c, "take")
    /\ IF answers
       THEN /\ Pooled(x)
            /\ SetAccount(x, "OK")
            /\ Keep(c, [call[c] EXCEPT !.step = "check", !.acct = x])
            /\ UNCHANGED faults
       ELSE /\ IF Pooled(x) THEN Fault("network") ELSE UNCHANGED faults
            /\ Skip(c, x)
            /\ UNCHANGED pstat
    /\ UNCHANGED <<grantVars, spent, shared>>

(* Mutant: the active grants of the candidate are not counted.             *)
CheckCandidate_NoCount(c) ==
    LET x == call[c].acct IN
    /\ In(c, "check")
    /\ IF gacct[call[c].order] # None THEN Hang(c) ELSE GoOn(c, "assign")
    /\ shared' = IF \E d \in Procs \ {c} : In(d, "assign") /\ call[d].acct = x
                 THEN shared \cup {x} ELSE shared
    /\ UNCHANGED <<grantVars, pstat, spent, faults>>

(* What the transaction reads ...                                          *)
CheckCandidate(c) ==
    LET x == call[c].acct IN
    /\ In(c, "check")
    /\ IF gacct[call[c].order] # None THEN Hang(c)
       ELSE IF HeldBy(x) # {} THEN Skip(c, x)
       ELSE GoOn(c, "assign")
    /\ shared' = IF \E d \in Procs \ {c} : In(d, "assign") /\ call[d].acct = x
                 THEN shared \cup {x} ELSE shared
    /\ UNCHANGED <<grantVars, pstat, spent, faults>>

(* ... and what it writes, by the id of the grant: neither the quota nor   *)
(* the account it has meanwhile is looked at again.                        *)
AssignCandidate(c) ==
    LET x == call[c].acct  o == call[c].order IN
    /\ In(c, "assign")
    /\ Pooled(x)
    /\ gacct' = [gacct EXCEPT ![o] = x]
    /\ StartGrant(o)
    /\ active' = active \cup {o}
    /\ Hang(c)
    /\ UNCHANGED <<born, gused, ended, pstat, spent, shared, faults>>

AssignFails(c) ==
    /\ In(c, "assign")
    /\ ~Pooled(call[c].acct)
    /\ Hang(c)
    /\ UNCHANGED <<grantVars, pstat, spent, shared, faults>>

-----------------------------------------------------------------------------
Proceed(c) ==
    \/ RefreshNext(c)
    \/ \E missing \in BOOLEAN : SyncRead(c, missing)
    \/ SyncWrite(c) \/ SyncFails(c)
    \/ QueryQuota(c) \/ ReleaseAccount(c) \/ SwapReleases(c) \/ SwapClaims(c)
    \/ \E answers \in BOOLEAN : TryCandidate(c, answers)
    \/ CheckCandidate(c) \/ AssignCandidate(c) \/ AssignFails(c)

(* The requests named in ops.                                              *)
Asks(c, ops) ==
    \/ "refresh" \in ops /\ RefreshAll(c)
    \/ "claim" \in ops /\ \E o \in Orders : ClaimAccount(c, o)
    \/ \E o \in Orders, op \in ops \cap {"query", "release", "swap"} : Visit(c, op, o)

PoolAdmin ==
    \E x \in PoolAccounts :
        RemoveAccount(x) \/ \E s \in {"OK", "UNKNOWN", "BANNED"} : UpdateAccount(x, s)

PoolWorld == \E x \in PoolAccounts : CreateAccount(x) \/ Spend(x)

PoolNext ==
    \/ PoolAdmin \/ PoolWorld
    \/ \E o \in Orders : CreateGrant(o) \/ BindUserToken(o) \/ GrantEnds(o)
    \/ RefreshAll(Poller)
    \/ \E c \in Callers : Asks(c, PoolOps)
    \/ \E c \in Procs : Proceed(c)

PoolSpec == PoolInit /\ faults = 0 /\ [][PoolNext]_<<poolVars, faults>>

-----------------------------------------------------------------------------
(* An account serves one active grant at a time, as claimAccount intends:  *)
(* the use of the others would not be metered.  The exceptions: two claims *)
(* whose transactions overlapped, and a grant that a bound token or an     *)
(* answer older than its deactivation made active again.                   *)
AccountExclusive ==
    \A x \in PoolAccounts \ shared : Cardinality(HeldBy(x)) <= 1

(* A grant is not charged for what was spent before it started: its use    *)
(* was spent on some account since.                                        *)
UsedIsReal ==
    \A o \in Orders : gused[o] > 0 => \E x \in PoolAccounts : gused[o] <= Window(o, x)

(* A grant stays active though all of it was spent on its account.         *)
UsedUpOnAccount(o) ==
    /\ o \in active
    /\ gacct[o] \in PoolAccounts \ shared
    /\ Window(o, gacct[o]) >= Quota[o]

(* releaseAccount (pool.service.ts:686): giving an account back does not   *)
(* set the use to zero.                                                    *)
UseNeverDrops == [][\A o \in Orders : gused'[o] >= gused[o]]_<<poolVars, faults>>
=============================================================================
