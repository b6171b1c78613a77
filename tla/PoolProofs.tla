----------------------------- MODULE PoolProofs -----------------------------
(***************************************************************************)
(* Proofs about PoolGrants, for every set of orders, accounts and callers  *)
(* and every quota.  What a request writes as the use of a grant was read  *)
(* before, perhaps long ago; it is never more than what was spent in the   *)
(* window of the grant, because what is spent only grows and a window is   *)
(* never moved.                                                            *)
(* Two grants never share an account that no claims overlapped on: while a *)
(* claim is about to assign an account, nobody has it and no other claim   *)
(* is about to.                                                            *)
(***************************************************************************)
EXTENDS PoolGrants, FiniteSetTheorems, WellFoundedInduction, TLAPS

(* A window opens at what was spent when it opened.                        *)
WindowsAreReal ==
    \A o \in Orders : base[o] # None => \A x \in PoolAccounts : base[o][x] <= spent[x]

(* A use that can be noted for a grant: spent on an account since it began. *)
Real(o, n) == n > 0 => \E x \in PoolAccounts : n <= Window(o, x)

(* A list that is still to be worked through is not empty, and a call has  *)
(* the account and the order its next step needs.                          *)
Plain(c) ==
    /\ call[c].step \in {"list", "take"} => call[c].todo # {}
    /\ call[c].step \in {"sync", "write", "check", "assign"} => call[c].acct # None
    /\ call[c].step \in {"after", "claim", "take", "check", "assign"} => call[c].order # None
    /\ call[c].step \in {"sync", "write"} => call[c].op = "refresh" \/ call[c].order # None
    /\ call[c].step = "list" => call[c].op = "refresh"

(* What a look at an account will write is real.                           *)
WritesReal(c) ==
    call[c].step = "write" /\ call[c].grant # None => Real(call[c].grant, call[c].seen)

CallsAreReal == \A c \in Procs : Plain(c) /\ WritesReal(c)

PoolInv == PoolTypeOK /\ WindowsAreReal /\ CallsAreReal /\ UsedIsReal

(* Only grants that were created have an account, or are asked for.        *)
GrantsExist ==
    /\ \A o \in Orders : gacct[o] # None => Granted(o)
    /\ \A c \in Procs : call[c].order # None => Granted(call[c].order)

Assigning(c, x) == In(c, "assign") /\ call[c].acct = x

(* One grant holds the account, or one claim is about to take it.          *)
OneTaker(x) ==
    /\ \A o, p \in HeldBy(x) : o = p
    /\ \A c \in Procs : Assigning(c, x) =>
          HeldBy(x) = {} /\ \A d \in Procs : Assigning(d, x) => d = c

ExclusiveInv == GrantsExist /\ \A x \in PoolAccounts \ shared : OneTaker(x)

CallType ==
    [op : PoolOps \cup {None}, step : PoolSteps, order : Orders \cup {None},
     acct : PoolAccounts \cup {None}, grant : Orders \cup {None}, seen : Nat,
     todo : SUBSET PoolAccounts]

-----------------------------------------------------------------------------
(* Least elements. *)

Less == {p \in Nat \X Nat : p[1] < p[2]}

LEMMA LessIsWellFounded == IsWellFoundedOn(Less, Nat)
    BY NatLessThanWellFounded, Zenon DEF OpToRel, Less

(* A set of natural numbers has a least element. *)
LEMMA HasLeast ==
    ASSUME NEW S \in SUBSET Nat, S # {}
    PROVE  \E x \in S : \A y \in S : x <= y
<1>1. PICK x \in S : \A y \in S : ~ (<<y, x>> \in Less)
    BY LessIsWellFounded, WFMin, Zenon
<1>2. ASSUME NEW y \in S PROVE x <= y
    <2>1. x \in Nat /\ y \in Nat /\ <<y, x>> \notin Less
        BY <1>1
    <2>2. y < x => <<y, x>> \in Less
        BY <2>1 DEF Less
    <2> QED
        BY <2>1, <2>2
<1> QED
    BY <1>1, <1>2

(* The account tried next is one of the list. *)
LEMMA MinIsIn ==
    ASSUME NEW S \in SUBSET PoolAccounts, S # {}
    PROVE  Min(S) \in S
    BY HasLeast, PoolAssumption DEF Min

(* Of the active grants of an account one is the oldest. *)
LEMMA FirstExists ==
    ASSUME PoolTypeOK, NEW x, HeldBy(x) # {}
    PROVE  (CHOOSE o \in Orders : FirstGrant(o, x)) \in Orders
<1> DEFINE ages == {born[o] : o \in HeldBy(x)}
<1>1. HeldBy(x) \subseteq Orders
    BY DEF PoolTypeOK, HeldBy
<1>2. ages \in SUBSET Nat /\ ages # {}
    BY <1>1 DEF PoolTypeOK
<1>3. PICK a \in ages : \A b \in ages : a <= b
    <2> HIDE DEF ages
    <2> QED
        BY <1>2, HasLeast
<1>4. PICK o \in HeldBy(x) : born[o] = a
    BY <1>3
<1>5. FirstGrant(o, x)
    BY <1>3, <1>4 DEF FirstGrant
<1> QED
    BY <1>1, <1>4, <1>5

-----------------------------------------------------------------------------
(* Calls. *)

(* An order is not None, nor an account. *)
LEMMA NoneIsNone == NoCall \in CallType /\ None \notin Orders /\ None \notin PoolAccounts
    BY CommonAssumption, PoolAssumption DEF NoCall, CallType, PoolSteps

(* What a call is kept as. *)
LEMMA KeepTyped ==
    ASSUME PoolTypeOK, NEW c \in Procs, NEW rec \in CallType, Keep(c, rec)
    PROVE  call' \in [Procs -> CallType]
    BY DEF PoolTypeOK, CallType, Keep

(* A call that steps on keeps its type. *)
LEMMA StepTyped ==
    ASSUME PoolTypeOK, NEW c \in Procs, NEW s \in PoolSteps
    PROVE  [call[c] EXCEPT !.step = s] \in CallType
    BY DEF PoolTypeOK, CallType

(* What follows a look has the type of a call. *)
LEMMA ContinueTyped ==
    ASSUME PoolTypeOK, NEW c \in Procs, Continue(c)
    PROVE  call' \in [Procs -> CallType]
<1>1. call[c] \in CallType
    BY DEF PoolTypeOK, CallType
<1>2. [NoCall EXCEPT !.op = "refresh", !.step = "list", !.todo = call[c].todo] \in CallType
    BY <1>1, NoneIsNone DEF NoCall, CallType, PoolOps, PoolSteps
<1>3. [NoCall EXCEPT !.op = call[c].op, !.step = "after", !.order = call[c].order] \in CallType
    BY <1>1, NoneIsNone DEF NoCall, CallType, PoolOps, PoolSteps
<1> QED
    BY <1>2, <1>3, NoneIsNone, KeepTyped DEF Continue, Hang

(* A look at an account, and a claim, have the type of a call. *)
LEMMA AskingTyped ==
    ASSUME PoolTypeOK, NEW op \in PoolOps, NEW o \in Orders
    PROVE  /\ \A x \in PoolAccounts : Asking(op, o, x) \in CallType
           /\ Claiming(o) \in CallType
<1>1. \A x \in PoolAccounts : Asking(op, o, x) \in CallType
    BY NoneIsNone DEF Asking, NoCall, CallType, PoolSteps, PoolOps
<1>2. \A x \in PoolAccounts : Asking("claim", o, x) \in CallType
    BY NoneIsNone DEF Asking, NoCall, CallType, PoolSteps, PoolOps
<1>3. [NoCall EXCEPT !.op = "claim", !.step = "take", !.order = o, !.todo = Candidates]
          \in CallType
    BY NoneIsNone DEF NoCall, CallType, PoolSteps, PoolOps, Candidates
<1>4. gacct[o] # None => gacct[o] \in PoolAccounts
    BY DEF PoolTypeOK
<1> QED
    BY <1>1, <1>2, <1>3, <1>4, NoneIsNone DEF Claiming

(* Trying a candidate no more has the type of a call. *)
LEMMA SkipTyped ==
    ASSUME PoolTypeOK, NEW c \in Procs, NEW x, Skip(c, x)
    PROVE  call' \in [Procs -> CallType]
<1>1. [call[c] EXCEPT !.step = "take", !.acct = None, !.todo = call[c].todo \ {x}] \in CallType
    BY DEF PoolTypeOK, CallType, PoolSteps
<1> QED
    BY <1>1, NoneIsNone, KeepTyped DEF Skip, Hang
-----------------------------------------------------------------------------
(* Types, and that the uses under way are real. *)

(* A window is not negative. *)
LEMMA WindowIsNat ==
    ASSUME PoolTypeOK, WindowsAreReal, NEW o \in Orders, NEW x \in PoolAccounts
    PROVE  Window(o, x) \in Nat
<1>1. CASE base[o] = None
    BY <1>1 DEF Window
<1>2. CASE base[o] # None
    <2>1. base[o][x] \in Nat /\ spent[x] \in Nat /\ base[o][x] <= spent[x]
        BY <1>2 DEF PoolTypeOK, WindowsAreReal
    <2> QED
        BY <1>2, <2>1 DEF Window
<1> QED
    BY <1>1, <1>2

(* What was spent in a window never shrinks. *)
LEMMA WindowsGrow ==
    ASSUME PoolTypeOK, PoolTypeOK', WindowsAreReal,
           \A x \in PoolAccounts : spent[x] <= spent'[x],
           \A o \in Orders : base'[o] = base[o] \/ (base[o] = None /\ base'[o] = spent),
           UNCHANGED spent \/ UNCHANGED base,
           NEW o \in Orders, NEW n \in Nat, Real(o, n)
    PROVE  Real(o, n)'
<1> SUFFICES ASSUME n > 0 PROVE \E x \in PoolAccounts : n <= Window(o, x)'
    BY DEF Real
<1>1. PICK x \in PoolAccounts : n <= Window(o, x)
    BY DEF Real
<1>2. base[o] # None /\ base'[o] = base[o]
    BY <1>1 DEF Window
<1>3. spent[x] \in Nat /\ spent'[x] \in Nat /\ base[o][x] \in Nat
    BY <1>2 DEF PoolTypeOK
<1> QED
    BY <1>1, <1>2, <1>3 DEF Window
(* Every step keeps the types. *)
LEMMA PoolTypeStep == PoolInv /\ [PoolNext]_<<poolVars, faults>> => PoolTypeOK'
<1> SUFFICES ASSUME PoolTypeOK, WindowsAreReal, CallsAreReal,
                    [PoolNext]_<<poolVars, faults>>
             PROVE  PoolTypeOK'
    BY DEF PoolInv
<1> DEFINE Rest == UNCHANGED <<grantVars, pstat, spent, shared>>
<1>a. ASSUME Rest, call' \in [Procs -> CallType] PROVE PoolTypeOK'
    BY <1>a DEF PoolTypeOK, grantVars, CallType
<1>b. ASSUME NEW c \in Procs PROVE call[c] \in CallType
    BY DEF PoolTypeOK, CallType
<1>c. ASSUME NEW s \in {"OK", "UNKNOWN", "BANNED", "GONE"}, NEW x, SetAccount(x, s)
      PROVE  pstat' \in [PoolAccounts -> {"NONE", "OK", "UNKNOWN", "BANNED", "GONE"}]
    BY <1>c DEF PoolTypeOK, SetAccount
<1>d. ASSUME NEW o, StartGrant(o)
      PROVE  base' \in [Orders -> [PoolAccounts -> Nat] \cup {None}]
    BY <1>d DEF PoolTypeOK, StartGrant
<1>1. ASSUME NEW o \in Orders, CreateGrant(o) PROVE PoolTypeOK'
    <2>1. IsFiniteSet({p \in Orders : Granted(p)})
        BY CommonAssumption, FS_Subset
    <2>2. Cardinality({p \in Orders : Granted(p)}) \in Nat
        BY <2>1, FS_CardinalityType
    <2> QED
        BY <1>1, <2>2 DEF PoolTypeOK, CreateGrant
<1>2. ASSUME NEW x \in PoolAccounts, CreateAccount(x) PROVE PoolTypeOK'
    BY <1>2, <1>c DEF PoolTypeOK, CreateAccount, grantVars
<1>3. ASSUME NEW x \in PoolAccounts, NEW s \in {"OK", "UNKNOWN", "BANNED"}, UpdateAccount(x, s)
      PROVE PoolTypeOK'
    BY <1>3, <1>c DEF PoolTypeOK, UpdateAccount, grantVars
<1>4. ASSUME NEW x \in PoolAccounts, RemoveAccount(x) PROVE PoolTypeOK'
    BY <1>4, <1>c DEF PoolTypeOK, RemoveAccount
<1>5. ASSUME NEW x \in PoolAccounts, Spend(x) PROVE PoolTypeOK'
    <2>1. spent[x] + 1 \in Nat
        BY DEF PoolTypeOK
    <2> QED
        BY <1>5, <2>1 DEF PoolTypeOK, Spend, grantVars
<1>6. ASSUME NEW o \in Orders, GrantEnds(o) PROVE PoolTypeOK'
    BY <1>6 DEF PoolTypeOK, GrantEnds
<1>7. ASSUME NEW o \in Orders, BindUserToken(o) PROVE PoolTypeOK'
    BY <1>7, <1>d DEF PoolTypeOK, BindUserToken
<1>8. ASSUME NEW c \in Procs, RefreshAll(c) PROVE PoolTypeOK'
    <2>1. [NoCall EXCEPT !.op = "refresh", !.step = "list",
                         !.todo = {x \in PoolAccounts : Pooled(x)}] \in CallType
        BY NoneIsNone DEF NoCall, CallType, PoolOps, PoolSteps
    <2> QED
        BY <1>8, <1>a, <2>1, KeepTyped DEF RefreshAll
<1>9. ASSUME NEW c \in Procs, NEW o \in Orders, ClaimAccount(c, o) PROVE PoolTypeOK'
    BY <1>9, <1>a, AskingTyped, KeepTyped DEF ClaimAccount, PoolOps
<1>10. ASSUME NEW c \in Procs, NEW o \in Orders, NEW op \in PoolOps, Visit(c, op, o)
       PROVE PoolTypeOK'
    <2>1. [NoCall EXCEPT !.op = op, !.order = o,
                         !.step = IF op = "swap" THEN "claim" ELSE "after"] \in CallType
        BY NoneIsNone DEF NoCall, CallType, PoolSteps, PoolOps
    <2>2. gacct[o] # None => Asking(op, o, gacct[o]) \in CallType
        BY AskingTyped DEF PoolTypeOK
    <2> QED
        BY <1>10, <1>a, <2>1, <2>2, KeepTyped DEF Visit
<1>11. ASSUME NEW c \in Procs, RefreshNext(c) PROVE PoolTypeOK'
    <2>1. call[c].todo # {} /\ call[c].todo \in SUBSET PoolAccounts
        BY <1>11, <1>b DEF RefreshNext, In, CallsAreReal, Plain, CallType
    <2>2. Min(call[c].todo) \in PoolAccounts
        BY <2>1, MinIsIn
    <2>3. [call[c] EXCEPT !.step = "sync", !.acct = Min(call[c].todo),
                          !.todo = call[c].todo \ {Min(call[c].todo)}] \in CallType
        BY <1>b, <2>2 DEF CallType, PoolSteps
    <2> QED
        BY <1>11, <1>a, <2>3, KeepTyped DEF RefreshNext
<1>12. ASSUME NEW c \in Procs, NEW missing \in BOOLEAN, SyncRead(c, missing) PROVE PoolTypeOK'
    <2> DEFINE x == call[c].acct
               g == CHOOSE o \in Orders : FirstGrant(o, x)
               none == HeldBy(x) = {}
               seen == IF none THEN 0 ELSE IF missing THEN gused[g] ELSE Seen(g, x)
    <2>1. x \in PoolAccounts
        BY <1>12, <1>b DEF SyncRead, In, CallsAreReal, Plain, CallType
    <2>2. ~none => g \in Orders
        BY FirstExists
    <2>3. ~none => Window(g, x) \in Nat
        BY <2>1, <2>2, WindowIsNat
    <2>4. seen \in Nat
        <3>1. ~none => gused[g] \in Nat /\ Seen(g, x) \in Nat
            BY <2>2, <2>3 DEF PoolTypeOK, Seen
        <3> HIDE DEF g, none, x
        <3> QED
            BY <3>1
    <2>5. (IF none THEN None ELSE g) \in Orders \cup {None}
        BY <2>2
    <2>6. [call[c] EXCEPT !.step = "write", !.grant = IF none THEN None ELSE g, !.seen = seen]
             \in CallType
        <3> HIDE DEF seen, none, g
        <3> QED
            BY <1>b, <2>4, <2>5 DEF CallType, PoolSteps
    <2> QED
        BY <1>12, <1>a, <2>6, KeepTyped DEF SyncRead
<1>13. ASSUME NEW c \in Procs, SyncWrite(c) PROVE PoolTypeOK'
    <2>1. call' \in [Procs -> CallType]
        BY <1>13, ContinueTyped DEF SyncWrite
    <2>2. call[c].grant \in Orders \cup {None} /\ call[c].seen \in Nat
        BY <1>b DEF CallType
    <2>3. gused' \in [Orders -> Nat] /\ active' \subseteq Orders /\ shared' \subseteq PoolAccounts
        BY <1>13, <2>2 DEF SyncWrite, PoolTypeOK
    <2> QED
        BY <1>13, <1>c, <2>1, <2>3 DEF SyncWrite, PoolTypeOK, CallType
<1>14. ASSUME NEW c \in Procs, SyncFails(c) PROVE PoolTypeOK'
    <2>1. call' \in [Procs -> CallType]
        BY <1>14, ContinueTyped, NoneIsNone, KeepTyped DEF SyncFails, Hang
    <2>2. pstat' = pstat \/ SetAccount(call[c].acct, "UNKNOWN")
        BY <1>14 DEF SyncFails
    <2>3. pstat' \in [PoolAccounts -> {"NONE", "OK", "UNKNOWN", "BANNED", "GONE"}]
        BY <1>c, <2>2 DEF PoolTypeOK
    <2> QED
        BY <1>14, <2>1, <2>3 DEF SyncFails, PoolTypeOK, CallType, grantVars
<1>15. ASSUME NEW c \in Procs, QueryQuota(c) PROVE PoolTypeOK'
    <2>1. call' \in [Procs -> CallType]
        BY <1>15, NoneIsNone, KeepTyped DEF QueryQuota, Hang
    <2> QED
        BY <1>15, <2>1 DEF QueryQuota, PoolTypeOK, CallType
<1>16. ASSUME NEW c \in Procs, ReleaseAccount(c) \/ SwapReleases(c) PROVE PoolTypeOK'
    <2>1. call' \in [Procs -> CallType]
        BY <1>16, NoneIsNone, KeepTyped, StepTyped
        DEF ReleaseAccount, SwapReleases, Hang, GoOn, PoolSteps
    <2> QED
        BY <1>16, <2>1 DEF ReleaseAccount, SwapReleases, Unbind, PoolTypeOK, CallType
<1>17. ASSUME NEW c \in Procs, SwapClaims(c) PROVE PoolTypeOK'
    <2>1. call[c].order \in Orders
        BY <1>17, <1>b DEF SwapClaims, In, CallsAreReal, Plain, CallType
    <2> QED
        BY <1>17, <1>a, <2>1, AskingTyped, NoneIsNone, KeepTyped DEF SwapClaims, PoolOps
<1>18. ASSUME NEW c \in Procs, NEW answers \in BOOLEAN, TryCandidate(c, answers)
       PROVE PoolTypeOK'
    <2>1. call[c].todo # {} /\ call[c].todo \in SUBSET PoolAccounts
        BY <1>18, <1>b DEF TryCandidate, In, CallsAreReal, Plain, CallType
    <2>2. Min(call[c].todo) \in PoolAccounts
        BY <2>1, MinIsIn
    <2>3. [call[c] EXCEPT !.step = "check", !.acct = Min(call[c].todo)] \in CallType
        BY <1>b, <2>2 DEF CallType, PoolSteps
    <2>4. call' \in [Procs -> CallType]
        BY <1>18, <2>3, KeepTyped, SkipTyped DEF TryCandidate
    <2> QED
        BY <1>18, <1>c, <2>4 DEF TryCandidate, PoolTypeOK, CallType, grantVars
<1>19. ASSUME NEW c \in Procs, CheckCandidate(c) PROVE PoolTypeOK'
    <2>1. call' \in [Procs -> CallType]
        BY <1>19, NoneIsNone, KeepTyped, StepTyped, SkipTyped
        DEF CheckCandidate, Hang, GoOn, PoolSteps
    <2>2. call[c].acct \in PoolAccounts
        BY <1>19, <1>b DEF CheckCandidate, In, CallsAreReal, Plain, CallType
    <2> QED
        BY <1>19, <2>1, <2>2 DEF CheckCandidate, PoolTypeOK, CallType, grantVars
<1>20. ASSUME NEW c \in Procs, AssignCandidate(c) PROVE PoolTypeOK'
    <2>1. call' \in [Procs -> CallType]
        BY <1>20, NoneIsNone, KeepTyped DEF AssignCandidate, Hang
    <2>2. call[c].acct \in PoolAccounts /\ call[c].order \in Orders
        BY <1>20, <1>b DEF AssignCandidate, In, CallsAreReal, Plain, CallType
    <2> QED
        BY <1>20, <1>d, <2>1, <2>2 DEF AssignCandidate, PoolTypeOK, CallType
<1>21. ASSUME NEW c \in Procs, AssignFails(c) PROVE PoolTypeOK'
    BY <1>21, <1>a, NoneIsNone, KeepTyped DEF AssignFails, Hang
<1>22. CASE UNCHANGED <<poolVars, faults>>
    BY <1>22 DEF PoolTypeOK, poolVars, grantVars
<1>23. ASSUME NEW c \in Callers, Asks(c, PoolOps) PROVE PoolTypeOK'
    BY <1>23, <1>8, <1>9, <1>10 DEF Asks, Procs
<1>24. ASSUME NEW c \in Procs, Proceed(c) PROVE PoolTypeOK'
    BY <1>24, <1>11, <1>12, <1>13, <1>14, <1>15, <1>16, <1>17, <1>18, <1>19, <1>20, <1>21
    DEF Proceed
<1>25. ASSUME PoolAdmin \/ PoolWorld PROVE PoolTypeOK'
    BY <1>25, <1>2, <1>3, <1>4, <1>5 DEF PoolAdmin, PoolWorld
<1> QED
    BY <1>1, <1>6, <1>7, <1>8, <1>22, <1>23, <1>24, <1>25 DEF PoolNext, Procs
-----------------------------------------------------------------------------
(* The use that was noted. *)

(* Windows stay where they are, and what is spent only grows. *)
LEMMA WindowStep ==
    ASSUME PoolTypeOK, [PoolNext]_<<poolVars, faults>>
    PROVE  /\ \A x \in PoolAccounts : spent[x] <= spent'[x]
           /\ \A o \in Orders : base'[o] = base[o] \/ (base[o] = None /\ base'[o] = spent)
           /\ UNCHANGED spent \/ UNCHANGED base
<1> DEFINE Goal == /\ \A x \in PoolAccounts : spent[x] <= spent'[x]
                   /\ \A o \in Orders : base'[o] = base[o] \/ (base[o] = None /\ base'[o] = spent)
                   /\ UNCHANGED spent \/ UNCHANGED base
<1>1. ASSUME UNCHANGED <<spent, base>> PROVE Goal
    BY <1>1 DEF PoolTypeOK
<1>2. ASSUME NEW x \in PoolAccounts, Spend(x) PROVE Goal
    <2>1. \A y \in PoolAccounts : spent[y] \in Nat
        BY DEF PoolTypeOK
    <2>2. \A y \in PoolAccounts : spent'[y] = IF y = x THEN spent[x] + 1 ELSE spent[y]
        BY <1>2 DEF Spend, PoolTypeOK
    <2> QED
        BY <1>2, <2>1, <2>2 DEF Spend, grantVars
<1>3. ASSUME NEW o \in Orders, StartGrant(o), UNCHANGED spent PROVE Goal
    BY <1>3 DEF StartGrant, PoolTypeOK
<1>4. ASSUME NEW c \in Procs, AssignCandidate(c) PROVE Goal
    <2>1. call[c].order \in Orders \/ call[c].order \notin Orders
        OBVIOUS
    <2> QED
        BY <1>4 DEF AssignCandidate, StartGrant, PoolTypeOK
<1>5. ASSUME NEW o \in Orders, CreateGrant(o) \/ BindUserToken(o) \/ GrantEnds(o) PROVE Goal
    BY <1>1, <1>3, <1>5 DEF CreateGrant, BindUserToken, GrantEnds
<1>6. ASSUME NEW c \in Procs, Proceed(c) PROVE Goal
    <2>1. CASE AssignCandidate(c)
        BY <1>4, <2>1
    <2>2. CASE ~AssignCandidate(c)
        BY <1>1, <1>6, <2>2
        DEF Proceed, RefreshNext, SyncRead, SyncWrite, SyncFails, QueryQuota, ReleaseAccount,
            SwapReleases, SwapClaims, TryCandidate, CheckCandidate, AssignFails, grantVars
    <2> QED
        BY <2>1, <2>2
<1>7. ASSUME NEW c \in Procs, Asks(c, PoolOps) \/ RefreshAll(c) PROVE Goal
    BY <1>1, <1>7 DEF Asks, RefreshAll, ClaimAccount, Visit, grantVars
<1>8. ASSUME PoolAdmin \/ PoolWorld PROVE Goal
    BY <1>1, <1>2, <1>8
    DEF PoolAdmin, PoolWorld, RemoveAccount, UpdateAccount, CreateAccount, grantVars
<1>9. CASE UNCHANGED <<poolVars, faults>>
    BY <1>1, <1>9 DEF poolVars, grantVars
<1> QED
    BY <1>5, <1>6, <1>7, <1>8, <1>9 DEF PoolNext, Procs

(* A window that opens holds what was spent until then. *)
LEMMA WindowsStayReal ==
    ASSUME PoolTypeOK, PoolTypeOK', WindowsAreReal, [PoolNext]_<<poolVars, faults>>
    PROVE  WindowsAreReal'
<1> SUFFICES ASSUME NEW o \in Orders, base'[o] # None, NEW x \in PoolAccounts
             PROVE  base'[o][x] <= spent'[x]
    BY DEF WindowsAreReal
<1>1. spent[x] \in Nat /\ spent'[x] \in Nat /\ spent[x] <= spent'[x]
    BY WindowStep DEF PoolTypeOK
<1>2. CASE base'[o] = base[o]
    <2>1. base[o][x] \in Nat /\ base[o][x] <= spent[x]
        BY <1>2 DEF WindowsAreReal, PoolTypeOK
    <2> QED
        BY <1>1, <1>2, <2>1
<1>3. CASE base'[o] = spent
    BY <1>1, <1>3
<1> QED
    BY <1>2, <1>3, WindowStep

(* What was real stays so. *)
LEMMA RealStays ==
    ASSUME PoolTypeOK, PoolTypeOK', WindowsAreReal, [PoolNext]_<<poolVars, faults>>,
           NEW o \in Orders, NEW n \in Nat, Real(o, n)
    PROVE  Real(o, n)'
    BY WindowStep, WindowsGrow

(* The use of a grant is written by a look at an account, which read it    *)
(* before.                                                                 *)
LEMMA UseWriters ==
    ASSUME PoolTypeOK, [PoolNext]_<<poolVars, faults>>, NEW o \in Orders, gused'[o] # gused[o]
    PROVE  \E c \in Procs : /\ call[c].step = "write" /\ call[c].grant = o
                            /\ gused'[o] = call[c].seen
<1>1. PICK c \in Procs : SyncWrite(c)
    BY DEF PoolNext, PoolAdmin, PoolWorld, Proceed, Asks, Procs, CreateGrant, CreateAccount,
           UpdateAccount, RemoveAccount, Spend, GrantEnds, BindUserToken, ClaimAccount, Visit,
           RefreshAll, RefreshNext, SyncRead, SyncFails, QueryQuota, ReleaseAccount,
           SwapReleases, SwapClaims, TryCandidate, CheckCandidate, AssignCandidate,
           AssignFails, grantVars, poolVars
<1> QED
    BY <1>1 DEF SyncWrite, In, PoolTypeOK

(* A noted use is real. *)
LEMMA UsedStep ==
    ASSUME PoolInv, PoolTypeOK', [PoolNext]_<<poolVars, faults>>
    PROVE  UsedIsReal'
<1> SUFFICES ASSUME NEW o \in Orders PROVE Real(o, gused[o])'
    BY DEF UsedIsReal, Real
<1>1. gused[o] \in Nat /\ Real(o, gused[o])
    BY DEF PoolInv, PoolTypeOK, UsedIsReal, Real
<1>2. CASE gused'[o] = gused[o]
    <2>1. Real(o, gused[o]) => (Real(o, gused[o]))'
        <3>1. PICK n \in Nat : n = gused[o]
            BY <1>1
        <3>2. Real(o, n)'
            BY <1>1, <3>1, RealStays DEF PoolInv
        <3> QED
            BY <1>2, <3>1, <3>2 DEF Real
    <2> QED
        BY <1>1, <2>1
<1>3. CASE gused'[o] # gused[o]
    <2>1. PICK c \in Procs : call[c].step = "write" /\ call[c].grant = o
                             /\ gused'[o] = call[c].seen
        BY <1>3, UseWriters DEF PoolInv
    <2>2. PICK n \in Nat : n = call[c].seen
        BY DEF PoolInv, PoolTypeOK
    <2>3. Real(o, n)
        BY <2>1, <2>2, NoneIsNone DEF PoolInv, CallsAreReal, WritesReal
    <2>4. Real(o, n)'
        BY <2>3, RealStays DEF PoolInv
    <2> QED
        BY <2>1, <2>2, <2>4 DEF Real
<1> QED
    BY <1>2, <1>3

-----------------------------------------------------------------------------
(* The calls. *)

(* A call that a step leaves alone stays as it should be. *)
LEMMA OthersStay ==
    ASSUME PoolInv, PoolTypeOK', [PoolNext]_<<poolVars, faults>>,
           NEW d \in Procs, call'[d] = call[d]
    PROVE  Plain(d)' /\ WritesReal(d)'
<1>1. Plain(d) /\ WritesReal(d) /\ call[d] \in CallType
    BY DEF PoolInv, CallsAreReal, PoolTypeOK, CallType
<1>2. WritesReal(d)'
    <2>1. SUFFICES ASSUME call[d].step = "write", call[d].grant # None
                   PROVE  WritesReal(d)'
        BY DEF WritesReal
    <2>2. PICK g \in Orders, n \in Nat : g = call[d].grant /\ n = call[d].seen
        BY <1>1, <2>1 DEF CallType
    <2>3. Real(g, n)
        BY <1>1, <2>1, <2>2 DEF WritesReal
    <2>4. Real(g, n)'
        BY <2>3, RealStays DEF PoolInv
    <2> QED
        BY <2>2, <2>4 DEF WritesReal, Real
<1> QED
    BY <1>1, <1>2 DEF Plain

(* A step of a call that does not end in a write. *)
LEMMA PlainStep ==
    ASSUME PoolInv, PoolTypeOK', [PoolNext]_<<poolVars, faults>>, NEW c \in Procs,
           NEW rec \in CallType, Keep(c, rec), rec.step # "write",
           rec.step \in {"list", "take"} => rec.todo # {},
           rec.step \in {"sync", "check", "assign"} => rec.acct # None,
           rec.step \in {"after", "claim", "take", "check", "assign"} => rec.order # None,
           rec.step = "sync" => rec.op = "refresh" \/ rec.order # None,
           rec.step = "list" => rec.op = "refresh"
    PROVE  CallsAreReal'
<1>1. call'[c] = rec /\ \A d \in Procs \ {c} : call'[d] = call[d]
    BY DEF Keep, PoolInv, PoolTypeOK
<1>2. Plain(c)' /\ WritesReal(c)'
    BY <1>1 DEF Plain, WritesReal
<1> QED
    BY <1>1, <1>2, OthersStay DEF CallsAreReal

(* A call that ends, or looks at an account next. *)
LEMMA HangStep ==
    ASSUME PoolInv, PoolTypeOK', [PoolNext]_<<poolVars, faults>>, NEW c \in Procs, Hang(c)
    PROVE  CallsAreReal'
    BY PlainStep, NoneIsNone DEF Hang, NoCall

(* What follows a look is no write. *)
LEMMA ContinueStep ==
    ASSUME PoolInv, PoolTypeOK', [PoolNext]_<<poolVars, faults>>, NEW c \in Procs, Continue(c),
           call[c].op # "refresh" => call[c].order # None
    PROVE  CallsAreReal'
<1>1. call[c] \in CallType
    BY DEF PoolInv, PoolTypeOK, CallType
<1>2. ASSUME call[c].op # "claim", call[c].op = "refresh", call[c].todo # {} PROVE CallsAreReal'
    <2>1. PICK rec : rec = [NoCall EXCEPT !.op = "refresh", !.step = "list", !.todo = call[c].todo]
        OBVIOUS
    <2>2. Keep(c, rec)
        BY <1>2, <2>1 DEF Continue
    <2>3. rec \in CallType /\ rec.step = "list" /\ rec.todo # {} /\ rec.op = "refresh"
        BY <1>1, <1>2, <2>1, NoneIsNone DEF NoCall, CallType, PoolOps, PoolSteps
    <2> QED
        BY <2>2, <2>3, PlainStep
<1>3. ASSUME call[c].op # "claim", call[c].op # "refresh" PROVE CallsAreReal'
    <2>1. PICK rec : rec = [NoCall EXCEPT !.op = call[c].op, !.step = "after", !.order = call[c].order]
        OBVIOUS
    <2>2. Keep(c, rec)
        BY <1>3, <2>1 DEF Continue
    <2>3. rec \in CallType /\ rec.step = "after" /\ rec.order # None
        BY <1>1, <1>3, <2>1, NoneIsNone DEF NoCall, CallType, PoolOps, PoolSteps
    <2> QED
        BY <2>2, <2>3, PlainStep
<1>4. call[c].op = "claim" \/ (call[c].op = "refresh" /\ call[c].todo = {}) => Hang(c)
    BY DEF Continue
<1> QED
    BY <1>2, <1>3, <1>4, HangStep

(* A claim that begins. *)
LEMMA ClaimingStep ==
    ASSUME PoolInv, PoolTypeOK', [PoolNext]_<<poolVars, faults>>, NEW c \in Procs,
           NEW o \in Orders, Keep(c, Claiming(o))
    PROVE  CallsAreReal'
<1>1. PICK rec : rec = Claiming(o)
    OBVIOUS
<1>2. rec \in CallType
    BY <1>1, AskingTyped DEF PoolInv, PoolOps
<1>3. \/ rec.step = "sync" /\ rec.acct # None /\ rec.order # None
      \/ rec.step = "take" /\ rec.todo # {} /\ rec.order # None
      \/ rec.step = "idle"
    BY <1>1, NoneIsNone DEF Claiming, Asking, NoCall
<1> QED
    BY <1>1, <1>2, <1>3, PlainStep

(* A candidate is tried no more. *)
LEMMA SkipStep ==
    ASSUME PoolInv, PoolTypeOK', [PoolNext]_<<poolVars, faults>>, NEW c \in Procs,
           NEW x, Skip(c, x), call[c].order # None
    PROVE  CallsAreReal'
<1>1. call[c] \in CallType
    BY DEF PoolInv, PoolTypeOK, CallType
<1>2. PICK rec : rec = [call[c] EXCEPT !.step = "take", !.acct = None,
                                       !.todo = call[c].todo \ {x}]
    OBVIOUS
<1>3. rec \in CallType /\ rec.step = "take" /\ rec.order # None
      /\ rec.todo = call[c].todo \ {x}
    BY <1>1, <1>2 DEF CallType, PoolSteps
<1> QED
    BY <1>2, <1>3, HangStep, PlainStep DEF Skip

(* A step of a request leaves the calls as they should be. *)
LEMMA ProceedStep ==
    ASSUME PoolInv, PoolTypeOK', [PoolNext]_<<poolVars, faults>>, NEW c \in Procs, Proceed(c)
    PROVE  CallsAreReal'
<1>1. call[c] \in CallType /\ Plain(c) /\ WritesReal(c) /\ PoolTypeOK
    BY DEF PoolInv, PoolTypeOK, CallType, CallsAreReal
<1>2. CASE RefreshNext(c)
    <2>1. PICK rec : rec = [call[c] EXCEPT !.step = "sync", !.acct = Min(call[c].todo),
                                           !.todo = call[c].todo \ {Min(call[c].todo)}]
        OBVIOUS
    <2>2. Keep(c, rec)
        BY <1>2, <2>1 DEF RefreshNext
    <2>3. call[c].todo # {} /\ call[c].todo \in SUBSET PoolAccounts /\ call[c].op = "refresh"
        BY <1>1, <1>2 DEF RefreshNext, In, Plain, CallType
    <2>4. Min(call[c].todo) \in PoolAccounts
        BY <2>3, MinIsIn
    <2>5. rec \in CallType /\ rec.step = "sync" /\ rec.acct # None /\ rec.op = "refresh"
        BY <1>1, <2>1, <2>3, <2>4, NoneIsNone DEF CallType, PoolSteps
    <2> QED
        BY <2>2, <2>5, PlainStep
<1>3. ASSUME NEW missing \in BOOLEAN, SyncRead(c, missing) PROVE CallsAreReal'
    <2> DEFINE x == call[c].acct
               g == CHOOSE o \in Orders : FirstGrant(o, x)
               none == HeldBy(x) = {}
               seen == IF none THEN 0 ELSE IF missing THEN gused[g] ELSE Seen(g, x)
    <2>1. call' = [call EXCEPT ![c] = [call[c] EXCEPT !.step = "write",
              !.grant = IF none THEN None ELSE g, !.seen = seen]]
        BY <1>3 DEF SyncRead, Keep
    <2>2. \A d \in Procs \ {c} : call'[d] = call[d]
        BY <2>1, <1>1 DEF PoolTypeOK
    <2>3. /\ call'[c].step = "write" /\ call'[c].acct = x /\ call'[c].op = call[c].op
          /\ call'[c].order = call[c].order /\ call'[c].seen = seen
          /\ call'[c].grant = IF none THEN None ELSE g
        <3> HIDE DEF x, g, none, seen
        <3>1. call'[c] = [call[c] EXCEPT !.step = "write",
                  !.grant = IF none THEN None ELSE g, !.seen = seen]
            BY <1>1, <2>1 DEF PoolTypeOK
        <3> QED
            BY <1>1, <3>1 DEF CallType, x
    <2>4. Plain(c)'
        BY <1>1, <1>3, <2>3 DEF Plain, SyncRead, In
    <2>5. WritesReal(c)'
        <3>1. SUFFICES ASSUME ~none PROVE Real(call[c].grant, call[c].seen)'
            BY <2>3 DEF WritesReal
        <3>2. PICK o \in Orders : o = g
            BY <3>1, <1>1, FirstExists
        <3>3. x \in PoolAccounts
            BY <1>1, <1>3 DEF SyncRead, In, Plain, CallType
        <3>4. PICK n : n = IF missing THEN gused[o] ELSE Window(o, x)
            OBVIOUS
        <3>5. n \in Nat /\ Real(o, n)
            <4> HIDE DEF x, g, none, seen
            <4>1. CASE missing
                <5>1. n = gused[o] /\ gused[o] \in Nat
                    BY <1>1, <3>4, <4>1 DEF PoolTypeOK
                <5>2. Real(o, gused[o])
                    BY DEF PoolInv, UsedIsReal, Real
                <5> QED
                    BY <5>1, <5>2
            <4>2. CASE ~missing
                <5>1. n = Window(o, x)
                    BY <3>4, <4>2
                <5>2. n \in Nat
                    BY <1>1, <3>3, <5>1, WindowIsNat DEF PoolInv
                <5> QED
                    BY <3>3, <5>1, <5>2 DEF Real
            <4> QED
                BY <4>1, <4>2
        <3>6. Real(o, n)'
            BY <3>5, RealStays DEF PoolInv
        <3>7. call'[c].grant = o /\ call'[c].seen = n
            BY <2>3, <3>1, <3>2, <3>4 DEF Seen
        <3> QED
            BY <3>6, <3>7 DEF Real
    <2> QED
        BY <2>2, <2>4, <2>5, OthersStay DEF CallsAreReal
<1>4. CASE SyncWrite(c)
    BY <1>1, <1>4, ContinueStep DEF SyncWrite, In, Plain
<1>5. CASE SyncFails(c)
    BY <1>1, <1>5, ContinueStep, HangStep DEF SyncFails, In, Plain
<1>6. CASE QueryQuota(c) \/ ReleaseAccount(c) \/ AssignCandidate(c) \/ AssignFails(c)
    BY <1>6, HangStep DEF QueryQuota, ReleaseAccount, AssignCandidate, AssignFails
<1>7. CASE SwapReleases(c)
    <2>1. PICK rec : rec = [call[c] EXCEPT !.step = "claim"]
        OBVIOUS
    <2>2. rec \in CallType /\ rec.step = "claim" /\ rec.order # None
        BY <1>1, <1>7, <2>1 DEF SwapReleases, In, Plain, CallType, PoolSteps
    <2> QED
        BY <1>7, <2>1, <2>2, PlainStep DEF SwapReleases, GoOn
<1>8. CASE SwapClaims(c)
    <2>1. call[c].order \in Orders
        BY <1>1, <1>8 DEF SwapClaims, In, Plain, CallType
    <2> QED
        BY <1>8, <2>1, HangStep, ClaimingStep DEF SwapClaims, Hang
<1>9. ASSUME NEW answers \in BOOLEAN, TryCandidate(c, answers) PROVE CallsAreReal'
    <2>1. call[c].todo # {} /\ call[c].todo \in SUBSET PoolAccounts /\ call[c].order # None
        BY <1>1, <1>9 DEF TryCandidate, In, Plain, CallType
    <2>2. Min(call[c].todo) \in PoolAccounts
        BY <2>1, MinIsIn
    <2>3. PICK rec : rec = [call[c] EXCEPT !.step = "check", !.acct = Min(call[c].todo)]
        OBVIOUS
    <2>4. rec \in CallType /\ rec.step = "check" /\ rec.acct # None /\ rec.order # None
        BY <1>1, <2>1, <2>2, <2>3, NoneIsNone DEF CallType, PoolSteps
    <2>5. ASSUME Keep(c, rec) PROVE CallsAreReal'
        BY <2>4, <2>5, PlainStep
    <2> QED
        BY <1>9, <2>1, <2>3, <2>5, SkipStep DEF TryCandidate
<1>10. CASE CheckCandidate(c)
    <2>1. PICK rec : rec = [call[c] EXCEPT !.step = "assign"]
        OBVIOUS
    <2>2. /\ rec \in CallType /\ rec.step = "assign" /\ rec.acct # None /\ rec.order # None
          /\ call[c].order # None
        BY <1>1, <1>10, <2>1 DEF CheckCandidate, In, Plain, CallType, PoolSteps
    <2>3. ASSUME Keep(c, rec) PROVE CallsAreReal'
        BY <2>2, <2>3, PlainStep
    <2> QED
        BY <1>10, <2>1, <2>2, <2>3, HangStep, SkipStep DEF CheckCandidate, GoOn
<1> QED
    BY <1>2, <1>3, <1>4, <1>5, <1>6, <1>7, <1>8, <1>9, <1>10 DEF Proceed

(* A step that leaves the calls alone. *)
LEMMA QuietStep ==
    ASSUME PoolInv, PoolTypeOK', [PoolNext]_<<poolVars, faults>>, UNCHANGED call
    PROVE  CallsAreReal'
    BY OthersStay DEF CallsAreReal

(* Every step leaves the calls as they should be. *)
LEMMA CallsStep ==
    ASSUME PoolInv, PoolTypeOK', [PoolNext]_<<poolVars, faults>>
    PROVE  CallsAreReal'
<1>1. ASSUME NEW c \in Procs, RefreshAll(c) PROVE CallsAreReal'
    <2>1. PICK rec : rec = [NoCall EXCEPT !.op = "refresh", !.step = "list",
                                          !.todo = {x \in PoolAccounts : Pooled(x)}]
        OBVIOUS
    <2>2. Keep(c, rec) /\ {x \in PoolAccounts : Pooled(x)} # {}
        BY <1>1, <2>1 DEF RefreshAll
    <2>3. rec \in CallType /\ rec.step = "list" /\ rec.todo # {} /\ rec.op = "refresh"
        BY <2>1, <2>2, NoneIsNone DEF NoCall, CallType, PoolOps, PoolSteps
    <2> QED
        BY <2>2, <2>3, PlainStep
<1>2. ASSUME NEW c \in Procs, NEW o \in Orders, ClaimAccount(c, o) PROVE CallsAreReal'
    BY <1>2, ClaimingStep DEF ClaimAccount
<1>3. ASSUME NEW c \in Procs, NEW o \in Orders, NEW op \in PoolOps, Visit(c, op, o)
      PROVE CallsAreReal'
    <2>1. PICK rec : rec = IF gacct[o] # None THEN Asking(op, o, gacct[o])
                           ELSE [NoCall EXCEPT !.op = op, !.order = o,
                                               !.step = IF op = "swap" THEN "claim" ELSE "after"]
        OBVIOUS
    <2>2. Keep(c, rec)
        BY <1>3, <2>1 DEF Visit
    <2>3. CASE gacct[o] # None
        <3>1. gacct[o] \in PoolAccounts
            BY <2>3 DEF PoolInv, PoolTypeOK
        <3>2. rec \in CallType /\ rec.step = "sync" /\ rec.acct # None /\ rec.order # None
            BY <2>1, <2>3, <3>1, NoneIsNone DEF Asking, NoCall, CallType, PoolSteps
        <3> QED
            BY <2>2, <3>2, PlainStep
    <2>4. CASE gacct[o] = None
        <3>1. rec \in CallType /\ rec.step \in {"claim", "after"} /\ rec.order # None
            BY <2>1, <2>4, NoneIsNone DEF NoCall, CallType, PoolSteps
        <3> QED
            BY <2>2, <3>1, PlainStep
    <2> QED
        BY <2>3, <2>4
<1>4. ASSUME NEW c \in Callers, Asks(c, PoolOps) PROVE CallsAreReal'
    BY <1>1, <1>2, <1>3, <1>4 DEF Asks, Procs
<1>5. ASSUME PoolAdmin \/ PoolWorld PROVE CallsAreReal'
    BY <1>5, QuietStep
    DEF PoolAdmin, PoolWorld, RemoveAccount, UpdateAccount, CreateAccount, Spend
<1>6. ASSUME NEW o \in Orders, CreateGrant(o) \/ BindUserToken(o) \/ GrantEnds(o)
      PROVE CallsAreReal'
    BY <1>6, QuietStep DEF CreateGrant, BindUserToken, GrantEnds
<1>7. CASE UNCHANGED <<poolVars, faults>>
    BY <1>7, QuietStep DEF poolVars
<1> QED
    BY <1>1, <1>4, <1>5, <1>6, <1>7, ProceedStep DEF PoolNext, Procs

-----------------------------------------------------------------------------
(* Who has an account. *)

(* A step that gives no account away and has no claim go on to its write.  *)
LEMMA TakersStay ==
    ASSUME ExclusiveInv, shared \subseteq shared',
           \A x \in PoolAccounts \ shared' : HeldBy(x)' \subseteq HeldBy(x),
           \A c \in Procs : In(c, "assign")' => call'[c] = call[c]
    PROVE  \A x \in PoolAccounts \ shared' : OneTaker(x)'
<1> SUFFICES ASSUME NEW x \in PoolAccounts \ shared' PROVE OneTaker(x)'
    OBVIOUS
<1>1. OneTaker(x) /\ HeldBy(x)' \subseteq HeldBy(x)
    BY DEF ExclusiveInv
<1>2. \A c \in Procs : Assigning(c, x)' => Assigning(c, x)
    BY DEF Assigning, In
<1> QED
    BY <1>1, <1>2 DEF OneTaker

(* A call that is kept at another step than the write is no taker.         *)
LEMMA KeepTakesNothing ==
    ASSUME PoolTypeOK, NEW c \in Procs, NEW rec, Keep(c, rec), rec.step # "assign"
    PROVE  \A d \in Procs : In(d, "assign")' => call'[d] = call[d]
    BY DEF PoolTypeOK, Keep, In

(* Nor is one that hangs up, goes on after a look, or skips a candidate.   *)
LEMMA EndTakesNothing ==
    ASSUME PoolTypeOK, NEW c \in Procs,
           \/ Hang(c) \/ Continue(c)
           \/ \E x : Skip(c, x)
           \/ \E o \in Orders : Keep(c, Claiming(o))
    PROVE  \A d \in Procs : In(d, "assign")' => call'[d] = call[d]
<1>1. NoCall.step = "idle"
    BY DEF NoCall
<1>2. [NoCall EXCEPT !.op = "refresh", !.step = "list", !.todo = call[c].todo].step = "list"
    BY DEF NoCall
<1>3. [NoCall EXCEPT !.op = call[c].op, !.step = "after", !.order = call[c].order].step = "after"
    BY DEF NoCall
<1>4. \A x : [call[c] EXCEPT !.step = "take", !.acct = None, !.todo = call[c].todo \ {x}].step
                 = "take"
    BY DEF PoolTypeOK
<1>5. \A o : Claiming(o).step # "assign"
    BY DEF Claiming, Asking, NoCall
<1> QED
    BY <1>1, <1>2, <1>3, <1>4, <1>5, KeepTakesNothing DEF Hang, Continue, Skip

(* The grants of an account are no more than before when none becomes      *)
(* active and none gets the account.                                       *)
LEMMA FewerHeld ==
    ASSUME active' \subseteq active, \A o \in active : gacct'[o] \in {gacct[o], None},
           NEW x \in PoolAccounts
    PROVE  HeldBy(x)' \subseteq HeldBy(x)
    BY PoolAssumption DEF HeldBy
(* A step of a request leaves an account to one taker. *)
LEMMA ProceedTakes ==
    ASSUME PoolInv, ExclusiveInv, NEW c \in Procs, Proceed(c)
    PROVE  \A x \in PoolAccounts \ shared' : OneTaker(x)'
<1> DEFINE Goal == \A x \in PoolAccounts \ shared' : OneTaker(x)'
<1> USE DEF grantVars
<1>1. PoolTypeOK /\ Plain(c) /\ call[c] \in CallType
    BY DEF PoolInv, PoolTypeOK, CallType, CallsAreReal
<1>2. CASE RefreshNext(c)
    <2>1. [call[c] EXCEPT !.step = "sync", !.acct = Min(call[c].todo),
                          !.todo = call[c].todo \ {Min(call[c].todo)}].step = "sync"
        BY <1>1 DEF CallType
    <2>2. \A d \in Procs : In(d, "assign")' => call'[d] = call[d]
        BY <1>1, <1>2, <2>1, KeepTakesNothing DEF RefreshNext
    <2> QED
        BY <1>2, <2>2, TakersStay DEF RefreshNext, HeldBy
<1>3. ASSUME NEW missing \in BOOLEAN, SyncRead(c, missing) PROVE Goal
    <2> DEFINE x == call[c].acct
               g == CHOOSE o \in Orders : FirstGrant(o, x)
               none == HeldBy(x) = {}
               seen == IF none THEN 0 ELSE IF missing THEN gused[g] ELSE Seen(g, x)
    <2>1. Keep(c, [call[c] EXCEPT !.step = "write", !.grant = IF none THEN None ELSE g,
                                  !.seen = seen])
        BY <1>3 DEF SyncRead
    <2>2. [call[c] EXCEPT !.step = "write", !.grant = IF none THEN None ELSE g,
                                  !.seen = seen].step = "write"
        BY <1>1 DEF CallType
    <2>3. \A d \in Procs : In(d, "assign")' => call'[d] = call[d]
        <3> HIDE DEF g, none, seen
        <3> QED
            BY <1>1, <2>1, <2>2, KeepTakesNothing
    <2> QED
        BY <1>3, <2>3, TakersStay DEF SyncRead, HeldBy
<1>4. CASE SyncWrite(c)
    <2>1. \A d \in Procs : In(d, "assign")' => call'[d] = call[d]
        BY <1>1, <1>4, EndTakesNothing DEF SyncWrite
    <2>2. \A x \in PoolAccounts \ shared' : HeldBy(x)' \subseteq HeldBy(x)
        BY <1>4, <1>1, NoneIsNone DEF SyncWrite, HeldBy
    <2> QED
        BY <1>4, <2>1, <2>2, TakersStay DEF SyncWrite
<1>5. CASE SyncFails(c)
    <2>1. \A d \in Procs : In(d, "assign")' => call'[d] = call[d]
        BY <1>1, <1>5, EndTakesNothing DEF SyncFails
    <2> QED
        BY <1>5, <2>1, TakersStay DEF SyncFails, HeldBy
<1>6. CASE QueryQuota(c)
    <2>1. \A d \in Procs : In(d, "assign")' => call'[d] = call[d]
        BY <1>1, <1>6, EndTakesNothing DEF QueryQuota
    <2>2. \A x \in PoolAccounts \ shared' : HeldBy(x)' \subseteq HeldBy(x)
        BY <1>6, FewerHeld DEF QueryQuota
    <2> QED
        BY <1>6, <2>1, <2>2, TakersStay DEF QueryQuota
<1>7. CASE ReleaseAccount(c) \/ SwapReleases(c)
    <2>1. [call[c] EXCEPT !.step = "claim"].step = "claim"
        BY <1>1 DEF CallType
    <2>2. \A d \in Procs : In(d, "assign")' => call'[d] = call[d]
        BY <1>1, <1>7, <2>1, EndTakesNothing, KeepTakesNothing
        DEF ReleaseAccount, SwapReleases, GoOn
    <2>3. \A x \in PoolAccounts \ shared' : HeldBy(x)' \subseteq HeldBy(x)
        BY <1>1, <1>7, FewerHeld DEF ReleaseAccount, SwapReleases, Unbind, PoolTypeOK
    <2> QED
        BY <1>7, <2>2, <2>3, TakersStay DEF ReleaseAccount, SwapReleases
<1>8. CASE SwapClaims(c)
    <2>1. call[c].order \in Orders
        BY <1>1, <1>8 DEF SwapClaims, In, Plain, CallType
    <2>2. \A d \in Procs : In(d, "assign")' => call'[d] = call[d]
        BY <1>1, <1>8, <2>1, EndTakesNothing DEF SwapClaims, Hang
    <2> QED
        BY <1>8, <2>2, TakersStay DEF SwapClaims, HeldBy
<1>9. ASSUME NEW answers \in BOOLEAN, TryCandidate(c, answers) PROVE Goal
    <2>1. [call[c] EXCEPT !.step = "check", !.acct = Min(call[c].todo)].step = "check"
        BY <1>1 DEF CallType
    <2>2. \A d \in Procs : In(d, "assign")' => call'[d] = call[d]
        BY <1>1, <1>9, <2>1, EndTakesNothing, KeepTakesNothing DEF TryCandidate
    <2> QED
        BY <1>9, <2>2, TakersStay DEF TryCandidate, HeldBy
<1>10. CASE CheckCandidate(c)
    <2> DEFINE a == call[c].acct
    <2>1. UNCHANGED <<active, gacct>> /\ shared \subseteq shared'
        BY <1>10 DEF CheckCandidate
    <2>2. CASE Hang(c) \/ Skip(c, a)
        <3>1. \A d \in Procs : In(d, "assign")' => call'[d] = call[d]
            BY <1>1, <2>2, EndTakesNothing
        <3> QED
            BY <2>1, <3>1, TakersStay DEF HeldBy
    <2>3. CASE GoOn(c, "assign") /\ HeldBy(a) = {}
        <3> SUFFICES ASSUME NEW x \in PoolAccounts \ shared' PROVE OneTaker(x)'
            OBVIOUS
        <3>1. OneTaker(x) /\ HeldBy(x)' = HeldBy(x)
            BY <2>1 DEF ExclusiveInv, HeldBy
        <3>2. \A d \in Procs \ {c} : Assigning(d, x)' <=> Assigning(d, x)
            BY <1>1, <2>3 DEF GoOn, Keep, Assigning, In, PoolTypeOK
        <3>3. call'[c].step = "assign" /\ call'[c].acct = a
            BY <1>1, <2>3 DEF GoOn, Keep, PoolTypeOK
        <3>4. CASE x = a
            <4>1. \A d \in Procs \ {c} : ~Assigning(d, x)
                BY <1>10, <3>4 DEF CheckCandidate, Assigning
            <4> QED
                BY <2>3, <3>1, <3>2, <3>4, <4>1 DEF OneTaker
        <3>5. CASE x # a
            <4>1. ~Assigning(c, x)'
                BY <3>3, <3>5 DEF Assigning
            <4> QED
                BY <3>1, <3>2, <4>1 DEF OneTaker
        <3> QED
            BY <3>4, <3>5
    <2> QED
        BY <1>10, <2>2, <2>3 DEF CheckCandidate
<1>11. CASE AssignCandidate(c)
    <2> DEFINE a == call[c].acct  o == call[c].order
    <2> SUFFICES ASSUME NEW x \in PoolAccounts \ shared' PROVE OneTaker(x)'
        OBVIOUS
    <2>1. o \in Orders /\ a \in PoolAccounts /\ In(c, "assign")
        BY <1>1, <1>11 DEF AssignCandidate, In, Plain, CallType
    <2>2. OneTaker(x) /\ shared' = shared
        BY <1>11 DEF AssignCandidate, ExclusiveInv
    <2>3. \A d \in Procs : Assigning(d, x)' => Assigning(d, x) /\ d # c
        BY <1>1, <1>11 DEF AssignCandidate, Hang, Keep, NoCall, Assigning, In, PoolTypeOK
    <2>4. gacct' = [gacct EXCEPT ![o] = a] /\ active' = active \cup {o}
        BY <1>11 DEF AssignCandidate
    <2>5. CASE x = a
        <3>1. HeldBy(x) = {} /\ \A d \in Procs : ~Assigning(d, x)'
            BY <2>1, <2>2, <2>3, <2>5 DEF OneTaker, Assigning
        <3>2. \A p \in HeldBy(x)' : p = o
            BY <1>1, <2>1, <2>4, <3>1 DEF HeldBy, PoolTypeOK
        <3> QED
            BY <3>1, <3>2 DEF OneTaker
    <2>6. CASE x # a
        <3>1. HeldBy(x)' \subseteq HeldBy(x)
            BY <1>1, <2>1, <2>4, <2>6 DEF HeldBy, PoolTypeOK
        <3> QED
            BY <2>2, <2>3, <3>1 DEF OneTaker
    <2> QED
        BY <2>5, <2>6
<1>12. CASE AssignFails(c)
    <2>1. \A d \in Procs : In(d, "assign")' => call'[d] = call[d]
        BY <1>1, <1>12, EndTakesNothing DEF AssignFails
    <2> QED
        BY <1>12, <2>1, TakersStay DEF AssignFails, HeldBy
<1> QED
    BY <1>2, <1>3, <1>4, <1>5, <1>6, <1>7, <1>8, <1>9, <1>10, <1>11, <1>12 DEF Proceed

(* So does every step. *)
LEMMA TakersStep ==
    ASSUME PoolInv, ExclusiveInv, [PoolNext]_<<poolVars, faults>>
    PROVE  \A x \in PoolAccounts \ shared' : OneTaker(x)'
<1> DEFINE Goal == \A x \in PoolAccounts \ shared' : OneTaker(x)'
<1> USE DEF grantVars
<1>1. PoolTypeOK
    BY DEF PoolInv
<1>2. ASSUME UNCHANGED <<call, active, shared>>,
             \A o \in active : gacct'[o] \in {gacct[o], None} PROVE Goal
    BY <1>2, TakersStay, FewerHeld
<1>3. ASSUME NEW o \in Orders, CreateGrant(o) PROVE Goal
    <2>1. gacct[o] = None
        BY <1>3 DEF CreateGrant, ExclusiveInv, GrantsExist
    <2>2. \A x \in PoolAccounts \ shared' : HeldBy(x)' \subseteq HeldBy(x)
        BY <1>3, <2>1, NoneIsNone DEF CreateGrant, HeldBy
    <2> QED
        BY <1>3, <2>2, TakersStay DEF CreateGrant
<1>4. ASSUME NEW o \in Orders, BindUserToken(o) PROVE Goal
    <2>1. \A x \in PoolAccounts \ shared' : HeldBy(x)' \subseteq HeldBy(x)
        BY <1>4, NoneIsNone DEF BindUserToken, HeldBy
    <2> QED
        BY <1>4, <2>1, TakersStay DEF BindUserToken
<1>5. ASSUME NEW o \in Orders, GrantEnds(o) PROVE Goal
    BY <1>2, <1>5 DEF GrantEnds
<1>6. ASSUME PoolAdmin \/ PoolWorld PROVE Goal
    <2>1. ASSUME NEW x \in PoolAccounts, RemoveAccount(x) PROVE Goal
        <3>1. \A o \in active : gacct'[o] \in {gacct[o], None}
            BY <1>1, <2>1 DEF RemoveAccount, PoolTypeOK
        <3> QED
            BY <1>2, <2>1, <3>1 DEF RemoveAccount
    <2> QED
        BY <1>2, <1>6, <2>1 DEF PoolAdmin, PoolWorld, UpdateAccount, CreateAccount, Spend
<1>7. ASSUME NEW c \in Procs, RefreshAll(c) PROVE Goal
    <2>1. [NoCall EXCEPT !.op = "refresh", !.step = "list",
                         !.todo = {x \in PoolAccounts : Pooled(x)}].step = "list"
        BY DEF NoCall
    <2>2. \A d \in Procs : In(d, "assign")' => call'[d] = call[d]
        BY <1>1, <1>7, <2>1, KeepTakesNothing DEF RefreshAll
    <2> QED
        BY <1>7, <2>2, TakersStay DEF RefreshAll, HeldBy
<1>8. ASSUME NEW c \in Procs, NEW o \in Orders, ClaimAccount(c, o) PROVE Goal
    <2>1. \A d \in Procs : In(d, "assign")' => call'[d] = call[d]
        BY <1>1, <1>8, EndTakesNothing DEF ClaimAccount
    <2> QED
        BY <1>8, <2>1, TakersStay DEF ClaimAccount, HeldBy
<1>9. ASSUME NEW c \in Procs, NEW o \in Orders, NEW op \in PoolOps, Visit(c, op, o) PROVE Goal
    <2>1. /\ Asking(op, o, gacct[o]).step = "sync"
          /\ [NoCall EXCEPT !.op = op, !.order = o,
                             !.step = IF op = "swap" THEN "claim" ELSE "after"].step # "assign"
        BY DEF Asking, NoCall
    <2>2. \A d \in Procs : In(d, "assign")' => call'[d] = call[d]
        BY <1>1, <1>9, <2>1, KeepTakesNothing DEF Visit
    <2> QED
        BY <1>9, <2>2, TakersStay DEF Visit, HeldBy
<1>10. CASE UNCHANGED <<poolVars, faults>>
    BY <1>2, <1>10 DEF poolVars
<1>11. ASSUME NEW c \in Callers, Asks(c, PoolOps) PROVE Goal
    BY <1>7, <1>8, <1>9, <1>11 DEF Asks, Procs
<1> QED
    BY <1>3, <1>4, <1>5, <1>6, <1>7, <1>10, <1>11, ProceedTakes DEF PoolNext, Procs

(* What is kept of a call asks for the same order, for none, or for one    *)
(* that was granted.                                                       *)
LEMMA KeepAsks ==
    ASSUME PoolTypeOK, GrantsExist, NEW c \in Procs, NEW rec, Keep(c, rec),
           rec.order = None \/ rec.order = call[c].order \/ Granted(rec.order)
    PROVE  \A d \in Procs : call'[d].order # None => Granted(call'[d].order)
    BY DEF PoolTypeOK, GrantsExist, Keep

(* So does a call that hangs up, goes on, skips a candidate or claims.     *)
LEMMA EndAsks ==
    ASSUME PoolTypeOK, GrantsExist, NEW c \in Procs,
           \/ Hang(c) \/ Continue(c)
           \/ \E s : GoOn(c, s)
           \/ \E x : Skip(c, x)
           \/ \E o \in Orders : Granted(o) /\ Keep(c, Claiming(o))
    PROVE  \A d \in Procs : call'[d].order # None => Granted(call'[d].order)
<1>1. NoCall.order = None
    BY DEF NoCall
<1>2. [NoCall EXCEPT !.op = "refresh", !.step = "list", !.todo = call[c].todo].order = None
    BY DEF NoCall
<1>3. [NoCall EXCEPT !.op = call[c].op, !.step = "after", !.order = call[c].order].order
          = call[c].order
    BY DEF NoCall
<1>4. \A x : [call[c] EXCEPT !.step = "take", !.acct = None, !.todo = call[c].todo \ {x}].order
                 = call[c].order
    BY DEF PoolTypeOK
<1>5. \A s : [call[c] EXCEPT !.step = s].order = call[c].order
    BY DEF PoolTypeOK
<1>6. \A o : Claiming(o).order \in {o, None}
    BY DEF Claiming, Asking, NoCall
<1> QED
    BY <1>1, <1>2, <1>3, <1>4, <1>5, <1>6, KeepAsks DEF Hang, Continue, GoOn, Skip

(* A step of a request asks for orders that were granted. *)
LEMMA ProceedAsks ==
    ASSUME PoolInv, GrantsExist, NEW c \in Procs, Proceed(c)
    PROVE  \A d \in Procs : call'[d].order # None => Granted(call'[d].order)
<1> DEFINE Goal == \A d \in Procs : call'[d].order # None => Granted(call'[d].order)
<1>1. PoolTypeOK /\ Plain(c) /\ call[c] \in CallType
    BY DEF PoolInv, PoolTypeOK, CallType, CallsAreReal
<1>2. CASE RefreshNext(c)
    <2>1. [call[c] EXCEPT !.step = "sync", !.acct = Min(call[c].todo),
                          !.todo = call[c].todo \ {Min(call[c].todo)}].order = call[c].order
        BY <1>1 DEF CallType
    <2> QED
        BY <1>1, <1>2, <2>1, KeepAsks DEF RefreshNext
<1>3. ASSUME NEW missing \in BOOLEAN, SyncRead(c, missing) PROVE Goal
    <2> DEFINE x == call[c].acct
               g == CHOOSE o \in Orders : FirstGrant(o, x)
               none == HeldBy(x) = {}
               seen == IF none THEN 0 ELSE IF missing THEN gused[g] ELSE Seen(g, x)
    <2>1. Keep(c, [call[c] EXCEPT !.step = "write", !.grant = IF none THEN None ELSE g,
                                  !.seen = seen])
        BY <1>3 DEF SyncRead
    <2> HIDE DEF g, none, seen
    <2>2. [call[c] EXCEPT !.step = "write", !.grant = IF none THEN None ELSE g,
                                  !.seen = seen].order = call[c].order
        BY <1>1 DEF CallType
    <2> QED
        BY <1>1, <2>1, <2>2, KeepAsks
<1>4. ASSUME NEW answers \in BOOLEAN, TryCandidate(c, answers) PROVE Goal
    <2>1. [call[c] EXCEPT !.step = "check", !.acct = Min(call[c].todo)].order = call[c].order
        BY <1>1 DEF CallType
    <2> QED
        BY <1>1, <1>4, <2>1, KeepAsks, EndAsks DEF TryCandidate
<1>5. CASE SwapClaims(c)
    <2>1. call[c].order \in Orders /\ Granted(call[c].order)
        BY <1>1, <1>5 DEF SwapClaims, In, Plain, CallType, GrantsExist
    <2> QED
        BY <1>1, <1>5, <2>1, EndAsks DEF SwapClaims, Hang
<1>6. CASE SyncWrite(c) \/ SyncFails(c) \/ QueryQuota(c) \/ ReleaseAccount(c)
           \/ SwapReleases(c) \/ CheckCandidate(c) \/ AssignCandidate(c) \/ AssignFails(c)
    <2>1. Hang(c) \/ Continue(c) \/ (\E s : GoOn(c, s)) \/ (\E x : Skip(c, x))
        BY <1>6 DEF SyncWrite, SyncFails, QueryQuota, ReleaseAccount, SwapReleases,
                    CheckCandidate, AssignCandidate, AssignFails
    <2> QED
        BY <1>1, <2>1, EndAsks
<1> QED
    BY <1>2, <1>3, <1>4, <1>5, <1>6 DEF Proceed

(* So does every step. *)
LEMMA AskedStep ==
    ASSUME PoolInv, GrantsExist, [PoolNext]_<<poolVars, faults>>
    PROVE  \A d \in Procs : call'[d].order # None => Granted(call'[d].order)
<1> DEFINE Goal == \A d \in Procs : call'[d].order # None => Granted(call'[d].order)
<1>1. PoolTypeOK
    BY DEF PoolInv
<1>2. CASE UNCHANGED call
    BY <1>2 DEF GrantsExist
<1>3. ASSUME NEW c \in Procs, RefreshAll(c) PROVE Goal
    <2>1. [NoCall EXCEPT !.op = "refresh", !.step = "list",
                         !.todo = {x \in PoolAccounts : Pooled(x)}].order = None
        BY DEF NoCall
    <2> QED
        BY <1>1, <1>3, <2>1, KeepAsks DEF RefreshAll
<1>4. ASSUME NEW c \in Procs, NEW o \in Orders, ClaimAccount(c, o) PROVE Goal
    BY <1>1, <1>4, EndAsks DEF ClaimAccount
<1>5. ASSUME NEW c \in Procs, NEW o \in Orders, NEW op \in PoolOps, Visit(c, op, o) PROVE Goal
    <2>1. /\ Asking(op, o, gacct[o]).order = o
          /\ [NoCall EXCEPT !.op = op, !.order = o,
                             !.step = IF op = "swap" THEN "claim" ELSE "after"].order = o
        BY DEF Asking, NoCall
    <2> QED
        BY <1>1, <1>5, <2>1, KeepAsks DEF Visit
<1>6. ASSUME NEW c \in Callers, Asks(c, PoolOps) PROVE Goal
    BY <1>3, <1>4, <1>5, <1>6 DEF Asks, Procs
<1> QED
    BY <1>2, <1>3, <1>6, ProceedAsks
    DEF PoolNext, Procs, PoolAdmin, PoolWorld, RemoveAccount, UpdateAccount, CreateAccount,
        Spend, CreateGrant, BindUserToken, GrantEnds, poolVars

(* A grant that was created stays. *)
LEMMA GrantsStay ==
    ASSUME PoolTypeOK, [PoolNext]_<<poolVars, faults>>, NEW o, Granted(o)
    PROVE  Granted(o)'
<1>1. ASSUME NEW p \in Orders, CreateGrant(p) PROVE Granted(o)'
    BY <1>1 DEF CreateGrant, Granted, PoolTypeOK
<1>2. CASE UNCHANGED born
    BY <1>2 DEF Granted
<1> QED
    BY <1>1, <1>2
    DEF PoolNext, Procs, PoolAdmin, PoolWorld, RemoveAccount, UpdateAccount, CreateAccount,
        Spend, BindUserToken, GrantEnds, Asks, RefreshAll, ClaimAccount, Visit, Proceed,
        RefreshNext, SyncRead, SyncWrite, SyncFails, QueryQuota, ReleaseAccount, SwapReleases,
        SwapClaims, TryCandidate, CheckCandidate, AssignCandidate, AssignFails, poolVars, grantVars

(* A grant has an account it had, or the one a claim of it takes. *)
LEMMA AccountWriters ==
    ASSUME PoolTypeOK, [PoolNext]_<<poolVars, faults>>, NEW o \in Orders,
           gacct'[o] \notin {gacct[o], None}
    PROVE  \E c \in Procs : call[c].order = o
<1>1. PICK c \in Procs : AssignCandidate(c)
    BY DEF PoolTypeOK, PoolNext, Procs, PoolAdmin, PoolWorld, RemoveAccount, UpdateAccount,
           CreateAccount, Spend, CreateGrant, BindUserToken, GrantEnds, Asks, RefreshAll,
           ClaimAccount, Visit, Proceed, RefreshNext, SyncRead, SyncWrite, SyncFails, QueryQuota,
           ReleaseAccount, SwapReleases, SwapClaims, TryCandidate, CheckCandidate, AssignFails,
           Unbind, poolVars, grantVars
<1> QED
    BY <1>1 DEF AssignCandidate, PoolTypeOK

(* Who has an account is kept in order by every step. *)
LEMMA ExclusiveStep ==
    PoolInv /\ ExclusiveInv /\ [PoolNext]_<<poolVars, faults>> => ExclusiveInv'
<1> SUFFICES ASSUME PoolInv, ExclusiveInv, [PoolNext]_<<poolVars, faults>> PROVE ExclusiveInv'
    OBVIOUS
<1>1. PoolTypeOK /\ GrantsExist
    BY DEF PoolInv, ExclusiveInv
<1>2. ASSUME NEW o \in Orders, gacct'[o] # None PROVE Granted(o)'
    <2>1. Granted(o)
        BY <1>1, <1>2, AccountWriters, NoneIsNone DEF GrantsExist
    <2> QED
        BY <1>1, <2>1, GrantsStay
<1>3. ASSUME NEW c \in Procs, call'[c].order # None PROVE born'[call'[c].order] > 0
    <2>1. PICK o : o = call'[c].order
        OBVIOUS
    <2>2. Granted(o)
        BY <1>1, <1>3, <2>1, AskedStep
    <2>3. Granted(o)'
        BY <1>1, <2>2, GrantsStay
    <2> QED
        BY <2>1, <2>3 DEF Granted
<1>4. GrantsExist'
    BY <1>2, <1>3 DEF GrantsExist, Granted
<1> QED
    BY <1>4, TakersStep DEF ExclusiveInv

-----------------------------------------------------------------------------
(* The theorems. *)

(* The invariant holds at the start ... *)
LEMMA PoolStarts == PoolInit => PoolInv /\ ExclusiveInv
<1>1. PoolInit => PoolTypeOK
    BY NoneIsNone DEF PoolInit, PoolTypeOK, NoCall, PoolSteps, PoolOps
<1>2. PoolInit => WindowsAreReal /\ CallsAreReal /\ UsedIsReal
    BY DEF PoolInit, NoCall, WindowsAreReal, CallsAreReal, Plain, WritesReal, UsedIsReal
<1>3. PoolInit => ExclusiveInv
    BY DEF PoolInit, NoCall, ExclusiveInv, GrantsExist, OneTaker, HeldBy, Assigning, In
<1> QED
    BY <1>1, <1>2, <1>3 DEF PoolInv

(* ... and after every step ... *)
LEMMA PoolStep == PoolInv /\ [PoolNext]_<<poolVars, faults>> => PoolInv'
<1> SUFFICES ASSUME PoolInv, [PoolNext]_<<poolVars, faults>> PROVE PoolInv'
    OBVIOUS
<1>1. PoolTypeOK'
    BY PoolTypeStep
<1>2. WindowsAreReal'
    BY <1>1, WindowsStayReal DEF PoolInv
<1>3. CallsAreReal' /\ UsedIsReal'
    BY <1>1, CallsStep, UsedStep
<1> QED
    BY <1>1, <1>2, <1>3 DEF PoolInv

(* ... and so in every state. *)
LEMMA PoolInvariant == PoolSpec => [](PoolInv /\ ExclusiveInv)
    BY PoolStarts, PoolStep, ExclusiveStep, PTL DEF PoolSpec

(* The state of the pool keeps its type: in particular no window of a      *)
(* grant is negative, so no use that is written is.                        *)
THEOREM PoolTypeCorrect == PoolSpec => []PoolTypeOK
    BY PoolInvariant, PTL DEF PoolInv

(* A grant is never charged for what was spent before it started, however  *)
(* late the answers are and wherever the grant has moved.                  *)
THEOREM UseIsAlwaysReal == PoolSpec => []UsedIsReal
    BY PoolInvariant, PTL DEF PoolInv

(* One grant has the account. *)
LEMMA ExclusiveImplies == PoolTypeOK /\ ExclusiveInv => AccountExclusive
<1> SUFFICES ASSUME PoolTypeOK, ExclusiveInv, NEW x \in PoolAccounts \ shared
             PROVE  Cardinality(HeldBy(x)) <= 1
    BY DEF AccountExclusive
<1>1. CASE HeldBy(x) = {}
    BY <1>1, FS_EmptySet
<1>2. CASE HeldBy(x) # {}
    <2>1. PICK o \in HeldBy(x) : HeldBy(x) = {o}
        BY <1>2 DEF ExclusiveInv, OneTaker
    <2>2. Cardinality({o}) = 1
        BY FS_Singleton
    <2> QED
        BY <2>1, <2>2
<1> QED
    BY <1>1, <1>2

(* An account serves one active grant, unless claims of it overlapped, or  *)
(* a bound token or a late answer made an old grant active again: no other *)
(* order of claims, releases, swaps, looks and deletions has two.          *)
THEOREM AccountsAreExclusive == PoolSpec => []AccountExclusive
<1>1. PoolInv /\ ExclusiveInv => AccountExclusive
    BY ExclusiveImplies DEF PoolInv
<1> QED
    BY <1>1, PoolInvariant, PTL
=============================================================================
