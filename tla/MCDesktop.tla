----------------------------- MODULE MCDesktop -----------------------------
(* Instances of Desktop for TLC.  The commands a behaviour gives, the tasks *)
(* it runs at once and its failures are those of one member of Mixes.       *)
EXTENDS Desktop, TLC

CONSTANTS Mixes, x1, x2, o1, p1, p2

VARIABLE mix

Mix(commands, running, accounts, every, m, f, win) ==
    [does |-> commands, tasks |-> running, tokens |-> accounts,
     interval |-> every, saves |-> m, faults |-> f, windows |-> win]

Two == {x1, x2}

Writing == Mix({"file"}, {p1, p2}, Two, 0, 0, 1, TRUE)
Keeping == Mix({"pool", "table"}, {p1}, Two, 1, 0, 0, FALSE)
Failing == Mix({"pool"}, {p1}, Two, 1, 0, 1, FALSE)
Mingling == Mix({"pool", "file"}, {p1}, Two, 1, 0, 0, FALSE)
Setting == Mix({"settings"}, {}, {}, 1, 2, 1, FALSE)
Timing == Mix({"settings", "pool"}, {p1}, {x1}, 1, 2, 0, FALSE)

DesktopMixes == {Writing, Keeping, Failing, Mingling, Setting, Timing}

Does(commands) == commands \in mix.does

Within ==
    /\ \A t \in Tasks \ mix.tasks : pc'[t] = "idle"
    /\ \A p \in Procs : token'[p] \in mix.tokens \cup {None}
    /\ \A x \in Tokens \ mix.tokens : bound'[x] = NoRow
    /\ saves' <= mix.saves
    /\ faults' <= mix.faults
    /\ mix.windows \/ removed' = {}

MixInit ==
    /\ Init
    /\ mix \in Mixes
    /\ mix.saves > 0 \/ stored = mix.interval

MixNext ==
    /\ \/ Round \/ Failure \/ \E p \in Procs : WriteStep(p)
       \/ Does("settings") /\ Settings
       \/ Does("file") /\ FileCommand
       \/ Does("pool") /\ PoolCommand
       \/ Does("table") /\ TableCommand
    /\ Within
    /\ UNCHANGED mix

MixSpec == MixInit /\ [][MixNext]_<<vars, mix>> /\ Fairness
=============================================================================
