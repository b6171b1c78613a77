------------------------------ MODULE MCStock ------------------------------
(* Instances of Stock for TLC: one code of one use, and the activities that *)
(* share the stock, a few at a time.                                        *)
EXTENDS Stock, TLC

CONSTANTS c1, x1, x2, k1, k2

OneUse == c1 :> 1
OneEach == [o \in Orders |-> 1]
TwoEach == [o \in Orders |-> 2]

Mix(activities, n) ==
    [does |-> activities, accounts |-> IF n = 1 THEN {x1} ELSE {x1, x2}, callers |-> {}]

Pool(activities, who) ==
    [does |-> activities \cup {"quota"}, accounts |-> {}, callers |-> who]

StockWorkloads == {
    Mix({"push", "assign", "unassign", "sale"}, 2),
    Mix({"push", "assign", "remove", "sale"}, 1),
    Mix({"add", "push", "assign", "sale"}, 2),
    Mix({"import", "assign", "sale"}, 1),
    Mix({"push", "assign", "unlist", "relist", "sale"}, 1),
    Mix({"push", "assign", "delete", "sale"}, 2),
    Mix({"push", "assign", "sale", "cron", "byhand"}, 1),
    Mix({"first", "assign", "sale", "cron", "delete"}, 1),
    Mix({"push", "assign", "sale", "recycle"}, 1),
    Mix({"sub", "sync"}, 1),
    Mix({"sub", "assign", "sale"}, 1),
    Mix({"push", "assign", "redeem"}, 1)}

PoolWorkloads == {
    Pool({"claim"}, {k1, k2}),
    Pool({"claim", "release", "query", "refresh", "network"}, {k1}),
    Pool({"claim", "query", "bind"}, {k1}),
    Pool({"swap", "poll"}, {k1}),
    Pool({"claim", "poll", "network"}, {k1}),
    Pool({"claim", "query", "ends"}, {k1}),
    Pool({"claim", "refresh", "accounts"}, {k1}),
    Pool({"redeem"}, {})}

AllWorkloads == StockWorkloads \cup PoolWorkloads
RecycleWorkload == {Mix({"push", "assign", "sale", "recycle"}, 2)}
SwapWorkload == {Pool({"swap", "network"}, {k1})}
=============================================================================
