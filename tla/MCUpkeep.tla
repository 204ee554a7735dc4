---- MODULE MCUpkeep ----
(* From an exchange's list to pools worth listening to: new listings, the pool *)
(* sync that is asked for, the liquidity verdict and the one-off migration.   *)
(* They share no state here: part says which of them runs, the others keep their *)
(* initial state.                                                             *)
EXTENDS PoolSync, Listings, Verdict, Migration

VARIABLE part

MCVars == <<part, vars, listVars, verdVars, migVars>>

--------------------------------------------------------------------------------
\* At most one of the symbols is unusual.
MCUnusual == Cardinality(bare \cup aliased) <= 1

\* One dust pool; two pools of which one trades much, a little or not much more; a pool that
\* is too small; one that cannot be priced.
TwoPools(p, q) == [x \in {"p", "q"} |-> IF x = "p" THEN p ELSE q]
Pool(l, v, usd) == [liq |-> l, vol |-> v, priceable |-> usd]
Dust == [x \in {"p"} |-> Pool(1, 0, TRUE)]
MCMarkets ==
    {Dust,
     TwoPools(Pool(9, 1, TRUE), Pool(5, 4, TRUE)),
     TwoPools(Pool(9, 5, TRUE), Pool(5, 4, TRUE)),
     TwoPools(Pool(1, 3, TRUE), Pool(5, 4, TRUE)),
     TwoPools(Pool(9, 9, FALSE), Pool(5, 3, TRUE))}
MCTTL == [s \in {"ok", "low", "error"} |-> IF s = "error" THEN 1 ELSE 2]

--------------------------------------------------------------------------------
\* What a component that does not run starts with, where it has a choice.
AtRest ==
    /\ part # "listings" => venue = "gate" /\ bare = {} /\ aliased = {}
    /\ part # "verdict" => market = Dust /\ bound = {}

MCInit ==
    /\ part \in {"sync", "listings", "verdict", "migration"}
    /\ Init /\ ListInit /\ VerdictInit /\ MigInit
    /\ AtRest /\ MCUnusual

SyncRuns ==
    /\ part = "sync" /\ Next
    /\ UNCHANGED <<part, listVars, verdVars, migVars>>

ListingsRuns ==
    /\ part = "listings" /\ ListNext
    /\ UNCHANGED <<part, vars, verdVars, migVars>>

VerdictRuns ==
    /\ part = "verdict" /\ VerdictNext
    /\ UNCHANGED <<part, vars, listVars, migVars>>

MigrationRuns ==
    /\ part = "migration" /\ MigNext
    /\ UNCHANGED <<part, vars, listVars, verdVars>>

MCNext == SyncRuns \/ ListingsRuns \/ VerdictRuns \/ MigrationRuns

\* The fairness of each specification, of the component that runs.
MCFairness ==
    /\ WF_vars(part = "sync" /\ DebounceOver)
    /\ WF_vars(part = "sync" /\ RunnerReads)
    /\ WF_vars(part = "sync" /\ RunnerEnds)
    /\ WF_vars(part = "sync" /\ LoopReads)
    /\ WF_vars(part = "sync" /\ LoopEnds)
    /\ WF_vars(part = "sync" /\ OtherHolds)
    /\ WF_vars(part = "sync" /\ OtherReleases)
    /\ WF_listVars(part = "listings" /\ LoopStep)
    /\ WF_listVars(part = "listings" /\ ManagerStep)
    /\ WF_verdVars(part = "verdict" /\ CheckStep)
    /\ WF_verdVars(part = "verdict" /\ VerdictAges)

MCSpec == MCInit /\ [][MCNext]_MCVars /\ MCFairness

--------------------------------------------------------------------------------
\* The values of the listings, the verdict and the migration.
UpkeepTypeOK == ListTypeOK /\ VerdictTypeOK /\ MigTypeOK
====
