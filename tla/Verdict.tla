---- MODULE Verdict ----
(* The liquidity verdict of one token (engine/liquidity_filter.py): the       *)
(* scanner asks on every pass, a verdict that is not fresh is fetched in the  *)
(* background from GeckoTerminal, the pool listened to is upgraded first and  *)
(* then has to clear a floor of its own.  Meanwhile the pool may be dropped   *)
(* or replaced by the refresh (PoolBinding).  Money is in units that keep     *)
(* its order.                                                                 *)
EXTENDS Naturals, FiniteSets, FiniteSetsExt

CONSTANTS
    Pools,         \* pools of the token
    Markets,       \* what GeckoTerminal may say: pool -> [liq, vol, priceable]
    MinLiq, MinVol,            \* thresholds for the sums over all pools
    PoolMinVol, PoolMinLiq,    \* floors for a candidate; the second also for the bound pool
    VolRatio,      \* POOL_UPGRADE_VOL_RATIO
    TTL,           \* how long a verdict is fresh, by status
    MaxMoves,      \* changes of the market
    MaxSlips      \* fetches that fail, upgrades that do not succeed, drops

ASSUME VerdictAssumption ==
    /\ \A m \in Markets : \A p \in DOMAIN m : p \in Pools /\ m[p].liq \in Nat /\ m[p].vol \in Nat
    /\ {MinLiq, MinVol, PoolMinVol, PoolMinLiq, MaxMoves, MaxSlips} \subseteq Nat
    /\ VolRatio \in Nat \ {0}
    /\ TTL \in [{"ok", "low", "error"} -> Nat]

VARIABLES
    market,        \* what GeckoTerminal would say now
    moves,         \* its changes so far
    bound,         \* the pool listened to: a set of at most one
    verdict,       \* the cached status, or "none"
    since,         \* its age, up to the longest TTL
    check,         \* the fetch: "none" "asked" "answered" "upgraded"
    answer,        \* what it was answered
    slips,         \* what failed so far
    judged,        \* history: the pool the verdict was given for
    moved          \* history: the pool was dropped or replaced by someone else since

worldVars == <<market, moves>>
verdictVars == <<verdict, since, judged, moved>>
checkVars == <<check, answer>>
verdVars == <<worldVars, bound, verdictVars, checkVars, slips>>

Nothing == [p \in {} |-> 0]

VerdictInit ==
    /\ market \in Markets /\ moves = 0
    /\ bound \in {{}} \cup {{p} : p \in DOMAIN market}
    /\ verdict = "none" /\ since = 0
    /\ check = "none" /\ answer = Nothing
    /\ slips = 0 /\ judged = {} /\ moved = FALSE

MarketTurns ==
    /\ moves < MaxMoves /\ moves' = moves + 1
    /\ market' \in Markets \ {market}
    /\ UNCHANGED <<bound, verdictVars, checkVars, slips>>

\* pool_refresh drops a dead pool or puts another in its place, a bad price drops it.
BoundElsewhere ==
    /\ slips < MaxSlips /\ slips' = slips + 1
    /\ bound' \in ({{}} \cup {{p} : p \in DOMAIN market}) \ {bound}
    /\ moved' = TRUE
    /\ UNCHANGED <<worldVars, verdict, since, judged, checkVars>>

VerdictAges ==
    /\ verdict # "none" /\ since < TTL[verdict]
    /\ since' = since + 1
    /\ UNCHANGED <<worldVars, bound, verdict, judged, moved, checkVars, slips>>

\* Mutant: a low verdict never expires.
IsFreshLow == verdict = "low" \/ (verdict # "none" /\ since < TTL[verdict])

\* _is_fresh; the thresholds do not change while the process runs.
IsFresh == verdict # "none" /\ since < TTL[verdict]

\* is_low_liquidity: no fresh verdict and no fetch under way start one.
Asks ==
    /\ ~IsFresh /\ check = "none"
    /\ check' = "asked"
    /\ UNCHANGED <<worldVars, bound, verdictVars, answer, slips>>

--------------------------------------------------------------------------------
\* _fetch_and_cache.

Given(status) ==
    /\ verdict' = status /\ since' = 0 /\ judged' = bound /\ moved' = FALSE
    /\ check' = "none" /\ answer' = Nothing

EnoughInSum(m) ==
    /\ MapThenSumSet(LAMBDA p : m[p].liq, DOMAIN m) >= MinLiq
    /\ MapThenSumSet(LAMBDA p : m[p].vol, DOMAIN m) >= MinVol

\* _fetch_aggregates fails, or the check itself does.
CheckFails ==
    /\ check # "none" /\ slips < MaxSlips /\ slips' = slips + 1
    /\ Given("error")
    /\ UNCHANGED <<worldVars, bound>>

GeckoAnswers ==
    /\ check = "asked"
    /\ IF EnoughInSum(market)
       THEN check' = "answered" /\ answer' = market /\ UNCHANGED verdictVars
       ELSE Given("low")
    /\ UNCHANGED <<worldVars, bound, slips>>

\* The pools that may be switched to.
Candidates(m) ==
    {p \in DOMAIN m : m[p].vol >= PoolMinVol /\ m[p].liq >= PoolMinLiq /\ m[p].priceable}

\* _better_pool_by_volume: the busiest candidate, if it out-trades the bound pool enough; a
\* pool not listed or not priceable counts as idle.
BoundVol(m) == Max({0} \cup {m[p].vol : p \in {q \in bound \cap DOMAIN m : m[q].priceable}})
Better(m) ==
    {p \in Candidates(m) \ bound : /\ m[p].vol >= BoundVol(m) * VolRatio
                                   /\ \A q \in Candidates(m) : m[q].vol <= m[p].vol}

\* The floor, for the pool bound when it is asked, after the upgrade.
ClearsFloor == \E p \in bound \cap DOMAIN answer : answer[p].liq >= PoolMinLiq

\* Mutant: the floor is asked of the old pool, before the upgrade.
UpgradesLate ==
    /\ check = "answered"
    /\ Given(IF ClearsFloor THEN "ok" ELSE "low")
    /\ bound' = IF Better(answer) # {} THEN Better(answer) ELSE bound
    /\ UNCHANGED <<worldVars, slips>>

\* _maybe_upgrade_pool: replace_pool may refuse.
Upgrades ==
    /\ check = "answered"
    /\ check' = "upgraded"
    /\ \/ \E p \in Better(answer) : bound' = {p} /\ UNCHANGED slips
       \/ Better(answer) = {} /\ UNCHANGED <<bound, slips>>
       \/ Better(answer) # {} /\ slips < MaxSlips /\ slips' = slips + 1 /\ UNCHANGED bound
    /\ UNCHANGED <<worldVars, verdictVars, answer>>

Judges ==
    /\ check = "upgraded"
    /\ Given(IF ClearsFloor THEN "ok" ELSE "low")
    /\ UNCHANGED <<worldVars, bound, slips>>

CheckStep == Asks \/ GeckoAnswers \/ Upgrades \/ Judges
VerdictNext == MarketTurns \/ BoundElsewhere \/ VerdictAges \/ CheckFails \/ CheckStep

\* Scans and their fetches go on, and time does.
VerdictSpec ==
    /\ VerdictInit /\ [][VerdictNext]_verdVars
    /\ WF_verdVars(CheckStep) /\ WF_verdVars(VerdictAges)

--------------------------------------------------------------------------------
VerdictTypeOK ==
    /\ verdict \in {"none", "ok", "low", "error"} /\ check \in {"none", "asked", "answered", "upgraded"}
    /\ bound \subseteq Pools /\ judged \subseteq Pools

\* A fresh ok verdict is for the pool listened to, not for the one before the upgrade, unless
\* someone else has dropped or replaced it since, and then until the verdict expires.
OkIsForTheBound == (verdict = "ok" /\ IsFresh) => judged # {} /\ (judged = bound \/ moved)

\* A pool clears the floors and the sums their thresholds.
Tradable == EnoughInSum(market) /\ Candidates(market) # {}
    /\ \A p \in bound \cap DOMAIN market : market[p].liq >= PoolMinLiq \/ Better(market) # {}

\* A token blacklisted for low liquidity is not so for good once its market has recovered,
\* whatever failed in between.
LowRecovers == <>[]Tradable => <>[](verdict # "low")
====
