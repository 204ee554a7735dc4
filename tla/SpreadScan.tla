---- MODULE SpreadScan ----
(* One token's spreads on one chain: the store's quotes, what is known of     *)
(* routes, ages, liquidity and depth, the scan that turns them into           *)
(* opportunities (engine/spread_logic/scanner.py, calculators.py) and the     *)
(* runner that logs the list when its fingerprint changes (runner.py).        *)
(* Prices are natural numbers; a percentage is a pair of numerator and        *)
(* denominator, in percent's hundredths where it is compared or rounded.      *)
EXTENDS Naturals, Sequences, FiniteSets, SequencesExt

CONSTANTS
    Exchanges,       \* exchanges, in the order the store lists them
    Quotations,      \* pairs of bid and ask the feeds deliver
    DexPrices,       \* prices of the pool
    MinSpread,       \* SPREAD_MIN_PCT, in hundredths of a percent
    Blacklists,      \* what the blacklists may hold of the token: sets of excluded exchanges
    Blocks           \* what networks_cex says of an exchange: "none", "elsewhere", or the chain's flags

ASSUME SpreadAssumption ==
    /\ Exchanges \in Seq(STRING)
    /\ Quotations \subseteq Nat \X Nat /\ DexPrices \subseteq Nat \ {0} /\ MinSpread \in Nat
    /\ Blacklists \subseteq SUBSET ToSet(Exchanges)
    /\ Blocks \subseteq {"none", "elsewhere", "both", "deposit", "withdraw", "neither"}

VARIABLES
    quoted,      \* the store's bid and ask for each exchange
    dexPrice,    \* the store's price of the pool
    block,       \* networks_cex of the token for each exchange
    cexAge,      \* age of a quote against MAX_CEX_AGE_SEC: "unknown" "fresh" "stale"
    dexAge,      \* the same for the pool's price against MAX_DEX_AGE_SEC
    excluded,    \* exchanges the blacklists exclude, all of them if they exclude the chain
    sideDepth,   \* depth in the profitable band: "unknown" "thin" "deep"
    thinPool,    \* is_low_liquidity's answer; FALSE also when there is no verdict
    logged,      \* the list logged last
    lastFp,      \* last_fp: a set of one fingerprint, empty before the first log
    hotVenues,   \* exchanges registered for hot status
    scanned      \* history: nothing has moved since the last scan

marketVars == <<quoted, dexPrice, block, cexAge, dexAge, excluded, sideDepth, thinPool>>
logVars == <<logged, lastFp, hotVenues>>
scanVars == <<marketVars, logVars, scanned>>

Venues == ToSet(Exchanges)
Directions == {"dex->cex", "cex->dex"}

ScanInit ==
    /\ quoted = [v \in Venues |-> <<0, 0>>] /\ dexPrice = 0
    /\ block = [v \in Venues |-> "none"] /\ cexAge = [v \in Venues |-> "unknown"]
    /\ dexAge = "unknown" /\ excluded \in Blacklists
    /\ sideDepth = [v \in Venues |-> "unknown"] /\ thinPool = FALSE
    /\ logged = <<>> /\ lastFp = {} /\ hotVenues = {} /\ scanned = FALSE

\* update_cex: a crossed or empty quote is not stored.
Quotes ==
    /\ \E v \in Venues, q \in Quotations :
          IF 0 < q[1] /\ q[1] <= q[2]
          THEN quoted' = [quoted EXCEPT ![v] = q] /\ cexAge' = [cexAge EXCEPT ![v] = "fresh"]
          ELSE UNCHANGED <<quoted, cexAge>>
    /\ scanned' = FALSE
    /\ UNCHANGED <<dexPrice, dexAge, excluded, block, sideDepth, thinPool, logVars>>

\* update_dex, time, a refresh of the flags, a depth fetch, a verdict.
MarketMoves ==
    /\ \/ /\ \/ dexPrice' \in DexPrices /\ dexAge' = "fresh"
             \/ dexAge = "fresh" /\ dexAge' = "stale" /\ UNCHANGED dexPrice
          /\ UNCHANGED <<block, cexAge, sideDepth, thinPool>>
       \/ \E v \in Venues :
             \/ /\ \E b \in Blocks : block' = [block EXCEPT ![v] = b]
                /\ UNCHANGED <<dexPrice, dexAge, cexAge, sideDepth, thinPool>>
             \/ /\ cexAge' = [cexAge EXCEPT ![v] = IF @ = "fresh" THEN "stale" ELSE @]
                /\ UNCHANGED <<dexPrice, dexAge, block, sideDepth, thinPool>>
             \/ /\ \E d \in {"unknown", "thin"} : sideDepth' = [sideDepth EXCEPT ![v] = d]
                /\ UNCHANGED <<dexPrice, dexAge, block, cexAge, thinPool>>
       \/ thinPool' = ~thinPool /\ UNCHANGED <<dexPrice, dexAge, block, cexAge, sideDepth>>
    /\ scanned' = FALSE
    /\ UNCHANGED <<quoted, excluded, logVars>>

--------------------------------------------------------------------------------
\* is_route_open: open, closed or unknown; networks without this chain close the route.
RouteOpen(b, direction) ==
    IF b = "none" THEN "unknown" ELSE IF b \in {"both", direction} THEN "open" ELSE "closed"

\* calc_dex_to_cex, calc_cex_to_dex: what is gained and on what, if anything is.
Gain(dir, q, dex) ==
    IF dir = "dex->cex" THEN <<q[1], dex>> ELSE <<dex, q[2]>>
Calculated(dir, q, dex) ==
    q[1] > 0 /\ q[1] <= q[2] /\ dex > 0 /\ Gain(dir, q, dex)[1] > Gain(dir, q, dex)[2]
Crosses(dir, q, dex) ==
    LET g == Gain(dir, q, dex) IN (g[1] - g[2]) * 10000 >= MinSpread * g[2]

\* The gates of scan_snapshot in its order, but for the liquidity verdict (Rows): the
\* blacklists, the route, the calculation, the threshold, both ages, the depth.
Survives(v, dir) ==
    /\ v \notin excluded
    /\ RouteOpen(block[v], IF dir = "dex->cex" THEN "deposit" ELSE "withdraw") # "closed"
    /\ Calculated(dir, quoted[v], dexPrice) /\ Crosses(dir, quoted[v], dexPrice)
    /\ cexAge[v] # "stale" /\ dexAge # "stale"
    /\ sideDepth[v] # "thin"

Rounded(g) == ((g[1] - g[2]) * 20000 + g[2]) \div (2 * g[2])

Row(v, dir) == [venue |-> v, dir |-> dir, gain |-> Gain(dir, quoted[v], dexPrice)]

Place(v) == CHOOSE i \in 1..Len(Exchanges) : Exchanges[i] = v

\* Descending by percentage; equal ones stay in the order of the store.
Above(r, s) ==
    LET left == (r.gain[1] - r.gain[2]) * s.gain[2]
        right == (s.gain[1] - s.gain[2]) * r.gain[2]
    IN  left > right \/ (left = right /\ Place(r.venue) < Place(s.venue))

Rows ==
    IF thinPool THEN {}
    ELSE {r \in {Row(v, dir) : v \in Venues, dir \in Directions} : Survives(r.venue, r.dir)}

Rank(r) == 1 + Cardinality({s \in Rows : Above(s, r)})

Opportunities == [i \in 1..Cardinality(Rows) |-> CHOOSE r \in Rows : Rank(r) = i]

\* Mutant: the fingerprint has no percentages.
FingerprintBare(rows) == [i \in 1..Len(rows) |-> <<rows[i].venue, rows[i].dir>>]

Fingerprint(rows) ==
    [i \in 1..Len(rows) |-> <<rows[i].venue, rows[i].dir, Rounded(rows[i].gain)>>]

\* One turn of spread_runner.
Scans ==
    /\ hotVenues' = hotVenues \cup {r.venue : r \in Rows}
    /\ LET rows == Opportunities
           fp == Fingerprint(rows)
       IN  IF lastFp = {fp}
           THEN UNCHANGED <<logged, lastFp>>
           ELSE logged' = rows /\ lastFp' = {fp}
    /\ scanned' = TRUE
    /\ UNCHANGED marketVars

ScanNext == Quotes \/ MarketMoves \/ Scans
ScanSpec == ScanInit /\ [][ScanNext]_scanVars
--------------------------------------------------------------------------------
ScanTypeOK ==
    /\ quoted \in [Venues -> Quotations \cup {<<0, 0>>}]
    /\ block \in [Venues -> Blocks \cup {"none"}]
    /\ hotVenues \subseteq Venues /\ excluded \subseteq Venues

\* Two percentages at most a hundredth apart.
Close(g, h) ==
    LET a == (g[1] - g[2]) * h[2]
        b == (h[1] - h[2]) * g[2]
    IN  (IF a > b THEN a - b ELSE b - a) <= (g[2] * h[2]) \div 10000

\* After a scan the list logged last is the present one, each percentage within a hundredth:
\* small moves that are not logged do not add up (_make_fingerprint, last_fp).
LogIsCurrent ==
    scanned =>
        /\ Len(logged) = Len(Opportunities)
        /\ \A i \in 1..Len(logged) :
              /\ logged[i].venue = Opportunities[i].venue
              /\ logged[i].dir = Opportunities[i].dir
              /\ Close(logged[i].gain, Opportunities[i].gain)
====
