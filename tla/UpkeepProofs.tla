---------------------------- MODULE UpkeepProofs ---------------------------
(***************************************************************************)
(* What is kept up around the pools, for any symbols, pools, thresholds,   *)
(* failures and restarts: an ok verdict is for the pool listened to, no    *)
(* listing is lost unaccounted, and the migration loses little.            *)
(***************************************************************************)
EXTENDS MCUpkeep, FiniteSetTheorems, TLAPS

--------------------------------------------------------------------------------
(* The verdict.  OkIsForTheBound speaks of fresh verdicts only; the upgrade *)
(* changes the pool while the old verdict is still stored, so what has to   *)
(* be known is that no fetch is under way while the verdict is fresh.       *)

(* A fetch begins when the verdict is not fresh, and ends with a new one. *)
NoFetchWhileFresh == check # "none" => ~IsFresh

(* What the market and the answer may be. *)
MarketKnown == market \in Markets /\ (answer = Nothing \/ answer \in Markets)

VerdictInv == VerdictTypeOK /\ MarketKnown /\ NoFetchWhileFresh /\ OkIsForTheBound

LEMMA MarketPools == \A m \in Markets : DOMAIN m \subseteq Pools
BY VerdictAssumption

LEMMA VerdictInitHolds == VerdictInit => VerdictInv
<1> SUFFICES ASSUME VerdictInit PROVE VerdictInv
  OBVIOUS
<1>1. market \in Markets /\ DOMAIN market \subseteq Pools
  BY MarketPools DEF VerdictInit
<1>2. bound \subseteq Pools
  BY <1>1 DEF VerdictInit
<1> QED
  BY <1>1, <1>2 DEF VerdictInit, VerdictInv, VerdictTypeOK, MarketKnown, NoFetchWhileFresh,
                    OkIsForTheBound

(* A new verdict is for the pool bound now; an ok needs one. *)
LEMMA GivenKeeps ==
  ASSUME VerdictInv, NEW status \in {"ok", "low", "error"}, Given(status),
         status = "ok" => bound # {}, UNCHANGED bound, UNCHANGED market
  PROVE  VerdictInv'
BY DEF Given, VerdictInv, VerdictTypeOK, MarketKnown, NoFetchWhileFresh, OkIsForTheBound

(* The pool an upgrade goes to is one of the token's. *)
LEMMA BetterIsPool ==
  ASSUME NEW m \in Markets, NEW p \in Better(m)
  PROVE  p \in Pools
BY MarketPools DEF Better, Candidates

LEMMA VerdictStep == VerdictInv /\ [VerdictNext]_verdVars => VerdictInv'
<1> SUFFICES ASSUME VerdictInv, [VerdictNext]_verdVars PROVE VerdictInv'
  OBVIOUS
<1> USE DEF VerdictInv
<1>1. CASE MarketTurns
  BY <1>1 DEF MarketTurns, VerdictTypeOK, MarketKnown, NoFetchWhileFresh, OkIsForTheBound,
              IsFresh, verdictVars, checkVars
<1>2. CASE BoundElsewhere
  <2>1. DOMAIN market \subseteq Pools
    BY MarketPools DEF MarketKnown
  <2>2. bound' \subseteq Pools
    BY <1>2, <2>1 DEF BoundElsewhere
  <2> QED
    BY <1>2, <2>2 DEF BoundElsewhere, VerdictTypeOK, MarketKnown, NoFetchWhileFresh,
                      OkIsForTheBound, IsFresh, worldVars, checkVars
<1>3. CASE VerdictAges
  <2>1. check = "none"
    BY <1>3 DEF VerdictAges, NoFetchWhileFresh, IsFresh
  <2>2. IsFresh
    BY <1>3 DEF VerdictAges, IsFresh
  <2> QED
    BY <1>3, <2>1, <2>2 DEF VerdictAges, VerdictTypeOK, MarketKnown, NoFetchWhileFresh,
                      OkIsForTheBound, worldVars, checkVars
<1>4. CASE CheckFails
  BY <1>4, GivenKeeps DEF CheckFails, worldVars
<1>5. CASE Asks
  BY <1>5 DEF Asks, VerdictTypeOK, MarketKnown, NoFetchWhileFresh, OkIsForTheBound, IsFresh,
              worldVars, verdictVars
<1>6. CASE GeckoAnswers
  <2>1. CASE EnoughInSum(market)
    <3>1. check' = "answered" /\ answer' = market /\ check = "asked"
      BY <1>6, <2>1 DEF GeckoAnswers
    <3>2. UNCHANGED <<market, bound, verdict, since, judged, moved>>
      BY <1>6, <2>1 DEF GeckoAnswers, worldVars, verdictVars
    <3> QED
      BY <3>1, <3>2 DEF VerdictTypeOK, MarketKnown, NoFetchWhileFresh, OkIsForTheBound, IsFresh
  <2>2. CASE ~EnoughInSum(market)
    BY <1>6, <2>2, GivenKeeps DEF GeckoAnswers, worldVars
  <2> QED
    BY <2>1, <2>2
<1>7. CASE Upgrades
  <2>1. check = "answered" /\ check' = "upgraded" /\ ~IsFresh
    BY <1>7 DEF Upgrades, NoFetchWhileFresh
  <2>2. UNCHANGED <<market, answer, verdict, since, judged, moved>>
    BY <1>7 DEF Upgrades, worldVars, verdictVars
  <2>3. bound' \subseteq Pools
    <3>1. CASE \E p \in Better(answer) : bound' = {p}
      <4>1. answer \in Markets
        <5>1. \A p : p \notin Better(Nothing)
          BY DEF Better, Candidates, Nothing
        <5> QED
          BY <3>1, <5>1 DEF MarketKnown
      <4> QED
        BY <3>1, <4>1, BetterIsPool
    <3>2. CASE UNCHANGED bound
      BY <3>2 DEF VerdictTypeOK
    <3> QED
      BY <1>7, <3>1, <3>2 DEF Upgrades
  <2> QED
    BY <2>1, <2>2, <2>3 DEF VerdictTypeOK, MarketKnown, NoFetchWhileFresh, OkIsForTheBound, IsFresh
<1>8. CASE Judges
  <2>1. ClearsFloor => bound # {}
    BY DEF ClearsFloor
  <2> QED
    BY <1>8, <2>1, GivenKeeps DEF Judges, worldVars
<1>9. CASE UNCHANGED verdVars
  BY <1>9 DEF verdVars, worldVars, verdictVars, checkVars, VerdictTypeOK, MarketKnown,
              NoFetchWhileFresh, OkIsForTheBound, IsFresh
<1> QED
  BY <1>1, <1>2, <1>3, <1>4, <1>5, <1>6, <1>7, <1>8, <1>9 DEF VerdictNext, CheckStep

(* The bound pool and the verdict keep their types; the pool is always one *)
(* of the token's (liquidity_filter._maybe_upgrade_pool).                  *)
THEOREM VerdictTypeCorrect == VerdictSpec => []VerdictTypeOK
<1> QED
  BY VerdictInitHolds, VerdictStep, PTL DEF VerdictSpec, VerdictInv

(* While an ok verdict is fresh, it was given for the pool that is bound,  *)
(* or that pool was changed by someone else since (_fetch_and_cache).      *)
THEOREM VerdictIsForTheBound == VerdictSpec => []OkIsForTheBound
<1> QED
  BY VerdictInitHolds, VerdictStep, PTL DEF VerdictSpec, VerdictInv

--------------------------------------------------------------------------------
(* The listings.  ListingAccounted is not inductive: a new round empties the *)
(* list of new symbols, so it must be empty by then.                         *)

(* Outside of its steps the round has nothing in hand. *)
RoundTidy ==
    /\ round \in {"idle", "flush", "list"} => newSyms = {}
    /\ round # "metadata" => between = {}
    /\ venue # "gate" => between = {}

(* What the two files hold. *)
FilesKnown ==
    saved \in [known : SUBSET Symbols, ignored : SUBSET Symbols, merged : SUBSET Symbols]

ListInv == ListTypeOK /\ FilesKnown /\ RoundTidy /\ ListingAccounted

LEMMA ListInitHolds == ListInit => ListInv
<1> SUFFICES ASSUME ListInit PROVE ListInv
  OBVIOUS
<1>1. ListTypeOK
  BY DEF ListInit, ListTypeOK
<1>2. FilesKnown /\ RoundTidy /\ ListingAccounted
  BY DEF ListInit, FilesKnown, RoundTidy, ListingAccounted
<1> QED
  BY <1>1, <1>2 DEF ListInv

--------------------------------------------------------------------------------
(* The minute loop. *)
LEMMA LoopStepKeeps ==
  ASSUME ListInv, LoopStep
  PROVE  ListInv'
<1> USE DEF ListInv
<1>1. CASE RoundStarts
  <2>1. /\ newSyms = {} /\ between = {} /\ round' = "metadata"
        /\ knownSyms' = offered
        /\ newSyms' = IF venue = "gate" THEN {} ELSE offered \ knownSyms
    BY <1>1 DEF RoundStarts, Updated, FilesKnown, RoundTidy
  <2>2. todo' = offered \ (merged \cup ignored)
    BY <1>1 DEF RoundStarts
  <2>3. UNCHANGED <<venue, offered, ignored, merged, saved, between>>
    BY <1>1 DEF RoundStarts, offerVars
  <2>4. UNCHANGED <<desired, gateLink, supervisor, goal, built, streamed, hit>>
    BY <1>1 DEF RoundStarts, managerVars
  <2>5. ListTypeOK'
    BY <2>1, <2>2, <2>3, <2>4 DEF ListTypeOK
  <2>6. FilesKnown' /\ RoundTidy'
    BY <2>1, <2>3 DEF FilesKnown, RoundTidy
  <2>7. ListingAccounted'
    BY <2>1, <2>3, <2>4 DEF ListingAccounted
  <2> QED
    BY <2>5, <2>6, <2>7
<1>2. CASE GateSubscribes
  <2>1. ListTypeOK'
    BY <1>2 DEF GateSubscribes, ListTypeOK, offerVars, tokenVars
  <2>2. FilesKnown' /\ RoundTidy' /\ ListingAccounted'
    BY <1>2 DEF GateSubscribes, FilesKnown, RoundTidy, ListingAccounted, offerVars, tokenVars
  <2> QED
    BY <2>1, <2>2
<1>3. CASE MetadataDone \/ SubscribeDone
  <2>1. ListTypeOK'
    BY <1>3 DEF MetadataDone, SubscribeDone, ListTypeOK, offerVars, tokenVars, managerVars
  <2>2. FilesKnown' /\ RoundTidy' /\ ListingAccounted'
    BY <1>3 DEF MetadataDone, SubscribeDone, FilesKnown, RoundTidy, ListingAccounted, offerVars,
                tokenVars, managerVars
  <2> QED
    BY <2>1, <2>2
<1>4. CASE RoundSaves
  <2>1. UNCHANGED <<venue, offered, knownSyms, ignored, merged, newSyms, todo, between>>
    BY <1>4 DEF RoundSaves, offerVars, tokenVars
  <2>2. UNCHANGED <<desired, gateLink, supervisor, goal, built, streamed, hit>>
    BY <1>4 DEF RoundSaves, managerVars
  <2>3. round \in {"flush", "list"} /\ round' \in {"list", "idle"}
    BY <1>4 DEF RoundSaves
  <2>4. FilesKnown'
    BY <1>4 DEF RoundSaves, FilesKnown, ListTypeOK
  <2>5. ListTypeOK'
    BY <2>1, <2>2, <2>3, <2>4 DEF ListTypeOK, FilesKnown
  <2>6. FilesKnown' /\ RoundTidy' /\ ListingAccounted'
    BY <2>1, <2>2, <2>3, <2>4 DEF FilesKnown, RoundTidy, ListingAccounted
  <2> QED
    BY <2>5, <2>6
<1>5. ASSUME NEW s \in Symbols, MetadataFetched(s) PROVE ListInv'
  <2>1. /\ round = "metadata" /\ between = {}
        /\ between' = {} \/ (venue = "gate" /\ between' = {s})
        /\ merged' \subseteq merged \cup {s} /\ ignored' \subseteq ignored \cup {s}
        /\ todo' = todo \ {s}
        /\ venue = "gate" => merged' \subseteq merged \cup between'
    BY <1>5 DEF MetadataFetched
  <2>2. UNCHANGED <<venue, offered, knownSyms, saved, round, newSyms>>
    BY <1>5 DEF MetadataFetched, offerVars
  <2>3. UNCHANGED <<desired, gateLink, supervisor, goal, built, streamed, hit>>
    BY <1>5 DEF MetadataFetched, managerVars
  <2>4. ListTypeOK'
    BY <2>1, <2>2, <2>3 DEF ListTypeOK
  <2>5. FilesKnown' /\ RoundTidy' /\ ListingAccounted'
    BY <2>1, <2>2, <2>3 DEF FilesKnown, RoundTidy, ListingAccounted
  <2> QED
    BY <2>4, <2>5
<1>6. ASSUME NEW s \in Symbols, Subscribes(s) PROVE ListInv'
  <2>1. ListTypeOK'
    BY <1>6 DEF Subscribes, ListTypeOK, offerVars, tokenVars
  <2>2. FilesKnown' /\ RoundTidy' /\ ListingAccounted'
    BY <1>6 DEF Subscribes, FilesKnown, RoundTidy, ListingAccounted, offerVars, tokenVars
  <2> QED
    BY <2>1, <2>2
<1> QED
  BY <1>1, <1>2, <1>3, <1>4, <1>5, <1>6 DEF LoopStep

--------------------------------------------------------------------------------
(* Saves, failures and restarts. *)
LEMMA FaultKeeps ==
  ASSUME ListInv, SomeoneSaves \/ RoundFails \/ Restarts
  PROVE  ListInv'
<1> USE DEF ListInv
<1>1. CASE SomeoneSaves
  <2>1. UNCHANGED <<venue, offered, knownSyms, ignored, merged, round, newSyms, todo, between>>
    BY <1>1 DEF SomeoneSaves, offerVars, tokenVars, roundVars
  <2>2. UNCHANGED <<desired, gateLink, supervisor, goal, built, streamed, hit>>
    BY <1>1 DEF SomeoneSaves, managerVars
  <2>3. FilesKnown'
    BY <1>1 DEF SomeoneSaves, FilesKnown, ListTypeOK
  <2>4. ListTypeOK'
    BY <2>1, <2>2, <2>3 DEF ListTypeOK, FilesKnown
  <2>5. FilesKnown' /\ RoundTidy' /\ ListingAccounted'
    BY <2>1, <2>2, <2>3 DEF FilesKnown, RoundTidy, ListingAccounted
  <2> QED
    BY <2>4, <2>5
<1>2. CASE RoundFails
  <2>1. ListTypeOK'
    BY <1>2 DEF RoundFails, ListTypeOK, offerVars, tokenVars, managerVars
  <2>2. FilesKnown' /\ RoundTidy' /\ ListingAccounted'
    BY <1>2 DEF RoundFails, FilesKnown, RoundTidy, ListingAccounted, offerVars, tokenVars, managerVars
  <2> QED
    BY <2>1, <2>2
<1>3. CASE Restarts
  <2>1. /\ knownSyms' = saved.known /\ ignored' = saved.ignored /\ merged' = saved.merged
        /\ round' = "idle" /\ newSyms' = {} /\ todo' = {} /\ between' = {}
        /\ hit' = (IF venue = "gate" THEN saved.merged ELSE saved.known) \ desired'
    BY <1>3 DEF Restarts
  <2>2. UNCHANGED <<venue, offered, saved>>
    BY <1>3 DEF Restarts, offerVars
  <2>3. /\ desired' \subseteq saved.merged
        /\ gateLink' = "down" /\ supervisor' = "wait" /\ goal' = {} /\ built' = {}
        /\ streamed' \subseteq desired'
    BY <1>3 DEF Restarts, Started, Restored
  <2>4. ListTypeOK'
    BY <2>1, <2>2, <2>3 DEF ListTypeOK
  <2>5. FilesKnown' /\ RoundTidy' /\ ListingAccounted'
    BY <2>1, <2>2 DEF FilesKnown, RoundTidy, ListingAccounted
  <2> QED
    BY <2>4, <2>5
<1> QED
  BY <1>1, <1>2, <1>3

--------------------------------------------------------------------------------
(* The exchange, Gate's connection and Kraken's shards take nothing from what *)
(* is desired.                                                              *)
LEMMA ManagerKeeps ==
  ASSUME ListInv, Lists \/ GateBreaks \/ ManagerStep
  PROVE  ListInv'
<1> USE DEF ListInv
<1>1. UNCHANGED <<venue, knownSyms, ignored, merged, saved, round, newSyms, todo, between,
                  desired, hit>>
  <2>1. CASE Lists
    BY <2>1 DEF Lists, tokenVars, roundVars, managerVars
  <2>2. CASE GateBreaks
    BY <2>2 DEF GateBreaks, offerVars, tokenVars, roundVars
  <2>3. CASE GateConnects \/ GateSubscribed
    BY <2>3 DEF GateConnects, GateSubscribed, offerVars, tokenVars, roundVars
  <2>4. CASE SupervisorWakes \/ SupervisorReads \/ ShardsRebuilt
    BY <2>4 DEF SupervisorWakes, SupervisorReads, ShardsRebuilt, offerVars, tokenVars, roundVars
  <2> QED
    BY <2>1, <2>2, <2>3, <2>4 DEF ManagerStep
<1>2. /\ {offered', goal', built', streamed'} \subseteq SUBSET Symbols
      /\ gateLink' \in {"down", "subscribing", "up"} /\ supervisor' \in {"wait", "nap", "cancel"}
  <2>1. CASE Lists
    BY <2>1 DEF Lists, managerVars, ListTypeOK
  <2>2. CASE GateBreaks
    BY <2>2 DEF GateBreaks, offerVars, ListTypeOK
  <2>3. CASE GateConnects \/ GateSubscribed
    BY <2>3 DEF GateConnects, GateSubscribed, offerVars, ListTypeOK
  <2>4. CASE SupervisorWakes \/ SupervisorReads \/ ShardsRebuilt
    BY <2>4 DEF SupervisorWakes, SupervisorReads, ShardsRebuilt, offerVars, ListTypeOK
  <2> QED
    BY <2>1, <2>2, <2>3, <2>4 DEF ManagerStep
<1>3. ListTypeOK'
  BY <1>1, <1>2 DEF ListTypeOK
<1>4. FilesKnown' /\ RoundTidy' /\ ListingAccounted'
  BY <1>1 DEF FilesKnown, RoundTidy, ListingAccounted
<1> QED
  BY <1>3, <1>4

LEMMA ListStep == ListInv /\ [ListNext]_listVars => ListInv'
<1> SUFFICES ASSUME ListInv, [ListNext]_listVars PROVE ListInv'
  OBVIOUS
<1>1. CASE UNCHANGED listVars
  <2> USE <1>1 DEF listVars, offerVars, tokenVars, roundVars, managerVars, ListInv
  <2>1. ListTypeOK'
    BY DEF ListTypeOK
  <2>2. FilesKnown' /\ RoundTidy' /\ ListingAccounted'
    BY DEF FilesKnown, RoundTidy, ListingAccounted
  <2> QED
    BY <2>1, <2>2
<1> QED
  BY <1>1, LoopStepKeeps, FaultKeeps, ManagerKeeps DEF ListNext

(* The loop's and the managers' sets hold symbols only, and their stages   *)
(* stay among the known ones (exchange_loader.py, *_orderbook.py).         *)
THEOREM ListingTypeCorrect == ListSpec => []ListTypeOK
<1> QED
  BY ListInitHolds, ListStep, PTL DEF ListSpec, ListInv

(* A symbol taken for known is desired, in hand, or was left behind by a   *)
(* failed round or a restart (run_bybit, run_gate, run_kraken).            *)
THEOREM ListingIsAccounted == ListSpec => []ListingAccounted
<1> QED
  BY ListInitHolds, ListStep, PTL DEF ListSpec, ListInv

--------------------------------------------------------------------------------
(* The migration.  Two sets of items could be taken for lost at the next     *)
(* start: those the memory itself knows no link of, which only an earlier    *)
(* run can have lost, and those whose link waits for the flush.              *)

LostBefore == done \ (linked \cup refused)
Unflushed == linked \ linkFile
Lost == doneFile \ (linkFile \cup refused)

Bound == FlushEvery * (kills + skips)

(* The items since the last flush that was due; one that is due next counts in full. *)
Due ==
    IF run \in {"save", "flush"} /\ count % FlushEvery = 0 THEN FlushEvery ELSE count % FlushEvery

MigShape ==
    /\ MigTypeOK
    /\ kills \in Nat /\ skips \in Nat
    /\ run # "off" => Cardinality(left) + count <= Cardinality(Items)
    /\ run # "off" => doneFile \subseteq done

LossFollowed ==
    run # "off" =>
        /\ kills = 0 => LostBefore = {}
        /\ Cardinality(LostBefore) <= Bound
        /\ Cardinality(LostBefore \cup Unflushed) <= Bound + Due

MigInv == MigShape /\ LossFollowed /\ LossIsBounded


(* Counting up to the flush that is due. *)
LEMMA CountsUp ==
  ASSUME NEW c \in Nat
  PROVE  /\ c % FlushEvery \in 0..(FlushEvery - 1)
         /\ (c + 1) % FlushEvery = IF (c % FlushEvery) + 1 = FlushEvery THEN 0 ELSE (c % FlushEvery) + 1
<1>1. FlushEvery \in Nat \ {0}
  BY MigrationAssumption
<1>2. ASSUME NEW n \in Nat
      PROVE  /\ n = FlushEvery * (n \div FlushEvery) + (n % FlushEvery)
             /\ n \div FlushEvery \in Nat /\ n % FlushEvery \in 0..(FlushEvery - 1)
  BY <1>1
<1>3. ASSUME NEW a \in Nat, NEW b \in Nat, a < b PROVE FlushEvery * a + FlushEvery <= FlushEvery * b
  BY <1>1, <1>3
<1>4. PICK q \in Nat, r \in 0..(FlushEvery - 1) : c = FlushEvery * q + r /\ r = c % FlushEvery
  BY <1>2
<1>5. PICK Q \in Nat, R \in 0..(FlushEvery - 1) :
          c + 1 = FlushEvery * Q + R /\ R = (c + 1) % FlushEvery
  <2>1. c + 1 \in Nat
    OBVIOUS
  <2> QED
    BY <1>2, <2>1
<1>6. PICK x \in Nat, y \in Nat : x = FlushEvery * q /\ y = FlushEvery * Q
  BY <1>1
<1>7. R = IF r + 1 = FlushEvery THEN 0 ELSE r + 1
  <2>1. CASE Q < q
    BY <1>1, <1>3, <1>4, <1>5, <1>6, <2>1
  <2>2. CASE q < Q
    BY <1>1, <1>3, <1>4, <1>5, <1>6, <2>2
  <2>3. CASE q = Q
    BY <1>1, <1>4, <1>5, <1>6, <2>3
  <2> QED
    BY <2>1, <2>2, <2>3
<1> QED
  BY <1>4, <1>5, <1>7

LEMMA BoundGrows ==
  ASSUME kills \in Nat, skips \in Nat
  PROVE  /\ FlushEvery * (kills + skips) \in Nat
         /\ FlushEvery * ((kills + 1) + skips) = FlushEvery * (kills + skips) + FlushEvery
         /\ FlushEvery * (kills + (skips + 1)) = FlushEvery * (kills + skips) + FlushEvery
BY MigrationAssumption

LEMMA DueIsBounded ==
  ASSUME MigShape
  PROVE  Due \in 0..FlushEvery /\ Bound \in Nat /\ count \in Nat
<1>1. count \in Nat
  BY MigrationAssumption, FS_CardinalityType DEF MigShape, MigTypeOK
<1>2. PICK r \in 0..(FlushEvery - 1) : r = count % FlushEvery
  BY <1>1, CountsUp
<1>3. Due \in 0..FlushEvery
  BY <1>2, MigrationAssumption DEF Due
<1> QED
  BY <1>1, <1>3, BoundGrows DEF Bound, MigShape

(* Items are finitely many, so that sets of them can be counted. *)
LEMMA ItemSets ==
  ASSUME NEW S \in SUBSET Items
  PROVE  /\ IsFiniteSet(S) /\ Cardinality(S) \in Nat
         /\ \A T \in SUBSET S : Cardinality(T) <= Cardinality(S)
         /\ \A i \in Items : Cardinality(S \cup {i}) <= Cardinality(S) + 1
         /\ \A i \in S : Cardinality(S \ {i}) = Cardinality(S) - 1
<1>1. IsFiniteSet(S)
  BY MigrationAssumption, FS_Subset
<1> QED
  BY <1>1, FS_Subset, FS_CardinalityType, FS_AddElement, FS_RemoveElement

LEMMA OneMore ==
  ASSUME NEW S \in SUBSET Items, NEW i \in Items, NEW T \in SUBSET (S \cup {i})
  PROVE  Cardinality(T) <= Cardinality(S) + 1 /\ Cardinality(T) \in Nat /\ Cardinality(S) \in Nat
<1>1. S \cup {i} \in SUBSET Items
  OBVIOUS
<1>2. /\ Cardinality(T) <= Cardinality(S \cup {i}) /\ Cardinality(S \cup {i}) <= Cardinality(S) + 1
      /\ Cardinality(T) \in Nat /\ Cardinality(S \cup {i}) \in Nat /\ Cardinality(S) \in Nat
  BY <1>1, ItemSets
<1> QED
  BY <1>2

LEMMA MigInitHolds == MigInit => MigInv
<1> SUFFICES ASSUME MigInit PROVE MigInv
  OBVIOUS
<1>1. Cardinality(Items) \in Nat /\ Cardinality({}) = 0
  BY MigrationAssumption, FS_CardinalityType, FS_EmptySet
<1>2. MigShape /\ LossFollowed
  BY <1>1 DEF MigInit, MigShape, MigTypeOK, LossFollowed
<1>3. LossIsBounded
  BY <1>1, MigrationAssumption DEF MigInit, LossIsBounded
<1> QED
  BY <1>2, <1>3 DEF MigInv

(* An item is taken: one more is due, or the flush is left out. *)
LEMMA ItemTaken ==
  ASSUME MigInv, NEW i \in Items, Takes(i)
  PROVE  /\ count' = count + 1 /\ count' \in 0..Cardinality(Items)
         /\ left' \in SUBSET Items /\ Cardinality(left') + count' <= Cardinality(Items)
         /\ run' \in {"save", "item"} => Due' \in Nat
         /\ run' = "save" => Due' = Due + 1
         /\ run' = "item" => Due' = IF count' % FlushEvery = 0 THEN Due + 1 - FlushEvery ELSE Due + 1
<1>1. /\ run = "item" /\ i \in left /\ left' = left \ {i} /\ count' = count + 1
      /\ left \in SUBSET Items /\ count \in Nat
      /\ Cardinality(left) + count <= Cardinality(Items)
  BY DueIsBounded DEF Takes, MigInv, MigShape, MigTypeOK
<1>2. /\ Cardinality(left') = Cardinality(left) - 1 /\ left' \in SUBSET Items
      /\ {Cardinality(left), Cardinality(left'), Cardinality(Items)} \subseteq Nat
  BY <1>1, ItemSets
<1>3. PICK r \in 0..(FlushEvery - 1), s \in Nat :
          /\ r = count % FlushEvery /\ s = count' % FlushEvery
          /\ s = IF r + 1 = FlushEvery THEN 0 ELSE r + 1
  <2>1. /\ count % FlushEvery \in 0..(FlushEvery - 1)
        /\ count' % FlushEvery =
               IF (count % FlushEvery) + 1 = FlushEvery THEN 0 ELSE (count % FlushEvery) + 1
    BY <1>1, CountsUp
  <2>2. PICK r, s : r = count % FlushEvery /\ s = count' % FlushEvery
    OBVIOUS
  <2> QED
    BY <2>1, <2>2
<1>4. Due = r /\ (run' = "save" => Due' = IF s = 0 THEN FlushEvery ELSE s) /\ (run' = "item" => Due' = s)
  BY <1>1, <1>3 DEF Due
<1>5. FlushEvery \in Nat
  BY MigrationAssumption
<1>6. /\ run' \in {"save", "item"} => Due' \in Nat
      /\ run' = "save" => Due' = Due + 1
      /\ run' = "item" => Due' = IF s = 0 THEN Due + 1 - FlushEvery ELSE Due + 1
  BY <1>3, <1>4, <1>5
<1>7. count' \in 0..Cardinality(Items) /\ Cardinality(left') + count' <= Cardinality(Items)
  BY <1>1, <1>2
<1> QED
  BY <1>1, <1>2, <1>3, <1>6, <1>7

(* Whatever becomes of the item, at most its own link is new and waits. *)
LEMMA ItemKeeps ==
  ASSUME MigInv, NEW i \in Items, Takes(i),
         {done', linked', linkFile', refused'} \subseteq SUBSET Items, done \subseteq done',
         LostBefore' \subseteq LostBefore,
         (LostBefore \cup Unflushed)' \subseteq (LostBefore \cup Unflushed) \cup {i},
         UNCHANGED <<doneFile, kills>>,
         \/ run' = "save" /\ skips' = skips
         \/ run' = "item" /\ skips' = IF count' % FlushEvery = 0 THEN skips + 1 ELSE skips
  PROVE  MigInv'
<1> USE DEF MigInv
<1>1. MigShape'
  <2>1. /\ run # "off" /\ run' \in {"save", "item"}
        /\ kills' \in Nat /\ skips' \in Nat
        /\ doneFile' \in SUBSET Items /\ doneFile' \subseteq done'
    BY DEF MigShape, MigTypeOK, Takes
  <2> QED
    BY <2>1, ItemTaken DEF MigShape, MigTypeOK
<1>2. LossFollowed'
  <2>1. LostBefore \in SUBSET Items /\ LostBefore \cup Unflushed \in SUBSET Items
    BY DEF LostBefore, Unflushed, MigShape, MigTypeOK
  <2>2. Cardinality(LostBefore') <= Cardinality(LostBefore)
        /\ Cardinality(LostBefore') \in Nat /\ Cardinality(LostBefore) \in Nat
    BY <2>1, ItemSets
  <2>3. /\ Cardinality((LostBefore \cup Unflushed)') <= Cardinality(LostBefore \cup Unflushed) + 1
        /\ Cardinality((LostBefore \cup Unflushed)') \in Nat
        /\ Cardinality(LostBefore \cup Unflushed) \in Nat
    BY <2>1, OneMore
  <2>4. /\ Cardinality(LostBefore) <= Bound /\ Cardinality(LostBefore \cup Unflushed) <= Bound + Due
        /\ kills' = 0 => LostBefore' = {}
    BY DEF LossFollowed, Takes
  <2>5. /\ Bound \in Nat /\ Due \in Nat /\ Bound' \in Nat /\ Due' \in Nat
        /\ Bound' >= Bound /\ Bound' + Due' = Bound + Due + 1
    <3>1. Bound \in Nat /\ Due \in Nat /\ FlushEvery \in Nat
      BY DueIsBounded, MigrationAssumption
    <3>2. Due' \in Nat
      BY ItemTaken
    <3>3. CASE run' = "save" /\ skips' = skips
      BY <3>1, <3>2, <3>3, ItemTaken DEF Bound
    <3>4. CASE run' = "item" /\ skips' = IF count' % FlushEvery = 0 THEN skips + 1 ELSE skips
      <4>1. Due' = IF count' % FlushEvery = 0 THEN Due + 1 - FlushEvery ELSE Due + 1
        BY <3>4, ItemTaken
      <4>2. Bound' = IF count' % FlushEvery = 0 THEN Bound + FlushEvery ELSE Bound
        <5>1. CASE count' % FlushEvery = 0
          BY <3>4, <5>1, BoundGrows DEF Bound, MigShape
        <5>2. CASE count' % FlushEvery # 0
          BY <3>4, <5>2 DEF Bound
        <5> QED
          BY <5>1, <5>2
      <4> QED
        BY <3>1, <3>2, <4>1, <4>2
    <3> QED
      BY <3>3, <3>4
  <2>6. Cardinality(LostBefore') <= Bound'
    BY <2>2, <2>4, <2>5
  <2>7. Cardinality((LostBefore \cup Unflushed)') <= Bound' + Due'
    <3>1. PICK new, old : /\ new = Cardinality((LostBefore \cup Unflushed)')
                          /\ old = Cardinality(LostBefore \cup Unflushed)
      OBVIOUS
    <3>2. PICK after, before : after = Bound' + Due' /\ before = Bound + Due
      OBVIOUS
    <3>3. /\ new \in Nat /\ old \in Nat /\ before \in Nat
          /\ new <= old + 1 /\ old <= before /\ after = before + 1
      <4>1. new \in Nat /\ old \in Nat /\ new <= old + 1
        BY <2>3, <3>1
      <4>2. before \in Nat /\ after = before + 1
        <5>1. PICK b, d, bb, dd : b = Bound /\ d = Due /\ bb = Bound' /\ dd = Due'
          OBVIOUS
        <5>2. b \in Nat /\ d \in Nat /\ bb + dd = b + d + 1
          BY <2>5, <5>1
        <5>3. after = bb + dd /\ before = b + d
          BY <3>2, <5>1
        <5> QED
          BY <5>2, <5>3
      <4>3. old <= before
        BY <2>4, <3>1, <3>2
      <4> QED
        BY <4>1, <4>2, <4>3
    <3>4. new <= after
      BY <3>3
    <3> QED
      BY <3>1, <3>2, <3>4
  <2> QED
    BY <2>4, <2>6, <2>7 DEF LossFollowed
<1>3. LossIsBounded'
  BY DEF LossIsBounded
<1> QED
  BY <1>1, <1>2, <1>3

LEMMA ItemStepKeeps ==
  ASSUME MigInv, NEW i \in Items, Migrates(i) \/ MigratesNothing(i) \/ Defers(i) \/ Skipped(i)
  PROVE  MigInv'
<1>1. {done, linked, linkFile, refused} \subseteq SUBSET Items
  BY DEF MigInv, MigShape, MigTypeOK
<1>2. Takes(i) /\ run = "item" /\ UNCHANGED <<doneFile, kills>>
  BY DEF Migrates, MigratesNothing, Defers, Skipped, Takes, fileVars, lossVars
<1>3. CASE Migrates(i)
  <2>1. /\ done' = done \cup {i} /\ linked' = linked \cup {i} /\ linkFile' \in {linkFile, linked'}
        /\ UNCHANGED <<refused, skips>> /\ run' = "save"
    BY <1>3 DEF Migrates, lossVars
  <2>2. LostBefore' \subseteq LostBefore
    BY <2>1 DEF LostBefore
  <2>3. (LostBefore \cup Unflushed)' \subseteq (LostBefore \cup Unflushed) \cup {i}
    BY <2>1, <2>2 DEF Unflushed
  <2> QED
    BY <1>1, <1>2, <2>1, <2>2, <2>3, ItemKeeps
<1>4. CASE MigratesNothing(i) \/ Defers(i) \/ Skipped(i)
  <2>1. /\ \/ done' = done \cup {i} /\ refused' = refused \cup {i}
           \/ UNCHANGED <<done, refused>>
        /\ UNCHANGED <<linked, linkFile>>
        /\ \/ run' = "save" /\ skips' = skips
           \/ run' = run /\ skips' = IF count' % FlushEvery = 0 THEN skips + 1 ELSE skips
    BY <1>4 DEF MigratesNothing, Defers, Skipped, fileVars, lossVars
  <2>2. LostBefore' \subseteq LostBefore /\ Unflushed' = Unflushed
    BY <2>1 DEF LostBefore, Unflushed
  <2>3. (LostBefore \cup Unflushed)' \subseteq (LostBefore \cup Unflushed) \cup {i}
    BY <2>2
  <2> QED
    BY <1>1, <1>2, <2>1, <2>2, <2>3, ItemKeeps
<1> QED
  BY <1>3, <1>4

(* The periodic save keeps what is due, the flush pays it. *)
LEMMA SavesKeep ==
  ASSUME MigInv, SavesProgress \/ FlushesTokens
  PROVE  MigInv'
<1> USE DEF MigInv
<1>1. UNCHANGED <<runs, count, left, done, linked, refused, kills, skips>>
  BY DEF SavesProgress, FlushesTokens, lossVars
<1>2. MigShape'
  BY <1>1 DEF SavesProgress, FlushesTokens, MigShape, MigTypeOK
<1>3. LossFollowed'
  <2>1. LostBefore' = LostBefore /\ Bound' = Bound /\ run # "off"
    BY <1>1 DEF LostBefore, Bound, SavesProgress, FlushesTokens
  <2>2. \/ Due' = Due /\ Unflushed' = Unflushed
        \/ Due' = 0 /\ Unflushed' = {}
    <3>1. CASE SavesProgress
      BY <1>1, <3>1 DEF SavesProgress, Due, Unflushed
    <3>2. CASE FlushesTokens
      BY <1>1, <3>2 DEF FlushesTokens, Due, Unflushed
    <3> QED
      BY <3>1, <3>2
  <2>3. \/ (LostBefore \cup Unflushed)' = LostBefore \cup Unflushed /\ Due' = Due
        \/ (LostBefore \cup Unflushed)' = LostBefore /\ Due' = 0
    BY <2>1, <2>2
  <2>4. Bound \in Nat
    BY DueIsBounded
  <2> QED
    BY <1>1, <2>1, <2>3, <2>4 DEF LossFollowed
<1>4. LossIsBounded'
  BY DEF SavesProgress, FlushesTokens, LossIsBounded
<1> QED
  BY <1>2, <1>3, <1>4

LEMMA RunBeginsKeeps ==
  ASSUME MigInv, RunBegins
  PROVE  MigInv'
<1> USE DEF MigInv
<1>1. /\ run = "off" /\ run' = "item" /\ count' = 0
      /\ linked' = linkFile /\ done' = doneFile /\ left' = Items \ doneFile
      /\ UNCHANGED <<doneFile, linkFile, refused, kills, skips>>
  BY DEF RunBegins, fileVars, lossVars
<1>2. left' \in SUBSET Items
  BY <1>1
<1>3. Cardinality(left') <= Cardinality(Items) /\ Cardinality(left') \in Nat /\ Cardinality(Items) \in Nat
  BY <1>2, ItemSets
<1>4. MigShape'
  BY <1>1, <1>2, <1>3 DEF MigShape, MigTypeOK
<1>5. LossFollowed'
  <2>1. LostBefore' = Lost /\ Unflushed' = {} /\ Bound' = Bound
    BY <1>1 DEF LostBefore, Lost, Unflushed, Bound
  <2>2. /\ kills' = 0 => Lost = {}
        /\ Cardinality(Lost) <= Bound
    BY <1>1 DEF LossIsBounded, Lost, Bound
  <2>3. Due' \in Nat /\ Bound \in Nat
    BY <1>1, CountsUp, DueIsBounded DEF Due
  <2>4. Cardinality(Lost) \in Nat
    <3>1. Lost \in SUBSET Items
      BY DEF Lost, MigShape, MigTypeOK
    <3> QED
      BY <3>1, ItemSets
  <2>5. (LostBefore \cup Unflushed)' = Lost
    BY <2>1
  <2>6. Cardinality(Lost) <= Bound' + Due'
    BY <2>1, <2>2, <2>3, <2>4
  <2> QED
    BY <2>1, <2>2, <2>5, <2>6 DEF LossFollowed
<1>6. LossIsBounded'
  BY <1>1 DEF LossIsBounded
<1> QED
  BY <1>4, <1>5, <1>6

(* A run that ends loses nothing new; a killed one loses what waits for the flush. *)
LEMMA RunStopsKeeps ==
  ASSUME MigInv, RunEnds \/ RunKilled
  PROVE  MigInv'
<1> USE DEF MigInv
<1>1. run # "off" /\ run' = "off" /\ UNCHANGED <<count, left, done, linked, refused, skips>>
  BY DEF RunEnds, RunKilled, lossVars
<1>2. MigShape'
  BY <1>1 DEF RunEnds, RunKilled, fileVars, lossVars, MigShape, MigTypeOK
<1>3. LossFollowed'
  BY <1>1 DEF LossFollowed
<1>4. /\ kills = 0 => LostBefore = {}
      /\ Cardinality(LostBefore) <= Bound /\ Cardinality(LostBefore \cup Unflushed) <= Bound + Due
      /\ LostBefore \in SUBSET Items /\ LostBefore \cup Unflushed \in SUBSET Items
      /\ Due \in 0..FlushEvery /\ Bound \in Nat /\ FlushEvery \in Nat
  BY <1>1, DueIsBounded, MigrationAssumption DEF LossFollowed, LostBefore, Unflushed, MigShape, MigTypeOK
<1>5. LossIsBounded'
  <2>1. CASE RunEnds
    <3>1. Lost' = LostBefore /\ UNCHANGED <<kills, skips>>
      BY <1>1, <2>1 DEF RunEnds, Lost, LostBefore, lossVars
    <3> QED
      BY <1>4, <3>1 DEF LossIsBounded, Lost, Bound
  <2>2. CASE RunKilled
    <3>1. kills' = kills + 1 /\ UNCHANGED <<doneFile, linkFile, skips>> /\ kills \in Nat
      BY <2>2 DEF RunKilled, fileVars, MigShape
    <3>2. Lost' \in SUBSET (LostBefore \cup Unflushed)
      BY <1>1, <3>1 DEF Lost, LostBefore, Unflushed, MigShape
    <3>3. /\ Cardinality(Lost') <= Cardinality(LostBefore \cup Unflushed)
          /\ Cardinality(LostBefore \cup Unflushed) \in Nat /\ Cardinality(Lost') \in Nat
      <4>1. Lost' \in SUBSET Items
        BY <1>4, <3>2
      <4> QED
        BY <1>4, <3>2, <4>1, ItemSets
    <3>4. Bound' = Bound + FlushEvery
      BY <1>1, <3>1, BoundGrows DEF Bound, MigShape
    <3>5. Cardinality(Lost') <= Bound'
      BY <1>4, <3>3, <3>4
    <3> QED
      BY <3>1, <3>5 DEF LossIsBounded, Lost, Bound
  <2> QED
    BY <2>1, <2>2
<1> QED
  BY <1>2, <1>3, <1>5

LEMMA MigStep == MigInv /\ [MigNext]_migVars => MigInv'
<1> SUFFICES ASSUME MigInv, [MigNext]_migVars PROVE MigInv'
  OBVIOUS
<1>1. CASE UNCHANGED migVars
  BY <1>1 DEF migVars, fileVars, lossVars, MigInv, MigShape, MigTypeOK, LossFollowed, LostBefore,
              Unflushed, Bound, Due, LossIsBounded
<1> QED
  BY <1>1, RunBeginsKeeps, SavesKeep, RunStopsKeeps, ItemStepKeeps DEF MigNext

(* The worklist, the progress and the links are items, and the counter never passes their *)
(* number (pool_migrate.main).                                                            *)
THEOREM MigrationTypeCorrect == MigSpec => []MigTypeOK
<1> QED
  BY MigInitHolds, MigStep, PTL DEF MigSpec, MigInv, MigShape

(* An item taken for done whose link is not in the token file was lost by a kill, and each kill *)
(* and each flush left out costs a flush interval's worth at most, for any list and intervals   *)
(* (_save_progress, flush).                                                                     *)
THEOREM MigrationLossIsBounded == MigSpec => []LossIsBounded
<1> QED
  BY MigInitHolds, MigStep, PTL DEF MigSpec, MigInv

--------------------------------------------------------------------------------
(* Together, as they are checked: one component runs, the others keep their state. *)
THEOREM UpkeepTypeCorrect == MCSpec => []UpkeepTypeOK
<1>1. MCInit => ListInv /\ VerdictInv /\ MigInv
  BY ListInitHolds, VerdictInitHolds, MigInitHolds DEF MCInit
<1>2. [MCNext]_MCVars => [ListNext]_listVars /\ [VerdictNext]_verdVars /\ [MigNext]_migVars
  BY DEF MCNext, MCVars, SyncRuns, ListingsRuns, VerdictRuns, MigrationRuns
<1>3. ListInv /\ VerdictInv /\ MigInv => UpkeepTypeOK
  BY DEF UpkeepTypeOK, ListInv, VerdictInv, MigInv, MigShape
<1> QED
  BY <1>1, <1>2, <1>3, ListStep, VerdictStep, MigStep, PTL DEF MCSpec
=============================================================================
