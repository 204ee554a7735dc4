--------------------------- MODULE MCPoolBinding ---------------------------
(***************************************************************************)
(* Instances of PoolBinding.                                               *)
(*                                                                         *)
(* `One`: one token, two pools of its contract, and an entry of the same   *)
(* ticker on another chain that joined the ticker's list first.  `Two`:    *)
(* two tokens with a pool or two each.  Every instance has a row or two an *)
(* earlier run left, linked or not.                                        *)
(***************************************************************************)
EXTENDS PoolBinding

CONSTANTS t1, t2, p1, p2, p3

Row(p, s) == [pool |-> p, sym |-> s, ver |-> FALSE, gt |-> FALSE]

Earlier == [t \in Tokens |-> IF t = t2 THEN 1 ELSE 2]

OneSymbol == [t \in Tokens |-> "AAA"]
OneOnChain == {t1}
OneOffers == [t \in Tokens |-> IF t = t1 THEN {p1, p2} ELSE {}]

TwoSymbols == [t \in Tokens |-> IF t = t1 THEN "AAA" ELSE "BBB"]
TwoOnChain == {t1, t2}
TwoOffers == [t \in Tokens |-> IF t = t1 THEN {p1, p2} ELSE {p3}]

FoundA == {Row(p1, "AAA")}
FoundB == {Row(p3, "BBB")}
FoundAB == FoundA \cup FoundB

NoneBlacklisted == {}
BBlacklisted == {"BBB"}

CoreFeatures    == {"sweep", "refresh", "upgrade", "badprice", "crash"}
ThreadFeatures  == {"sweep", "refresh", "badprice", "version", "reconcile"}
SteadyFeatures  == {"sweep", "refresh", "upgrade"}
VersionFeatures == {"sweep", "version"}
StaleFeatures   == {"sweep", "badprice", "reconcile"}
SwapFeatures    == {"sweep", "upgrade", "badprice"}
=============================================================================
