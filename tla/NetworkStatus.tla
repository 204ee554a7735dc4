---- MODULE NetworkStatus ----
(* The deposit and withdrawal flags of one exchange (network_status.py): a    *)
(* loop refreshes them all in one call, seldom as a rule, often while some    *)
(* token of the exchange shows a spread.  One token's flag is followed here;  *)
(* a refresh takes no time, a nap does.                                       *)
EXTENDS Naturals

CONSTANTS
    HotNap,        \* HOT_INTERVAL_SEC
    PassiveNap,    \* PASSIVE_INTERVAL_SEC
    HotTTL,        \* HOT_TTL_SEC
    MaxLag         \* bound: no behaviour is followed while a flag is wrong for longer

ASSUME NapAssumption ==
    /\ HotNap \in Nat \ {0} /\ PassiveNap \in Nat /\ HotTTL \in Nat
    /\ HotNap < PassiveNap /\ PassiveNap < HotTTL
    /\ MaxLag \in Nat /\ PassiveNap < MaxLag

VARIABLES
    truth,         \* the exchange's flag: "open" "closed", or "silent": it reports no networks
    flag,          \* the flag in networks_cex
    lag,           \* history: time for which the flag has been wrong
    hotAge,        \* age of the hot-watch entry; HotTTL: no entry, or an idle one
    hotFor,        \* history: time for which the entry has been live, up to PassiveNap + 1
    nap,           \* what is left of the loop's sleep
    asked,         \* the answer of the exchange the loop has, "none" while it sleeps
    missed         \* refreshes that failed in a row, up to 1

netVars == <<truth, flag, lag, hotAge, hotFor, nap, asked, missed>>

NetInit ==
    /\ truth \in {"open", "closed"} /\ flag = truth /\ lag = 0
    /\ hotAge = HotTTL /\ hotFor = 0
    /\ nap = 0 /\ asked = "none" /\ missed = 0

TruthMoves ==
    /\ truth' \in {"open", "closed", "silent"} \ {truth}
    /\ lag' = IF truth' \in {flag, "silent"} THEN 0 ELSE lag
    /\ UNCHANGED <<flag, hotAge, hotFor, nap, asked, missed>>

\* register_hot_watch, from a scan that lists an opportunity.
HotRegistered ==
    /\ hotAge' = 0
    /\ UNCHANGED <<truth, flag, lag, hotFor, nap, asked, missed>>

Capped(n, most) == IF n < most THEN n ELSE most

Passes ==
    /\ nap > 0 /\ lag < MaxLag
    /\ nap' = nap - 1
    /\ hotAge' = Capped(hotAge + 1, HotTTL)
    /\ hotFor' = IF hotAge + 1 < HotTTL THEN Capped(hotFor + 1, PassiveNap + 1) ELSE 0
    /\ lag' = IF truth \in {flag, "silent"} THEN 0 ELSE lag + 1
    /\ UNCHANGED <<truth, flag, asked, missed>>

\* The loop is awake: entries idle too long go, then the bulk call is made.
Refreshes ==
    /\ nap = 0 /\ asked = "none"
    /\ asked' = truth
    /\ UNCHANGED <<truth, flag, lag, hotAge, hotFor, nap, missed>>

\* Mutant: a hot token does not shorten the sleep.
NextNapPassive == PassiveNap

\* has_hot_for_cex decides how long the loop sleeps.
NextNap == IF hotAge < HotTTL THEN HotNap ELSE PassiveNap

\* Mutant: an answer without networks overwrites the flag.
RefreshEndsBlank ==
    /\ asked # "none"
    /\ flag' = asked
    /\ lag' = IF truth \in {flag', "silent"} THEN 0 ELSE lag
    /\ missed' = 0
    /\ asked' = "none" /\ nap' = NextNap
    /\ UNCHANGED <<truth, hotAge, hotFor>>

\* update_networks_for: a token without networks in the answer keeps its flags.
RefreshEnds ==
    /\ asked # "none"
    /\ flag' = IF asked = "silent" THEN flag ELSE asked
    /\ lag' = IF truth \in {flag', "silent"} THEN 0 ELSE lag
    /\ missed' = 0
    /\ asked' = "none" /\ nap' = NextNap
    /\ UNCHANGED <<truth, hotAge, hotFor>>

\* The call fails or answers nothing: the flags stay.
RefreshFails ==
    /\ asked # "none"
    /\ missed' = 1
    /\ asked' = "none" /\ nap' = NextNap
    /\ UNCHANGED <<truth, flag, lag, hotAge, hotFor>>

NetNext == TruthMoves \/ HotRegistered \/ Passes \/ Refreshes \/ RefreshEnds \/ RefreshFails

NetSpec == NetInit /\ [][NetNext]_netVars

--------------------------------------------------------------------------------
NetTypeOK ==
    /\ {truth, flag} \subseteq {"open", "closed", "silent"} /\ flag # "silent"
    /\ hotAge \in 0..HotTTL /\ hotFor \in 0..(PassiveNap + 1) /\ nap \in 0..PassiveNap
    /\ lag \in 0..MaxLag /\ missed \in 0..1

\* After a refresh that worked, a reported flag is wrong for one passive nap at most; once
\* some token has been hot for longer than a passive nap, for one hot nap - not earlier, since the
\* nap under way is not cut short (cex_network_loop).
FlagSeenInTime ==
    missed = 0 => lag <= IF hotFor > PassiveNap THEN HotNap ELSE PassiveNap
====
