---- MODULE Listings ----
(* How a newly listed symbol gets its stream: the minute loop of one exchange *)
(* (exchange_loader.py), the token list and the metadata it keeps on disk,    *)
(* and the manager that turns desired symbols into subscriptions - Gate's     *)
(* connection, Kraken's shard supervisor; for Bybit being in self.topics is   *)
(* enough (BybitBook goes on from there).  Exceptions end a round, and the    *)
(* process may be restarted anywhere.                                         *)
EXTENDS Naturals, FiniteSets

CONSTANTS
    Symbols,       \* tickers the exchange may list
    MaxOffers,     \* changes of the exchange's list
    MaxFailures    \* rounds that fail, crashes, broken connections

ASSUME ListingsAssumption == MaxOffers \in Nat /\ MaxFailures \in Nat

VARIABLES
    venue,         \* the exchange: "bybit" "gate" "kraken"
    bare,          \* symbols without metadata at the exchange
    aliased,       \* symbols whose metadata belongs to an entry of another ticker
    offered,       \* the exchange's list
    offers,        \* how often it changed
    failures,      \* what failed so far
    knownSyms,     \* _TOKEN_LIST[cex]["symbols"]
    ignored,       \* _TOKEN_LIST[cex]["ignored"]
    merged,        \* symbols with a block of this exchange in the cache
    saved,         \* the two files: known and ignored, merged
    round,         \* where the loop is: "idle" "metadata" "subscribe" "flush" "list"
    newSyms,       \* its new listings not yet subscribed
    todo,          \* its symbols without metadata, not yet asked for
    between,       \* Gate: the symbol merged and not yet subscribed
    desired,       \* manager.desired_symbols
    gateLink,      \* Gate: "down" "subscribing" "up"
    changed,       \* Kraken: _symbols_changed
    supervisor,    \* Kraken: "wait" "nap" "cancel"
    goal,          \* symbols of the subscription or the shards under way
    built,         \* Kraken: current_signature
    streamed,      \* symbols with a live subscription
    hit            \* history: symbols a failed round or a restart left behind

offerVars == <<venue, bare, aliased, offered, offers>>
roundVars == <<round, newSyms, todo, between>>
managerVars == <<desired, gateLink, changed, supervisor, goal, built, streamed>>
tokenVars == <<knownSyms, ignored, merged>>
listVars == <<offerVars, failures, tokenVars, saved, roundVars, managerVars, hit>>

\* get_cex_symbols: tickers of entries with a block of this exchange, if still listed.
\* An alias is not the ticker of its entry.
Restored(block, list) ==
    {s \in block \ aliased : list # {} => s \in list}

\* The manager at the start of the process.
Started(symbols) ==
    /\ desired' = symbols
    /\ gateLink' = "down" /\ changed' = (symbols # {}) /\ supervisor' = "wait"
    /\ goal' = {} /\ built' = {}
    /\ streamed' = IF venue = "bybit" THEN symbols ELSE {}

ListInit ==
    /\ venue \in {"bybit", "gate", "kraken"}
    /\ bare \in SUBSET Symbols /\ aliased \in SUBSET (Symbols \ bare)
    /\ offered = {} /\ offers = 0 /\ failures = 0
    /\ knownSyms = {} /\ ignored = {} /\ merged = {}
    /\ saved = [known |-> {}, ignored |-> {}, merged |-> {}]
    /\ round = "idle" /\ newSyms = {} /\ todo = {} /\ between = {}
    /\ desired = {} /\ gateLink = "down" /\ changed = FALSE /\ supervisor = "wait"
    /\ goal = {} /\ built = {} /\ streamed = {}
    /\ hit = {}

\* The exchange lists or delists.
Lists ==
    /\ offers < MaxOffers
    /\ offers' = offers + 1
    /\ offered' \in SUBSET Symbols \ {offered}
    /\ UNCHANGED <<venue, bare, aliased, failures, tokenVars, saved, roundVars, managerVars, hit>>

--------------------------------------------------------------------------------
\* The minute loop.

\* update_token_list: what was not known is new; only the managers of Bybit and Kraken
\* are told of it.
Updated ==
    /\ knownSyms' = offered
    /\ newSyms' = IF venue = "gate" THEN {} ELSE offered \ knownSyms

RoundStarts ==
    /\ round = "idle"
    /\ Updated
    /\ todo' = offered \ (merged \cup ignored)
    /\ round' = "metadata"
    /\ UNCHANGED <<offerVars, failures, ignored, merged, saved, between, managerVars, hit>>

\* merge_token, or mark_symbol_ignored for a symbol the exchange knows nothing of.
MetadataFetched(s) ==
    /\ round = "metadata" /\ s \in todo /\ between = {}
    /\ todo' = todo \ {s}
    /\ IF s \in bare
       THEN ignored' = ignored \cup {s} /\ UNCHANGED <<merged, between>>
       ELSE /\ merged' = merged \cup {s}
            /\ between' = IF venue = "gate" THEN {s} ELSE {}
            /\ UNCHANGED ignored
    /\ UNCHANGED <<offerVars, failures, knownSyms, saved, round, newSyms, managerVars, hit>>

\* Mutant: without a socket the symbol is not even remembered.
GateSubscribesLive ==
    /\ between # {}
    /\ between' = {}
    /\ IF gateLink # "down"
       THEN desired' = desired \cup between /\ streamed' = streamed \cup (between \ desired)
       ELSE UNCHANGED <<desired, streamed>>
    /\ UNCHANGED <<offerVars, failures, tokenVars, saved, round, newSyms, todo, gateLink, changed,
                   supervisor, goal, built, hit>>

\* Gate subscribes what it just merged, at once if it has a socket.
GateSubscribes ==
    /\ between # {}
    /\ between' = {}
    /\ desired' = desired \cup between
    /\ streamed' = IF gateLink # "down" THEN streamed \cup (between \ desired) ELSE streamed
    /\ UNCHANGED <<offerVars, failures, tokenVars, saved, round, newSyms, todo, gateLink, changed,
                   supervisor, goal, built, hit>>

MetadataDone ==
    /\ round = "metadata" /\ todo = {} /\ between = {}
    /\ round' = "subscribe"
    /\ UNCHANGED <<offerVars, failures, tokenVars, saved, newSyms, todo, between, managerVars, hit>>

\* subscribe_symbol of Bybit and Kraken, for the new listings only.
Subscribes(s) ==
    /\ round = "subscribe" /\ s \in newSyms
    /\ newSyms' = newSyms \ {s}
    /\ desired' = desired \cup {s}
    /\ changed' = (changed \/ s \notin desired)
    /\ streamed' = IF venue = "bybit" THEN streamed \cup {s} ELSE streamed
    /\ UNCHANGED <<offerVars, failures, tokenVars, saved, round, todo, between, gateLink, supervisor,
                   goal, built, hit>>

SubscribeDone ==
    /\ round = "subscribe" /\ newSyms = {}
    /\ round' = "flush"
    /\ UNCHANGED <<offerVars, failures, tokenVars, saved, newSyms, todo, between, managerVars, hit>>

\* The forced flush writes the tokens, then the list.
RoundSaves ==
    /\ \/ /\ round = "flush"
          /\ saved' = [saved EXCEPT !.merged = merged] /\ round' = "list"
       \/ /\ round = "list"
          /\ saved' = [saved EXCEPT !.known = knownSyms, !.ignored = ignored] /\ round' = "idle"
    /\ UNCHANGED <<offerVars, failures, tokenVars, newSyms, todo, between, managerVars, hit>>

\* Other calls of flush, this loop's or another's, write when their threshold is passed.
SomeoneSaves ==
    /\ round \in {"metadata", "subscribe"}
    /\ \/ saved' = [saved EXCEPT !.merged = merged]
       \/ saved' = [saved EXCEPT !.merged = merged, !.known = knownSyms, !.ignored = ignored]
    /\ UNCHANGED <<offerVars, failures, tokenVars, roundVars, managerVars, hit>>

\* An exception ends the round: what it had not subscribed is not new any more.
RoundFails ==
    /\ round # "idle" /\ failures < MaxFailures
    /\ failures' = failures + 1
    /\ round' = "idle" /\ newSyms' = {} /\ todo' = {} /\ between' = {}
    /\ hit' = hit \cup newSyms \cup between
    /\ UNCHANGED <<offerVars, tokenVars, saved, managerVars>>

\* The process ends and is started again: init_cache, the managers, the loops.
Restarts ==
    /\ failures < MaxFailures
    /\ failures' = failures + 1
    /\ knownSyms' = saved.known /\ ignored' = saved.ignored /\ merged' = saved.merged
    /\ round' = "idle" /\ newSyms' = {} /\ todo' = {} /\ between' = {}
    /\ Started(Restored(saved.merged, saved.known))
    /\ hit' = (IF venue = "gate" THEN saved.merged ELSE saved.known) \ desired'
    /\ UNCHANGED <<offerVars, saved>>

--------------------------------------------------------------------------------
\* Gate's connection: all desired symbols at its start, live ones later.

GateConnects ==
    /\ venue = "gate" /\ gateLink = "down"
    /\ gateLink' = "subscribing" /\ goal' = desired
    /\ UNCHANGED <<offerVars, failures, tokenVars, saved, roundVars, desired, changed, supervisor,
                   built, streamed, hit>>

GateSubscribed ==
    /\ gateLink = "subscribing"
    /\ gateLink' = "up" /\ streamed' = streamed \cup goal
    /\ UNCHANGED <<offerVars, failures, tokenVars, saved, roundVars, desired, changed, supervisor,
                   goal, built, hit>>

GateBreaks ==
    /\ gateLink # "down" /\ failures < MaxFailures
    /\ failures' = failures + 1
    /\ gateLink' = "down" /\ streamed' = {}
    /\ UNCHANGED <<offerVars, tokenVars, saved, roundVars, desired, changed, supervisor, goal,
                   built, hit>>

--------------------------------------------------------------------------------
\* Kraken's supervisor.  A shard reconnects by itself, with the pairs it was given.

SupervisorWakes ==
    /\ venue = "kraken" /\ supervisor = "wait" /\ changed
    /\ supervisor' = "nap"
    /\ UNCHANGED <<offerVars, failures, tokenVars, saved, roundVars, desired, gateLink, changed, goal,
                   built, streamed, hit>>

\* The debounce is over: the event is cleared before the symbols are read.
SupervisorReads ==
    /\ supervisor = "nap"
    /\ changed' = FALSE /\ goal' = desired
    /\ supervisor' = IF desired \in {{}, built} THEN "wait" ELSE "cancel"
    /\ UNCHANGED <<offerVars, failures, tokenVars, saved, roundVars, desired, gateLink, built, streamed, hit>>

\* Mutant: the event is cleared when the new shards run.
ShardsRebuiltClearing ==
    /\ supervisor = "cancel"
    /\ streamed' = goal /\ built' = goal /\ changed' = FALSE
    /\ supervisor' = "wait"
    /\ UNCHANGED <<offerVars, failures, tokenVars, saved, roundVars, desired, gateLink, goal, hit>>

\* The old shards are gone, the new ones run.
ShardsRebuilt ==
    /\ supervisor = "cancel"
    /\ streamed' = goal /\ built' = goal
    /\ supervisor' = "wait"
    /\ UNCHANGED <<offerVars, failures, tokenVars, saved, roundVars, desired, gateLink, changed, goal, hit>>

--------------------------------------------------------------------------------
LoopStep ==
    \/ RoundStarts \/ GateSubscribes \/ MetadataDone \/ SubscribeDone \/ RoundSaves
    \/ \E s \in Symbols : MetadataFetched(s) \/ Subscribes(s)
ManagerStep ==
    GateConnects \/ GateSubscribed \/ SupervisorWakes \/ SupervisorReads \/ ShardsRebuilt

ListNext ==
    Lists \/ LoopStep \/ SomeoneSaves \/ RoundFails \/ Restarts \/ GateBreaks \/ ManagerStep

ListSpec ==
    /\ ListInit /\ [][ListNext]_listVars
    /\ WF_listVars(LoopStep) /\ WF_listVars(ManagerStep)

--------------------------------------------------------------------------------
ListTypeOK ==
    /\ {offered, knownSyms, ignored, merged, newSyms, todo, between, desired, goal, built,
        streamed, hit, saved.known, saved.ignored, saved.merged} \subseteq SUBSET Symbols
    /\ round \in {"idle", "metadata", "subscribe", "flush", "list"}
    /\ gateLink \in {"down", "subscribing", "up"}
    /\ supervisor \in {"wait", "nap", "cancel"}

\* A symbol the loop takes for known (merged, for Gate) is desired, about to be, or was left
\* behind by a round that failed or by a restart: nothing else loses a listing (run_bybit,
\* run_gate, run_kraken, get_cex_symbols).
ListingAccounted ==
    (IF venue = "gate" THEN merged ELSE knownSyms) \subseteq desired \cup newSyms \cup between \cup hit

\* A listed symbol gets its stream - through reconnects, restarts, a rebuild of the shards
\* under way - unless it was left behind so or delisted meanwhile; at Gate, if it has metadata.
ListingStreamed ==
    \A s \in Symbols :
        (s \in offered /\ (venue = "gate" => s \notin bare))
            ~> (s \in streamed \cup hit \/ s \notin offered)
====
