---- MODULE KrakenPending ----
(* Fresh listings of Kraken that CoinGecko does not know yet: run_kraken      *)
(* merges a ticker, tries to resolve it and, if it cannot, puts it into a     *)
(* queue on disk; a retry loop asks CoinGecko again; at the next start what   *)
(* is undecided and not queued is dropped for good.  The queue is a file that *)
(* is read, changed and written as a whole.                                   *)
EXTENDS FiniteSets, Naturals

CONSTANTS
    Fresh,         \* tickers Kraken lists
    MaxFaults      \* refreshes, rounds and flushes that fail, and crashes

ASSUME PendingAssumption == MaxFaults \in Nat

VARIABLES
    onGecko,       \* tickers CoinGecko has come to list
    index,         \* those in the index kept here
    state,         \* of a ticker: "new" "open" (merged, undecided) "decided" "dropped"
    onDisk,        \* state as the files have it
    merging,       \* run_kraken: the ticker merged and not yet tried
    queue,         \* kraken_pending.json
    recent,        \* registered since the loop last woke: may not be due yet
    old,           \* queued for longer than PENDING_MAX_AGE_SEC
    loop,          \* the retry loop: "sleep" "refresh" "apply"
    due,           \* what it has still to try
    table,         \* its copy of the queue
    faults,        \* what failed so far
    amid,          \* history: tickers registered between the loop's reading and its writing
    aged,          \* history: tickers the loop gave up
    cutOff         \* history: tickers whose round ended between the merge and the queue

geckoVars == <<onGecko, index>>
entryVars == <<state, onDisk, merging>>
queueVars == <<queue, recent, old>>
retryVars == <<loop, due, table>>
causeVars == <<amid, aged, cutOff>>
pendVars == <<geckoVars, entryVars, queueVars, retryVars, faults, causeVars>>

PendInit ==
    /\ onGecko = {} /\ index = {}
    /\ state = [k \in Fresh |-> "new"] /\ onDisk = state /\ merging = {}
    /\ queue = {} /\ recent = {} /\ old = {}
    /\ loop = "sleep" /\ due = {} /\ table = {}
    /\ faults = 0
    /\ amid = {} /\ aged = {} /\ cutOff = {}

GeckoLists ==
    /\ \E k \in Fresh \ onGecko : onGecko' = onGecko \cup {k}
    /\ UNCHANGED <<index, entryVars, queueVars, retryVars, faults, causeVars>>

\* refresh_loop, once a day.
DailyRefresh ==
    /\ index # onGecko
    /\ index' = onGecko
    /\ UNCHANGED <<onGecko, entryVars, queueVars, retryVars, faults, causeVars>>

--------------------------------------------------------------------------------
\* run_kraken.

Mergeable(k) == state[k] = "new" /\ merging = {}

\* merge_token; its flush may write, and other tasks run meanwhile.
MergesFresh(k) ==
    /\ Mergeable(k)
    /\ state' = [state EXCEPT ![k] = "open"]
    /\ merging' = {k}
    /\ onDisk' \in {onDisk, state'}
    /\ UNCHANGED <<geckoVars, queueVars, retryVars, faults, causeVars>>

\* apply_coingecko_metadata_for_entry: what it decides it writes at once.
Decided(k) ==
    /\ state' = [state EXCEPT ![k] = "decided"]
    /\ onDisk' = state'

\* pending_register reads the file and writes it, with nothing in between.
Registered(k) ==
    /\ queue' = queue \cup {k}
    /\ recent' = recent \cup ({k} \ queue)
    /\ amid' = IF loop = "apply" THEN amid \cup {k} ELSE amid

TriesFresh ==
    /\ \E k \in merging :
          IF k \in index
          THEN Decided(k) /\ UNCHANGED <<queue, recent, amid>>
          ELSE Registered(k) /\ UNCHANGED <<state, onDisk>>
    /\ merging' = {}
    /\ UNCHANGED <<geckoVars, old, retryVars, faults, aged, cutOff>>

\* An exception ends the round; the block is in the cache, so the ticker is not missing.
RoundBreaks ==
    /\ merging # {} /\ faults < MaxFaults
    /\ faults' = faults + 1
    /\ merging' = {} /\ cutOff' = cutOff \cup merging
    /\ UNCHANGED <<geckoVars, state, onDisk, queueVars, retryVars, amid, aged>>

\* Any other flush of the tokens.
TokensFlushed ==
    /\ onDisk # state /\ onDisk' = state
    /\ UNCHANGED <<geckoVars, state, merging, queueVars, retryVars, faults, causeVars>>

--------------------------------------------------------------------------------
\* kraken_pending_retry_loop.

PendingAges ==
    /\ \E k \in queue \ old : old' = old \cup {k}
    /\ UNCHANGED <<geckoVars, entryVars, queue, recent, retryVars, faults, causeVars>>

\* What was registered a moment ago is not due.
LoopWakes ==
    /\ loop = "sleep"
    /\ \E late \in SUBSET recent : due' = queue \ late
    /\ due' # {}
    /\ loop' = "refresh" /\ recent' = {}
    /\ UNCHANGED <<geckoVars, entryVars, queue, old, table, faults, causeVars>>

\* Mutant: the loop asks the index it has.
LoopRefreshSkipped(ok) == UNCHANGED index

\* Both refreshes, each of which may fail; the index is then what it was.
LoopRefreshed(ok) == index' = IF ok THEN onGecko ELSE index

\* What the loop does until it waits: a ticker that is resolved is written, which takes
\* time; else the rest is gone through and the table written over the file.
Tries(copy, left) ==
    LET given == {k \in left : k \in old}
        found == {k \in left \ old : k \in index' /\ state[k] = "open"}
        settled == {k \in left \ old : state[k] = "decided"}
    IN  \/ \E k \in found :
              /\ Decided(k)
              /\ loop' = "apply" /\ table' = copy \ {k} /\ due' = left \ {k}
              /\ UNCHANGED <<queue, old, aged>>
        \/ /\ found = {}
           /\ queue' = copy \ (given \cup settled)
           /\ old' = old \cap queue'
           /\ aged' = aged \cup given
           /\ loop' = "sleep" /\ table' = {} /\ due' = {}
           /\ UNCHANGED <<state, onDisk>>

\* Mutant: what is due is taken out of the table to be tried, and not put back.
LoopReloadsPops ==
    /\ loop = "refresh"
    /\ \/ LoopRefreshed(TRUE) /\ UNCHANGED faults
       \/ LoopRefreshed(FALSE) /\ faults < MaxFaults /\ faults' = faults + 1
    /\ Tries(queue \ due, due \cap queue)
    /\ UNCHANGED <<onGecko, merging, recent, amid, cutOff>>

LoopReloads ==
    /\ loop = "refresh"
    /\ \/ LoopRefreshed(TRUE) /\ UNCHANGED faults
       \/ LoopRefreshed(FALSE) /\ faults < MaxFaults /\ faults' = faults + 1
    /\ Tries(queue, due \cap queue)
    /\ UNCHANGED <<onGecko, merging, recent, amid, cutOff>>

LoopGoesOn ==
    /\ loop = "apply"
    /\ UNCHANGED index /\ Tries(table, due)
    /\ UNCHANGED <<onGecko, merging, recent, faults, amid, cutOff>>

\* A flush fails: the loop starts anew, the file is as it was.
LoopBreaks ==
    /\ loop = "apply" /\ faults < MaxFaults
    /\ faults' = faults + 1
    /\ loop' = "sleep" /\ table' = {} /\ due' = {}
    /\ UNCHANGED <<geckoVars, entryVars, queueVars, causeVars>>

--------------------------------------------------------------------------------
\* The process ends and starts: what the index knows is decided, then
\* cleanup_kraken_pending drops what is open and not queued.
AfterStart(k) ==
    IF onDisk[k] # "open" THEN onDisk[k]
    ELSE IF k \in index THEN "decided"
    ELSE IF k \in queue THEN "open" ELSE "dropped"

PendingRestarts ==
    /\ faults < MaxFaults /\ faults' = faults + 1
    /\ state' = [k \in Fresh |-> AfterStart(k)]
    /\ onDisk' = state'
    /\ cutOff' = cutOff \cup merging
    /\ merging' = {} /\ loop' = "sleep" /\ table' = {} /\ due' = {} /\ recent' = {}
    /\ UNCHANGED <<geckoVars, queue, old, amid, aged>>

--------------------------------------------------------------------------------
LoopTurn == LoopWakes \/ LoopReloads \/ LoopGoesOn
PendNext ==
    \/ GeckoLists \/ DailyRefresh \/ TriesFresh \/ RoundBreaks \/ TokensFlushed
    \/ \E k \in Fresh : MergesFresh(k)
    \/ PendingAges \/ LoopTurn \/ LoopBreaks \/ PendingRestarts

\* The rounds and the loop go on.
PendSpec == PendInit /\ [][PendNext]_pendVars /\ WF_pendVars(LoopTurn) /\ WF_pendVars(TriesFresh)

--------------------------------------------------------------------------------
PendTypeOK ==
    /\ {onGecko, index, merging, queue, recent, old, due, table, amid, aged, cutOff}
          \subseteq SUBSET Fresh
    /\ {state, onDisk} \subseteq [Fresh -> {"new", "open", "decided", "dropped"}]
    /\ loop \in {"sleep", "refresh", "apply"}

\* An undecided listing is in the queue or about to be, and only such are kept from being
\* dropped at a start; what is not was given up for age, or its round was cut off before the
\* queue, or its registration fell between the loop's reading of the file and its writing.
OpenIsQueued ==
    \A k \in Fresh :
        state[k] \in {"open", "dropped"} => k \in queue \cup merging \cup aged \cup cutOff \cup amid

\* A listing CoinGecko has come to know is decided in the end, through failed refreshes and
\* restarts, unless it was lost in one of these ways.
KnownIsDecided ==
    \A k \in Fresh :
        (state[k] = "open" /\ k \in onGecko) ~> (state[k] # "open" \/ k \in aged \cup cutOff \cup amid)
====
