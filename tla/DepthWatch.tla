---- MODULE DepthWatch ----
(* Order-book depth by REST for the tokens that show a spread                 *)
(* (core/orderbook_depth.py), for one of the two exchanges that need it: the  *)
(* scanner registers a token, a new one is fetched at once by a task of its   *)
(* own, a loop refreshes the watched ones and drops those whose spread has    *)
(* been gone too long.                                                        *)
EXTENDS Naturals, FiniteSets

CONSTANTS
    Watchable,     \* tickers of the exchange
    WatchTTL,      \* age after which a watch is dropped
    MaxWatches,    \* times a watch may begin, for each ticker
    MaxMisses      \* fetches that fail

ASSUME DepthAssumption ==
    WatchTTL \in Nat /\ MaxWatches \in [Watchable -> Nat] /\ MaxMisses \in Nat

VARIABLES
    spread,        \* tickers the scanner sees a spread for
    watched,       \* keys of _WATCH
    age,           \* time since the last registration, up to WatchTTL + 1
    watchNo,       \* history: how often the ticker's watch has begun
    tasks,         \* fetch tasks created and not started
    pending,       \* _KRAKEN_PENDING, _GATE_PENDING
    flights,       \* fetches under way: sym, by task or loop, and the watch they were answered in (0: not yet)
    misses,        \* fetches that failed
    depth,         \* the stored books: the watch they were answered in (0: none)
    poll,          \* the loop: "sleep" "work"
    active,        \* tickers it has still to refresh
    polling,       \* the ticker it waits for
    overrun        \* history: tickers whose watch ended with a fetch under way

watchVars == <<watched, age, watchNo, tasks>>
fetchVars == <<pending, flights, misses, depth>>
pollVars == <<poll, active, polling>>
depthVars == <<spread, watchVars, fetchVars, pollVars, overrun>>

DepthInit ==
    /\ spread = {} /\ watched = {} /\ tasks = {} /\ pending = {} /\ flights = {} /\ misses = 0
    /\ age = [s \in Watchable |-> 0] /\ watchNo = [s \in Watchable |-> 0]
    /\ depth = [s \in Watchable |-> 0]
    /\ poll = "sleep" /\ active = {} /\ polling = {}
    /\ overrun = {}

\* A spread opens, if the bound lets its watch begin again, or closes.
SpreadMoves ==
    /\ \E s \in Watchable :
          \/ s \in spread /\ spread' = spread \ {s}
          \/ s \notin spread /\ watchNo[s] < MaxWatches[s] /\ spread' = spread \cup {s}
    /\ UNCHANGED <<watchVars, fetchVars, pollVars, overrun>>

\* A scan registers every ticker with a spread; one not watched yet begins a watch and a
\* task.
ScanRegisters ==
    /\ \E s \in spread : s \notin watched \/ age[s] > 0
    /\ watched' = watched \cup spread
    /\ age' = [s \in Watchable |-> IF s \in spread THEN 0 ELSE age[s]]
    /\ watchNo' = [s \in Watchable |-> IF s \in spread \ watched THEN watchNo[s] + 1 ELSE watchNo[s]]
    /\ tasks' = tasks \cup (spread \ watched)
    /\ UNCHANGED <<spread, fetchVars, pollVars, overrun>>

\* Scans are more frequent than this unit of time: a ticker that keeps its spread does
\* not age.
TimePasses ==
    /\ \E s \in watched \ spread : age[s] <= WatchTTL
    /\ age' = [s \in Watchable |-> IF s \in watched \ spread /\ age[s] <= WatchTTL
                                  THEN age[s] + 1 ELSE age[s]]
    /\ UNCHANGED <<spread, watched, watchNo, tasks, fetchVars, pollVars, overrun>>

--------------------------------------------------------------------------------
\* _fetch_kraken_depth, _fetch_gate_depth: nothing while another fetch of it is under way.
FetchBegins(s, by) ==
    IF s \in pending
    THEN UNCHANGED <<pending, flights>>
    ELSE /\ pending' = pending \cup {s}
         /\ flights' = flights \cup {[sym |-> s, by |-> by, at |-> 0]}

TaskRuns(s) ==
    /\ s \in tasks
    /\ tasks' = tasks \ {s}
    /\ FetchBegins(s, "task")
    /\ UNCHANGED <<spread, watched, age, watchNo, misses, depth, pollVars, overrun>>

\* The exchange's answer, on its way.
Answers(s) ==
    \E f \in flights :
        /\ f.sym = s /\ f.at = 0
        /\ flights' = (flights \ {f}) \cup {[f EXCEPT !.at = watchNo[s]]}
        /\ UNCHANGED <<spread, watchVars, pending, misses, depth, pollVars, overrun>>

\* Mutant: the ticker stays marked as being fetched.
FetchEndsPending(f) ==
    /\ flights' = flights \ {f}
    /\ polling' = IF f.by = "loop" THEN {} ELSE polling
    /\ UNCHANGED pending

\* The end of a fetch, of either outcome.
FetchEnds(f) ==
    /\ pending' = pending \ {f.sym}
    /\ flights' = flights \ {f}
    /\ polling' = IF f.by = "loop" THEN {} ELSE polling

\* The book is stored, whether or not the ticker is still watched.
Stores(s) ==
    \E f \in flights :
        /\ f.sym = s /\ f.at > 0
        /\ depth' = [depth EXCEPT ![s] = f.at]
        /\ FetchEnds(f)
        /\ UNCHANGED <<spread, watchVars, misses, poll, active, overrun>>

\* HTTP status, timeout, unexpected body: the book that was there stays.
Misses ==
    \E f \in flights :
        /\ misses < MaxMisses /\ misses' = misses + 1
        /\ FetchEnds(f)
        /\ UNCHANGED <<spread, watchVars, depth, poll, active, overrun>>

--------------------------------------------------------------------------------
\* depth_poll_loop wakes: watches too old are dropped with their books.
Expired == {s \in watched : age[s] > WatchTTL}
\* Mutant: the book outlives its watch.
DroppedWatchOnly == depth

Dropped == [s \in Watchable |-> IF s \in Expired THEN 0 ELSE depth[s]]
PollWakes ==
    /\ poll = "sleep"
    /\ watched' = watched \ Expired
    /\ depth' = Dropped
    /\ overrun' = overrun \cup (Expired \cap (pending \cup tasks))
    /\ active' = watched \ Expired
    /\ poll' = "work"
    /\ UNCHANGED <<spread, age, watchNo, tasks, pending, flights, misses, polling>>

PollFetches ==
    /\ poll = "work" /\ polling = {}
    /\ \E s \in active :
          /\ active' = active \ {s}
          /\ polling' = IF s \in pending THEN {} ELSE {s}
          /\ FetchBegins(s, "loop")
    /\ UNCHANGED <<spread, watchVars, misses, depth, poll, overrun>>

PollEnds ==
    /\ poll = "work" /\ active = {} /\ polling = {}
    /\ poll' = "sleep"
    /\ UNCHANGED <<spread, watchVars, fetchVars, active, polling, overrun>>

--------------------------------------------------------------------------------
FetchStep(s) == TaskRuns(s) \/ Answers(s) \/ Stores(s)
PollStep == PollWakes \/ PollFetches \/ PollEnds
DepthNext ==
    \/ SpreadMoves \/ ScanRegisters \/ TimePasses \/ Misses \/ PollStep
    \/ \E s \in Watchable : FetchStep(s)

\* The scanner runs, an answer arrives in the end, the loop goes on.
DepthSpec ==
    /\ DepthInit /\ [][DepthNext]_depthVars
    /\ WF_depthVars(ScanRegisters) /\ WF_depthVars(PollStep)
    /\ \A s \in Watchable : WF_depthVars(FetchStep(s))

--------------------------------------------------------------------------------
DepthTypeOK ==
    /\ {spread, watched, tasks, pending, active, polling, overrun} \subseteq SUBSET Watchable
    /\ age \in [Watchable -> 0..(WatchTTL + 1)]
    /\ \A s \in Watchable : depth[s] \in 0..MaxWatches[s]
    /\ poll \in {"sleep", "work"}

\* The scanner is shown a book from before the present spread only if the earlier watch ended
\* while a fetch was under way: that fetch stores its book after the drop (depth_poll_loop
\* against the fetch tasks).
OldDepthHasCause ==
    \A s \in watched : depth[s] \in {0, watchNo[s]} \/ s \in overrun

\* A spread that stays open is given a book of its own watch, whatever failed before.
DepthArrives ==
    \A s \in Watchable : s \in spread ~> (s \notin spread \/ (s \in watched /\ depth[s] = watchNo[s]))
====
