------------------------------ MODULE PoolSync ------------------------------
(***************************************************************************)
(* cex_part/background_task.py: schedule_pool_sync(), the debounced        *)
(* single-flight wrapper of the pool sweep, beside the other callers of    *)
(* the sweep's lock: the minute loop of cex_part/main.py, which sweeps     *)
(* directly, and the refresh, upgrades and drops, which hold the same lock *)
(* for something else ("other").                                           *)
(*                                                                         *)
(* The exchange loops add tokens to the cache and then ask for a sweep.  A *)
(* sweep enumerates the cache once, right after it gets the lock, and      *)
(* spends minutes on what it read; tokens added meanwhile are not in it.   *)
(* What a sweep does to a token is in PoolBinding: here it covers it.      *)
(*                                                                         *)
(* The module's own _lock is taken by the single runner only and never     *)
(* makes it wait, so it is left out.                                       *)
(***************************************************************************)
EXTENDS Naturals, Sequences

CONSTANTS
  Tokens,     \* tokens the exchanges may list, each with a contract
  MaxFails    \* bound: sweeps that end with an exception

ASSUME SyncAssumption == MaxFails \in Nat

VARIABLES
  known,      \* tokens merged into cache_manager._CACHE
  task,       \* _task: "done" (also None), "debounce", "waiting", "sweeping"
  rerun,      \* _rerun
  loop,       \* _dex_pool_loop: "sleep", "waiting", "sweeping"
  other,      \* another holder of the lock: "away", "waiting", "holding"
  lock,       \* pools_io._OPERATION_LOCK: its waiters, holder first
  reading,    \* tokens the running sweep enumerated
  attempted,  \* history: tokens some sweep enumerated
  covered,    \* history: tokens some sweep finished with
  fails       \* sweeps that failed

vars == <<known, task, rerun, loop, other, lock, reading, attempted, covered,
          fails>>
----------------------------------------------------------------------------
Contenders == {"runner", "loop", "other"}

Init ==
  /\ known = {}
  /\ task = "done"
  /\ rerun = FALSE
  /\ loop = "sleep"
  /\ other = "away"
  /\ lock = <<>>
  /\ reading = {}
  /\ attempted = {}
  /\ covered = {}
  /\ fails = 0

(* Mutant: a request made during a run is taken for served by it. *)
ScheduleIgnoresRunning ==
  IF task # "done"
    THEN UNCHANGED <<rerun, task>>
    ELSE rerun' = FALSE /\ task' = "debounce"

(* schedule_pool_sync() *)
Schedule ==
  IF task # "done"
    THEN rerun' = TRUE /\ UNCHANGED task
    ELSE rerun' = FALSE /\ task' = "debounce"

(* An exchange loop merged a new token; merge_token has awaited its flush  *)
(* in between, which changes nothing here.                                 *)
Merge(t) ==
  /\ t \notin known
  /\ known' = known \cup {t}
  /\ Schedule
  /\ UNCHANGED <<loop, other, lock, reading, attempted, covered, fails>>

(* drop_pool_for_replacement asks for a sweep without adding a token. *)
Ask ==
  /\ Schedule
  /\ UNCHANGED <<known, loop, other, lock, reading, attempted, covered, fails>>
----------------------------------------------------------------------------
(* asyncio.Lock: taken at once when nobody holds it or waits for it. *)
LockFree == lock = <<>>
Holds(a) == lock # <<>> /\ Head(lock) = a

(* _sync_pools_with_cache_locked enumerates the cache at its start. *)
StartReading ==
  /\ reading' = known
  /\ attempted' = attempted \cup known

(* The runner's debounce is over: it clears the flag, then asks for the    *)
(* lock and reads at once if the lock is free.                             *)
DebounceOver ==
  /\ task = "debounce"
  /\ rerun' = FALSE
  /\ lock' = Append(lock, "runner")
  /\ IF LockFree
       THEN task' = "sweeping" /\ StartReading
       ELSE task' = "waiting" /\ UNCHANGED <<reading, attempted>>
  /\ UNCHANGED <<known, loop, other, covered, fails>>

RunnerReads ==
  /\ task = "waiting"
  /\ Holds("runner")
  /\ task' = "sweeping"
  /\ StartReading
  /\ UNCHANGED <<known, rerun, loop, other, lock, covered, fails>>

(* Mutant: every token of the cache counts as swept, read or not. *)
SweepResultAllKnown == covered' = covered \cup known /\ UNCHANGED fails

(* The end of a sweep, good or bad: an exception leaves any part of the    *)
(* tokens undone (gather raises the first one) and is swallowed by the     *)
(* caller.                                                                 *)
SweepResult ==
  \/ covered' = covered \cup reading /\ UNCHANGED fails
  \/ /\ fails < MaxFails
     /\ fails' = fails + 1
     /\ \E part \in SUBSET reading : covered' = covered \cup part

(* Mutant: the flag is looked at only when the run had nothing to do. *)
AfterSweepIdleOnly == IF rerun /\ reading = {} THEN "debounce" ELSE "done"

(* "if anyone called schedule_pool_sync while we were running" *)
AfterSweep == IF rerun THEN "debounce" ELSE "done"

RunnerEnds ==
  /\ task = "sweeping"
  /\ SweepResult
  /\ lock' = Tail(lock)
  /\ reading' = {}
  /\ task' = AfterSweep
  /\ UNCHANGED <<known, rerun, loop, other, attempted>>

LoopTick ==
  /\ loop = "sleep"
  /\ lock' = Append(lock, "loop")
  /\ IF LockFree
       THEN loop' = "sweeping" /\ StartReading
       ELSE loop' = "waiting" /\ UNCHANGED <<reading, attempted>>
  /\ UNCHANGED <<known, task, rerun, other, covered, fails>>

LoopReads ==
  /\ loop = "waiting"
  /\ Holds("loop")
  /\ loop' = "sweeping"
  /\ StartReading
  /\ UNCHANGED <<known, task, rerun, other, lock, covered, fails>>

(* Mutant: the minute loop has no try around the sweep and dies with it. *)
LoopEndsUnguarded ==
  /\ loop = "sweeping"
  /\ SweepResult
  /\ lock' = Tail(lock)
  /\ reading' = {}
  /\ loop' = IF fails' = fails THEN "sleep" ELSE "waiting"
  /\ UNCHANGED <<known, task, rerun, other, attempted>>

LoopEnds ==
  /\ loop = "sweeping"
  /\ SweepResult
  /\ lock' = Tail(lock)
  /\ reading' = {}
  /\ loop' = "sleep"
  /\ UNCHANGED <<known, task, rerun, other, attempted>>

OtherAsks ==
  /\ other = "away"
  /\ lock' = Append(lock, "other")
  /\ other' = IF LockFree THEN "holding" ELSE "waiting"
  /\ UNCHANGED <<known, task, rerun, loop, reading, attempted, covered, fails>>

OtherHolds ==
  /\ other = "waiting"
  /\ Holds("other")
  /\ other' = "holding"
  /\ UNCHANGED <<known, task, rerun, loop, lock, reading, attempted, covered,
                 fails>>

OtherReleases ==
  /\ other = "holding"
  /\ lock' = Tail(lock)
  /\ other' = "away"
  /\ UNCHANGED <<known, task, rerun, loop, reading, attempted, covered, fails>>

Next ==
  \/ \E t \in Tokens : Merge(t)
  \/ Ask
  \/ DebounceOver \/ RunnerReads \/ RunnerEnds
  \/ LoopTick \/ LoopReads \/ LoopEnds
  \/ OtherAsks \/ OtherHolds \/ OtherReleases

Spec == Init /\ [][Next]_vars

(* Timers fire, every network call has a timeout, the lock is handed on:   *)
(* whoever waits for the lock gets it, whoever holds it ends.  Nobody is   *)
(* obliged to list a token, to start another refresh or, here, to start    *)
(* the minute loop's next sweep.                                           *)
RunnerFairness ==
  WF_vars(DebounceOver) /\ WF_vars(RunnerReads) /\ WF_vars(RunnerEnds)
LoopFairness == WF_vars(LoopReads) /\ WF_vars(LoopEnds)
OtherFairness == WF_vars(OtherHolds) /\ WF_vars(OtherReleases)

FairSpec == Spec /\ RunnerFairness /\ LoopFairness /\ OtherFairness

(* The minute loop is started and does come back. *)
LoopTicks == WF_vars(LoopTick)
----------------------------------------------------------------------------
TypeOK ==
  /\ known \subseteq Tokens
  /\ task \in {"done", "debounce", "waiting", "sweeping"}
  /\ rerun \in BOOLEAN
  /\ loop \in {"sleep", "waiting", "sweeping"}
  /\ other \in {"away", "waiting", "holding"}
  /\ lock \in Seq(Contenders)
  /\ reading \subseteq known
  /\ attempted \subseteq known
  /\ covered \subseteq attempted
  /\ fails \in 0..MaxFails

(* "If a sync is already running and another request arrives, we set a     *)
(* re-run flag so the worker does another pass after it finishes -         *)
(* otherwise new tokens added during the run would never be linked": a     *)
(* token no sweep has enumerated yet has the runner alive and bound to     *)
(* enumerate the cache again, whichever sweep holds the lock.              *)
Promised == task \in {"debounce", "waiting"} \/ (task = "sweeping" /\ rerun)
NoRequestForgotten == known \subseteq attempted \/ Promised

(* The request is served by the runner alone: every new token is           *)
(* enumerated by a sweep although the minute loop need never start one.    *)
EveryTokenAttempted ==
  \A t \in Tokens : t \in known ~> t \in attempted

(* If the minute loop comes back, every new token is also dealt with to    *)
(* the end, a limited number of failing sweeps notwithstanding.            *)
EveryTokenCovered ==
  LoopTicks => \A t \in Tokens : t \in known ~> t \in covered
=============================================================================
