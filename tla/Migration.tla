---- MODULE Migration ----
(* The one-off migration of bound pools (core/pool_migrate.py): a worklist is *)
(* gone through, with the progress saved every few items and the token file   *)
(* flushed every few more, so that an interrupted run can be resumed.  The    *)
(* pool files are written at once by replace_pool and not followed here.      *)
EXTENDS Naturals, FiniteSets

CONSTANTS
    Items,         \* tokens with a pool on a chain that is migrated
    SaveEvery,     \* _SAVE_EVERY
    FlushEvery,    \* _FLUSH_EVERY
    MaxRuns,       \* runs of the script
    MaxHits        \* items not answered for, blacklisted, or whose upgrade raises

ASSUME MigrationAssumption ==
    /\ {SaveEvery, FlushEvery} \subseteq Nat \ {0} /\ {MaxRuns, MaxHits} \subseteq Nat
    /\ IsFiniteSet(Items)

VARIABLES
    run,           \* "off", or the step of the loop: "item" "save" "flush"
    runs,          \* runs begun so far
    count,         \* items of this run so far
    left,          \* what it has still to do
    done,          \* its progress
    doneFile,      \* the progress file
    linked,        \* items whose better pool is linked in the cache
    linkFile,      \* those linked in cex_tokens.json
    hits,          \* exceptional items so far
    refused,       \* history: items that have no better pool they could be given
    kills,         \* history: runs killed
    skips          \* history: flushes left out for a blacklisted item

fileVars == <<doneFile, linkFile>>
lossVars == <<refused, kills, skips>>
migVars == <<run, runs, count, left, done, linked, hits, fileVars, lossVars>>

MigInit ==
    /\ run = "off" /\ runs = 0 /\ count = 0 /\ left = {} /\ done = {} /\ doneFile = {}
    /\ linked = {} /\ linkFile = {}
    /\ hits = 0 /\ refused = {} /\ kills = 0 /\ skips = 0

\* Mutant: the counter goes on from the run before.
RunBeginsCounting ==
    /\ run = "off" /\ runs < MaxRuns
    /\ runs' = runs + 1
    /\ linked' = linkFile /\ done' = doneFile
    /\ left' = Items \ doneFile /\ left' # {}
    /\ run' = "item"
    /\ UNCHANGED <<count, fileVars, hits, lossVars>>

\* init_cache, _load_progress and _build_worklist; with nothing left the run is over.
RunBegins ==
    /\ run = "off" /\ runs < MaxRuns
    /\ runs' = runs + 1 /\ count' = 0
    /\ linked' = linkFile /\ done' = doneFile
    /\ left' = Items \ doneFile /\ left' # {}
    /\ run' = "item"
    /\ UNCHANGED <<fileVars, hits, lossVars>>

Takes(i) ==
    /\ run = "item" /\ i \in left
    /\ left' = left \ {i} /\ count' = count + 1

\* The better pool is registered and linked; add_pool's own flush may write.
Migrates(i) ==
    /\ Takes(i)
    /\ done' = done \cup {i} /\ linked' = linked \cup {i}
    /\ linkFile' \in {linkFile, linked'}
    /\ run' = "save"
    /\ UNCHANGED <<runs, doneFile, hits, lossVars>>

\* The item is done without a link: it has no better pool, or the upgrade raised.
MigratesNothing(i) ==
    /\ Takes(i) /\ hits < MaxHits /\ hits' = hits + 1
    /\ done' = done \cup {i} /\ refused' = refused \cup {i}
    /\ run' = "save"
    /\ UNCHANGED <<runs, linked, fileVars, kills, skips>>

\* No answer: the item is left for the next run.
Defers(i) ==
    /\ Takes(i) /\ hits < MaxHits /\ hits' = hits + 1
    /\ run' = "save"
    /\ UNCHANGED <<runs, done, linked, fileVars, lossVars>>

\* A blacklisted one is done, and the loop continues without looking at its counters.
Skipped(i) ==
    /\ Takes(i) /\ hits < MaxHits /\ hits' = hits + 1
    /\ done' = done \cup {i} /\ refused' = refused \cup {i}
    /\ skips' = IF count' % FlushEvery = 0 THEN skips + 1 ELSE skips
    /\ UNCHANGED <<run, runs, linked, fileVars, kills>>

SavesProgress ==
    /\ run = "save"
    /\ doneFile' = IF count % SaveEvery = 0 THEN done ELSE doneFile
    /\ run' = "flush"
    /\ UNCHANGED <<runs, count, left, done, linked, linkFile, hits, lossVars>>

FlushesTokens ==
    /\ run = "flush"
    /\ linkFile' = IF count % FlushEvery = 0 THEN linked ELSE linkFile
    /\ run' = "item"
    /\ UNCHANGED <<runs, count, left, done, doneFile, linked, hits, lossVars>>

\* Mutant: the progress is saved at the end, the tokens are not flushed.
RunEndsUnflushed ==
    /\ run # "off"
    /\ run' = "off"
    /\ doneFile' = done
    /\ UNCHANGED <<runs, count, left, done, linked, linkFile, hits, lossVars>>

\* The end of the loop, or Ctrl+C: finally saves and flushes.
RunEnds ==
    /\ run # "off"
    /\ run' = "off"
    /\ doneFile' = done /\ linkFile' = linked
    /\ UNCHANGED <<runs, count, left, done, linked, hits, lossVars>>

\* The process is killed: finally does not run.
RunKilled ==
    /\ run # "off"
    /\ run' = "off" /\ kills' = kills + 1
    /\ UNCHANGED <<runs, count, left, done, linked, fileVars, hits, refused, skips>>

MigNext ==
    \/ RunBegins \/ SavesProgress \/ FlushesTokens \/ RunEnds \/ RunKilled
    \/ \E i \in Items : Migrates(i) \/ MigratesNothing(i) \/ Defers(i) \/ Skipped(i)

MigSpec == MigInit /\ [][MigNext]_migVars

--------------------------------------------------------------------------------
MigTypeOK ==
    /\ {left, done, doneFile, linked, linkFile, refused} \subseteq SUBSET Items
    /\ run \in {"off", "item", "save", "flush"} /\ count \in 0..Cardinality(Items)

\* The progress file calls items done, so that no later run looks at them, whose link is not in
\* the token file only after a kill, and then at most a flush interval's worth for each kill and
\* each flush a blacklisted item left out (_save_progress against flush).
LossIsBounded ==
    run = "off" =>
        LET lost == doneFile \ (linkFile \cup refused)
        IN  /\ kills = 0 => lost = {}
            /\ Cardinality(lost) <= FlushEvery * (kills + skips)
====
