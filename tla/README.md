# A formal model of the CEX/DEX arbitrage bot

The bot watches the prices of some 1500 tokens on centralised exchanges (Bybit,
Gate, Kraken) and in DEX pools (Ethereum, BSC, Base) and reports spreads. It is one
asyncio loop with a few worker threads. These modules model the parts whose
correctness depends on *order*: who may rewrite which file when, which pool's
price reaches which token, what is remembered across awaits and restarts.

Every definition is translated from the Python source; `PROJECT.json` ("map") gives
the lines each one stands for.

## The system

| Component | State | Operations | Hard part |
|---|---|---|---|
| **Pool file** `dex_part/core/pools_io.py` | `pools.json`, a short file lock, `_OPERATION_LOCK` | `load`, `save`, `mutate` | holders of the operation lock work for minutes on the copy they loaded; `mutate` does not take that lock |
| **Discovery sweep** `cex_part/core/dex_pool_manager.py` | copy of the pool file, no-pool table | one DexScreener query per token, save, link | many concurrent queries, answers in any order |
| **Refresh, drop, swap** `cex_part/core/pool_refresh.py` | copy of the pool file | daily validation, eviction of a bad pool, replacement by a better one | what was read before the lock is used after it; four structures changed in steps |
| **Reject list** `dex_part/core/bad_pools.py` | counters and rejections, in memory | count, reject, expire | rejection races discovery |
| **Token cache** `cex_part/cache_manager.py` | `_CACHE`, `_INDEX`, pending counters, two JSON files | merge, resolve, `add_pool`, `flush` | ticker collisions; written only now and then; restarts |
| **Sync runner** `cex_part/background_task.py`, `cex_part/main.py` | `_task`, `_rerun` | `schedule_pool_sync`, `_runner`, minute loop | requests during a run |
| **Price store** `engine/price_store.py` | per token: CEX quotes, one DEX price per chain | `update_cex`, `update_dex`, `remove_dex_by_pool` | written by the loop and by a thread; routed by the pool index |
| **WS sessions** `dex_part/core/chain_monitor.py`, `v4_monitor.py`, `ws_subscriber.py`, `pools_watcher.py`, `engine/endpoints.py` | metadata per session, restart event, cursor | connect, receive, restart, back off, rotate | restart signals between clear and wait; failed initialisation; two sessions, one cursor |
| **Reconciliation** `pool_reconcile.py`, `pool_registry.py` | registry of pools | multicall sweep in a thread | preemption inside `update_dex` |
| **Liquidity filter** `engine/liquidity_filter.py` | verdict cache, pending set | `is_low_liquidity`, fetch, upgrade | decision before the lock, swap after it; stale verdicts |
| **Rate limiter** `engine/rate_limiter.py` | a token bucket per host | `acquire` | sleeping with the lock held, several callers |
| **CoinGecko, Kraken pending** `engine/coingecko.py` | id tables, pending table on disk | lookup, retry loop | table read before, saved after awaits |
| **CEX books** `cex_part/core/orderbooks.py`, `cex_orderbooks/*` | books with sequence number, subscriptions | snapshot, delta, reconnect, rebuild shards | duplicates, gaps, restarts |
| **Depth watch** `orderbook_depth.py` | watch set, polled books | register, poll, expire | an answer for a pair no longer watched |
| **Scanner** `engine/spread_logic/*`, `network_status.py` | last results | route enumeration, spreads, duplicate filter | staleness of its inputs |
| Native price, bootstrap, decoders, metadata | prices, caches | RPC reads | numeric conversions |

They meet in four places: the pool file (sweep, refresh, swap, drop, version
detector write it; sessions and the watcher read it), the pool index of the token
cache (links and unlinks write it; every price update reads it), the reject list,
and the rate limiter's buckets. The watcher turns a change of the file into restart
events for the sessions.

For each component, what makes it correct: the file never loses another actor's
rows; a token's price comes from a pool of its own contract, and disappears with
that pool; a ticker has one row; links and index agree; a rejected pool stays out;
every token gets its sweep; calls to a host stay under its limit; sessions follow the
file and leave a bad endpoint; a book shown is one the exchange had; tokens of one
ticker stay apart; a new listing gets its stream, an undecided one stays queued; a
verdict is for the pool listened to; what the log says is what the market offers.
`PROJECT.json` ("hazards") lists what can go wrong, line by line.

## Modules

**`TokenBucket`** - `engine/rate_limiter.py`. Time in ticks, tokens in fractions of
a call, so that everything is an integer; `Unit`, `Rate` and `Capacity` are
arbitrary. `Turn` is one pass through `acquire`'s loop; `queue` is asyncio.Lock's
queue with the holder at its head. Timers may fire early (the loop's clock
resolution, so the loop does turn twice) or late.

**`PoolSync`** - `background_task.py` beside the minute loop and any other holder of
the operation lock. A sweep is its enumeration (`StartReading`) and its end
(`SweepResult`), which may be an exception that leaves tokens undone.

**`PoolBinding`** - the core: the pool file (`disk`), the token's lists and the pool
index (`bound`, `idx`), what `cex_tokens.json` holds (`saved`), the price slots
(`slot`), the reject list (`rejected`, `bad`), the operation lock and the copy of
whoever holds it (`holder`, `snap`), and the half-done work of the actors:
queries (`fetching`), links to do (`links`), the refresh's stages, an `upgrade` per
token, a `drop` per pool, the session's pools (`streamed`), the thread's pending
write (`thread`). One chain: all structures are keyed by chain and chains do not
interact here.

| Actor | Actions | Code |
|---|---|---|
| sweep | `SweepStart`, `FetchFound`, `FetchNothing`, `SweepLinks`, `SweepEnd` | `dex_pool_manager.py:117-266` |
| refresh | `RefreshStart`, `RefreshChecked`, `RefreshRebinds`, `RefreshSaves`, `RefreshEnd` | `pool_refresh.py:352-464` |
| upgrade | `UpgradeAsks`, `UpgradeDeclines`, `UpgradeDecides`, `UpgradeGetsLock`, `UpgradeLinks` | `liquidity_filter.py:353-706`, `pool_refresh.py:220-349` |
| drop | `BadPrice`, `DropStarts`, `DropGetsLock`, `RejectionExpires` | `bad_pools.py`, `pool_refresh.py:163-217` |
| session, thread | `SessionStarts`, `Swap`, `VersionFound`, `ThreadRoutes`, `ThreadWrites` | `chain_monitor.py`, `pool_reconcile.py`, `price_store.py:122-154` |
| persistence | `Flush`, `Crash` | `cache_manager.py:89-127` |

An action is what the code does between two awaits that can really suspend.
`pools_io.load` and `save` do their work synchronously under a lock nobody keeps
across an await, so they do not suspend; `add_pool` waits for the cache's file
lock, which `flush` keeps across its disk write, so a link is a step of its own.
A drop that finds the operation lock free and one that waits for it are two actions
(`DropStarts`, `DropGetsLock`) with the same effect `Evict`; likewise for upgrades.

Abstracted: the ranking of candidates by volume (any offered pool may come first),
the no-pool cooldown (a sweep may skip any token), the answer of DexScreener to the
refresh (any set of rows may be stale), prices (only the pool they come from),
the order of a token's pool list (the upgrade compares with any bound pool).
`SymbolOf` is fixed: metadata merges are the business of `TokenCache`. I/O errors
of the local disk are not modelled.

**`WsSession`** - the V2/V3 session and the V4 session of one chain as two copies of
one loop (`stage`, `url`, `erring`) around a shared endpoint `cursor`, the file as the
watcher compares it (`file`, `known`, `touched`), the restart `event`, the rows a
session `loaded` and the V4 pools it `subscribed`. A session's locals are gone when
it ends. `ChainStarts` is everything `monitor_chain` and `_run_ws_session` do before
their first real await: clear the event, read the cursor, read the file. `Error` is
the handler of a session error in either monitor; `Refused` raises one because of the
endpoint (`Kind`), `Stumbles` for another reason; `LiveEnds`, a file without rows and
failed metadata end a session cleanly. Back-off times are left out: only that the
session sleeps and wakes. The history variable `undone` notes the one case in which
the watcher cannot see that a session's rows are old: a change was loaded by it and
taken back between two polls.

**`BybitBook`** - one symbol of Bybit's feed: the exchange's books (`exchange`), what
it has sent (`served`, `sent`), the messages on the way, the connection loop (`link`,
`socket`, `listening`), a `subscribe_symbol` called while it runs (`caller`), and the
book (`core/orderbooks.py`) with the position it was last merged at. `Taken` and
`Merged` are `apply_delta` with its rule for `u`; the exchange conflates, repeats,
restarts at 1. A close in good order ends the reading loop and nothing else: the ready
event stays set and `self.ws` is the old socket. The loop asks whether a topic is
subscribed before it waits for the send lock and not again (`LoopGetsLock`), so a topic
may be subscribed twice and its book sent anew.
**`BookPromise`** is the abstract specification: a reader sees a book the exchange
really had, never older than before, and the price store the quote of the last
two-sided one. `BybitBook` implements it (`INSTANCE BookPromise WITH`, property
`BookKeepsPromise`).

**`TokenCache`** - `cache_manager.py` as a store of entries under keys: merging the
exchanges' metadata (`Resolved`, `Compatible`, `Disambiguated`, `MergedEntry`), the
indexes kept by hand (`IndexedBy`) and built anew (`Rebuilt`), CoinGecko's verification
(`WithCoin`, `Verified`), start and clean-up (`Starts`), and the routing of quotes
(`RouteKeys`, `QuoteKey`). Reports and coins are arbitrary sets of records that tell the
truth about contracts. A contract is `<<chain, digits, rest>>`, because the key made for
a taken ticker keeps only eight digits of the contract, on the first chain by name
(`Short`, `First`, `Disambiguated`). `merge_token` means to "pick a key that's free"
(`cache_manager.py:478`) but writes under it without looking (488): two tokens of a ticker
whose contracts begin alike share the key, and the second is written over the first.
`overwritten` notes these entries; with `rescued` they are the `Muddled` ones, which the
properties of the cache except by name.

**`KrakenPending`** - one listing's way from `run_kraken` through the queue on disk and
the retry loop to a decision or a drop: `TriesFresh`, `LoopReloads` and `LoopGoesOn` are
cut where the code awaits; the loop's `table` is the copy it will write over the file.

**`Listings`** - the minute loop of one of the three exchanges (`venue`) with its
awaits, the two files it saves, Gate's connection and Kraken's shard supervisor. For
Bybit being among the manager's topics is enough; `BybitBook` goes on from there.

**`Verdict`** - the liquidity verdict of one token: fetch, sums, upgrade, floor, and
time to live, while the bound pool may be changed by others.

**`Migration`** - the one-off migration script: work, checkpoints every few items,
interruption (finally runs), kill (it does not), resumption.

**`DepthWatch`** - REST depth for tickers with a spread: watch set with expiry, fetch
tasks and the loop, in-flight marks. **`NetworkStatus`** - the flag of one token behind a
loop with two intervals. **`SpreadScan`** - one token on one chain: `Survives` is the
gates of `scan_snapshot` - the blacklists of exchange and chain, the route, the
threshold, both ages, the depth - and `Rows` adds the liquidity verdict; `Gain` and
`Crosses` are the calculators, `Scans` one turn of the runner. The blacklists come from
the configuration and do not change while the process runs. Percentages are kept as
fractions, so that rounding happens where the code rounds.

**`MC...`** modules give the constants their values. `MCFeeds`, `MCUpkeep` and
`MCPolling` hold components of one area that share no state; a variable `part`, fixed
in the initial state, says which of them runs while the others keep theirs, so one
run explores the sum, not the product, of their states. **`...Proofs`** hold the theorems.

## Runs

| Run | Bounds | What it shows |
|---|---|---|
| `MCPolling`: limiter | 3 callers, cost 3, refill 2 per tick, capacity 7, 16 ticks, 6 calls | type, `RateBound`, `EveryCallServed`. The fractions never come out even, the bucket both overflows and empties, all three callers queue. |
| `MCPolling`: depth | 2 tickers, one with 2 watches; expiry after one unit; 1 failure | `OldDepthHasCause`, `DepthArrives`. Two watches of one ticker are what it takes to show a book of the wrong one. |
| `MCPolling`: network | naps of 1 and 4, hot for 6; wrong flags followed for up to 6 | `FlagSeenInTime`: a passive nap may be running when a token becomes hot. |
| `MCPolling`: scan | 2 exchanges, 3 quotes (one crossed), 4 DEX prices around the threshold and around rounding steps, no exchange or one blacklisted | `LogIsCurrent`. Prices that differ by less than a rounding step are among them. |
| `MCUpkeep`: sync | 2 tokens, 2 failing sweeps | type, `NoRequestForgotten`, `EveryTokenAttempted` (by the runner alone), `EveryTokenCovered` (if the minute loop ticks). Two tokens are enough for one to arrive before and one during a sweep; two failures, for the loop and the runner to lose one each. |
| `MCUpkeep`: listings | each of the 3 exchanges, 2 symbols, at most one unusual (no metadata, or an alias), 2 changes of the list, 1 failure or restart | `ListingAccounted`, `ListingStreamed` (liveness) |
| `MCUpkeep`: verdict | 2 pools, 5 markets (dust, upgrade, no upgrade, small, unpriceable), 2 changes, 2 failures | `OkIsForTheBound`, `LowRecovers` (liveness) |
| `MCUpkeep`: migration | 4 items, a save every 1, a flush every 2, 2 runs, 1 exceptional item | `LossIsBounded`: a kill between save and flush, and a skipped flush, both happen. |
| `MCFeeds`: book | 2 bid levels, 1 ask level, 3 books, 3 connections, 1 repeat | `BookKeepsPromise` (refinement), `BookCatchesUp` (liveness). Three books: one subscribed to, one missed, one restarted from. |
| `MCFeeds`: cache | Litentry, Lit Protocol and a third token under one ticker, one of the third's two contracts beginning like Lit Protocol's; 5 reports, 2 coins, 1 restart | `NoMixing`, `LookupsAreTrue`, `EntriesStay`. Of Lit Protocol and the third token the later one gets the earlier one's key and is written over it, and the next report of the earlier one is merged into it. |
| `MCFeeds`: pending | 2 tickers, 1 failure or restart | `OpenIsQueued`, `KnownIsDecided` (liveness) |
| `KrakenDisproved` | as `MCFeeds`, no restart | *violated:* `KrakenNotOnDisproved` |
| `BindingCore` | 1 token on the chain, a namesake elsewhere, 2 pools, 1 restart | type, `IndexMatchesLists`, `CopyHasFileRows`, `OnlyRefreshOrphans` with sweep, refresh, upgrade and drop |
| `BindingThreads` | the same, `THRESHOLD` 2, no upgrades | `RejectedStaysOut`, `OneRowPerTicker`, `PricedFromOwnPool` with version detector and thread |
| `BindingSteady` | 2 tokens, 3 pools, one ticker blacklisted after its row was saved | `ListedPoolsHaveRows`, `RowsGetLinked` (liveness) |
| `MCWsSession` | 2 rows, 2 V4 pools, 4 endpoints (dead, banning, 2 good), 2 rewrites | type, `NoChangeMissed`, `FeedFollowsFile`, `V4PoolStreamed`. Two rewrites make a change and its reversal; two V4 pools, one to subscribe and one to resubscribe for; two good endpoints, so that the list cannot go round before one comes up. |
| `SessionDark` | the same, 2 endpoints (dead, good), 1 V4 pool, no rewrites | *violated:* `ChainStaysLit` |
| `BindingVersion` | 2 tokens, sweep and version detector | *violated:* `VersionKept` |
| `BindingStale` | 1 token, sweep, drop, thread | *violated:* `NoStalePrice` |
| `BindingSwap` | 1 token, sweep, upgrade, drop | *violated:* `OneRowPerTicker` |

Two pools of one token are the smallest instance in which one replaces another;
the namesake makes `add_pool` choose; one restart suffices because it may happen
anywhere and everything but the two files starts afresh. `PoolBinding`'s `Features`
switch actors on: with all of them at once the state space exceeds what five minutes
allow, so each run has the actors its properties are about. The pairs that meet in no
run are an upgrade or a restart with the version detector or the reconciliation thread.
`MCPolling`, `MCUpkeep` and `MCFeeds` turn the deadlock check off: the limiter's clock ends at `MaxTime`, a migration that is done and
a cache into which everything is merged really stop. Every other run has it on.

### What the violated runs show

* **A version is lost.** `pools_io.mutate` takes the short file lock only. A sweep
  that loaded the file earlier saves its copy, in which the version is still None
  (`pools_io.py:24-30` names the two other operations as the only callers of the
  long lock). The session detects it again at a later start, until then the pool
  is not reconciled after a restart.
* **A stale price comes back.** `update_dex` runs in the reconciliation thread. If the
  loop drops the pool between the thread's look at the index and its write, the
  price `remove_dex_by_pool` was called for lingers.
* **Two rows for one ticker.** An upgrade reads which pool the token has before it waits
  for the operation lock. In the trace a drop has unlinked the token's pool, so the
  upgrade finds none and will add its own as a first one (`liquidity_filter.py:580-582`).
  Meanwhile a sweep, which holds the lock, has saved a row for another pool, and links
  it. Then the upgrade gets the lock: with no old pool, `replace_pool` takes no row
  away and adds one beside the sweep's - here of the pool the drop had evicted, which
  GeckoTerminal still ranks first. `BindingThreads` shows that the other actors leave a
  ticker one row; it has no upgrades and so says nothing of this hazard.
* **One dead endpoint darkens a chain.** The V2/V3 and the V4 session share the cursor
  of `engine/endpoints.py`. Each reads it when it starts and advances it when it
  fails, wherever it is by then. With two endpoints, two sessions that fail on the
  dead one advance it twice and meet there again. `endpoints.py:8-9`: "A single dead
  endpoint therefore can't darken a chain". Their back-offs are equal, so they need
  not drift apart. With two good endpoints behind the bad ones (`MCWsSession`) the
  sessions do get through.

* **A quote lands on the wrong token.** Once CoinGecko has disproved a Kraken listing,
  `resolve_key_for_cex_symbol` excludes its entry and answers None; `update_cex` then
  takes the ticker itself as the key, which is the key of that entry. The feed goes on
  until the next start.

Some properties name the ways in which the code does lose something, as history
variables: a Kraken listing cut off between merge and queue (`cutOff`) or registered
while the retry loop holds its copy of the queue (`amid`); a listing whose round failed
or that a restart did not restore (`hit`); a depth book stored after its watch has ended
(`overrun`); contracts of two tokens in an entry for which a coin was adopted by ticker
(`rescued`), and an entry a new token was written over, whose contracts the index still
leads to it (`overwritten`). They state that nothing else does.

Two more disagreements are listed as hazards without a run: two tokens with one
ticker on one chain share `add_pool`'s first choice (the theorems below need
`NoTwins`), and a drop reads the ticker of its pool before it waits for the lock,
so a link made meanwhile survives it.

## Fairness

* `TokenBucket`: weak fairness of `HolderRuns` and `Tick`: the loop runs due timers,
  time passes.
* `PoolSync`: weak fairness of the runner's steps, of the holders' ends (every query
  has a timeout, every caller catches exceptions) and of handing on the lock.
  asyncio.Lock is first come, first served, and the model keeps its queue, so weak
  fairness suffices. Nobody is obliged to list a token or to ask. The minute loop's
  tick is a hypothesis of `EveryTokenCovered` only.
* `WsSession`: every step of the loops is weakly fair: the watcher polls, handshakes and
  metadata reads end by their timeouts, the receive loop looks at the event every half
  minute, the V4 loop at its cache every minute. One await has no timeout, the
  acknowledgement of the V4 subscription (`v4_monitor.py:144`). A dead peer is found out
  by the socket's own pings (`ping_interval=20`) and ends the session; that a peer which
  answers pings also acknowledges is an assumption, and `V4PoolStreamed` rests on it.
  Nobody is obliged to write the file, close a connection or discover a pool.
  `Settles` is a hypothesis, not fairness: from some moment on good endpoints do not
  stumble and the RPC does not fail for every pool at once. The code needs both: a
  session without any metadata ends cleanly, which resets the count that would move
  it to another endpoint, and stumbling turns the cursor the other session depends on.
* `BybitBook`: weak fairness of the connection loop, of the caller and of the exchange's
  pushes; not of trades, failures or listings. `Listings`: of the minute loop and of the
  managers, which catch every exception and sleep. `KrakenPending`: of the retry loop and
  of the round, for the same reason. `Verdict`: of the check (its requests time out) and
  of time. `DepthWatch`: of the scanner, of each ticker's fetch and of the loop; a fetch
  ends with an answer or a timeout, and only finitely many fail (`MaxMisses`).
* `PoolBinding`: the sweep's and the refresh's steps are weakly fair; `RefreshStart`
  strongly: the lock is taken and released in between, and asyncio.Lock serves in
  order, so the refresh that asks every interval gets it.

## Proofs

TLAPS checks these for every value of the constants, from the named assumptions in
the modules, which TLC evaluates on the instances:

* numbers are numbers, token and item sets are finite, a hot nap is shorter than a
  passive one and that than the time to live, entries join a ticker's list one by one,
  the rows an earlier run left were found like any other;
* `BookAssumption`: each side of the book has some prices, finitely many (a book is
  a finite message), and the bids are below the asks (the exchange has matched what
  crosses);
* `CacheAssumption`: a contract belongs to one token, a token has at most one contract
  per chain (`_CACHE` keeps contracts in a table by chain), chains are ordered by name,
  and reports and coins tell the truth about contracts, Kraken's reports having none.
  Nothing is assumed of how contracts begin.

The theorems are in a `...Proofs` module per core component and per area: `FeedsProofs`
(with `BybitBookProofs` below it), `UpkeepProofs` and `PollingProofs` each extend the
`MC` module of their area, whose state is the sum of its components'.

### Limiter and sync runner

* **`BucketRateBound`** - in any window, from the i-th call to the j-th, the calls cost
  no more than one full bucket plus the window's refill. `RateBound` says nothing of
  the fractions still in the bucket; `Credit` adds them: what was paid since the i-th
  call plus what is left never exceeds a full bucket plus what the time up to the
  last refill brought. The bounds of the model do not enter the proof.
* **`SyncForgetsNoRequest`** - a token no sweep has read has the runner in its debounce,
  waiting for the lock, or sweeping with the re-run flag up. The invariant adds
  which stage goes with which place in the lock's queue.

### Pool lifecycle

* **`BindingTypeCorrect`** - with `Stages`, which ties the refresh's and the sweep's
  leftovers to their holder.
* **`BindingCopyFaithful`** - while a sweep or a refresh works on its copy nobody adds a
  row to the file or takes one away. It is inductive over the types.
* **`BindingOwnPool`** - on a chain without two tokens of one ticker (`NoTwins`), a
  token's price comes from a pool of its own contract. `OwnInv` follows a pool through
  every place an actor carries it: file, copy, lists, saved lists, index, waiting
  upgrades and drops, the thread's pending write.
* **`BindingIndexMatches`** - if moreover no pool belongs to two tokens
  (`NoSharedPools`), index and lists agree at every step, restarts included.
* **`BindingRejectedStayOut`**, **`BindingOneRow`** - with automatic upgrades off
  (`POOL_AUTO_UPGRADE`): `replace_pool` does not ask the reject list, and may find the
  row it was to replace gone (`BindingSwap` shows what follows). `RejectedInv` says it
  of the copy too, which will be saved over the file; it rests on a drop waiting for
  the lock, so that no copy is alive when its row goes. `OnceInv` says it of the copy
  and adds that no ticker still being asked about has a row in the copy. The second
  needs `NoTwins` and a file that starts with one row per ticker.
* **`BindingListedHaveRows`** - with upgrades, sweeps and refreshes in any order, what a
  token lists has its row. While a refresh has unlinked what it will not save, the rows
  to look at are its copy's (`Current`); between an upgrade's swap and its link the new
  row must not go, which it does not because GeckoTerminal's rows are not validated
  (`LinkingKept`) and a blacklisted ticker is never upgraded (`NotBanned`). Drops and
  restarts are excluded: a drop reads its ticker before the lock, and
  `cex_tokens.json` may be older than the pool file, so with them it does not hold.
* **`BindingRefreshOrphans`** - an action property: without the reconciliation thread
  (`BindingStale`) no step but a refresh's leaves a price whose pool is not routed to
  its token. `PricesInv` says that only tokens of the chain have a price, so that
  `remove_dex_by_pool`, which empties one slot, empties the only one.

### Feeds

* **`BookImplements`** - Bybit's book refines `BookPromise`, step by step. The invariant
  is about the messages on the way: each is either a whole book (`Full`) or the
  difference from a position already shown or ahead of it (`Continues`), or it repeats
  such a position and its number gives it away (`Repeated`). "Before a message" is
  the book's position and those of the messages ahead of it; so the fact survives both
  the reader taking the first message and the exchange sending another. A book that is
  empty has a whole one as its next message (`FirstIsFull`).
* **`CacheDoesNotMix`**, **`CacheLookupsAreTrue`**, **`CacheEntriesStay`** - one invariant for
  the three, because they need each other: a report goes to an entry because the index
  finds a contract of it there, so true indexes keep entries of one token. A key made
  from a contract is free, or of a muddled entry, or of one whose contract begins with
  the same digits: the entry under that key was made for a contract with these digits,
  and has that contract still. It is not the same contract, which the index would have
  had. So what a new entry is written over is a token `Alike`, and is muddled from then
  on. All this holds of the files as well. What a rebuilt index holds follows from
  numbering the members of a set by their places in the dict, each number being reached
  by a least-number argument in place of an induction.
* **`PendingOpenIsQueued`** - for any tickers, failures and restarts. `PendInv` adds that
  the files have no ticker undecided which the cache has otherwise (a restart goes back
  to them), that one ticker is merged at a time, and that what the loop's copy of the
  queue lacks was registered since or is decided.

### Sessions and upkeep

* **`SessionMissesNoChange`** - with the types it is inductive as it stands, because
  `undone` remembers what would otherwise have to be added. A session that ends is
  either no longer at work or not the one concerned (`LeavesFollows`).
* **`VerdictIsForTheBound`** - for any market and thresholds. The upgrade changes the pool
  while the old verdict is stored; so the invariant adds that no fetch is under way
  while the verdict is fresh.
* **`ListingIsAccounted`** - at each exchange, for any symbols. The invariant adds that a
  round starts with nothing in hand.
* **`MigrationLossIsBounded`** - for any items and intervals. What may be lost is counted
  in two parts: `LostBefore`, which earlier runs have lost, at most an interval for each
  kill and skip; and `Unflushed`, which a kill now would add, at most the items since
  the last flush that was due (`Due`). A blacklisted item at a multiple of the interval
  leaves that flush out, which is why skips count.

### Polling

* **`DepthHasCause`** - for any tickers. `DepthInv` says that whatever is on its way for a
  ticker - task, mark, fetch or book - belongs to its present watch, or the ticker was
  overrun; an answer and a book bear that watch's number.
* **`NetworkFlagSeen`** - for any two naps. `NetInv` bounds what a flag has been wrong for
  plus what is left of the nap: by a passive nap always, and by a hot one unless the nap
  began before the token was hot, when its end is at most a passive nap from then.
* **`ScanLogIsCurrent`** - the list is the rows by rank, and a rank is one more than the
  number of rows above. `Above` orders the rows strictly, so ranks are a numbering: two
  rows have two ranks, no rank exceeds the number of rows, and an injection of a finite
  set into as many numbers reaches them all. The fingerprint is always that of the list
  logged last, and after a scan that of the present one; equal fingerprints mean equal
  exchanges and directions, and equal roundings percentages less than a hundredth apart.
* **`PollingTypeCorrect`**, **`FeedsTypeCorrect`**, **`UpkeepTypeCorrect`** - the types of an
  area, from those of its components; a component that does not run stands still.

### What stays with TLC

Every safety invariant and action property of a passing run is stated by a theorem,
some under the hypotheses named above. Liveness is not: fairness and `ENABLED` are out of
the prover's reach. `EveryCallServed`, `DepthArrives`, `EveryTokenAttempted`,
`EveryTokenCovered`, `ListingStreamed`, `LowRecovers`, `BookCatchesUp`, `KnownIsDecided`,
`RowsGetLinked`, `FeedFollowsFile` and `V4PoolStreamed` are therefore only model-checked.
The violated properties are refuted by TLC's traces and need no proof.

The runs do not depend on the hypotheses of a theorem any more than their
instances do: `BindingThreads` runs without upgrades and `BindingSteady` without drops and
restarts, for the reasons given; `BindingCore`'s namesake lives on another chain.

## Plan

1. Proofs: what remains true of `RejectedStaysOut` and `ListedPoolsHaveRows` with every
   actor on, stated with history variables for the named exceptions.
2. `PoolBinding` implements "a token has at most one live source, which only a link, an
   unlink or a restart changes".
3. The retry tiers of tokens without a pool, and the bad-pool counter's life after an
   expired rejection.

## Not modelled

* Native price poller and bootstrap prices: one number overwritten after a read; no order
  of events matters.
* Decoders and price formulas: decimals of 60 digits on 256-bit integers, beyond TLC's
  integers, and without state.
* HTTP and RPC readers, metadata parsers: what they answer is an input here.
* Logging, diagnostics, configuration, tables of constants, probe scripts.

The reasons are also in `PROJECT.json` ("components"), with what is left out of the
parts that are modelled.
