---------------------------- MODULE PoolBinding ----------------------------
(***************************************************************************)
(* The pool lifecycle: which DEX pool prices which token.                  *)
(*                                                                         *)
(*   pools.json          the file of pool rows       dex_part/core/pools_io*)
(*   cache_manager       token -> pools, pool -> token (the route of every *)
(*                       swap), flushed to cex_tokens.json now and then    *)
(*   price_store         one DEX price per token, from one pool            *)
(*   bad_pools           the reject list, in memory only                   *)
(*                                                                         *)
(* Five actors change them: the discovery sweep (dex_pool_manager), the    *)
(* refresh and the bad-pool drop (pool_refresh), the upgrade to a better   *)
(* pool (liquidity_filter, replace_pool) and the WS sessions (chain_monitor*)
(* with its version detector), beside the reconciliation thread.  Sweep    *)
(* and refresh hold operation_lock from load to save, minutes long, and    *)
(* work on the copy they loaded; an upgrade and a drop load and save       *)
(* without suspending once they have the lock, so they are one step; the   *)
(* link to the token (add_pool) waits for the cache's file lock and is a   *)
(* step of its own.                                                        *)
(*                                                                         *)
(* One chain: every structure is keyed by chain and chains do not interact.*)
(* A list of pools is a set: the one reader of its order, _get_current_pool*)
(* (the first one), takes any.                                             *)
(***************************************************************************)
EXTENDS Integers, FiniteSets

CONSTANTS
  Tokens,     \* keys of cache_manager._CACHE
  Pools,      \* pool addresses
  SymbolOf,   \* [Tokens -> tickers]
  OnChain,    \* tokens with a contract on this chain
  Offers,     \* [Tokens -> SUBSET Pools]: pools of the token's contract, as
              \*   DexScreener and GeckoTerminal list them
  Rank,       \* [Tokens -> Nat]: order in which entries joined their ticker's
              \*   list
  Blacklist,  \* tickers of blacklist.py
  Found,      \* rows an earlier run may have left in pools.json
  Features,   \* actors switched on (POOL_AUTO_UPGRADE, POOL_REFRESH_INTERVAL,
              \*   POOL_RECONCILE_INTERVAL, and which events may happen)
  GtVersion,  \* SUBSET BOOLEAN: does GeckoTerminal tell a row's version
  Threshold,  \* bad_pools.THRESHOLD
  MaxCrashes, \* bound: restarts
  NoToken, NoPool

Symbols == {SymbolOf[t] : t \in Tokens}

(* A row of pools.json: the pool, the ticker it was found for, whether its *)
(* protocol version is known, whether it came from GeckoTerminal.          *)
Rows == [pool : Pools, sym : Symbols, ver : BOOLEAN, gt : BOOLEAN]

(* The row was found under a contract with that ticker on this chain. *)
OwnRow(r) ==
  \E t \in OnChain : SymbolOf[t] = r.sym /\ r.pool \in Offers[t]

ASSUME BindingAssumption ==
  /\ IsFiniteSet(Tokens)
  /\ OnChain \subseteq Tokens
  /\ Symbols \cap {"none", "spawned", "nosym"} = {}
  /\ Offers \in [Tokens -> SUBSET Pools]
  /\ Rank \in [Tokens -> Nat]
  /\ \A t, u \in Tokens : Rank[t] = Rank[u] => t = u
  /\ Found \subseteq Rows
  /\ \A r \in Found : OwnRow(r)
  /\ GtVersion \subseteq BOOLEAN
  /\ Threshold \in Nat \ {0}
  /\ MaxCrashes \in Nat
  /\ NoToken \notin Tokens
  /\ NoPool \notin Pools

VARIABLES
  disk,       \* pools.json
  bound,      \* _CACHE[t]["pools"][chain]
  idx,        \* _INDEX["pool"]
  saved,      \* the bindings in cex_tokens.json
  slot,       \* price_store: the pool whose price the token's DEX slot holds
  rejected,   \* bad_pools._REJECTED: "no", "fresh", "expired" (not yet purged)
  bad,        \* bad_pools._BAD_COUNT
  holder,     \* operation_lock: "none", "sweep", or the refresh's stage
              \*   "check", "rebind", "flush"
  snap,       \* the holder's copy of pools.json
  fetching,   \* sweep: tokens whose DexScreener query is under way
  links,      \* sweep: rows saved, waiting for add_pool
  todo,       \* refresh: rows _rebind_pools has yet to look at
  upgrade,    \* liquidity filter: one evaluation per token
  drop,       \* drop_pool_for_replacement, per pool
  streamed,   \* pools in the WS session's metadata
  registered, \* pool_registry: pools registered since the start
  thread,     \* reconciliation thread inside update_dex
  crashes     \* restarts so far

vars == <<disk, bound, idx, saved, slot, rejected, bad, holder, snap, fetching,
          links, todo, upgrade, drop, streamed, registered, thread, crashes>>

cache   == <<bound, idx>>
rejects == <<rejected, bad>>
locked  == <<holder, snap, fetching, links, todo>>
waiters == <<upgrade, drop>>
feed    == <<streamed, registered, thread>>
----------------------------------------------------------------------------
Keys(rows) == {<<r.pool, r.sym>> : r \in rows}
PoolsIn(rows) == {r.pool : r \in rows}
SymsIn(rows) == {r.sym : r \in rows}

(* An evaluation of the liquidity filter, and the swap it has decided. *)
Upgrades == [stage : {"none", "fetching", "waiting", "linking"},
             old : Pools \cup {NoPool},
             new : Pools \cup {NoPool}]
NoUpgrade == [stage |-> "none", old |-> NoPool, new |-> NoPool]

(* Mutant: the entry forgets the pool, the index keeps routing it. *)
IdxKept(rows) == [p \in Pools |-> idx[p]]

(* _CACHE's pools once those of `rows` are unlinked by ticker, and the     *)
(* index: _drop_pool_from_cache pops the pool whatever it finds.           *)
BoundWithout(rows) ==
  [t \in Tokens |->
     bound[t] \ PoolsIn({r \in rows : r.sym = SymbolOf[t]})]
IdxWithout(rows) ==
  [p \in Pools |-> IF p \in PoolsIn(rows) THEN NoToken ELSE idx[p]]

(* The entries of a ticker, and the one that joined its list first. *)
Named(sym) == {t \in Tokens : SymbolOf[t] = sym}
FirstOf(S) == CHOOSE t \in S : \A u \in S : Rank[t] <= Rank[u]

(* Mutant: the first entry of the ticker, wherever it lives. *)
ChosenAnywhere(sym) ==
  IF Named(sym) # {} THEN FirstOf(Named(sym)) ELSE NoToken

(* add_pool: the first entry of the ticker with a contract on the chain,   *)
(* else the ticker's only entry, else refuse.                              *)
Chosen(sym) ==
  LET here == Named(sym) \cap OnChain IN
  IF here # {} THEN FirstOf(here)
  ELSE IF Cardinality(Named(sym)) = 1 THEN FirstOf(Named(sym))
  ELSE NoToken

(* add_pool(sym, pool), which indexes every pool of the entry again. *)
Link(sym, pool) ==
  LET t == Chosen(sym) IN
  IF t = NoToken \/ pool \in bound[t]
    THEN UNCHANGED cache
    ELSE /\ bound' = [bound EXCEPT ![t] = @ \cup {pool}]
         /\ idx' = [p \in Pools |->
                      IF p \in bound[t] \cup {pool} THEN t ELSE idx[p]]

(* _INDEX["pool"] as init_cache rebuilds it: the last entry listing the    *)
(* pool wins.                                                              *)
Rebuilt(lists) ==
  [p \in Pools |->
     LET S == {t \in Tokens : p \in lists[t]} IN
     IF S = {} THEN NoToken
     ELSE CHOOSE t \in S : \A u \in S : Rank[u] <= Rank[t]]

(* Mutant: nothing is removed. *)
RemoveNoPrice(pool) == UNCHANGED slot

(* price_store.remove_dex_by_pool: the first slot fed by the pool. *)
RemovePrice(pool) ==
  \/ /\ \A t \in Tokens : slot[t] # pool
     /\ UNCHANGED slot
  \/ \E t \in Tokens :
       slot[t] = pool /\ slot' = [slot EXCEPT ![t] = NoPool]

----------------------------------------------------------------------------
(* asyncio.Lock: nobody holds it and nobody waits for it.  A sweep and a   *)
(* refresh carry nothing into the lock, so where they wait does not show.  *)
LockHeld == holder # "none"
SomeoneWaits ==
  \/ \E t \in Tokens : upgrade[t].stage = "waiting"
  \/ \E p \in Pools : drop[p] \in Symbols \cup {"nosym"}
LockFree == ~LockHeld /\ ~SomeoneWaits

(* An earlier run left rows in pools.json; cex_tokens.json still lists the *)
(* pools of all of them but `wiped`.                                       *)
Init ==
  /\ disk \in SUBSET Found
  /\ \E wiped \in SUBSET disk :
       bound = [t \in Tokens |->
                  {p \in Pools : \E r \in disk \ wiped :
                     r.pool = p /\ t = Chosen(r.sym)}]
  /\ idx = Rebuilt(bound)
  /\ saved = bound
  /\ slot = [t \in Tokens |-> NoPool]
  /\ rejected = [p \in Pools |-> "no"]
  /\ bad = [p \in Pools |-> 0]
  /\ holder = "none"
  /\ snap = {}
  /\ fetching = {}
  /\ links = {}
  /\ todo = {}
  /\ upgrade = [t \in Tokens |-> NoUpgrade]
  /\ drop = [p \in Pools |-> "none"]
  /\ streamed = {}
  /\ registered = {}
  /\ thread = <<>>
  /\ crashes = 0
----------------------------------------------------------------------------
(*************************** the discovery sweep ***************************)

(* Mutant: a ticker that has a row is asked about again. *)
WantedAgain == {t \in OnChain : SymbolOf[t] \notin Blacklist}

(* Tokens the sweep asks DexScreener about: on the chain, not blacklisted, *)
(* and no row of that ticker in the file.                                  *)
Wanted ==
  {t \in OnChain : SymbolOf[t] \notin Blacklist \cup SymsIn(disk)}

(* It loads the file and starts one query per wanted token whose no-pool   *)
(* cooldown is over (any subset).                                          *)
SweepStart ==
  /\ "sweep" \in Features
  /\ ~LockHeld
  /\ holder' = "sweep"
  /\ snap' = disk
  /\ fetching' \in SUBSET Wanted
  /\ UNCHANGED <<disk, cache, saved, slot, rejects, links, todo, waiters, feed,
                 crashes>>

(* is_rejected forgets what has expired as it looks. *)
Purged(pools) ==
  [p \in Pools |-> IF p \in pools /\ rejected[p] = "expired" THEN "no"
                   ELSE rejected[p]]

(* Mutant: the query takes the best pool, rejected or not. *)
FetchFoundAny(t, p) ==
  /\ holder = "sweep"
  /\ t \in fetching
  /\ p \in Offers[t]
  /\ LET row == [pool |-> p, sym |-> SymbolOf[t], ver |-> FALSE, gt |-> FALSE]
     IN /\ snap' = snap \cup {row}
        /\ disk' = snap'
        /\ links' = links \cup {row}
  /\ fetching' = fetching \ {t}
  /\ UNCHANGED <<cache, saved, slot, rejects, holder, todo, waiters, feed,
                 crashes>>

(* _fetch_best_pool brings the token's best pool that is not rejected:     *)
(* the row joins the copy, the copy is saved, the link is next.            *)
FetchFound(t, p) ==
  /\ holder = "sweep"
  /\ t \in fetching
  /\ p \in Offers[t]
  /\ rejected[p] # "fresh"
  /\ LET row == [pool |-> p, sym |-> SymbolOf[t], ver |-> FALSE, gt |-> FALSE]
     IN /\ snap' = snap \cup {row}
        /\ disk' = snap'
        /\ links' = links \cup {row}
  /\ fetching' = fetching \ {t}
  /\ rejected' = Purged(Offers[t])
  /\ UNCHANGED <<cache, saved, slot, bad, holder, todo, waiters, feed,
                 crashes>>

(* No pool, an error or HTTP 429: the token waits for a later sweep. *)
FetchNothing(t) ==
  /\ holder = "sweep"
  /\ t \in fetching
  /\ fetching' = fetching \ {t}
  /\ rejected' \in {rejected, Purged(Offers[t])}
  /\ UNCHANGED <<disk, cache, saved, slot, bad, holder, snap, links, todo,
                 waiters, feed, crashes>>

SweepLinks(r) ==
  /\ holder = "sweep"
  /\ r \in links
  /\ Link(r.sym, r.pool)
  /\ links' = links \ {r}
  /\ UNCHANGED <<disk, saved, slot, rejects, holder, snap, fetching, todo,
                 waiters, feed, crashes>>

(* Every query is back: the copy is saved once more. *)
SweepEnd ==
  /\ holder = "sweep"
  /\ fetching = {}
  /\ links = {}
  /\ disk' = snap
  /\ snap' = {}
  /\ holder' = "none"
  /\ UNCHANGED <<cache, saved, slot, rejects, fetching, links, todo, waiters,
                 feed, crashes>>
----------------------------------------------------------------------------
(******************************* the refresh *******************************)

Banned(rows) == {r \in rows : r.sym \in Blacklist}

(* It loads the file and unlinks the blacklisted rows before its first     *)
(* query.  Without rows it has nothing to do but flush the cache, if that, *)
(* and Flush does so.                                                      *)
RefreshStart ==
  /\ "refresh" \in Features
  /\ ~LockHeld
  /\ disk # {}
  /\ holder' = "check"
  /\ snap' = disk \ Banned(disk)
  /\ bound' = BoundWithout(Banned(disk))
  /\ idx' = IdxWithout(Banned(disk))
  /\ UNCHANGED <<disk, saved, slot, rejects, fetching, links, todo, waiters,
                 feed, crashes>>

(* DexScreener has answered for the rows it found itself; it may no longer *)
(* know any of them.  GeckoTerminal's rows are not asked about.  The stale *)
(* ones are unlinked; their price stays.                                   *)
RefreshChecked ==
  /\ holder = "check"
  /\ \E stale \in SUBSET {r \in snap : ~r.gt} :
       /\ snap' = snap \ stale
       /\ bound' = BoundWithout(stale)
       /\ idx' = IdxWithout(stale)
  /\ todo' = snap'
  /\ holder' = "rebind"
  /\ UNCHANGED <<disk, saved, slot, rejects, fetching, links, waiters, feed,
                 crashes>>

(* Mutant: no row is linked again. *)
RefreshSkips(r) ==
  /\ holder = "rebind"
  /\ r \in todo
  /\ todo' = todo \ {r}
  /\ UNCHANGED <<disk, cache, saved, slot, rejects, holder, snap, fetching,
                 links, waiters, feed, crashes>>

(* _rebind_pools: add_pool for a kept row the index does not know. *)
RefreshRebinds(r) ==
  /\ holder = "rebind"
  /\ r \in todo
  /\ IF idx[r.pool] = NoToken THEN Link(r.sym, r.pool) ELSE UNCHANGED cache
  /\ todo' = todo \ {r}
  /\ UNCHANGED <<disk, saved, slot, rejects, holder, snap, fetching, links,
                 waiters, feed, crashes>>

RefreshSaves ==
  /\ holder = "rebind"
  /\ todo = {}
  /\ disk' = snap
  /\ snap' = {}
  /\ holder' = "flush"
  /\ UNCHANGED <<cache, saved, slot, rejects, fetching, links, todo, waiters,
                 feed, crashes>>

(* cache_manager.flush(force=True), the lock still held. *)
RefreshEnd ==
  /\ holder = "flush"
  /\ saved' = bound
  /\ holder' = "none"
  /\ UNCHANGED <<disk, cache, slot, rejects, snap, fetching, links, todo,
                 waiters, feed, crashes>>
----------------------------------------------------------------------------
(******************* the upgrade to a more traded pool *********************)

(* The scanner, which skips blacklisted tickers, meets a spread on a priced*)
(* token and has no fresh verdict: is_low_liquidity starts one query.      *)
UpgradeAsks(t) ==
  /\ "upgrade" \in Features
  /\ t \in OnChain
  /\ SymbolOf[t] \notin Blacklist
  /\ upgrade[t].stage = "none"
  /\ slot[t] # NoPool
  /\ upgrade' = [upgrade EXCEPT ![t].stage = "fetching"]
  /\ UNCHANGED <<disk, cache, saved, slot, rejects, locked, drop, feed,
                 crashes>>

(* Too little liquidity, an error, or no pool trades better. *)
UpgradeDeclines(t) ==
  /\ upgrade[t].stage = "fetching"
  /\ upgrade' = [upgrade EXCEPT ![t] = NoUpgrade]
  /\ UNCHANGED <<disk, cache, saved, slot, rejects, locked, drop, feed,
                 crashes>>

(* replace_pool under the lock and up to its add_pool: it swaps the rows,  *)
(* and if the file did hold the old pool unlinks it, rejects it and        *)
(* removes its price.                                                      *)
SwapRows(t, old, new, ver) ==
  LET gone == [pool |-> old, sym |-> SymbolOf[t]]
      row  == [pool |-> new, sym |-> SymbolOf[t], ver |-> ver, gt |-> TRUE]
  IN /\ disk' = {r \in disk : r.pool \notin {old, new}} \cup {row}
     /\ IF old \in PoolsIn(disk)
          THEN /\ bound' = BoundWithout({gone})
               /\ idx' = IdxWithout({gone})
               /\ rejected' = [rejected EXCEPT ![old] = "fresh"]
               /\ bad' = [bad EXCEPT ![old] = 0]
               /\ RemovePrice(old)
          ELSE UNCHANGED <<cache, rejects, slot>>
     /\ upgrade' = [upgrade EXCEPT ![t] =
                      [stage |-> "linking", old |-> NoPool, new |-> new]]
     /\ UNCHANGED <<saved, locked, drop, feed, crashes>>

(* GeckoTerminal's answer names a better pool than the one bound now (none *)
(* when the token has lost its pool meanwhile): the pair is fixed here,    *)
(* before replace_pool asks for the lock.                                  *)
UpgradeDecides(t, old, new, ver) ==
  /\ upgrade[t].stage = "fetching"
  /\ IF bound[t] = {} THEN old = NoPool ELSE old \in bound[t]
  /\ new \in Offers[t] \ {old}
  /\ IF LockFree
       THEN SwapRows(t, old, new, ver)
       ELSE /\ upgrade' = [upgrade EXCEPT
                 ![t] = [stage |-> "waiting", old |-> old, new |-> new]]
            /\ UNCHANGED <<disk, cache, saved, slot, rejects, locked, drop,
                           feed, crashes>>

(* Mutant: replace_pool rewrites the file without the operation lock. *)
UpgradeBarges(t, ver) ==
  /\ upgrade[t].stage = "waiting"
  /\ SwapRows(t, upgrade[t].old, upgrade[t].new, ver)

UpgradeGetsLock(t, ver) ==
  /\ upgrade[t].stage = "waiting"
  /\ ~LockHeld
  /\ SwapRows(t, upgrade[t].old, upgrade[t].new, ver)

UpgradeLinks(t) ==
  /\ upgrade[t].stage = "linking"
  /\ Link(SymbolOf[t], upgrade[t].new)
  /\ upgrade' = [upgrade EXCEPT ![t] = NoUpgrade]
  /\ UNCHANGED <<disk, saved, slot, rejects, locked, drop, feed, crashes>>
----------------------------------------------------------------------------
(*************************** the bad-pool drop *****************************)

(* Mutant: the counter is compared before it is bumped. *)
BadPriceLate(p) ==
  /\ "badprice" \in Features
  /\ p \in streamed
  /\ rejected[p] = "no"
  /\ IF bad[p] >= Threshold
       THEN /\ rejected' = [rejected EXCEPT ![p] = "fresh"]
            /\ bad' = [bad EXCEPT ![p] = 0]
            /\ drop' = [drop EXCEPT ![p] = "spawned"]
       ELSE /\ bad' = [bad EXCEPT ![p] = @ + 1]
            /\ UNCHANGED <<rejected, drop>>
  /\ UNCHANGED <<disk, cache, saved, slot, locked, upgrade, feed, crashes>>

(* record_bad_price on a swap of the session: the hit that reaches the     *)
(* threshold rejects the pool and spawns the drop.                         *)
BadPrice(p) ==
  /\ "badprice" \in Features
  /\ p \in streamed
  /\ rejected[p] = "no"
  /\ IF bad[p] + 1 >= Threshold
       THEN /\ rejected' = [rejected EXCEPT ![p] = "fresh"]
            /\ bad' = [bad EXCEPT ![p] = 0]
            /\ drop' = [drop EXCEPT ![p] = "spawned"]
       ELSE /\ bad' = [bad EXCEPT ![p] = @ + 1]
            /\ UNCHANGED <<rejected, drop>>
  /\ UNCHANGED <<disk, cache, saved, slot, locked, upgrade, feed, crashes>>

(* The rest of the drop once it has the lock: the row leaves the file, the *)
(* pool leaves the cache if its ticker was known when the drop started,    *)
(* its price goes.                                                         *)
Evict(p, sym) ==
  /\ disk' = {r \in disk : r.pool # p}
  /\ IF sym = "nosym"
       THEN UNCHANGED cache
       ELSE /\ bound' = BoundWithout({[pool |-> p, sym |-> sym]})
            /\ idx' = IdxWithout({[pool |-> p, sym |-> sym]})
  /\ RemovePrice(p)
  /\ drop' = [drop EXCEPT ![p] = "none"]
  /\ UNCHANGED <<saved, rejects, locked, upgrade, feed, crashes>>

TickerOf(p) == IF idx[p] = NoToken THEN "nosym" ELSE SymbolOf[idx[p]]

(* It looks the ticker up in the index, then asks for the lock. *)
DropStarts(p) ==
  /\ drop[p] = "spawned"
  /\ IF LockFree
       THEN Evict(p, TickerOf(p))
       ELSE /\ drop' = [drop EXCEPT ![p] = TickerOf(p)]
            /\ UNCHANGED <<disk, cache, saved, slot, rejects, locked, upgrade,
                           feed, crashes>>

(* Mutant: the drop rewrites the file while another operation works on its *)
(* own copy.                                                               *)
DropBarges(p) ==
  /\ drop[p] \in Symbols \cup {"nosym"}
  /\ Evict(p, drop[p])

DropGetsLock(p) ==
  /\ drop[p] \in Symbols \cup {"nosym"}
  /\ ~LockHeld
  /\ Evict(p, drop[p])

(* RETRY_AFTER_SEC is a day; no drop waits that long for the lock. *)
RejectionExpires(p) ==
  /\ rejected[p] = "fresh"
  /\ drop[p] = "none"
  /\ rejected' = [rejected EXCEPT ![p] = "expired"]
  /\ UNCHANGED <<disk, cache, saved, slot, bad, locked, waiters, feed,
                 crashes>>
----------------------------------------------------------------------------
(************************* sessions and the thread *************************)

(* A WS session starts on the rows of the file; a pool whose metadata      *)
(* cannot be read is left out of it.                                       *)
SessionStarts ==
  /\ \E failed \in SUBSET PoolsIn(disk) : streamed' = PoolsIn(disk) \ failed
  /\ registered' = registered \cup streamed'
  /\ UNCHANGED <<disk, cache, saved, slot, rejects, locked, waiters, thread,
                 crashes>>

(* update_dex on the event loop: routed by the pool index alone. *)
Swap(p) ==
  /\ p \in streamed
  /\ idx[p] # NoToken
  /\ slot' = [slot EXCEPT ![idx[p]] = p]
  /\ UNCHANGED <<disk, cache, saved, rejects, locked, waiters, feed, crashes>>

(* The first swap tells the version; pools_io.mutate rewrites the file     *)
(* under its own short lock, not under operation_lock.                     *)
VersionFound(r) ==
  /\ "version" \in Features
  /\ r \in disk
  /\ r.pool \in streamed
  /\ ~r.ver
  /\ disk' = (disk \ {r}) \cup {[r EXCEPT !.ver = TRUE]}
  /\ UNCHANGED <<cache, saved, slot, rejects, locked, waiters, feed, crashes>>

(* The reconciliation thread runs update_dex too, and may be preempted     *)
(* between its look at the index and its write to the store.               *)
ThreadRoutes(p) ==
  /\ "reconcile" \in Features
  /\ thread = <<>>
  /\ p \in registered
  /\ idx[p] # NoToken
  /\ thread' = <<p, idx[p]>>
  /\ UNCHANGED <<disk, cache, saved, slot, rejects, locked, waiters, streamed,
                 registered, crashes>>

ThreadWrites ==
  /\ thread # <<>>
  /\ slot' = [slot EXCEPT ![thread[2]] = thread[1]]
  /\ thread' = <<>>
  /\ UNCHANGED <<disk, cache, saved, rejects, locked, waiters, streamed,
                 registered, crashes>>
----------------------------------------------------------------------------
(************************** persistence, restart ***************************)

(* A flush of the cache that reaches the disk: forced each minute by the   *)
(* exchange loops, or due after add_pool's own call.                       *)
Flush ==
  /\ saved' = bound
  /\ UNCHANGED <<disk, cache, slot, rejects, locked, waiters, feed, crashes>>

(* The process dies anywhere and starts again from the two files; the      *)
(* atomic writer leaves each of them whole.                                *)
Crash ==
  /\ "crash" \in Features
  /\ crashes < MaxCrashes
  /\ crashes' = crashes + 1
  /\ bound' = saved
  /\ idx' = Rebuilt(saved)
  /\ slot' = [t \in Tokens |-> NoPool]
  /\ rejected' = [p \in Pools |-> "no"]
  /\ bad' = [p \in Pools |-> 0]
  /\ holder' = "none"
  /\ snap' = {}
  /\ fetching' = {}
  /\ links' = {}
  /\ todo' = {}
  /\ upgrade' = [t \in Tokens |-> NoUpgrade]
  /\ drop' = [p \in Pools |-> "none"]
  /\ streamed' = {}
  /\ registered' = {}
  /\ thread' = <<>>
  /\ UNCHANGED <<disk, saved>>
----------------------------------------------------------------------------
SweepNext ==
  \/ SweepStart \/ SweepEnd
  \/ \E t \in Tokens : FetchNothing(t) \/ \E p \in Pools : FetchFound(t, p)
  \/ \E r \in links : SweepLinks(r)

RefreshNext ==
  \/ RefreshStart \/ RefreshChecked \/ RefreshSaves \/ RefreshEnd
  \/ \E r \in todo : RefreshRebinds(r)

UpgradeNext ==
  \E t \in Tokens :
    \/ UpgradeAsks(t) \/ UpgradeDeclines(t) \/ UpgradeLinks(t)
    \/ \E ver \in GtVersion :
         \/ UpgradeGetsLock(t, ver)
         \/ \E old \in Pools \cup {NoPool}, new \in Pools :
              UpgradeDecides(t, old, new, ver)

DropNext ==
  \E p \in Pools :
    BadPrice(p) \/ DropStarts(p) \/ DropGetsLock(p) \/ RejectionExpires(p)

FeedNext ==
  \/ SessionStarts
  \/ \E p \in Pools : Swap(p) \/ ThreadRoutes(p)
  \/ \E r \in disk : VersionFound(r)
  \/ ThreadWrites

Next ==
  \/ SweepNext
  \/ RefreshNext
  \/ UpgradeNext
  \/ DropNext
  \/ FeedNext
  \/ Flush
  \/ Crash

Spec == Init /\ [][Next]_vars

(* Every held lock is given back: queries have timeouts, the file lock is  *)
(* free again after a write.  asyncio.Lock serves in order, so whoever     *)
(* waits for operation_lock gets it (strong fairness, the lock being taken *)
(* and released in between).  The refresh comes back every interval.       *)
FairSpec ==
  /\ Spec
  /\ WF_vars(SweepEnd)
  /\ \A t \in Tokens : WF_vars(FetchNothing(t))
  /\ WF_vars(\E r \in links : SweepLinks(r))
  /\ SF_vars(RefreshStart)
  /\ WF_vars(RefreshChecked) /\ WF_vars(RefreshSaves) /\ WF_vars(RefreshEnd)
  /\ WF_vars(\E r \in todo : RefreshRebinds(r))
----------------------------------------------------------------------------
TypeOK ==
  /\ disk \subseteq Rows
  /\ bound \in [Tokens -> SUBSET Pools]
  /\ idx \in [Pools -> Tokens \cup {NoToken}]
  /\ saved \in [Tokens -> SUBSET Pools]
  /\ slot \in [Tokens -> Pools \cup {NoPool}]
  /\ rejected \in [Pools -> {"no", "fresh", "expired"}]
  /\ bad \in [Pools -> 0..(Threshold - 1)]
  /\ holder \in {"none", "sweep", "check", "rebind", "flush"}
  /\ snap \subseteq Rows
  /\ fetching \subseteq OnChain
  /\ links \subseteq snap
  /\ todo \subseteq snap
  /\ upgrade \in [Tokens -> Upgrades]
  /\ drop \in [Pools -> Symbols \cup {"none", "spawned", "nosym"}]
  /\ streamed \subseteq registered
  /\ registered \subseteq Pools
  /\ thread \in {<<>>} \cup (Pools \X Tokens)
  /\ crashes \in 0..MaxCrashes

(* What the routing is for ("pool -> token mapping; the symbol parameter   *)
(* is ignored for routing"): a token's DEX price only ever comes from a    *)
(* pool of the token's own contract.  A sweep, a refresh, an upgrade, the  *)
(* thread and a restart all feed the mapping that decides it.              *)
PricedFromOwnPool ==
  \A t \in Tokens : slot[t] # NoPool => slot[t] \in Offers[t]

(* The two directions of the link agree: a pool is routed to the token     *)
(* that lists it and to no other.  Links and unlinks of two pools of one   *)
(* token, and a rebuild from the file, come in any order.                  *)
IndexMatchesLists ==
  \A p \in Pools, t \in Tokens : idx[p] = t <=> p \in bound[t]

(* What operation_lock is for ("two concurrent sequences can each load a   *)
(* snapshot, diverge, then save() overwrites each other"): the copy the    *)
(* lock's holder will save has the file's rows, all of them and no other,  *)
(* the blacklisted ones apart that a refresh is removing.                  *)
CopyHasFileRows ==
  /\ holder = "sweep" => Keys(snap) = Keys(disk)
  /\ holder = "check" => Keys(snap) = Keys(disk \ Banned(disk))

(* "otherwise we'd just re-attach the same broken pool DexScreener still   *)
(* ranks first": once its drop is done, a rejected pool is in pools.json   *)
(* neither by a sweep, whose query may have started before the rejection,  *)
(* nor by a refresh, whose copy may be older than it.                      *)
RejectedStaysOut ==
  \A p \in Pools :
    rejected[p] = "fresh" /\ drop[p] = "none" => p \notin PoolsIn(disk)

(* A ticker has one row, so its token one pool and its price slot one      *)
(* source.                                                                 *)
OneRowPerTicker == \A r, q \in disk : r.sym = q.sym => r = q

(* With nothing under way, the cache lists no pool the file has no row     *)
(* for: such a pool is no longer streamed, yet it is the one an upgrade    *)
(* compares with and tries to replace.                                     *)
AtRest ==
  /\ holder = "none"
  /\ \A t \in Tokens : upgrade[t].stage # "linking"
  /\ \A p \in Pools : drop[p] = "none"
ListedPoolsHaveRows ==
  AtRest => \A t \in Tokens : bound[t] \subseteq PoolsIn(disk)

(* remove_dex_by_pool: "the stale price from the OLD pool can't linger in  *)
(* the store".                                                             *)
Orphans == {t \in Tokens : slot[t] # NoPool /\ idx[slot[t]] # t}
NoStalePrice == Orphans = {}

(* A replaced or rejected pool takes its price along: the refresh, which   *)
(* unlinks pools without touching the store, is the only one to leave a    *)
(* price behind.                                                           *)
OnlyRefreshOrphans ==
  [][ \/ Orphans' \subseteq Orphans
      \/ holder = "none" /\ holder' = "check"
      \/ holder = "check" /\ holder' = "rebind" ]_vars

(* save_pool_version: a version once on disk stays with its row.           *)
VersionKept ==
  [][ \A r \in disk, q \in disk' :
        r.pool = q.pool /\ r.sym = q.sym /\ ~q.gt => (r.ver => q.ver) ]_vars

(* _rebind_pools: a row whose pool is linked to no token, because the      *)
(* process died between the two files or the cache was wiped, is linked by *)
(* a later refresh or leaves the file.                                     *)
RowsGetLinked ==
  \A p \in Pools :
    p \in PoolsIn(disk) ~> idx[p] # NoToken \/ p \notin PoolsIn(disk)
=============================================================================
