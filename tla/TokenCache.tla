---- MODULE TokenCache ----
(* One file for all tokens (cache_manager.py): metadata of the exchanges is   *)
(* merged into entries, CoinGecko says which coin an entry is and whether     *)
(* Kraken trades it, and quotes are routed to entries by ticker.  A key is a  *)
(* ticker, or a ticker with the beginning of a contract; a contract is <<chain, *)
(* digits, rest>>, where digits are the first eight of the address after its  *)
(* leading zeros.  Manual overrides are none, as in the repository.           *)
EXTENDS Naturals, Sequences, FiniteSets, SequencesExt

CONSTANTS
    Tokens,        \* the real tokens: the set of contracts of each
    Alphabet,      \* the place of each chain in the order of names
    Reports,       \* metadata the exchanges give: [cex, sym, tid, contracts]
    Coins,         \* CoinGecko's coins: [id, sym, platforms, kraken]
    MaxStarts      \* starts of the process

\* A contract is of one token, which has one on a chain: contracts are tables by chain.
\* Exchanges and CoinGecko tell the truth about them; Kraken tells nothing of them.
ASSUME CacheAssumption ==
    /\ \A t, u \in Tokens : t \cap u # {} => t = u
    /\ \A t \in Tokens : \A c, d \in t : Alphabet[c[1]] = Alphabet[d[1]] => c = d
    /\ \A t \in Tokens : \A c \in t : Alphabet[c[1]] \in Nat
    /\ \A r \in Reports : /\ \E t \in Tokens : r.contracts \subseteq t
                          /\ r.cex = "kraken" => r.contracts = {} /\ r.tid = ""
    /\ \A c \in Coins : \E t \in Tokens : c.platforms \subseteq t
    /\ MaxStarts \in Nat

VARIABLES
    cache,         \* _CACHE
    order,         \* its keys in the order of the dict
    bySymbol,      \* _INDEX["symbol"]: the keys of a ticker, in the order they were added
    byContract,    \* _INDEX["contract"]
    byTid,         \* _INDEX["token_id"]
    giveUp,        \* the ignored tickers of Kraken
    listed,        \* coins in CoinGecko's index
    traded,        \* coins in the index of Kraken's pairs
    retried,       \* keys in the queue of pending listings
    told,          \* tickers Kraken is known to list: _TOKEN_LIST["kraken"]["symbols"]
    fed,           \* tickers whose quotes of Kraken are subscribed
    disk,          \* the files: cache, order, giveUp, told
    starts,        \* starts of the process so far
    rescued,       \* history: entries a coin was adopted for by ticker though they had contracts
    overwritten    \* history: entries a new one was written over

indexVars == <<bySymbol, byContract, byTid>>
coinVars == <<listed, traded, retried>>
feedVars == <<told, fed>>
cacheVars == <<cache, order, indexVars, giveUp, coinVars, feedVars, disk, starts, rescued, overwritten>>

Tickers == {r.sym : r \in Reports}
Contracts == UNION Tokens
Bare(s) == <<s>>
Short(c) == <<c[1], c[2]>>

--------------------------------------------------------------------------------
\* Indexes.

Under(e) == {e.sym} \cup e.aliases

\* Mutant: the aliases of an entry are not indexed.
IndexedByTicker(k, e) ==
    /\ bySymbol' = [s \in Tickers |->
                      IF s = e.sym /\ k \notin ToSet(bySymbol[s])
                      THEN Append(bySymbol[s], k) ELSE bySymbol[s]]
    /\ byContract' = [c \in DOMAIN byContract \cup e.contracts |->
                        IF c \in e.contracts THEN k ELSE byContract[c]]
    /\ byTid' = [t \in DOMAIN byTid \cup ({e.tid} \ {""}) |-> IF t = e.tid THEN k ELSE byTid[t]]

\* The lists of a ticker are appended to, the others overwritten: _index_entry.
IndexedBy(k, e) ==
    /\ bySymbol' = [s \in Tickers |->
                      IF s \in Under(e) /\ k \notin ToSet(bySymbol[s])
                      THEN Append(bySymbol[s], k) ELSE bySymbol[s]]
    /\ byContract' = [c \in DOMAIN byContract \cup e.contracts |->
                        IF c \in e.contracts THEN k ELSE byContract[c]]
    /\ byTid' = [t \in DOMAIN byTid \cup ({e.tid} \ {""}) |-> IF t = e.tid THEN k ELSE byTid[t]]

\* The keys that are in S, in the order of the dict, and the last of them.
InOrder(keys, S) ==
    LET at == {i \in 1..Len(keys) : keys[i] \in S}
        Place(i) == Cardinality({j \in at : j <= i})
    IN  [n \in 1..Cardinality(at) |-> keys[CHOOSE i \in at : Place(i) = n]]
LastOf(keys, S) == keys[Max({i \in 1..Len(keys) : keys[i] \in S})]

\* _rebuild_indexes, for the cache and the order of the next state: the last entry of a
\* contract or token_id, in the order of the dict, has it.
Rebuilt(entries, keys) ==
    LET all == DOMAIN entries
    IN  /\ bySymbol' = [s \in Tickers |-> InOrder(keys, {k \in all : s \in Under(entries[k])})]
        /\ byContract' = [c \in UNION {entries[k].contracts : k \in all} |->
                            LastOf(keys, {k \in all : c \in entries[k].contracts})]
        /\ byTid' = [t \in {entries[k].tid : k \in all} \ {""} |->
                       LastOf(keys, {k \in all : entries[k].tid = t})]

Files(entries, keys, ignored) ==
    [cache |-> entries, order |-> keys, giveUp |-> ignored, told |-> told]
Empty == [k \in {} |-> 0]

CacheInit ==
    /\ cache = Empty /\ order = <<>> /\ giveUp = {}
    /\ bySymbol = [s \in Tickers |-> <<>>] /\ byContract = Empty /\ byTid = Empty
    /\ listed = {} /\ traded = {} /\ retried = {}
    /\ told = {} /\ fed = {}
    /\ disk = Files(Empty, <<>>, {}) /\ starts = 0
    /\ rescued = {} /\ overwritten = {}

--------------------------------------------------------------------------------
\* merge_token.

\* Mutant: contracts are incompatible only if they differ on a common chain.
CompatibleUnlessClash(old, new) == \A c \in old, d \in new : c[1] = d[1] => c = d

\* _contracts_compatible: nothing known on one side, or one contract in common.
Compatible(old, new) == old = {} \/ new = {} \/ old \cap new # {}

\* _resolve_for_merge: the key by contract, by token_id, by ticker.  Any of the contracts
\* may come first; the first compatible entry of the ticker is taken.
Resolved(r) ==
    LET known == r.contracts \cap DOMAIN byContract
        Fits(k) == k \in DOMAIN cache => Compatible(cache[k].contracts, r.contracts)
        same == {i \in 1..Len(bySymbol[r.sym]) : Fits(bySymbol[r.sym][i])}
    IN  IF known # {} THEN {byContract[c] : c \in known}
        ELSE IF r.tid \in DOMAIN byTid /\ Fits(byTid[r.tid]) THEN {byTid[r.tid]}
        ELSE {bySymbol[r.sym][i] : i \in {j \in same : \A h \in same : j <= h}}

\* _make_disambig_key: the ticker and the beginning of the contract on the first chain by
\* name; it is not reached without contracts.
First(contracts) == {c \in contracts : \A d \in contracts : Alphabet[c[1]] <= Alphabet[d[1]]}
Disambiguated(r) == {<<r.sym, c[1], c[2]>> : c \in First(r.contracts)}
\* Mutant: a new token gets its ticker as the key, taken or not.
FreshKeysBare(r) == {Bare(r.sym)}

FreshKeys(r) == IF Bare(r.sym) \notin DOMAIN cache THEN {Bare(r.sym)} ELSE Disambiguated(r)

\* The entry the report is merged into; a new one if there is none, whatever is under its key.
MergedEntry(k, r) ==
    LET e == IF k \in DOMAIN cache /\ Resolved(r) # {} THEN cache[k]
             ELSE [sym |-> r.sym, tid |-> r.tid, aliases |-> {}, contracts |-> {}, nets |-> {},
                   coin |-> "", verified |-> "unknown"]
        chains == {c[1] : c \in r.contracts}
    IN  [e EXCEPT !.aliases = IF r.sym # e.sym THEN e.aliases \cup {r.sym} ELSE e.aliases,
                  !.tid = IF e.tid = "" THEN r.tid ELSE e.tid,
                  !.contracts = {c \in e.contracts : c[1] \notin chains} \cup r.contracts,
                  !.nets = e.nets \cup {r.cex}]

\* get_missing_symbols_for_cex.
Missing(cex, s) ==
    /\ cex = "kraken" => s \notin giveUp
    /\ \A i \in 1..Len(bySymbol[s]) :
          LET k == bySymbol[s][i] IN k \in DOMAIN cache => cex \notin cache[k].nets

\* flush writes when enough has changed or time has passed.
MayFlush(entries, keys, ignored) == disk' \in {disk, Files(entries, keys, ignored)}

Merges(r) ==
    /\ Missing(r.cex, r.sym)
    /\ \E k \in IF Resolved(r) # {} THEN Resolved(r) ELSE FreshKeys(r) :
          LET e == MergedEntry(k, r)
          IN  /\ cache' = [x \in DOMAIN cache \cup {k} |-> IF x = k THEN e ELSE cache[x]]
              /\ order' = IF k \in ToSet(order) THEN order ELSE Append(order, k)
              /\ overwritten' = IF k \in DOMAIN cache /\ Resolved(r) = {}
                                THEN overwritten \cup {k} ELSE overwritten
              /\ IndexedBy(k, e)
    /\ MayFlush(cache', order', giveUp)
    /\ UNCHANGED <<giveUp, coinVars, feedVars, starts, rescued>>

--------------------------------------------------------------------------------
\* CoinGecko.

\* refresh_platforms and refresh_kraken_pairs succeed and fail one by one; the coins
\* appear there in time.
CoinGeckoRefreshed ==
    /\ \/ \E c \in Coins \ listed : listed' = listed \cup {c} /\ UNCHANGED traded
       \/ \E c \in Coins \ traded : c.kraken /\ traded' = traded \cup {c} /\ UNCHANGED listed
    /\ UNCHANGED <<cache, order, indexVars, giveUp, retried, feedVars, disk, starts, rescued,
                   overwritten>>

CoinOf(id) == CHOOSE c \in Coins : c.id = id

\* Coins of the ticker that Kraken trades and that have a contract.
Rescuers(e) == {c \in listed \cap traded : c.sym = e.sym /\ c.platforms # {}}

\* _resolve_entry_with_coingecko: the entry with its coin, by contract or by ticker, and
\* with Kraken's block verified or taken away.
WithCoin(e) ==
    LET byAddress == {c \in listed : c.platforms \cap e.contracts # {}}
        undecided == "kraken" \in e.nets /\ e.verified = "unknown"
        adopts == e.coin = "" /\ byAddress = {} /\ undecided /\ Cardinality(Rescuers(e)) = 1
        chains == {c[1] : c \in e.contracts}
    IN  IF e.coin # "" THEN e
        ELSE IF byAddress # {} THEN [e EXCEPT !.coin = (CHOOSE c \in byAddress : TRUE).id]
        ELSE IF adopts
        THEN LET c == CHOOSE c \in Rescuers(e) : TRUE
             IN  [e EXCEPT !.coin = c.id,
                           !.contracts = @ \cup {p \in c.platforms : p[1] \notin chains}]
        ELSE e
Verified(e) ==
    LET w == WithCoin(e)
    IN  IF "kraken" \notin w.nets \/ w.verified # "unknown" \/ w.coin = "" THEN w
        ELSE IF CoinOf(w.coin) \in traded THEN [w EXCEPT !.verified = "yes"]
        ELSE [w EXCEPT !.verified = "no", !.nets = w.nets \ {"kraken"}]

RescuedNow(keys) ==
    {k \in keys : /\ cache[k].contracts # {}
                  /\ WithCoin(cache[k]).contracts # cache[k].contracts}

\* apply_coingecko_metadata_for_entry: after a merge of Kraken's, or from the queue.  What
\* stays undecided is queued, what is decided leaves the queue.
Verifies(k) ==
    /\ k \in DOMAIN cache /\ "kraken" \in cache[k].nets
    /\ cache' = [cache EXCEPT ![k] = Verified(cache[k])]
    /\ rescued' = rescued \cup RescuedNow({k})
    /\ IF cache' # cache
       THEN Rebuilt(cache', order) /\ disk' = Files(cache', order, giveUp)
       ELSE UNCHANGED <<indexVars, disk>>
    /\ retried' = IF cache'[k].verified = "unknown" THEN retried \cup {k} ELSE retried \ {k}
    /\ UNCHANGED <<order, giveUp, listed, traded, feedVars, starts, overwritten>>

\* An entry that was not resolved for long enough leaves the queue.
RetriesGiveUp ==
    /\ \E k \in retried : retried' = retried \ {k}
    /\ UNCHANGED <<cache, order, indexVars, giveUp, listed, traded, feedVars, disk, starts, rescued,
                   overwritten>>

--------------------------------------------------------------------------------
\* The start: apply_coingecko_metadata, then cleanup_kraken_pending; Kraken's feed begins
\* with the tickers of the entries that still have its block.

\* Kraken's block on what is disproved or undecided and not in the queue.
Stale(e, k) == "kraken" \in e.nets /\ k \notin retried /\ e.verified # "yes"
KrakenOnly(e) == e.verified = "unknown" /\ e.nets = {"kraken"}

Cleaned(e, k) ==
    IF Stale(e, k) THEN [e EXCEPT !.nets = @ \ {"kraken"}, !.verified = "no"] ELSE e

Starts ==
    /\ starts < MaxStarts /\ starts' = starts + 1
    /\ LET known == listed # {} \/ traded # {}
           entries == [k \in DOMAIN disk.cache |->
                         IF known THEN Verified(disk.cache[k]) ELSE disk.cache[k]]
           dropped == {k \in DOMAIN entries : Stale(entries[k], k) /\ KrakenOnly(entries[k])}
           left == DOMAIN entries \ dropped
       IN  /\ cache' = [k \in left |-> Cleaned(entries[k], k)]
           /\ order' = InOrder(disk.order, left)
           /\ giveUp' = disk.giveUp
                 \cup {entries[k].sym : k \in {x \in DOMAIN entries : Stale(entries[x], x)}}
           /\ rescued' = rescued \cup
                 (IF known THEN {k \in DOMAIN entries :
                                   /\ disk.cache[k].contracts # {}
                                   /\ entries[k].contracts # disk.cache[k].contracts} ELSE {})
           /\ Rebuilt(cache', order')
           /\ told' = disk.told
           /\ fed' = {s \in disk.told : \E k \in left : cache'[k].sym = s /\ "kraken" \in cache'[k].nets}
           /\ disk' = [Files(cache', order', giveUp') EXCEPT !.told = disk.told]
    /\ UNCHANGED <<coinVars, overwritten>>

--------------------------------------------------------------------------------
\* Quotes.

\* resolve_key_for_cex_symbol.
RouteKeys(cex, s) ==
    LET Allowed(k) == k \in DOMAIN cache /\ (cex = "kraken" => cache[k].verified # "no")
        keys == SelectSeq(bySymbol[s], Allowed)
        matches == SelectSeq(keys, LAMBDA k : cex \in cache[k].nets)
        sure == SelectSeq(matches, LAMBDA k : cache[k].verified = "yes")
    IN  IF cex = "kraken" /\ sure # <<>> THEN <<Head(sure)>>
        ELSE IF matches # <<>> THEN <<Head(matches)>>
        ELSE IF Len(keys) = 1 THEN keys ELSE <<>>

\* Where update_cex puts a quote: it falls back on the ticker itself.
QuoteKey(cex, s) == IF RouteKeys(cex, s) # <<>> THEN Head(RouteKeys(cex, s)) ELSE Bare(s)

\* run_kraken subscribes a new listing after its metadata, whatever came of them.
FeedBegins(s) ==
    /\ s \notin told /\ (bySymbol[s] # <<>> \/ s \in giveUp)
    /\ \E r \in Reports : r.cex = "kraken" /\ r.sym = s
    /\ told' = told \cup {s} /\ fed' = fed \cup {s}
    /\ UNCHANGED <<cache, order, indexVars, giveUp, coinVars, disk, starts, rescued, overwritten>>

CacheNext ==
    \/ \E r \in Reports : Merges(r)
    \/ CoinGeckoRefreshed
    \/ \E s \in Tickers : FeedBegins(s)
    \/ \E k \in DOMAIN cache : Verifies(k)
    \/ RetriesGiveUp
    \/ Starts

CacheSpec == CacheInit /\ [][CacheNext]_cacheVars

--------------------------------------------------------------------------------
CacheTypeOK ==
    /\ ToSet(order) = DOMAIN cache /\ Len(order) = Cardinality(DOMAIN cache)
    /\ \A k \in DOMAIN cache : /\ cache[k].verified \in {"unknown", "yes", "no"}
                               /\ cache[k].contracts \subseteq Contracts
    /\ giveUp \subseteq Tickers

\* Entries that may hold contracts of two tokens, or are indexed by what they do not have: a
\* coin was adopted by ticker for an entry with contracts CoinGecko did not know, or a new
\* token was written over the entry, whose contracts the index still leads there.
Muddled == rescued \cup overwritten

\* The contracts of an entry that is not muddled belong to one token, however the tickers
\* collide (_resolve_for_merge, _contracts_compatible).
NoMixing ==
    \A k \in DOMAIN cache \ Muddled : \E t \in Tokens : cache[k].contracts \subseteq t

\* Every entry is found by its ticker, its aliases and its contracts, and no index leads to
\* an entry that is gone or, if it is not muddled, has not what it is indexed by
\* (_index_entry, _rebuild_indexes).
LookupsAreTrue ==
    /\ \A s \in Tickers : \A k \in ToSet(bySymbol[s]) :
          k \in DOMAIN cache /\ (s \in Under(cache[k]) \/ k \in Muddled)
    /\ \A c \in DOMAIN byContract :
          /\ byContract[c] \in DOMAIN cache
          /\ c \in cache[byContract[c]].contracts \/ byContract[c] \in Muddled
    /\ \A k \in DOMAIN cache : /\ \A s \in Under(cache[k]) : k \in ToSet(bySymbol[s])
                               /\ cache[k].contracts \subseteq DOMAIN byContract

\* The two entries have contracts of one chain that begin alike.
Alike(e, f) == \E c \in e.contracts, d \in f.contracts : c # d /\ Short(c) = Short(d)

\* While the process runs no key is lost, and an entry that is not muddled keeps its contracts
\* unless a new token is written over it - which _make_disambig_key lets happen only to two
\* tokens whose contracts on one chain begin with the same eight digits (merge_token).
EntriesStay ==
    [][starts' # starts \/ \A k \in DOMAIN cache :
           /\ k \in DOMAIN cache'
           /\ \/ cache[k].contracts \subseteq cache'[k].contracts
              \/ k \in Muddled
              \/ k \in overwritten' /\ Alike(cache[k], cache'[k])]_cacheVars

\* A quote of Kraken never lands on an entry CoinGecko has disproved: "this prevents a
\* Kraken-listed price from landing on a different token" (resolve_key_for_cex_symbol).
KrakenNotOnDisproved ==
    \A s \in fed :
        QuoteKey("kraken", s) \in DOMAIN cache => cache[QuoteKey("kraken", s)].verified # "no"
====
