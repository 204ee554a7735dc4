---------------------------- MODULE FeedsProofs ----------------------------
(***************************************************************************)
(* From a ticker to its quotes, for any tokens, reports, coins, tickers,   *)
(* failures and restarts: an undecided Kraken listing is queued, and the   *)
(* token cache does not take one token for another.                        *)
(***************************************************************************)
EXTENDS MCFeeds, BybitBookProofs

--------------------------------------------------------------------------------
(* Kraken's pending listings.  OpenIsQueued is not inductive: the queue is    *)
(* overwritten with the copy the retry loop read, and a restart goes back to  *)
(* the files.  PendInv adds what the copy and the files may lack.             *)

(* Where an undecided ticker may be. *)
Held == queue \cup merging \cup aged \cup cutOff \cup amid

(* One ticker is merged at a time. *)
OneMerging == \A j, k \in merging : j = k

(* The files do not have a ticker undecided that the cache has otherwise. *)
FilesAgree ==
    \A k \in Fresh : onDisk[k] \in {"open", "dropped"} => state[k] = onDisk[k]

(* What the loop's copy of the queue lacks was registered since, or is decided. *)
CopyComplete ==
    loop = "apply" => \A k \in queue : k \in table \/ k \in amid \/ state[k] = "decided"

PendInv == PendTypeOK /\ OneMerging /\ FilesAgree /\ CopyComplete /\ OpenIsQueued

LEMMA PendInitHolds == PendInit => PendInv
<1> SUFFICES ASSUME PendInit PROVE PendInv
  OBVIOUS
<1>1. PendTypeOK
  BY DEF PendInit, PendTypeOK
<1>2. OneMerging /\ FilesAgree /\ CopyComplete /\ OpenIsQueued
  BY DEF PendInit, OneMerging, FilesAgree, CopyComplete, OpenIsQueued
<1> QED
  BY <1>1, <1>2 DEF PendInv

--------------------------------------------------------------------------------
(* A ticker that is decided, and written so, disturbs nothing. *)
LEMMA DecidedKeeps ==
  ASSUME PendInv, NEW k \in Fresh, Decided(k)
  PROVE  /\ state' \in [Fresh -> {"new", "open", "decided", "dropped"}]
         /\ onDisk' = state'
         /\ \A j \in Fresh : state'[j] = IF j = k THEN "decided" ELSE state[j]
BY DEF PendInv, PendTypeOK, Decided

(* What the loop does with its copy, and with what is left of the due ones. *)
LEMMA TriesKeeps ==
  ASSUME PendInv, NEW copy \in SUBSET Fresh, NEW left \in SUBSET Fresh,
         \A k \in queue : k \in copy \/ k \in amid \/ state[k] = "decided",
         Tries(copy, left), index' \subseteq Fresh,
         UNCHANGED <<onGecko, merging, recent, amid, cutOff>>
  PROVE  PendInv'
<1> USE DEF PendInv
<1>1. ASSUME NEW k \in left, Decided(k),
             loop' = "apply", table' = copy \ {k}, due' = left \ {k},
             UNCHANGED <<queue, old, aged>>
      PROVE  PendInv'
  <2>1. /\ state' \in [Fresh -> {"new", "open", "decided", "dropped"}]
        /\ onDisk' = state'
        /\ \A j \in Fresh : state'[j] = IF j = k THEN "decided" ELSE state[j]
    BY <1>1, DecidedKeeps
  <2>2. PendTypeOK'
    BY <1>1, <2>1 DEF PendTypeOK
  <2>3. OneMerging' /\ FilesAgree'
    BY <2>1 DEF OneMerging, FilesAgree
  <2>4. CopyComplete'
    BY <1>1, <2>1 DEF CopyComplete, PendTypeOK
  <2>5. OpenIsQueued'
    BY <1>1, <2>1 DEF OpenIsQueued
  <2> QED
    BY <2>2, <2>3, <2>4, <2>5
<1>2. ASSUME NEW given, given = {k \in left : k \in old},
             NEW settled, settled = {k \in left \ old : state[k] = "decided"},
             queue' = copy \ (given \cup settled),
             old' = old \cap queue', aged' = aged \cup given,
             loop' = "sleep", table' = {}, due' = {},
             UNCHANGED <<state, onDisk>>
      PROVE  PendInv'
  <2>1. PendTypeOK'
    BY <1>2 DEF PendTypeOK
  <2>2. OneMerging' /\ FilesAgree' /\ CopyComplete'
    BY <1>2 DEF OneMerging, FilesAgree, CopyComplete
  <2>3. OpenIsQueued'
    <3> SUFFICES ASSUME NEW k \in Fresh, state[k] \in {"open", "dropped"},
                        k \notin merging \cup aged \cup cutOff \cup amid, k \notin given
                 PROVE  k \in queue'
      BY <1>2 DEF OpenIsQueued
    <3>1. k \in queue
      BY DEF OpenIsQueued
    <3>2. k \in copy /\ k \notin settled
      BY <1>2, <3>1
    <3> QED
      BY <1>2, <3>2
  <2> QED
    BY <2>1, <2>2, <2>3
<1> QED
  BY <1>1, <1>2 DEF Tries

--------------------------------------------------------------------------------
(* run_kraken and the other tasks. *)
LEMMA RoundKeeps ==
  ASSUME PendInv,
         \/ GeckoLists \/ DailyRefresh \/ TriesFresh \/ RoundBreaks \/ TokensFlushed
         \/ \E k \in Fresh : MergesFresh(k)
  PROVE  PendInv'
<1> USE DEF PendInv
<1>1. CASE GeckoLists \/ DailyRefresh
  <2>1. PendTypeOK'
    BY <1>1 DEF GeckoLists, DailyRefresh, PendTypeOK, entryVars, queueVars, retryVars, causeVars
  <2>2. OneMerging' /\ FilesAgree' /\ CopyComplete' /\ OpenIsQueued'
    BY <1>1 DEF GeckoLists, DailyRefresh, OneMerging, FilesAgree, CopyComplete, OpenIsQueued,
                entryVars, queueVars, retryVars, causeVars
  <2> QED
    BY <2>1, <2>2
<1>2. ASSUME NEW k \in Fresh, MergesFresh(k) PROVE PendInv'
  <2> USE <1>2 DEF MergesFresh, Mergeable
  <2>1. state' = [state EXCEPT ![k] = "open"] /\ state[k] = "new" /\ merging' = {k}
        /\ merging = {}
    OBVIOUS
  <2>2. PendTypeOK'
    BY <2>1 DEF PendTypeOK, geckoVars, queueVars, retryVars, causeVars
  <2>3. OneMerging'
    BY <2>1 DEF OneMerging
  <2>4. FilesAgree'
    BY <2>1 DEF FilesAgree, PendTypeOK
  <2>5. CopyComplete'
    BY <2>1 DEF CopyComplete, PendTypeOK, queueVars, retryVars, causeVars
  <2>6. OpenIsQueued'
    BY <2>1 DEF OpenIsQueued, PendTypeOK, queueVars, causeVars
  <2> QED
    BY <2>2, <2>3, <2>4, <2>5, <2>6
<1>3. CASE TriesFresh
  <2>1. PICK k \in merging :
          IF k \in index
          THEN Decided(k) /\ UNCHANGED <<queue, recent, amid>>
          ELSE Registered(k) /\ UNCHANGED <<state, onDisk>>
    BY <1>3 DEF TriesFresh
  <2>2. k \in Fresh /\ merging = {k} /\ merging' = {}
    BY <1>3 DEF TriesFresh, PendTypeOK, OneMerging
  <2>3. UNCHANGED <<onGecko, index, old, loop, due, table, aged, cutOff>>
    BY <1>3 DEF TriesFresh, geckoVars, retryVars
  <2>4. CASE k \in index
    <3>1. /\ state' \in [Fresh -> {"new", "open", "decided", "dropped"}]
          /\ onDisk' = state'
          /\ \A j \in Fresh : state'[j] = IF j = k THEN "decided" ELSE state[j]
      BY <2>1, <2>2, <2>4, DecidedKeeps
    <3>2. UNCHANGED <<queue, recent, amid>>
      BY <2>1, <2>4
    <3>3. PendTypeOK'
      BY <2>2, <2>3, <3>1, <3>2 DEF PendTypeOK
    <3>4. OneMerging' /\ FilesAgree'
      BY <2>2, <3>1 DEF OneMerging, FilesAgree
    <3>5. CopyComplete'
      BY <2>3, <3>1, <3>2 DEF CopyComplete, PendTypeOK
    <3>6. OpenIsQueued'
      BY <2>2, <2>3, <3>1, <3>2 DEF OpenIsQueued
    <3> QED
      BY <3>3, <3>4, <3>5, <3>6
  <2>5. CASE k \notin index
    <3>1. Registered(k) /\ UNCHANGED <<state, onDisk>>
      BY <2>1, <2>5
    <3>2. PendTypeOK'
      BY <2>2, <2>3, <3>1 DEF PendTypeOK, Registered
    <3>3. OneMerging' /\ FilesAgree'
      BY <2>2, <3>1 DEF OneMerging, FilesAgree
    <3>4. CopyComplete'
      BY <2>2, <2>3, <3>1 DEF CopyComplete, Registered
    <3>5. OpenIsQueued'
      BY <2>2, <2>3, <3>1 DEF OpenIsQueued, Registered
    <3> QED
      BY <3>2, <3>3, <3>4, <3>5
  <2> QED
    BY <2>4, <2>5
<1>4. CASE RoundBreaks
  <2>1. PendTypeOK'
    BY <1>4 DEF RoundBreaks, PendTypeOK, geckoVars, queueVars, retryVars
  <2>2. OneMerging' /\ FilesAgree' /\ CopyComplete' /\ OpenIsQueued'
    BY <1>4 DEF RoundBreaks, OneMerging, FilesAgree, CopyComplete, OpenIsQueued,
                queueVars, retryVars
  <2> QED
    BY <2>1, <2>2
<1>5. CASE TokensFlushed
  <2>1. PendTypeOK'
    BY <1>5 DEF TokensFlushed, PendTypeOK, geckoVars, queueVars, retryVars, causeVars
  <2>2. OneMerging' /\ FilesAgree' /\ CopyComplete' /\ OpenIsQueued'
    BY <1>5 DEF TokensFlushed, OneMerging, FilesAgree, CopyComplete, OpenIsQueued,
                queueVars, retryVars, causeVars
  <2> QED
    BY <2>1, <2>2
<1> QED
  BY <1>1, <1>2, <1>3, <1>4, <1>5

--------------------------------------------------------------------------------
(* The retry loop. *)
LEMMA LoopKeeps ==
  ASSUME PendInv, PendingAges \/ LoopTurn \/ LoopBreaks
  PROVE  PendInv'
<1> USE DEF PendInv
<1>1. CASE PendingAges
  <2>1. PendTypeOK'
    BY <1>1 DEF PendingAges, PendTypeOK, geckoVars, entryVars, retryVars, causeVars
  <2>2. OneMerging' /\ FilesAgree' /\ CopyComplete' /\ OpenIsQueued'
    BY <1>1 DEF PendingAges, OneMerging, FilesAgree, CopyComplete, OpenIsQueued,
                entryVars, retryVars, causeVars
  <2> QED
    BY <2>1, <2>2
<1>2. CASE LoopWakes
  <2>1. PendTypeOK'
    BY <1>2 DEF LoopWakes, PendTypeOK, geckoVars, entryVars, causeVars
  <2>2. OneMerging' /\ FilesAgree' /\ CopyComplete' /\ OpenIsQueued'
    BY <1>2 DEF LoopWakes, OneMerging, FilesAgree, CopyComplete, OpenIsQueued,
                entryVars, causeVars
  <2> QED
    BY <2>1, <2>2
<1>3. CASE LoopReloads
  <2>1. queue \in SUBSET Fresh /\ due \cap queue \in SUBSET Fresh /\ index' \subseteq Fresh
    BY <1>3 DEF LoopReloads, LoopRefreshed, PendTypeOK
  <2>2. Tries(queue, due \cap queue) /\ UNCHANGED <<onGecko, merging, recent, amid, cutOff>>
    BY <1>3 DEF LoopReloads
  <2> QED
    BY <2>1, <2>2, TriesKeeps
<1>4. CASE LoopGoesOn
  <2>1. table \in SUBSET Fresh /\ due \in SUBSET Fresh /\ index' \subseteq Fresh
    BY <1>4 DEF LoopGoesOn, PendTypeOK
  <2>2. \A k \in queue : k \in table \/ k \in amid \/ state[k] = "decided"
    BY <1>4 DEF LoopGoesOn, CopyComplete
  <2>3. Tries(table, due) /\ UNCHANGED <<onGecko, merging, recent, amid, cutOff>>
    BY <1>4 DEF LoopGoesOn
  <2> QED
    BY <2>1, <2>2, <2>3, TriesKeeps
<1>5. CASE LoopBreaks
  <2>1. PendTypeOK'
    BY <1>5 DEF LoopBreaks, PendTypeOK, geckoVars, entryVars, queueVars, causeVars
  <2>2. OneMerging' /\ FilesAgree' /\ CopyComplete' /\ OpenIsQueued'
    BY <1>5 DEF LoopBreaks, OneMerging, FilesAgree, CopyComplete, OpenIsQueued,
                entryVars, queueVars, causeVars
  <2> QED
    BY <2>1, <2>2
<1> QED
  BY <1>1, <1>2, <1>3, <1>4, <1>5 DEF LoopTurn

--------------------------------------------------------------------------------
(* The start drops only what is not queued. *)
LEMMA PendRestartKeeps ==
  ASSUME PendInv, PendingRestarts
  PROVE  PendInv'
<1> USE DEF PendInv
<1>1. /\ \A k \in Fresh : state'[k] = AfterStart(k)
      /\ state' \in [Fresh -> {"new", "open", "decided", "dropped"}]
  <2>1. \A k \in Fresh : AfterStart(k) \in {"new", "open", "decided", "dropped"}
    BY DEF AfterStart, PendTypeOK
  <2> QED
    BY <2>1 DEF PendingRestarts
<1>2. PendTypeOK'
  BY <1>1 DEF PendingRestarts, PendTypeOK, geckoVars
<1>3. OneMerging' /\ FilesAgree' /\ CopyComplete'
  BY DEF PendingRestarts, OneMerging, FilesAgree, CopyComplete
<1>4. OpenIsQueued'
  <2> SUFFICES ASSUME NEW k \in Fresh, state'[k] \in {"open", "dropped"}
               PROVE  k \in Held'
    BY DEF OpenIsQueued, Held
  <2>1. UNCHANGED <<queue, amid, aged>> /\ cutOff' = cutOff \cup merging
    BY DEF PendingRestarts
  <2>2. onDisk[k] \in {"open", "dropped"}
    BY <1>1 DEF AfterStart
  <2>3. k \in Held
    BY <2>2 DEF FilesAgree, OpenIsQueued, Held
  <2> QED
    BY <2>1, <2>3 DEF Held
<1> QED
  BY <1>2, <1>3, <1>4

LEMMA PendStep == PendInv /\ [PendNext]_pendVars => PendInv'
<1> SUFFICES ASSUME PendInv, [PendNext]_pendVars PROVE PendInv'
  OBVIOUS
<1>1. CASE UNCHANGED pendVars
  <2> USE <1>1 DEF pendVars, geckoVars, entryVars, queueVars, retryVars, causeVars
  <2>1. PendTypeOK'
    BY DEF PendInv, PendTypeOK
  <2>2. OneMerging' /\ FilesAgree' /\ CopyComplete' /\ OpenIsQueued'
    BY DEF PendInv, OneMerging, FilesAgree, CopyComplete, OpenIsQueued
  <2> QED
    BY <2>1, <2>2 DEF PendInv
<1> QED
  BY <1>1, RoundKeeps, LoopKeeps, PendRestartKeeps DEF PendNext

(* The queue of Kraken's pending listings and the loop's place in it keep  *)
(* their types (kraken_pending_retry_loop, run_kraken).                    *)
THEOREM PendingTypeCorrect == PendSpec => []PendTypeOK
<1> QED
  BY PendInitHolds, PendStep, PTL DEF PendSpec, PendInv

(* An undecided or dropped listing is queued, being merged, given up for   *)
(* its age, or lost in one of the two ways the history variables name      *)
(* (pending_register, kraken_pending_retry_loop, cleanup_kraken_pending).  *)
THEOREM PendingOpenIsQueued == PendSpec => []OpenIsQueued
<1> QED
  BY PendInitHolds, PendStep, PTL DEF PendSpec, PendInv

--------------------------------------------------------------------------------
(* The token cache.  Where an entry's contracts are told apart, its place in  *)
(* the indexes is needed: a report goes to an entry because it shares a       *)
(* contract with it, and a key made from a contract is made a second time     *)
(* only for a contract that begins alike, because the index has the first.    *)
(* Both hold of the files as well, which the next start takes over.           *)

Keys == {Bare(s) : s \in Tickers} \cup {<<s, c[1], c[2]>> : s \in Tickers, c \in Contracts}
Entries == [sym : Tickers, tid : {r.tid : r \in Reports} \cup {""}, aliases : SUBSET Tickers,
            contracts : SUBSET Contracts, nets : SUBSET {r.cex : r \in Reports},
            coin : {c.id : c \in Coins} \cup {""}, verified : {"unknown", "yes", "no"}]

(* Each key is in the dict once. *)
InDict(keys, entries) ==
    /\ keys \in Seq(Keys) /\ ToSet(keys) = DOMAIN entries
    /\ \A i, j \in 1..Len(keys) : keys[i] = keys[j] => i = j

OneToken(e) == \E t \in Tokens : e.contracts \subseteq t
KeyBegins(k, e) ==
    \A s \in Tickers, d \in Contracts :
        k = <<s, d[1], d[2]>> => \E c \in e.contracts : Short(c) = Short(d)

EntryIsTrue(k, e) == e \in Entries /\ (k \in Muddled \/ (OneToken(e) /\ KeyBegins(k, e)))

Sound(keys, entries) ==
    InDict(keys, entries) /\ \A k \in DOMAIN entries : EntryIsTrue(k, entries[k])

IndexShape ==
    /\ bySymbol \in [Tickers -> Seq(Keys)]
    /\ \A t \in DOMAIN byTid : byTid[t] \in DOMAIN cache

CacheInv ==
    /\ Sound(order, cache) /\ Sound(disk.order, disk.cache)
    /\ giveUp \subseteq Tickers /\ disk.giveUp \subseteq Tickers /\ listed \subseteq Coins
    /\ starts \in Nat
    /\ IndexShape /\ LookupsAreTrue


--------------------------------------------------------------------------------
(* The members of a set in the order of the dict. *)

LEMMA PlacesCount ==
  ASSUME NEW A \in SUBSET Nat, IsFiniteSet(A), NEW n \in 1..Cardinality(A)
  PROVE  \E i \in A : Cardinality({j \in A : j <= i}) = n
<1> DEFINE Upto(i) == {j \in A : j <= i}
           Large == {i \in A : Cardinality(Upto(i)) >= n}
<1>1. \A i \in A : IsFiniteSet(Upto(i)) /\ Cardinality(Upto(i)) \in Nat
  BY FS_Subset, FS_CardinalityType
<1>2. A # {} /\ Cardinality(A) \in Nat
  BY FS_EmptySet, FS_CardinalityType
<1>3. Large # {}
  <2>1. PICK m \in A : \A i \in A : m >= i
    <3>1. Max(A) \in A
      BY <1>2, MaxOfSide
    <3> QED
      BY <1>2, HighestNumber
  <2>2. Upto(m) = A
    BY <2>1
  <2> QED
    BY <2>1, <2>2
<1>4. PICK i \in Large : \A j \in Large : i <= j
  <2>1. Large \in SUBSET Nat
    OBVIOUS
  <2> HIDE DEF Large
  <2> QED
    BY <1>3, <2>1, LeastNumber
<1>5. ASSUME Cardinality(Upto(i)) > n PROVE FALSE
  <2> DEFINE B == Upto(i) \ {i}
  <2>1. IsFiniteSet(B) /\ Cardinality(B) = Cardinality(Upto(i)) - 1
    <3>1. i \in Upto(i)
      OBVIOUS
    <3> HIDE DEF Upto
    <3> QED
      BY <1>1, <3>1, FS_RemoveElement
  <2>2. B # {} /\ B \in SUBSET Nat /\ Cardinality(B) >= n
    <3>1. Cardinality(B) >= n
      BY <1>1, <1>5, <2>1
    <3>2. B # {}
      BY <3>1, FS_EmptySet
    <3> QED
      BY <3>1, <3>2
  <2>3. PICK h \in B : \A j \in B : h >= j
    <3> HIDE DEF B
    <3> QED
      BY <2>1, <2>2, HighestNumber
  <2>4. Upto(h) = B
    <3>1. h \in Nat /\ i \in Nat /\ h < i
      BY <2>3
    <3>2. \A j \in A : j <= h => j <= i /\ j # i
      BY <3>1
    <3>3. \A j \in B : j <= h
      BY <2>3
    <3> QED
      BY <3>2, <3>3
  <2>5. h \in Large /\ h < i
    <3>1. h \in A /\ h < i
      BY <2>3
    <3> QED
      BY <2>2, <2>4, <3>1
  <2> QED
    BY <1>4, <2>5
<1>6. Cardinality(Upto(i)) = n
  BY <1>1, <1>5
<1> QED
  BY <1>6

LEMMA InOrderHas ==
  ASSUME NEW keys \in Seq(Keys), NEW S,
         \A i, j \in 1..Len(keys) : keys[i] = keys[j] => i = j
  PROVE  /\ InOrder(keys, S) \in Seq(Keys)
         /\ ToSet(InOrder(keys, S)) = ToSet(keys) \cap S
         /\ LET q == InOrder(keys, S) IN \A i, j \in 1..Len(q) : q[i] = q[j] => i = j
<1> DEFINE at == {i \in 1..Len(keys) : keys[i] \in S}
           Upto(i) == {j \in at : j <= i}
           Place(i) == Cardinality(Upto(i))
           Nth(n) == CHOOSE i \in at : Place(i) = n
           q == [n \in 1..Cardinality(at) |-> keys[Nth(n)]]
<1>1. q = InOrder(keys, S)
  BY DEF InOrder
<1>2. /\ Len(keys) \in Nat /\ at \in SUBSET Nat /\ IsFiniteSet(at) /\ Cardinality(at) \in Nat
      /\ \A i \in at : i \in 1..Len(keys) /\ keys[i] \in S
  <2>1. at \in SUBSET (1..Len(keys)) /\ Len(keys) \in Nat
    OBVIOUS
  <2> HIDE DEF at
  <2>2. IsFiniteSet(1..Len(keys))
    BY <2>1, FS_Interval
  <2>3. IsFiniteSet(at) /\ Cardinality(at) \in Nat
    BY <2>1, <2>2, FS_Subset, FS_CardinalityType
  <2> QED
    BY <2>1, <2>3 DEF at
<1>3. \A i \in at : IsFiniteSet(Upto(i)) /\ Place(i) \in 1..Cardinality(at)
  <2> SUFFICES ASSUME NEW i \in at PROVE IsFiniteSet(Upto(i)) /\ Place(i) \in 1..Cardinality(at)
    OBVIOUS
  <2>1. Upto(i) \in SUBSET at /\ i \in Upto(i)
    BY <1>2
  <2> HIDE DEF at, Upto
  <2>2. IsFiniteSet(Upto(i)) /\ Cardinality(Upto(i)) <= Cardinality(at) /\ Cardinality(Upto(i)) \in Nat
    BY <1>2, <2>1, FS_Subset, FS_CardinalityType
  <2>3. Cardinality(Upto(i)) # 0
    BY <2>1, <2>2, FS_EmptySet
  <2> QED
    BY <1>2, <2>2, <2>3
<1>4. \A i, j \in at : Place(i) = Place(j) => i = j
  <2>1. ASSUME NEW i \in at, NEW j \in at, i < j PROVE Place(i) # Place(j)
    <3>1. Upto(i) \subseteq Upto(j) /\ j \in Upto(j) /\ j \notin Upto(i)
      <4>1. i \in Nat /\ j \in Nat /\ \A h \in at : h \in Nat
        BY <1>2
      <4> HIDE DEF at
      <4>2. \A h \in at : h <= i => h <= j
        BY <2>1, <4>1
      <4>3. ~(j <= i) /\ j <= j
        BY <2>1, <4>1
      <4> QED
        BY <4>2, <4>3
    <3>2. IsFiniteSet(Upto(j))
      BY <1>3
    <3> HIDE DEF at, Upto
    <3> QED
      BY <3>1, <3>2, FS_Subset
  <2>2. \A i, j \in at : i < j \/ j < i \/ i = j
    BY <1>2
  <2> QED
    BY <2>1, <2>2
<1>5. \A n \in 1..Cardinality(at) : Nth(n) \in at /\ Place(Nth(n)) = n
  <2>1. \A n \in 1..Cardinality(at) : \E i \in at : Place(i) = n
    <3> HIDE DEF at
    <3> QED
      BY <1>2, PlacesCount
  <2> HIDE DEF at, Place
  <2> QED
    BY <2>1
<1>6. \A i \in at : Nth(Place(i)) = i
  <2> HIDE DEF at, Place, Nth
  <2> QED
    BY <1>3, <1>4, <1>5
<1> HIDE DEF at, Place, Nth, Upto
<1>7. q \in Seq(Keys) /\ Len(q) = Cardinality(at) /\ \A n \in 1..Cardinality(at) : q[n] = keys[Nth(n)]
  <2>1. \A i \in 1..Len(keys) : keys[i] \in Keys
    OBVIOUS
  <2>2. \A n \in 1..Cardinality(at) : keys[Nth(n)] \in Keys
    BY <1>2, <1>5, <2>1
  <2> QED
    BY <1>2, <2>2
<1>8. ToSet(q) = ToSet(keys) \cap S
  <2>1. ASSUME NEW k \in ToSet(q) PROVE k \in ToSet(keys) /\ k \in S
    <3>1. PICK n \in 1..Cardinality(at) : k = q[n]
      BY <1>7, <2>1 DEF ToSet
    <3> QED
      BY <1>2, <1>5, <1>7, <3>1 DEF ToSet
  <2>2. ASSUME NEW k \in ToSet(keys), k \in S PROVE k \in ToSet(q)
    <3>1. PICK i \in 1..Len(keys) : k = keys[i]
      BY <2>2 DEF ToSet
    <3>2. i \in at
      BY <2>2, <3>1 DEF at
    <3>3. Place(i) \in 1..Cardinality(at) /\ q[Place(i)] = k
      BY <1>3, <1>6, <1>7, <3>1, <3>2
    <3> QED
      BY <1>7, <3>3 DEF ToSet
  <2> QED
    BY <2>1, <2>2
<1>9. \A n, m \in 1..Len(q) : q[n] = q[m] => n = m
  <2> SUFFICES ASSUME NEW n \in 1..Len(q), NEW m \in 1..Len(q), q[n] = q[m] PROVE n = m
    OBVIOUS
  <2>1. n \in 1..Cardinality(at) /\ m \in 1..Cardinality(at)
    BY <1>7
  <2> HIDE DEF q
  <2>2. Nth(n) = Nth(m)
    BY <1>2, <1>5, <1>7, <2>1
  <2> QED
    BY <1>5, <2>1, <2>2
<1> QED
  BY <1>1, <1>7, <1>8, <1>9

LEMMA LastOfHas ==
  ASSUME NEW keys \in Seq(Keys), NEW S, \E k \in ToSet(keys) : k \in S
  PROVE  LastOf(keys, S) \in ToSet(keys) \cap S
<1> DEFINE at == {i \in 1..Len(keys) : keys[i] \in S}
<1>1. at \in SUBSET (1..Len(keys)) /\ at # {} /\ at \in SUBSET Nat /\ Len(keys) \in Nat
  BY DEF ToSet
<1>2. Max(at) \in at
  <2> HIDE DEF at
  <2>1. IsFiniteSet(1..Len(keys))
    BY <1>1, FS_Interval
  <2>2. IsFiniteSet(at)
    BY <1>1, <2>1, FS_Subset
  <2> QED
    BY <1>1, <2>2, MaxOfSide
<1>3. LastOf(keys, S) = keys[Max(at)]
  BY DEF LastOf
<1>4. Max(at) \in 1..Len(keys) /\ keys[Max(at)] \in S
  BY <1>2
<1> HIDE DEF at
<1> QED
  BY <1>3, <1>4 DEF ToSet

--------------------------------------------------------------------------------
(* The indexes. *)

LEMMA RebuiltIsTrue ==
  ASSUME NEW keys, InDict(keys, cache'), \A k \in DOMAIN cache' : cache'[k] \in Entries,
         Rebuilt(cache', keys)
  PROVE  IndexShape' /\ LookupsAreTrue'
<1> DEFINE all == DOMAIN cache'
           By(s) == {k \in all : s \in Under(cache'[k])}
           Having(c) == {k \in all : c \in cache'[k].contracts}
           Called(t) == {k \in all : cache'[k].tid = t}
<1>1. /\ keys \in Seq(Keys) /\ ToSet(keys) = all
      /\ \A i, j \in 1..Len(keys) : keys[i] = keys[j] => i = j
      /\ \A k \in all : cache'[k].contracts \subseteq Contracts /\ Under(cache'[k]) \subseteq Tickers
  BY DEF InDict, Entries, Under
<1>2. /\ bySymbol' = [s \in Tickers |-> InOrder(keys, By(s))]
      /\ byContract' = [c \in UNION {cache'[k].contracts : k \in all} |-> LastOf(keys, Having(c))]
      /\ byTid' = [t \in {cache'[k].tid : k \in all} \ {""} |-> LastOf(keys, Called(t))]
  BY DEF Rebuilt
<1>3. \A s \in Tickers : bySymbol'[s] \in Seq(Keys) /\ ToSet(bySymbol'[s]) = By(s)
  <2> SUFFICES ASSUME NEW s \in Tickers
               PROVE  bySymbol'[s] \in Seq(Keys) /\ ToSet(bySymbol'[s]) = By(s)
    OBVIOUS
  <2>1. By(s) \subseteq all
    OBVIOUS
  <2> HIDE DEF By, all
  <2>2. InOrder(keys, By(s)) \in Seq(Keys) /\ ToSet(InOrder(keys, By(s))) = ToSet(keys) \cap By(s)
    BY <1>1, InOrderHas
  <2> QED
    BY <1>1, <1>2, <2>1, <2>2
<1>4. \A c \in DOMAIN byContract' : byContract'[c] \in Having(c)
  <2> SUFFICES ASSUME NEW c \in DOMAIN byContract' PROVE byContract'[c] \in Having(c)
    OBVIOUS
  <2>1. \E k \in all : k \in Having(c)
    BY <1>2
  <2>2. byContract'[c] = LastOf(keys, Having(c))
    BY <1>2
  <2> HIDE DEF Having, all
  <2> QED
    BY <1>1, <2>1, <2>2, LastOfHas
<1>5. \A t \in DOMAIN byTid' : byTid'[t] \in Called(t)
  <2> SUFFICES ASSUME NEW t \in DOMAIN byTid' PROVE byTid'[t] \in Called(t)
    OBVIOUS
  <2>1. \E k \in all : k \in Called(t)
    BY <1>2
  <2>2. byTid'[t] = LastOf(keys, Called(t))
    BY <1>2
  <2> HIDE DEF Called, all
  <2> QED
    BY <1>1, <2>1, <2>2, LastOfHas
<1>6. IndexShape'
  <2>1. bySymbol' \in [Tickers -> Seq(Keys)]
    <3> HIDE DEF By
    <3> QED
      BY <1>2, <1>3
  <2>2. \A t \in DOMAIN byTid' : byTid'[t] \in DOMAIN cache'
    BY <1>5
  <2> QED
    BY <2>1, <2>2 DEF IndexShape
<1>7. \A k \in all : cache'[k].contracts \subseteq DOMAIN byContract'
  BY <1>2
<1>8. LookupsAreTrue'
  <2>1. \A s \in Tickers : \A k \in ToSet(bySymbol'[s]) : k \in all /\ s \in Under(cache'[k])
    BY <1>3
  <2>2. \A k \in all : \A s \in Under(cache'[k]) : k \in ToSet(bySymbol'[s])
    BY <1>1, <1>3
  <2>3. \A c \in DOMAIN byContract' : byContract'[c] \in all /\ c \in cache'[byContract'[c]].contracts
    BY <1>4
  <2> HIDE DEF all, By, Having, Called
  <2>4. DOMAIN cache' = all
    BY DEF all
  <2> QED
    BY <1>7, <2>1, <2>2, <2>3, <2>4 DEF LookupsAreTrue, Under
<1> QED
  BY <1>6, <1>8

LEMMA AppendAdds ==
  ASSUME NEW q \in Seq(Keys), NEW k \in Keys
  PROVE  Append(q, k) \in Seq(Keys) /\ ToSet(Append(q, k)) = ToSet(q) \cup {k}
<1>1. /\ Append(q, k) \in Seq(Keys) /\ Len(Append(q, k)) = Len(q) + 1 /\ Len(q) \in Nat
      /\ \A i \in 1..Len(q) : Append(q, k)[i] = q[i]
      /\ Append(q, k)[Len(q) + 1] = k
  OBVIOUS
<1>2. DOMAIN q = 1..Len(q) /\ DOMAIN Append(q, k) = 1..(Len(q) + 1)
      /\ 1..(Len(q) + 1) = 1..Len(q) \cup {Len(q) + 1}
  BY <1>1
<1> QED
  BY <1>1, <1>2 DEF ToSet

(* A key that is added, or whose entry is replaced, is appended where it is new. *)
LEMMA IndexedKeepsPlaces ==
  ASSUME CacheInv, NEW k \in Keys, NEW e \in Entries, IndexedBy(k, e),
         cache' = [x \in DOMAIN cache \cup {k} |-> IF x = k THEN e ELSE cache[x]],
         Muddled \subseteq Muddled',
         k \in DOMAIN cache /\ k \notin Muddled' =>
             Under(cache[k]) \subseteq Under(e) /\ cache[k].contracts \subseteq e.contracts
  PROVE  IndexShape' /\ LookupsAreTrue'
<1> USE DEF CacheInv
<1>1. /\ bySymbol \in [Tickers -> Seq(Keys)] /\ Under(e) \subseteq Tickers
      /\ DOMAIN cache' = DOMAIN cache \cup {k} /\ cache'[k] = e
      /\ \A x \in DOMAIN cache : x # k => cache'[x] = cache[x]
  BY DEF IndexShape, Entries, Under
<1>2. ASSUME NEW s \in Tickers
      PROVE  /\ bySymbol'[s] \in Seq(Keys)
             /\ ToSet(bySymbol'[s]) = ToSet(bySymbol[s]) \cup (IF s \in Under(e) THEN {k} ELSE {})
  <2>1. bySymbol'[s] = IF s \in Under(e) /\ k \notin ToSet(bySymbol[s])
                       THEN Append(bySymbol[s], k) ELSE bySymbol[s]
    BY <1>2 DEF IndexedBy
  <2>2. PICK q \in Seq(Keys) : q = bySymbol[s]
    BY <1>1, <1>2
  <2>3. Append(q, k) \in Seq(Keys) /\ ToSet(Append(q, k)) = ToSet(q) \cup {k}
    BY AppendAdds
  <2> QED
    BY <2>1, <2>2, <2>3
<1>3. /\ DOMAIN byContract' = DOMAIN byContract \cup e.contracts
      /\ \A c \in DOMAIN byContract' : byContract'[c] = IF c \in e.contracts THEN k ELSE byContract[c]
  BY DEF IndexedBy
<1>4. IndexShape'
  <2>1. bySymbol' \in [Tickers -> Seq(Keys)]
    <3>1. bySymbol' = [s \in Tickers |-> bySymbol'[s]]
      BY DEF IndexedBy
    <3> QED
      BY <1>2, <3>1
  <2>2. \A t \in DOMAIN byTid' : byTid'[t] \in DOMAIN cache'
    BY <1>1 DEF IndexedBy, IndexShape
  <2> QED
    BY <2>1, <2>2 DEF IndexShape
<1>5. LookupsAreTrue'
  <2>1. ASSUME NEW s \in Tickers, NEW x \in ToSet(bySymbol'[s])
        PROVE  x \in DOMAIN cache' /\ (s \in Under(cache'[x]) \/ x \in Muddled')
    <3>1. x \in ToSet(bySymbol[s]) \/ (x = k /\ s \in Under(e))
      BY <1>2
    <3> QED
      BY <1>1, <3>1 DEF LookupsAreTrue
  <2>2. ASSUME NEW c \in DOMAIN byContract'
        PROVE  /\ byContract'[c] \in DOMAIN cache'
               /\ c \in cache'[byContract'[c]].contracts \/ byContract'[c] \in Muddled'
    <3>1. CASE c \in e.contracts
      BY <1>1, <1>3, <3>1
    <3>2. CASE c \notin e.contracts
      BY <1>1, <1>3, <3>2 DEF LookupsAreTrue
    <3> QED
      BY <3>1, <3>2
  <2>3. ASSUME NEW x \in DOMAIN cache'
        PROVE  /\ \A s \in Under(cache'[x]) : x \in ToSet(bySymbol'[s])
               /\ cache'[x].contracts \subseteq DOMAIN byContract'
    <3>1. CASE x = k
      BY <1>1, <1>2, <1>3, <3>1
    <3>2. CASE x # k
      <4>1. x \in DOMAIN cache /\ cache'[x] = cache[x] /\ Under(cache[x]) \subseteq Tickers
        <5>1. x \in DOMAIN cache /\ cache'[x] = cache[x]
          BY <1>1, <3>2
        <5>2. cache[x] \in Entries
          BY <5>1 DEF Sound, EntryIsTrue
        <5> QED
          BY <5>1, <5>2 DEF Entries, Under
      <4> QED
        BY <1>2, <1>3, <4>1 DEF LookupsAreTrue
    <3> QED
      BY <3>1, <3>2
  <2> QED
    BY <2>1, <2>2, <2>3 DEF LookupsAreTrue, Under
<1> QED
  BY <1>4, <1>5

--------------------------------------------------------------------------------
(* The steps of the cache. *)

(* What adds to the muddled keys, and nothing else, keeps what is true of cache and files. *)
LEMMA SoundStays ==
  ASSUME NEW keys, NEW entries, Sound(keys, entries), Muddled \subseteq Muddled'
  PROVE  Sound(keys, entries)'
BY DEF Sound, InDict, EntryIsTrue

LEMMA ContractsAreOfOneToken == \A t, u \in Tokens : t \cap u # {} => t = u
BY CacheAssumption

(* A report is merged into an entry of its own token, or one that is muddled already. *)
LEMMA ReportGoesToItsToken ==
  ASSUME CacheInv, NEW r \in Reports, NEW k \in Resolved(r)
  PROVE  /\ k \in DOMAIN cache /\ cache[k] \in Entries
         /\ k \notin Muddled => \E t \in Tokens : cache[k].contracts \cup r.contracts \subseteq t
<1> USE DEF CacheInv
<1>1. PICK u \in Tokens : r.contracts \subseteq u
  BY CacheAssumption
<1>2. /\ bySymbol[r.sym] \in Seq(Keys) /\ r.sym \in Tickers
      /\ \A i \in 1..Len(bySymbol[r.sym]) : bySymbol[r.sym][i] \in ToSet(bySymbol[r.sym])
  <2>1. r.sym \in Tickers
    BY DEF Tickers
  <2>2. PICK q \in Seq(Keys) : q = bySymbol[r.sym]
    BY <2>1 DEF IndexShape
  <2>3. \A i \in 1..Len(q) : q[i] \in ToSet(q)
    BY DEF ToSet
  <2> QED
    BY <2>1, <2>2, <2>3
<1>3. \/ \E c \in r.contracts \cap DOMAIN byContract : k = byContract[c]
      \/ k \in DOMAIN cache /\ Compatible(cache[k].contracts, r.contracts)
  <2> DEFINE known == r.contracts \cap DOMAIN byContract
             Fits(x) == x \in DOMAIN cache => Compatible(cache[x].contracts, r.contracts)
             same == {i \in 1..Len(bySymbol[r.sym]) : Fits(bySymbol[r.sym][i])}
  <2>1. k \in IF known # {} THEN {byContract[c] : c \in known}
              ELSE IF r.tid \in DOMAIN byTid /\ Fits(byTid[r.tid]) THEN {byTid[r.tid]}
              ELSE {bySymbol[r.sym][i] : i \in {j \in same : \A h \in same : j <= h}}
    BY DEF Resolved
  <2>2. CASE known # {}
    BY <2>1, <2>2
  <2>3. CASE known = {} /\ r.tid \in DOMAIN byTid /\ Fits(byTid[r.tid])
    BY <2>1, <2>3 DEF IndexShape
  <2>4. CASE known = {} /\ ~(r.tid \in DOMAIN byTid /\ Fits(byTid[r.tid]))
    <3>1. PICK i \in same : k = bySymbol[r.sym][i]
      BY <2>1, <2>4
    <3>2. k \in ToSet(bySymbol[r.sym]) /\ Fits(k)
      BY <1>2, <3>1
    <3>3. k \in DOMAIN cache
      BY <1>2, <3>2 DEF LookupsAreTrue
    <3> QED
      BY <3>2, <3>3
  <2> QED
    BY <2>2, <2>3, <2>4
<1>4. k \in DOMAIN cache
  BY <1>3 DEF LookupsAreTrue
<1>5. cache[k] \in Entries
  BY <1>4 DEF Sound, EntryIsTrue
<1>6. ASSUME k \notin Muddled PROVE \E t \in Tokens : cache[k].contracts \cup r.contracts \subseteq t
  <2>1. PICK t \in Tokens : cache[k].contracts \subseteq t
    BY <1>4, <1>6 DEF Sound, EntryIsTrue, OneToken
  <2>2. CASE cache[k].contracts = {} \/ r.contracts = {}
    BY <1>1, <2>1, <2>2
  <2>3. CASE cache[k].contracts # {} /\ r.contracts # {}
    <3>1. cache[k].contracts \cap r.contracts # {}
      <4>1. CASE \E c \in r.contracts \cap DOMAIN byContract : k = byContract[c]
        BY <1>6, <4>1 DEF LookupsAreTrue
      <4>2. CASE Compatible(cache[k].contracts, r.contracts)
        BY <2>3, <4>2 DEF Compatible
      <4> QED
        BY <1>3, <4>1, <4>2
    <3>2. t \cap u # {}
      BY <1>1, <2>1, <3>1
    <3>3. t = u
      BY <3>2, ContractsAreOfOneToken
    <3> QED
      BY <1>1, <2>1, <3>3
  <2> QED
    BY <2>2, <2>3
<1> QED
  BY <1>4, <1>5, <1>6

(* A new entry's key is free, or muddled, or of an entry with a contract that begins alike. *)
LEMMA FreshKeyIsFree ==
  ASSUME CacheInv, NEW r \in Reports, Resolved(r) = {}, NEW k \in FreshKeys(r)
  PROVE  /\ k \in Keys
         /\ k \in DOMAIN cache => \/ k \in Muddled
                                 \/ \E c \in cache[k].contracts, d \in r.contracts :
                                       c # d /\ Short(c) = Short(d)
         /\ KeyBegins(k, r)
<1> USE DEF CacheInv
<1>1. r.sym \in Tickers /\ r.contracts \subseteq Contracts
  BY CacheAssumption DEF Tickers, Contracts
<1>2. r.contracts \cap DOMAIN byContract = {}
  BY DEF Resolved
<1>3. CASE k = Bare(r.sym) /\ k \notin DOMAIN cache
  BY <1>1, <1>3 DEF Keys, Bare, KeyBegins
<1>4. CASE k \in Disambiguated(r)
  <2>1. PICK d \in r.contracts : k = <<r.sym, d[1], d[2]>>
    BY <1>4 DEF Disambiguated, First
  <2>2. k \in Keys
    BY <1>1, <2>1 DEF Keys
  <2>3. ASSUME k \in DOMAIN cache, k \notin Muddled
        PROVE  \E c \in cache[k].contracts : c # d /\ Short(c) = Short(d)
    <3>1. PICK c \in cache[k].contracts : Short(c) = Short(d)
      BY <1>1, <2>1, <2>3 DEF Sound, EntryIsTrue, KeyBegins
    <3>2. c \in DOMAIN byContract /\ d \notin DOMAIN byContract
      BY <1>2, <2>3, <3>1 DEF LookupsAreTrue
    <3> QED
      BY <3>1, <3>2
  <2>4. KeyBegins(k, r)
    BY <2>1 DEF KeyBegins, Short
  <2> QED
    BY <2>1, <2>2, <2>3, <2>4
<1> QED
  BY <1>3, <1>4 DEF FreshKeys

(* What a report makes of an entry: of one token still, and no contract of it is gone; a new *)
(* entry under the key of another one begins like it.                                         *)
LEMMA MergedIsTrue ==
  ASSUME CacheInv, NEW r \in Reports,
         NEW k \in IF Resolved(r) # {} THEN Resolved(r) ELSE FreshKeys(r)
  PROVE  /\ k \in Keys /\ EntryIsTrue(k, MergedEntry(k, r))
         /\ k \in DOMAIN cache /\ k \notin Muddled =>
                IF Resolved(r) # {}
                THEN /\ Under(cache[k]) \subseteq Under(MergedEntry(k, r))
                     /\ cache[k].contracts \subseteq MergedEntry(k, r).contracts
                ELSE Alike(cache[k], MergedEntry(k, r))
<1> USE DEF CacheInv
<1> DEFINE there == k \in DOMAIN cache /\ Resolved(r) # {}
           fresh == [sym |-> r.sym, tid |-> r.tid, aliases |-> {}, contracts |-> {}, nets |-> {},
                     coin |-> "", verified |-> "unknown"]
           chains == {c[1] : c \in r.contracts}
<1>1. PICK e : e = IF there THEN cache[k] ELSE fresh
  OBVIOUS
<1>2. PICK u \in Tokens : r.contracts \subseteq u
  BY CacheAssumption
<1>3. r.sym \in Tickers /\ r.contracts \subseteq Contracts
  BY <1>2 DEF Tickers, Contracts
<1>4. /\ there => e = cache[k] /\ k \in Keys
      /\ ~there => e = fresh /\ k \in Keys /\ KeyBegins(k, r)
  <2>1. CASE Resolved(r) # {}
    <3>1. k \in DOMAIN cache
      BY <2>1, ReportGoesToItsToken
    <3>2. k \in Keys
      BY <3>1 DEF Sound, InDict, ToSet
    <3> QED
      BY <1>1, <2>1, <3>1, <3>2
  <2>2. CASE Resolved(r) = {}
    BY <1>1, <2>2, FreshKeyIsFree
  <2> QED
    BY <2>1, <2>2
<1>5. e \in Entries
  <2>1. CASE there
    BY <1>4, <2>1, ReportGoesToItsToken
  <2>2. CASE ~there
    <3>1. e = fresh /\ r.tid \in {x.tid : x \in Reports}
      BY <1>4, <2>2
    <3> HIDE DEF there
    <3> QED
      BY <1>3, <3>1 DEF Entries
  <2> QED
    BY <2>1, <2>2
<1>6. k \notin Muddled => \E t \in Tokens : e.contracts \cup r.contracts \subseteq t
  <2>1. CASE there
    BY <1>4, <2>1, ReportGoesToItsToken
  <2>2. CASE ~there
    <3>1. e = fresh /\ fresh.contracts = {}
      BY <1>4, <2>2
    <3> HIDE DEF there, fresh
    <3>2. e.contracts \cup r.contracts = r.contracts
      BY <3>1
    <3> QED
      BY <1>2, <3>2
  <2> QED
    BY <2>1, <2>2
<1> HIDE DEF there, fresh
<1>7. PICK m : m = MergedEntry(k, r)
  OBVIOUS
<1>8. m = [e EXCEPT !.aliases = IF r.sym # e.sym THEN e.aliases \cup {r.sym} ELSE e.aliases,
                    !.tid = IF e.tid = "" THEN r.tid ELSE e.tid,
                    !.contracts = {c \in e.contracts : c[1] \notin chains} \cup r.contracts,
                    !.nets = e.nets \cup {r.cex}]
  BY <1>1, <1>7 DEF MergedEntry, there, fresh
<1>9. /\ m \in Entries /\ m.sym = e.sym /\ e.aliases \subseteq m.aliases
      /\ m.contracts = {c \in e.contracts : c[1] \notin chains} \cup r.contracts
  <2> HIDE DEF chains
  <2>1. r.tid \in {x.tid : x \in Reports} /\ r.cex \in {x.cex : x \in Reports}
    OBVIOUS
  <2> QED
    BY <1>3, <1>5, <1>8, <2>1 DEF Entries
<1>10. k \notin Muddled => OneToken(m) /\ e.contracts \subseteq m.contracts
  <2> SUFFICES ASSUME k \notin Muddled PROVE OneToken(m) /\ e.contracts \subseteq m.contracts
    OBVIOUS
  <2>1. PICK t \in Tokens : e.contracts \cup r.contracts \subseteq t
    BY <1>6
  <2>2. OneToken(m)
    BY <1>9, <2>1 DEF OneToken
  <2>3. ASSUME NEW c \in e.contracts, c[1] \in chains PROVE c \in r.contracts
    <3>1. PICK d \in r.contracts : c[1] = d[1]
      BY <2>3
    <3> QED
      BY <2>1, <3>1, CacheAssumption
  <2> QED
    BY <1>9, <2>2, <2>3
<1>11. k \notin Muddled => KeyBegins(k, m)
  <2>1. CASE there
    <3>1. k \in DOMAIN cache /\ e = cache[k]
      BY <1>4, <2>1 DEF there
    <3>2. k \notin Muddled => KeyBegins(k, e)
      BY <3>1 DEF Sound, EntryIsTrue
    <3> QED
      BY <1>10, <3>2 DEF KeyBegins
  <2>2. CASE ~there
    BY <1>4, <1>9, <2>2 DEF KeyBegins
  <2> QED
    BY <2>1, <2>2
<1>12. ASSUME k \in DOMAIN cache, k \notin Muddled, Resolved(r) # {}
       PROVE  Under(cache[k]) \subseteq Under(m) /\ cache[k].contracts \subseteq m.contracts
  <2>1. e = cache[k]
    BY <1>4, <1>12 DEF there
  <2> QED
    BY <1>9, <1>10, <1>12, <2>1 DEF Under
<1>13. ASSUME k \in DOMAIN cache, k \notin Muddled, Resolved(r) = {} PROVE Alike(cache[k], m)
  <2>1. \E c \in cache[k].contracts, d \in r.contracts : c # d /\ Short(c) = Short(d)
    BY <1>13, FreshKeyIsFree
  <2> QED
    BY <1>9, <2>1 DEF Alike
<1> QED
  BY <1>4, <1>7, <1>9, <1>10, <1>11, <1>12, <1>13 DEF EntryIsTrue

LEMMA MergesKeeps ==
  ASSUME CacheInv, NEW r \in Reports, Merges(r)
  PROVE  /\ CacheInv'
         /\ \A k \in DOMAIN cache :
               /\ k \in DOMAIN cache'
               /\ \/ cache[k].contracts \subseteq cache'[k].contracts
                  \/ k \in Muddled
                  \/ k \in overwritten' /\ Alike(cache[k], cache'[k])
<1> USE DEF CacheInv
<1>1. PICK k \in IF Resolved(r) # {} THEN Resolved(r) ELSE FreshKeys(r) :
          LET e == MergedEntry(k, r)
          IN  /\ cache' = [x \in DOMAIN cache \cup {k} |-> IF x = k THEN e ELSE cache[x]]
              /\ order' = IF k \in ToSet(order) THEN order ELSE Append(order, k)
              /\ overwritten' = IF k \in DOMAIN cache /\ Resolved(r) = {}
                                THEN overwritten \cup {k} ELSE overwritten
              /\ IndexedBy(k, e)
  BY DEF Merges
<1>2. PICK e : e = MergedEntry(k, r)
  OBVIOUS
<1>3. /\ k \in Keys /\ EntryIsTrue(k, e) /\ e \in Entries
      /\ k \in DOMAIN cache /\ k \notin Muddled =>
             IF Resolved(r) # {}
             THEN Under(cache[k]) \subseteq Under(e) /\ cache[k].contracts \subseteq e.contracts
             ELSE Alike(cache[k], e)
  BY <1>2, MergedIsTrue DEF EntryIsTrue
<1>4. /\ cache' = [x \in DOMAIN cache \cup {k} |-> IF x = k THEN e ELSE cache[x]]
      /\ order' = IF k \in ToSet(order) THEN order ELSE Append(order, k)
      /\ overwritten' = IF k \in DOMAIN cache /\ Resolved(r) = {}
                        THEN overwritten \cup {k} ELSE overwritten
      /\ IndexedBy(k, e)
  BY <1>1, <1>2
<1>5. UNCHANGED <<giveUp, rescued>> /\ disk' \in {disk, Files(cache', order', giveUp)}
  BY DEF Merges, MayFlush
<1>11. listed' \subseteq Coins /\ starts' \in Nat
  BY DEF Merges, coinVars
<1>12. /\ Muddled \subseteq Muddled'
       /\ k \in DOMAIN cache /\ Resolved(r) = {} => k \in overwritten' /\ k \in Muddled'
  BY <1>4, <1>5 DEF Muddled
<1>6. IndexShape' /\ LookupsAreTrue'
  <2>1. k \in DOMAIN cache /\ k \notin Muddled' =>
             Under(cache[k]) \subseteq Under(e) /\ cache[k].contracts \subseteq e.contracts
    BY <1>3, <1>12
  <2> QED
    BY <1>3, <1>4, <1>12, <2>1, IndexedKeepsPlaces
<1>7. InDict(order', cache')
  <2>1. order \in Seq(Keys) /\ ToSet(order) = DOMAIN cache
        /\ \A i, j \in 1..Len(order) : order[i] = order[j] => i = j
    BY DEF Sound, InDict
  <2>2. CASE k \in ToSet(order)
    BY <1>4, <2>1, <2>2 DEF InDict
  <2>3. CASE k \notin ToSet(order)
    <3>1. order' = Append(order, k)
      BY <1>4, <2>3
    <3>2. /\ order' \in Seq(Keys) /\ Len(order') = Len(order) + 1 /\ Len(order) \in Nat
          /\ \A i \in 1..Len(order) : order'[i] = order[i] /\ order[i] \in ToSet(order)
          /\ order'[Len(order) + 1] = k
      BY <1>3, <2>1, <3>1 DEF ToSet
    <3>3. ToSet(order') = ToSet(order) \cup {k}
      BY <1>3, <2>1, <3>1, AppendAdds
    <3>4. \A i, j \in 1..Len(order') : order'[i] = order'[j] => i = j
      <4> SUFFICES ASSUME NEW i \in 1..Len(order'), NEW j \in 1..Len(order'), order'[i] = order'[j]
                   PROVE  i = j
        OBVIOUS
      <4>1. (i \in 1..Len(order) \/ i = Len(order) + 1) /\ (j \in 1..Len(order) \/ j = Len(order) + 1)
        BY <3>2
      <4> QED
        BY <2>1, <2>3, <3>2, <4>1
    <3>5. DOMAIN cache' = DOMAIN cache \cup {k}
      BY <1>4
    <3> QED
      BY <2>1, <3>2, <3>3, <3>4, <3>5 DEF InDict
  <2> QED
    BY <2>2, <2>3
<1>8. Sound(order, cache)'
  <2>1. PICK keys, entries : keys = order' /\ entries = cache'
    OBVIOUS
  <2>2. \A x \in DOMAIN entries : EntryIsTrue(x, entries[x])
    BY <1>3, <1>4, <2>1 DEF Sound
  <2>3. Sound(keys, entries)
    BY <1>7, <2>1, <2>2 DEF Sound, InDict
  <2>4. Sound(keys, entries)'
    BY <1>12, <2>3, SoundStays
  <2> QED
    BY <2>1, <2>4 DEF Sound, InDict, EntryIsTrue
<1>9. Sound(disk.order, disk.cache)' /\ (disk.giveUp \subseteq Tickers)'
  <2>1. CASE disk' = disk
    BY <1>5, <1>12, <2>1 DEF Sound, InDict, EntryIsTrue
  <2>2. CASE disk' = Files(cache', order', giveUp)
    <3>1. disk'.order = order' /\ disk'.cache = cache' /\ disk'.giveUp = giveUp
      BY <2>2 DEF Files
    <3> QED
      BY <1>8, <3>1 DEF Sound, InDict, EntryIsTrue
  <2> QED
    BY <1>5, <2>1, <2>2
<1>10. ASSUME NEW x \in DOMAIN cache
       PROVE  /\ x \in DOMAIN cache'
              /\ \/ cache[x].contracts \subseteq cache'[x].contracts
                 \/ x \in Muddled
                 \/ x \in overwritten' /\ Alike(cache[x], cache'[x])
  <2>1. CASE x # k
    BY <1>4, <1>10, <2>1
  <2>2. CASE x = k
    <3>1. cache'[x] = e /\ x \in DOMAIN cache'
      BY <1>4, <1>10, <2>2
    <3> QED
      BY <1>3, <1>10, <1>12, <2>2, <3>1
  <2> QED
    BY <2>1, <2>2
<1> QED
  BY <1>5, <1>6, <1>8, <1>9, <1>10, <1>11

(* CoinGecko's coin gives an entry contracts only where it had none, or it is mixed now. *)
LEMMA VerifiedIsTrue ==
  ASSUME listed \subseteq Coins, NEW e \in Entries
  PROVE  /\ Verified(e) \in Entries /\ Under(Verified(e)) = Under(e)
         /\ e.contracts \subseteq Verified(e).contracts
         /\ Verified(e).contracts = WithCoin(e).contracts
         /\ e.contracts = {} \/ Verified(e).contracts = e.contracts =>
                (OneToken(e) => OneToken(Verified(e)))
<1> DEFINE byAddress == {c \in listed : c.platforms \cap e.contracts # {}}
           undecided == "kraken" \in e.nets /\ e.verified = "unknown"
           adopts == e.coin = "" /\ byAddress = {} /\ undecided /\ Cardinality(Rescuers(e)) = 1
           chains == {c[1] : c \in e.contracts}
<1>1. PICK w : w = WithCoin(e)
  OBVIOUS
<1>2. \/ w = e
      \/ \E c \in Coins : w = [e EXCEPT !.coin = c.id]
      \/ \E c \in Coins : w = [e EXCEPT !.coin = c.id,
                                        !.contracts = @ \cup {p \in c.platforms : p[1] \notin chains}]
  <2>1. CASE e.coin # ""
    BY <1>1, <2>1 DEF WithCoin
  <2>2. CASE e.coin = "" /\ byAddress # {}
    <3>1. PICK c \in byAddress : c = CHOOSE x \in byAddress : TRUE
      BY <2>2
    <3>2. w = [e EXCEPT !.coin = c.id]
      BY <1>1, <2>2, <3>1 DEF WithCoin
    <3> QED
      BY <3>2
  <2>3. CASE e.coin = "" /\ byAddress = {} /\ adopts
    <3>1. Rescuers(e) # {}
      <4>1. Cardinality({}) = 0
        BY FS_EmptySet
      <4>2. Cardinality(Rescuers(e)) = 1
        BY <2>3
      <4>3. ASSUME Rescuers(e) = {} PROVE FALSE
        BY <4>1, <4>2, <4>3
      <4> QED
        BY <4>3
    <3>2. PICK c \in Rescuers(e) : c = CHOOSE x \in Rescuers(e) : TRUE
      BY <3>1
    <3>3. c \in Coins
      BY <3>2 DEF Rescuers
    <3>4. w = [e EXCEPT !.coin = c.id,
                        !.contracts = @ \cup {p \in c.platforms : p[1] \notin chains}]
      BY <1>1, <2>3, <3>2 DEF WithCoin
    <3> QED
      BY <3>3, <3>4
  <2>4. CASE e.coin = "" /\ byAddress = {} /\ ~adopts
    BY <1>1, <2>4 DEF WithCoin
  <2> QED
    BY <2>1, <2>2, <2>3, <2>4
<1>3. /\ w \in Entries /\ Under(w) = Under(e) /\ e.contracts \subseteq w.contracts
      /\ e.contracts = {} \/ w.contracts = e.contracts => (OneToken(e) => OneToken(w))
  <2>1. CASE w = e
    BY <2>1
  <2>2. CASE \E c \in Coins : w = [e EXCEPT !.coin = c.id]
    <3>1. PICK c \in Coins : w = [e EXCEPT !.coin = c.id]
      BY <2>2
    <3>2. c.id \in {x.id : x \in Coins}
      OBVIOUS
    <3> QED
      BY <3>1, <3>2 DEF Entries, Under, OneToken
  <2>3. CASE \E c \in Coins : w = [e EXCEPT !.coin = c.id,
                                      !.contracts = @ \cup {p \in c.platforms : p[1] \notin chains}]
    <3> HIDE DEF chains
    <3>1. PICK c \in Coins : w = [e EXCEPT !.coin = c.id,
                                      !.contracts = @ \cup {p \in c.platforms : p[1] \notin chains}]
      BY <2>3
    <3>2. c.id \in {x.id : x \in Coins}
      OBVIOUS
    <3>3. PICK t \in Tokens : c.platforms \subseteq t
      BY CacheAssumption
    <3>4. PICK more : more = {p \in c.platforms : p[1] \notin chains}
      OBVIOUS
    <3>5. more \subseteq t /\ more \subseteq Contracts
      BY <3>3, <3>4 DEF Contracts
    <3>6. w = [e EXCEPT !.coin = c.id, !.contracts = e.contracts \cup more]
      BY <3>1, <3>4
    <3>7. w \in Entries /\ Under(w) = Under(e) /\ w.contracts = e.contracts \cup more
      BY <3>2, <3>5, <3>6 DEF Entries, Under
    <3>8. e.contracts = {} => OneToken(w)
      BY <3>5, <3>7 DEF OneToken
    <3> QED
      BY <3>7, <3>8 DEF OneToken
  <2> QED
    BY <1>2, <2>1, <2>2, <2>3
<1>4. PICK v : v = Verified(e)
  OBVIOUS
<1>5. \/ v = w
      \/ v = [w EXCEPT !.verified = "yes"]
      \/ v = [w EXCEPT !.verified = "no", !.nets = w.nets \ {"kraken"}]
  BY <1>1, <1>4 DEF Verified
<1>6. v \in Entries /\ v.sym = w.sym /\ v.aliases = w.aliases /\ v.contracts = w.contracts
  BY <1>3, <1>5 DEF Entries
<1> QED
  BY <1>1, <1>3, <1>4, <1>6 DEF Under, OneToken

LEMMA VerifiesKeeps ==
  ASSUME CacheInv, NEW k \in DOMAIN cache, Verifies(k)
  PROVE  /\ CacheInv'
         /\ \A x \in DOMAIN cache : x \in DOMAIN cache' /\ cache[x].contracts \subseteq cache'[x].contracts
<1> USE DEF CacheInv
<1>1. /\ cache' = [cache EXCEPT ![k] = Verified(cache[k])]
      /\ rescued' = rescued \cup RescuedNow({k})
      /\ IF cache' # cache
         THEN Rebuilt(cache', order) /\ disk' = Files(cache', order, giveUp)
         ELSE UNCHANGED <<indexVars, disk>>
      /\ UNCHANGED <<order, giveUp, listed, starts, overwritten>>
  BY DEF Verifies
<1>0. Muddled \subseteq Muddled'
  BY <1>1 DEF Muddled
<1>2. PICK e, v : e = cache[k] /\ v = Verified(e)
  OBVIOUS
<1>3. /\ EntryIsTrue(k, e) /\ e \in Entries
      /\ v \in Entries /\ Under(v) = Under(e) /\ e.contracts \subseteq v.contracts
      /\ v.contracts = WithCoin(e).contracts
      /\ e.contracts = {} \/ v.contracts = e.contracts => (OneToken(e) => OneToken(v))
  BY <1>2, VerifiedIsTrue DEF Sound, EntryIsTrue
<1>4. DOMAIN cache' = DOMAIN cache /\ \A x \in DOMAIN cache : cache'[x] = IF x = k THEN v ELSE cache[x]
  BY <1>1, <1>2
<1>5. EntryIsTrue(k, v)'
  <2>1. CASE e.contracts # {} /\ v.contracts # e.contracts
    <3>1. k \in Muddled'
      BY <1>1, <1>2, <1>3, <2>1 DEF RescuedNow, Muddled
    <3> QED
      BY <1>3, <3>1 DEF EntryIsTrue
  <2>2. CASE e.contracts = {} \/ v.contracts = e.contracts
    BY <1>0, <1>3, <2>2 DEF EntryIsTrue, KeyBegins
  <2> QED
    BY <2>1, <2>2
<1>6. PICK keys, entries : keys = order /\ entries = cache'
  OBVIOUS
<1>7. InDict(keys, entries)
  BY <1>4, <1>6 DEF Sound, InDict
<1>8. Sound(keys, entries)'
  <2>1. \A x \in DOMAIN entries : EntryIsTrue(x, entries[x])'
    BY <1>0, <1>4, <1>5, <1>6 DEF Sound, EntryIsTrue
  <2> QED
    BY <1>7, <2>1 DEF Sound, InDict
<1>9. Sound(order, cache)'
  BY <1>1, <1>6, <1>8 DEF Sound, InDict, EntryIsTrue
<1>10. CASE cache' # cache
  <2>1. Rebuilt(cache', keys)
    BY <1>1, <1>6, <1>10
  <2>2. IndexShape' /\ LookupsAreTrue'
    <3>1. InDict(keys, cache') /\ \A x \in DOMAIN cache' : cache'[x] \in Entries
      BY <1>6, <1>7, <1>8 DEF Sound, EntryIsTrue
    <3> QED
      BY <2>1, <3>1, RebuiltIsTrue
  <2>3. disk'.cache = cache' /\ disk'.order = order' /\ disk'.giveUp = giveUp
    BY <1>1, <1>10 DEF Files
  <2>4. Sound(disk.order, disk.cache)'
    BY <1>9, <2>3 DEF Sound, InDict, EntryIsTrue
  <2>5. CacheInv'
    BY <1>1, <1>9, <2>2, <2>3, <2>4
  <2> QED
    BY <1>2, <1>3, <1>4, <2>5
<1>11. CASE cache' = cache
  <2>1. UNCHANGED <<bySymbol, byContract, byTid, disk>>
    BY <1>1, <1>11 DEF indexVars
  <2>2. Sound(disk.order, disk.cache)'
    BY <1>0, <2>1 DEF Sound, InDict, EntryIsTrue
  <2>3. IndexShape' /\ LookupsAreTrue'
    BY <1>0, <1>11, <2>1 DEF IndexShape, LookupsAreTrue
  <2> QED
    BY <1>1, <1>9, <1>11, <2>1, <2>2, <2>3
<1> QED
  BY <1>10, <1>11

(* A start takes the files over, with CoinGecko's answers applied and Kraken's block      *)
(* cleaned up, and indexes what is left.                                                 *)
LEMMA StartsKeeps ==
  ASSUME CacheInv, Starts
  PROVE  CacheInv'
<1> USE DEF CacheInv
<1> DEFINE known == listed # {} \/ traded # {}
           entries == [k \in DOMAIN disk.cache |->
                         IF known THEN Verified(disk.cache[k]) ELSE disk.cache[k]]
           dropped == {k \in DOMAIN entries : Stale(entries[k], k) /\ KrakenOnly(entries[k])}
           left == DOMAIN entries \ dropped
<1>1. /\ cache' = [k \in left |-> Cleaned(entries[k], k)]
      /\ order' = InOrder(disk.order, left)
      /\ giveUp' = disk.giveUp
            \cup {entries[k].sym : k \in {x \in DOMAIN entries : Stale(entries[x], x)}}
      /\ rescued' = rescued \cup
            (IF known THEN {k \in DOMAIN entries :
                              /\ disk.cache[k].contracts # {}
                              /\ entries[k].contracts # disk.cache[k].contracts} ELSE {})
      /\ Rebuilt(cache', order')
      /\ disk'.cache = cache' /\ disk'.order = order' /\ disk'.giveUp = giveUp'
      /\ listed' = listed /\ starts' = starts + 1 /\ overwritten' = overwritten
  BY DEF Starts, Files, coinVars
<1>0. Muddled \subseteq Muddled'
  BY <1>1 DEF Muddled
<1>2. PICK read : read = entries
  OBVIOUS
<1>3. DOMAIN read = DOMAIN disk.cache /\ left \subseteq DOMAIN read
  BY <1>2
<1>4. ASSUME NEW k \in DOMAIN disk.cache PROVE EntryIsTrue(k, read[k])'
  <2>1. PICK e, v : e = disk.cache[k] /\ v = entries[k] /\ v = read[k]
    BY <1>2
  <2>2. EntryIsTrue(k, e) /\ e \in Entries
    BY <2>1 DEF Sound, EntryIsTrue
  <2>3. /\ v \in Entries /\ e.contracts \subseteq v.contracts
        /\ e.contracts = {} \/ v.contracts = e.contracts => (OneToken(e) => OneToken(v))
        /\ ~known => v = e
    <3>1. v = IF known THEN Verified(e) ELSE e
      BY <2>1
    <3> HIDE DEF known
    <3> QED
      BY <2>2, <3>1, VerifiedIsTrue
  <2>4. CASE e.contracts # {} /\ v.contracts # e.contracts
    <3>1. k \in Muddled'
      BY <1>1, <2>1, <2>3, <2>4 DEF Muddled
    <3> QED
      BY <2>1, <2>3, <3>1 DEF EntryIsTrue
  <2>5. CASE e.contracts = {} \/ v.contracts = e.contracts
    <3>1. EntryIsTrue(k, v)
      BY <2>2, <2>3, <2>5 DEF EntryIsTrue, KeyBegins
    <3> HIDE DEF known, entries
    <3> QED
      BY <1>0, <2>1, <3>1 DEF EntryIsTrue
  <2> QED
    BY <2>4, <2>5
<1> HIDE DEF entries, known, dropped
<1>5. PICK es, keys : es = cache' /\ keys = order'
  OBVIOUS
<1>6. /\ DOMAIN es = left
      /\ \A k \in left : /\ es[k] \in Entries /\ es[k].contracts = read[k].contracts
                         /\ EntryIsTrue(k, es[k])'
  <2>1. DOMAIN es = left /\ \A k \in left : es[k] = Cleaned(read[k], k)
    BY <1>1, <1>2, <1>5
  <2>2. ASSUME NEW k \in left
        PROVE  /\ es[k] \in Entries /\ es[k].contracts = read[k].contracts
               /\ EntryIsTrue(k, es[k])'
    <3>1. PICK v : v = read[k]
      OBVIOUS
    <3>2. EntryIsTrue(k, v)' /\ v \in Entries
      BY <1>3, <1>4, <3>1 DEF EntryIsTrue
    <3>3. es[k] = v \/ es[k] = [v EXCEPT !.nets = @ \ {"kraken"}, !.verified = "no"]
      BY <2>1, <3>1 DEF Cleaned
    <3>4. es[k] \in Entries /\ es[k].contracts = v.contracts
      BY <3>2, <3>3 DEF Entries
    <3> QED
      BY <3>1, <3>2, <3>4 DEF EntryIsTrue, OneToken, KeyBegins
  <2> QED
    BY <2>1, <2>2
<1>7. InDict(keys, es)
  <2>1. /\ disk.order \in Seq(Keys) /\ ToSet(disk.order) = DOMAIN disk.cache
        /\ \A i, j \in 1..Len(disk.order) : disk.order[i] = disk.order[j] => i = j
    BY DEF Sound, InDict
  <2>2. PICK ks, some : ks = disk.order /\ some = left
    OBVIOUS
  <2>3. /\ keys \in Seq(Keys) /\ ToSet(keys) = ToSet(ks) \cap some
        /\ \A i, j \in 1..Len(keys) : keys[i] = keys[j] => i = j
    <3>1. keys = InOrder(ks, some)
      BY <1>1, <1>5, <2>2
    <3> HIDE DEF left
    <3> QED
      BY <2>1, <2>2, <3>1, InOrderHas
  <2> QED
    BY <1>6, <1>3, <2>1, <2>2, <2>3 DEF InDict
<1> HIDE DEF left
<1>8. Sound(keys, es)'
  BY <1>6, <1>7 DEF Sound, InDict
<1>9. Sound(order, cache)' /\ Sound(disk.order, disk.cache)'
  BY <1>1, <1>5, <1>8 DEF Sound, InDict, EntryIsTrue
<1>10. IndexShape' /\ LookupsAreTrue'
  <2>1. Rebuilt(cache', keys)
    BY <1>1, <1>5
  <2>2. InDict(keys, cache') /\ \A k \in DOMAIN cache' : cache'[k] \in Entries
    BY <1>5, <1>6, <1>7
  <2> QED
    BY <2>1, <2>2, RebuiltIsTrue
<1>11. giveUp' \subseteq Tickers
  <2>1. \A k \in DOMAIN read : read[k].sym \in Tickers
    <3>1. \A k \in DOMAIN read : read[k] \in Entries
      BY <1>4, <1>3 DEF EntryIsTrue
    <3> QED
      BY <3>1 DEF Entries
  <2> QED
    BY <1>1, <1>2, <2>1
<1> QED
  BY <1>1, <1>9, <1>10, <1>11

LEMMA CacheInitHolds == CacheInit => CacheInv
<1> SUFFICES ASSUME CacheInit PROVE CacheInv
  OBVIOUS
<1>1. /\ DOMAIN cache = {} /\ order = <<>> /\ DOMAIN disk.cache = {} /\ disk.order = <<>>
      /\ disk.giveUp = {} /\ giveUp = {} /\ listed = {} /\ starts = 0
      /\ bySymbol = [s \in Tickers |-> <<>>] /\ DOMAIN byContract = {} /\ DOMAIN byTid = {}
  BY DEF CacheInit, Files, Empty
<1>2. <<>> \in Seq(Keys) /\ Len(<<>>) = 0 /\ ToSet(<<>>) = {}
  BY DEF ToSet
<1>3. Sound(order, cache) /\ Sound(disk.order, disk.cache)
  BY <1>1, <1>2 DEF Sound, InDict
<1>4. IndexShape /\ LookupsAreTrue
  BY <1>1, <1>2 DEF IndexShape, LookupsAreTrue
<1> QED
  BY <1>1, <1>3, <1>4 DEF CacheInv

LEMMA CacheStep == CacheInv /\ [CacheNext]_cacheVars => CacheInv'
<1> SUFFICES ASSUME CacheInv, [CacheNext]_cacheVars PROVE CacheInv'
  OBVIOUS
<1>1. CASE CoinGeckoRefreshed \/ RetriesGiveUp \/ (\E s \in Tickers : FeedBegins(s)) \/ UNCHANGED cacheVars
  <2>1. /\ UNCHANGED <<cache, order, bySymbol, byContract, byTid, giveUp, disk, starts, Muddled>>
        /\ listed \subseteq Coins => listed' \subseteq Coins
    BY <1>1 DEF CoinGeckoRefreshed, RetriesGiveUp, FeedBegins, cacheVars, indexVars, coinVars, Muddled
  <2> QED
    BY <2>1 DEF CacheInv, Sound, InDict, EntryIsTrue, IndexShape, LookupsAreTrue
<1> QED
  BY <1>1, MergesKeeps, VerifiesKeeps, StartsKeeps DEF CacheNext

LEMMA DictCounts ==
  ASSUME NEW keys, NEW entries, InDict(keys, entries)
  PROVE  Len(keys) = Cardinality(DOMAIN entries)
<1> DEFINE n == Len(keys)
           f == [i \in 1..n |-> keys[i]]
<1>1. n \in Nat /\ \A i \in 1..n : keys[i] \in DOMAIN entries
  BY DEF InDict, ToSet
<1>2. f \in Bijection(1..n, DOMAIN entries)
  <2>1. f \in [1..n -> DOMAIN entries]
    BY <1>1
  <2>2. \A i, j \in 1..n : f[i] = f[j] => i = j
    BY DEF InDict
  <2>3. \A k \in DOMAIN entries : \E i \in 1..n : f[i] = k
    BY DEF InDict, ToSet
  <2> HIDE DEF f, n
  <2> QED
    BY <2>1, <2>2, <2>3 DEF Bijection, Injection, Surjection, IsInjective
<1> HIDE DEF f
<1> QED
  BY <1>1, <1>2, FS_CountingElements DEF ExistsBijection

LEMMA CacheInvTypes == CacheInv => CacheTypeOK
<1> SUFFICES ASSUME CacheInv PROVE CacheTypeOK
  OBVIOUS
<1>1. ToSet(order) = DOMAIN cache /\ Len(order) = Cardinality(DOMAIN cache)
  BY DictCounts DEF CacheInv, Sound, InDict
<1>2. \A k \in DOMAIN cache : cache[k] \in Entries
  BY DEF CacheInv, Sound, EntryIsTrue
<1> QED
  BY <1>1, <1>2 DEF CacheInv, CacheTypeOK, Entries

(* The dict and its order agree, and its entries have the values the merge gives them *)
(* (merge_token, cleanup_kraken_pending).                                             *)
THEOREM CacheTypeCorrect == CacheSpec => []CacheTypeOK
<1> QED
  BY CacheInitHolds, CacheStep, CacheInvTypes, PTL DEF CacheSpec

(* However tickers collide, reports come and coins appear, the contracts of an entry are of  *)
(* one token, but where a coin was adopted by ticker or another entry was written over it    *)
(* (_contracts_compatible, _resolve_for_merge, _resolve_entry_with_coingecko).               *)
THEOREM CacheDoesNotMix == CacheSpec => []NoMixing
<1>1. CacheInv => NoMixing
  BY DEF CacheInv, Sound, EntryIsTrue, OneToken, NoMixing
<1> QED
  BY <1>1, CacheInitHolds, CacheStep, PTL DEF CacheSpec

(* The indexes lead to every entry by all it is called and to none that is gone, and by     *)
(* what is not its own only to one that is muddled (_index_entry, _rebuild_indexes).        *)
THEOREM CacheLookupsAreTrue == CacheSpec => []LookupsAreTrue
<1>1. CacheInv => LookupsAreTrue
  BY DEF CacheInv
<1> QED
  BY <1>1, CacheInitHolds, CacheStep, PTL DEF CacheSpec

(* Between two starts no key is lost, and an entry that is not muddled keeps its contracts,   *)
(* or is written over by a token whose contract begins with the same eight digits on the same *)
(* chain: the key made for a taken ticker tells all others apart (merge_token,                *)
(* _make_disambig_key).                                                                       *)
THEOREM CacheEntriesStay == CacheSpec => EntriesStay
<1> DEFINE Stays == starts' # starts \/ \A k \in DOMAIN cache :
                        /\ k \in DOMAIN cache'
                        /\ \/ cache[k].contracts \subseteq cache'[k].contracts
                           \/ k \in Muddled
                           \/ k \in overwritten' /\ Alike(cache[k], cache'[k])
<1>1. ASSUME CacheInv, [CacheNext]_cacheVars PROVE [Stays]_cacheVars
  <2>1. CASE \E r \in Reports : Merges(r)
    BY <1>1, <2>1, MergesKeeps
  <2>2. CASE \E k \in DOMAIN cache : Verifies(k)
    BY <1>1, <2>2, VerifiesKeeps
  <2>3. CASE CoinGeckoRefreshed \/ RetriesGiveUp \/ (\E s \in Tickers : FeedBegins(s))
    BY <2>3 DEF CoinGeckoRefreshed, RetriesGiveUp, FeedBegins
  <2>4. CASE Starts
    <3>1. starts \in Nat /\ starts' = starts + 1
      BY <1>1, <2>4 DEF CacheInv, Starts
    <3>2. starts' # starts
      BY <3>1
    <3> QED
      BY <3>2
  <2> QED
    BY <1>1, <2>1, <2>2, <2>3, <2>4 DEF CacheNext
<1> QED
  BY <1>1, CacheInitHolds, CacheStep, PTL DEF CacheSpec, EntriesStay

--------------------------------------------------------------------------------
(* The three together, as they are checked: one runs, the others keep their state. *)
THEOREM FeedsTypeCorrect == MCSpec => []FeedsTypeOK
<1>1. MCInit => BookInv /\ CacheInv /\ PendInv
  BY BookInitHolds, CacheInitHolds, PendInitHolds DEF MCInit
<1>2. [MCNext]_MCVars => [BookNext]_bookVars /\ [CacheNext]_cacheVars /\ [PendNext]_pendVars
  BY DEF MCNext, MCVars, BookRuns, CacheRuns, PendingRuns
<1>3. BookInv /\ CacheInv /\ PendInv => FeedsTypeOK
  BY BookInvTypes, CacheInvTypes DEF FeedsTypeOK, PendInv
<1> QED
  BY <1>1, <1>2, <1>3, BookStep, CacheStep, PendStep, PTL DEF MCSpec
=============================================================================
