------------------------- MODULE PoolBindingProofs -------------------------
(***************************************************************************)
(* The pool lifecycle, for every set of tokens, pools and rows, every set  *)
(* of features and every number of restarts.                               *)
(*                                                                         *)
(* Three invariants carry the rest, each kept by every step together with  *)
(* the ones before it: the types (TInv), the agreement of the lock         *)
(* holder's copy with the file (CopyHasFileRows, inductive by itself), and *)
(* the ownership of pools (OwnInv), which has to follow a pool through all *)
(* the places an actor carries it: the file, the copy, the lists, the saved*)
(* lists, the index, an upgrade that waits, a drop that waits, the thread's*)
(* pending write.  On them stand the index and the lists, and four that    *)
(* hold where some actors are off: RejectedInv and OnceInv (no upgrades),  *)
(* ListedInv (no drops, no restarts), PricesInv (no thread).               *)
(***************************************************************************)
EXTENDS PoolBinding, FiniteSetTheorems, WellFoundedInduction, TLAPS

----------------------------------------------------------------------------
(*********************** the order of the entries **************************)

(* A family of sets of entries has a smallest member. *)
LEMMA SmallestSet ==
  ASSUME NEW S, S # {}, NEW f \in [S -> SUBSET Tokens]
  PROVE  \E t \in S : \A u \in S : ~(f[u] \subseteq f[t] /\ f[u] # f[t])
<1> DEFINE F == {f[t] : t \in S}
<1>1. IsFiniteSet(Tokens)
  BY BindingAssumption DEF BindingAssumption
<1>2. F \subseteq FiniteSubsetsOf(Tokens) /\ F # {}
  BY <1>1, FS_Subset DEF FiniteSubsetsOf
<1>3. PICK A \in F : \A B \in F : <<B, A>> \notin StrictSubsetOrdering(Tokens)
  <2> HIDE DEF F
  <2> QED
    BY <1>2, FS_StrictSubsetOrderingWellFounded, WFMin
<1>4. PICK t \in S : A = f[t]
  BY <1>3
<1>5. \A u \in S : f[u] \in F /\ f[u] \in SUBSET Tokens
  OBVIOUS
<1> QED
  BY <1>3, <1>4, <1>5 DEF StrictSubsetOrdering

(* A set of entries has one that joined first and one that joined last. *)
LEMMA FirstEntry ==
  ASSUME NEW S \in SUBSET Tokens, S # {}
  PROVE  FirstOf(S) \in S
<1> DEFINE Before(t) == {u \in S : Rank[u] < Rank[t]}
<1>1. \A v \in S : Rank[v] \in Nat
  BY BindingAssumption DEF BindingAssumption
<1>2. PICK t \in S : \A u \in S :
        ~(Before(u) \subseteq Before(t) /\ Before(u) # Before(t))
  <2> DEFINE f == [v \in S |-> Before(v)]
  <2>1. f \in [S -> SUBSET Tokens]
    OBVIOUS
  <2>2. PICK t \in S : \A u \in S : ~(f[u] \subseteq f[t] /\ f[u] # f[t])
    <3> HIDE DEF f
    <3> QED
      BY <2>1, SmallestSet
  <2> QED
    BY <2>2
<1>3. ASSUME NEW u \in S, Rank[u] < Rank[t]
      PROVE  FALSE
  <2>1. Before(u) \subseteq Before(t)
    BY <1>1, <1>3
  <2>2. u \in Before(t) /\ u \notin Before(u)
    BY <1>1, <1>3
  <2> QED
    BY <1>2, <2>1, <2>2
<1>4. \A u \in S : Rank[t] <= Rank[u]
  BY <1>1, <1>3
<1> QED
  BY <1>4 DEF FirstOf

LEMMA LastEntry ==
  ASSUME NEW S \in SUBSET Tokens, S # {}
  PROVE  \E t \in S : \A u \in S : Rank[u] <= Rank[t]
<1> DEFINE After(t) == {u \in S : Rank[t] < Rank[u]}
<1>1. \A v \in S : Rank[v] \in Nat
  BY BindingAssumption DEF BindingAssumption
<1>2. PICK t \in S : \A u \in S :
        ~(After(u) \subseteq After(t) /\ After(u) # After(t))
  <2> DEFINE f == [v \in S |-> After(v)]
  <2>1. f \in [S -> SUBSET Tokens]
    OBVIOUS
  <2>2. PICK t \in S : \A u \in S : ~(f[u] \subseteq f[t] /\ f[u] # f[t])
    <3> HIDE DEF f
    <3> QED
      BY <2>1, SmallestSet
  <2> QED
    BY <2>2
<1>3. ASSUME NEW u \in S, Rank[t] < Rank[u]
      PROVE  FALSE
  <2>1. After(u) \subseteq After(t)
    BY <1>1, <1>3
  <2>2. u \in After(t) /\ u \notin After(u)
    BY <1>1, <1>3
  <2> QED
    BY <1>2, <2>1, <2>2
<1> QED
  BY <1>1, <1>3
----------------------------------------------------------------------------
(************************ the operators of the cache ***********************)

LEMMA ChosenTypes ==
  ASSUME NEW sym
  PROVE  Chosen(sym) \in Tokens \cup {NoToken}
<1>1. Named(sym) \in SUBSET Tokens /\ Named(sym) \cap OnChain \in SUBSET Tokens
  BY DEF Named
<1>2. CASE Named(sym) \cap OnChain # {}
  BY <1>1, <1>2, FirstEntry DEF Chosen
<1>3. CASE Named(sym) \cap OnChain = {} /\ Cardinality(Named(sym)) = 1
  <2>1. Named(sym) # {}
    BY <1>3, FS_EmptySet
  <2> QED
    BY <1>1, <1>3, <2>1, FirstEntry DEF Chosen
<1> QED
  BY <1>2, <1>3 DEF Chosen

LEMMA RebuiltTypes ==
  ASSUME NEW lists \in [Tokens -> SUBSET Pools]
  PROVE  /\ Rebuilt(lists) \in [Pools -> Tokens \cup {NoToken}]
         /\ \A p \in Pools :
              IF \E t \in Tokens : p \in lists[t]
                THEN /\ Rebuilt(lists)[p] \in Tokens
                     /\ p \in lists[Rebuilt(lists)[p]]
                ELSE Rebuilt(lists)[p] = NoToken
<1>1. ASSUME NEW p \in Pools
      PROVE  IF \E t \in Tokens : p \in lists[t]
               THEN /\ Rebuilt(lists)[p] \in Tokens
                    /\ p \in lists[Rebuilt(lists)[p]]
               ELSE Rebuilt(lists)[p] = NoToken
  <2> DEFINE S == {t \in Tokens : p \in lists[t]}
  <2>1. Rebuilt(lists)[p] =
          IF S = {} THEN NoToken
          ELSE CHOOSE t \in S : \A u \in S : Rank[u] <= Rank[t]
    BY DEF Rebuilt
  <2>2. S # {} => \E t \in S : \A u \in S : Rank[u] <= Rank[t]
    BY LastEntry
  <2>3. S # {} => Rebuilt(lists)[p] \in S
    BY <2>1, <2>2
  <2> QED
    BY <2>1, <2>3
<1>2. \A p \in Pools : Rebuilt(lists)[p] \in Tokens \cup {NoToken}
  BY <1>1
<1>3. Rebuilt(lists) = [p \in Pools |-> Rebuilt(lists)[p]]
  BY DEF Rebuilt
<1> QED
  BY <1>1, <1>2, <1>3

LEMMA UnlinkTypes ==
  ASSUME TypeOK, NEW rows
  PROVE  /\ BoundWithout(rows) \in [Tokens -> SUBSET Pools]
         /\ IdxWithout(rows) \in [Pools -> Tokens \cup {NoToken}]
  BY DEF TypeOK, BoundWithout, IdxWithout

LEMMA LinkTypes ==
  ASSUME TypeOK, NEW sym, NEW pool \in Pools, Link(sym, pool)
  PROVE  /\ bound' \in [Tokens -> SUBSET Pools]
         /\ idx' \in [Pools -> Tokens \cup {NoToken}]
<1> DEFINE t == Chosen(sym)
<1> HIDE DEF t
<1>1. t \in Tokens \cup {NoToken} /\ NoToken \notin Tokens
  BY ChosenTypes, BindingAssumption DEF BindingAssumption, t
<1>2. CASE t = NoToken \/ pool \in bound[t]
  BY <1>2 DEF TypeOK, Link, cache, t
<1>3. CASE ~(t = NoToken \/ pool \in bound[t])
  <2>1. /\ bound' = [bound EXCEPT ![t] = @ \cup {pool}]
        /\ idx' = [p \in Pools |->
                     IF p \in bound[t] \cup {pool} THEN t ELSE idx[p]]
    BY <1>3 DEF Link, t
  <2> QED
    BY <1>1, <1>3, <2>1 DEF TypeOK
<1> QED
  BY <1>2, <1>3

LEMMA RemoveTypes ==
  ASSUME TypeOK, NEW pool, RemovePrice(pool)
  PROVE  slot' \in [Tokens -> Pools \cup {NoPool}]
  BY DEF TypeOK, RemovePrice

LEMMA UpgradeRecords ==
  /\ NoUpgrade \in Upgrades /\ NoUpgrade.stage = "none"
  /\ \A u \in Upgrades :
       /\ u.stage \in {"none", "fetching", "waiting", "linking"}
       /\ u.old \in Pools \cup {NoPool} /\ u.new \in Pools \cup {NoPool}
       /\ [u EXCEPT !.stage = "fetching"] \in Upgrades
       /\ [u EXCEPT !.stage = "fetching"].stage = "fetching"
  /\ \A st \in {"none", "fetching", "waiting", "linking"},
        old \in Pools \cup {NoPool}, new \in Pools \cup {NoPool} :
       LET u == [stage |-> st, old |-> old, new |-> new] IN
       u \in Upgrades /\ u.stage = st /\ u.old = old /\ u.new = new
  BY DEF Upgrades, NoUpgrade

LEMMA RowTypes ==
  /\ \A p \in Pools, s \in Symbols, v \in BOOLEAN, g \in BOOLEAN :
       [pool |-> p, sym |-> s, ver |-> v, gt |-> g] \in Rows
  /\ \A r \in Rows : /\ r.pool \in Pools /\ r.sym \in Symbols
                      /\ r.ver \in BOOLEAN /\ r.gt \in BOOLEAN
                      /\ [r EXCEPT !.ver = TRUE] \in Rows
  /\ \A t \in Tokens : SymbolOf[t] \in Symbols
  BY DEF Rows, Symbols
----------------------------------------------------------------------------
(***************************** type correctness ****************************)

(* Only the sweep has rows waiting for their link, only the refresh has    *)
(* rows to look at, so that a new copy of the file never leaves either     *)
(* list outside of it.  A decided upgrade has a pool to swap in.           *)
Stages ==
  /\ holder # "sweep" => links = {}
  /\ holder # "rebind" => todo = {}
  /\ \A t \in Tokens :
       upgrade[t].stage \in {"waiting", "linking"} => upgrade[t].new \in Pools

TInv == TypeOK /\ Stages

LEMMA InitTypes == Init => TInv
<1> SUFFICES ASSUME Init PROVE TInv
  OBVIOUS
<1>1. disk \subseteq Rows
  BY BindingAssumption DEF Init, BindingAssumption
<1>2. bound \in [Tokens -> SUBSET Pools]
  BY DEF Init
<1>3. idx \in [Pools -> Tokens \cup {NoToken}]
  BY <1>2, RebuiltTypes DEF Init
<1>4. upgrade \in [Tokens -> Upgrades]
  BY UpgradeRecords DEF Init
<1>5. bad \in [Pools -> 0..(Threshold - 1)] /\ crashes \in 0..MaxCrashes
  BY BindingAssumption DEF Init, BindingAssumption
<1> QED
  BY <1>1, <1>2, <1>3, <1>4, <1>5, UpgradeRecords
     DEF Init, TInv, TypeOK, Stages

LEMMA SweepTypes == TInv /\ SweepNext => TInv'
<1> SUFFICES ASSUME TInv, SweepNext PROVE TInv'
  OBVIOUS
<1> USE DEF TInv, TypeOK, Stages, cache, rejects, locked, waiters, feed
<1>1. CASE SweepStart
  <2>1. fetching' \subseteq OnChain
    BY <1>1 DEF SweepStart, Wanted
  <2>2. snap' = disk /\ links = {} /\ todo = {}
    BY <1>1 DEF SweepStart, LockHeld
  <2> QED
    BY <1>1, <2>1, <2>2 DEF SweepStart
<1>2. CASE SweepEnd
  BY <1>2 DEF SweepEnd
<1>3. ASSUME NEW t \in Tokens, FetchNothing(t)
      PROVE  TInv'
  BY <1>3 DEF FetchNothing, Purged
<1>4. ASSUME NEW t \in Tokens, NEW p \in Pools, FetchFound(t, p)
      PROVE  TInv'
  <2> DEFINE row == [pool |-> p, sym |-> SymbolOf[t], ver |-> FALSE,
                     gt |-> FALSE]
  <2>1. row \in Rows
    BY RowTypes
  <2>2. /\ snap' = snap \cup {row} /\ disk' = snap'
        /\ links' = links \cup {row}
    BY <1>4 DEF FetchFound
  <2>3. rejected' \in [Pools -> {"no", "fresh", "expired"}]
    BY <1>4 DEF FetchFound, Purged
  <2> HIDE DEF row
  <2> QED
    BY <1>4, <2>1, <2>2, <2>3 DEF FetchFound
<1>5. ASSUME NEW r \in links, SweepLinks(r)
      PROVE  TInv'
  <2>1. r.pool \in Pools
    BY RowTypes
  <2>2. /\ bound' \in [Tokens -> SUBSET Pools]
        /\ idx' \in [Pools -> Tokens \cup {NoToken}]
    BY <1>5, <2>1, LinkTypes DEF SweepLinks
  <2> QED
    BY <1>5, <2>2 DEF SweepLinks
<1> QED
  BY <1>1, <1>2, <1>3, <1>4, <1>5 DEF SweepNext

LEMMA RefreshTypes == TInv /\ RefreshNext => TInv'
<1> SUFFICES ASSUME TInv, RefreshNext PROVE TInv'
  OBVIOUS
<1> USE DEF TInv, TypeOK, Stages, cache, rejects, locked, waiters, feed
<1>1. CASE RefreshStart
  <2>1. /\ BoundWithout(Banned(disk)) \in [Tokens -> SUBSET Pools]
        /\ IdxWithout(Banned(disk)) \in [Pools -> Tokens \cup {NoToken}]
    BY UnlinkTypes
  <2>2. snap' \subseteq disk /\ links = {} /\ todo = {}
    BY <1>1 DEF RefreshStart, LockHeld
  <2> QED
    BY <1>1, <2>1, <2>2 DEF RefreshStart
<1>2. CASE RefreshChecked
  BY <1>2, UnlinkTypes DEF RefreshChecked
<1>3. CASE RefreshSaves
  BY <1>3 DEF RefreshSaves
<1>4. CASE RefreshEnd
  BY <1>4 DEF RefreshEnd
<1>5. ASSUME NEW r \in todo, RefreshRebinds(r)
      PROVE  TInv'
  <2>1. r.pool \in Pools
    BY RowTypes
  <2>2. /\ bound' \in [Tokens -> SUBSET Pools]
        /\ idx' \in [Pools -> Tokens \cup {NoToken}]
    BY <1>5, <2>1, LinkTypes DEF RefreshRebinds
  <2> QED
    BY <1>5, <2>2 DEF RefreshRebinds
<1> QED
  BY <1>1, <1>2, <1>3, <1>4, <1>5 DEF RefreshNext

LEMMA SwapTypes ==
  ASSUME TInv, NEW t \in Tokens, NEW old \in Pools \cup {NoPool},
         NEW new \in Pools, NEW ver \in GtVersion, SwapRows(t, old, new, ver)
  PROVE  TInv'
<1> USE DEF TInv, TypeOK, Stages, cache, rejects, locked, waiters, feed
<1> DEFINE row == [pool |-> new, sym |-> SymbolOf[t], ver |-> ver, gt |-> TRUE]
           gone == [pool |-> old, sym |-> SymbolOf[t]]
<1>1. disk' \subseteq Rows
  <2>1. row \in Rows
    BY RowTypes, BindingAssumption DEF BindingAssumption
  <2> HIDE DEF row
  <2>2. disk' \subseteq disk \cup {row}
    BY DEF SwapRows, row
  <2> QED
    BY <2>1, <2>2
<1>2. upgrade' \in [Tokens -> Upgrades]
  BY UpgradeRecords DEF SwapRows
<1>3. /\ bound' \in [Tokens -> SUBSET Pools]
      /\ idx' \in [Pools -> Tokens \cup {NoToken}]
      /\ slot' \in [Tokens -> Pools \cup {NoPool}]
      /\ rejected' \in [Pools -> {"no", "fresh", "expired"}]
      /\ bad' \in [Pools -> 0..(Threshold - 1)]
  <2>1. CASE old \in PoolsIn(disk)
    <3>1. /\ BoundWithout({gone}) \in [Tokens -> SUBSET Pools]
          /\ IdxWithout({gone}) \in [Pools -> Tokens \cup {NoToken}]
      BY UnlinkTypes
    <3>2. slot' \in [Tokens -> Pools \cup {NoPool}]
      BY <2>1, RemoveTypes DEF SwapRows
    <3>3. 0 \in 0..(Threshold - 1)
      BY BindingAssumption DEF BindingAssumption
    <3>4. /\ bound' = BoundWithout({gone})
          /\ idx' = IdxWithout({gone})
          /\ rejected' = [rejected EXCEPT ![old] = "fresh"]
          /\ bad' = [bad EXCEPT ![old] = 0]
      BY <2>1 DEF SwapRows
    <3> HIDE DEF gone
    <3> QED
      BY <3>1, <3>2, <3>3, <3>4
  <2>2. CASE old \notin PoolsIn(disk)
    BY <2>2 DEF SwapRows
  <2> QED
    BY <2>1, <2>2
<1> QED
  BY <1>1, <1>2, <1>3 DEF SwapRows

LEMMA UpgradeTypes == TInv /\ UpgradeNext => TInv'
<1> SUFFICES ASSUME TInv, NEW t \in Tokens,
                    \/ UpgradeAsks(t) \/ UpgradeDeclines(t) \/ UpgradeLinks(t)
                    \/ \E ver \in GtVersion :
                         \/ UpgradeGetsLock(t, ver)
                         \/ \E old \in Pools \cup {NoPool}, new \in Pools :
                              UpgradeDecides(t, old, new, ver)
             PROVE  TInv'
  BY DEF UpgradeNext
<1> USE DEF TInv, TypeOK, Stages, cache, rejects, locked, waiters, feed
<1>1. CASE UpgradeAsks(t)
  BY <1>1, UpgradeRecords DEF UpgradeAsks
<1>2. CASE UpgradeDeclines(t)
  BY <1>2, UpgradeRecords DEF UpgradeDeclines
<1>3. CASE UpgradeLinks(t)
  <2>1. upgrade[t].new \in Pools
    BY <1>3 DEF UpgradeLinks
  <2> QED
    BY <1>3, <2>1, LinkTypes, UpgradeRecords DEF UpgradeLinks
<1>4. ASSUME NEW ver \in GtVersion, UpgradeGetsLock(t, ver)
      PROVE  TInv'
  <2>1. /\ upgrade[t].old \in Pools \cup {NoPool}
        /\ upgrade[t].new \in Pools
        /\ SwapRows(t, upgrade[t].old, upgrade[t].new, ver)
    BY <1>4, UpgradeRecords DEF UpgradeGetsLock
  <2> QED
    BY <2>1, SwapTypes
<1>5. ASSUME NEW ver \in GtVersion, NEW old \in Pools \cup {NoPool},
             NEW new \in Pools, UpgradeDecides(t, old, new, ver)
      PROVE  TInv'
  <2>1. CASE LockFree
    BY <1>5, <2>1, SwapTypes DEF UpgradeDecides
  <2>2. CASE ~LockFree
    <3> DEFINE u == [stage |-> "waiting", old |-> old, new |-> new]
    <3>1. upgrade' = [upgrade EXCEPT ![t] = u]
          /\ UNCHANGED <<disk, cache, saved, slot, rejects, locked, drop, feed,
                         crashes>>
      BY <1>5, <2>2 DEF UpgradeDecides
    <3>2. u \in Upgrades /\ u.new \in Pools
      BY UpgradeRecords
    <3> HIDE DEF u
    <3> QED
      BY <3>1, <3>2
  <2> QED
    BY <2>1, <2>2
<1> QED
  BY <1>1, <1>2, <1>3, <1>4, <1>5

LEMMA EvictTypes ==
  ASSUME TInv, NEW p \in Pools, NEW sym, Evict(p, sym)
  PROVE  TInv'
<1> USE DEF TInv, TypeOK, Stages, cache, rejects, locked, waiters, feed
<1> DEFINE gone == [pool |-> p, sym |-> sym]
<1>1. /\ BoundWithout({gone}) \in [Tokens -> SUBSET Pools]
      /\ IdxWithout({gone}) \in [Pools -> Tokens \cup {NoToken}]
  BY UnlinkTypes
<1>2. slot' \in [Tokens -> Pools \cup {NoPool}]
  BY RemoveTypes DEF Evict
<1> QED
  BY <1>1, <1>2 DEF Evict

LEMMA DropTypes == TInv /\ DropNext => TInv'
<1> SUFFICES ASSUME TInv, NEW p \in Pools,
                    \/ BadPrice(p) \/ DropStarts(p)
                    \/ DropGetsLock(p) \/ RejectionExpires(p)
             PROVE  TInv'
  BY DEF DropNext
<1> USE DEF TInv, TypeOK, Stages, cache, rejects, locked, waiters, feed
<1>1. CASE BadPrice(p)
  <2>1. Threshold \in Nat \ {0} /\ bad[p] \in 0..(Threshold - 1)
    BY BindingAssumption DEF BindingAssumption
  <2>2. bad' \in [Pools -> 0..(Threshold - 1)]
    BY <1>1, <2>1 DEF BadPrice
  <2> QED
    BY <1>1, <2>2 DEF BadPrice
<1>2. CASE DropStarts(p)
  <2>1. TickerOf(p) \in Symbols \cup {"nosym"}
    BY DEF TickerOf, Symbols
  <2> QED
    BY <1>2, <2>1, EvictTypes DEF DropStarts
<1>3. CASE DropGetsLock(p)
  BY <1>3, EvictTypes DEF DropGetsLock
<1>4. CASE RejectionExpires(p)
  BY <1>4 DEF RejectionExpires
<1> QED
  BY <1>1, <1>2, <1>3, <1>4

LEMMA FeedTypes == TInv /\ FeedNext => TInv'
<1> SUFFICES ASSUME TInv, FeedNext PROVE TInv'
  OBVIOUS
<1> USE DEF TInv, TypeOK, Stages, cache, rejects, locked, waiters, feed
<1>1. CASE SessionStarts
  <2>1. \A r \in disk : r.pool \in Pools
    BY DEF Rows
  <2>2. PoolsIn(disk) \subseteq Pools
    BY <2>1 DEF PoolsIn
  <2> QED
    BY <1>1, <2>2 DEF SessionStarts
<1>2. ASSUME NEW p \in Pools, Swap(p)
      PROVE  TInv'
  BY <1>2 DEF Swap
<1>3. ASSUME NEW p \in Pools, ThreadRoutes(p)
      PROVE  TInv'
  BY <1>3 DEF ThreadRoutes
<1>4. ASSUME NEW r \in disk, VersionFound(r)
      PROVE  TInv'
  BY <1>4, RowTypes DEF VersionFound
<1>5. CASE ThreadWrites
  BY <1>5 DEF ThreadWrites
<1> QED
  BY <1>1, <1>2, <1>3, <1>4, <1>5 DEF FeedNext

LEMMA OtherTypes == TInv /\ (Flush \/ Crash \/ UNCHANGED vars) => TInv'
<1> SUFFICES ASSUME TInv, Flush \/ Crash \/ UNCHANGED vars PROVE TInv'
  OBVIOUS
<1> USE DEF TInv, TypeOK, Stages, cache, rejects, locked, waiters, feed
<1>1. CASE Flush
  BY <1>1 DEF Flush
<1>2. CASE Crash
  <2>1. Rebuilt(saved) \in [Pools -> Tokens \cup {NoToken}]
    BY RebuiltTypes
  <2>2. 0 \in 0..(Threshold - 1) /\ crashes' \in 0..MaxCrashes
    BY <1>2, BindingAssumption DEF Crash, BindingAssumption
  <2> QED
    BY <1>2, <2>1, <2>2, UpgradeRecords DEF Crash
<1>3. CASE UNCHANGED vars
  BY <1>3 DEF vars
<1> QED
  BY <1>1, <1>2, <1>3

LEMMA StepTypes == TInv /\ [Next]_vars => TInv'
  BY SweepTypes, RefreshTypes, UpgradeTypes, DropTypes, FeedTypes, OtherTypes
     DEF Next

(* TypeOK holds of the pool lifecycle for every instance: whatever is kept *)
(* about a pool, a row or a token in the four places the code keeps it     *)
(* stays about pools, rows and tokens.                                     *)
THEOREM BindingTypeCorrect == Spec => []TypeOK
<1>1. TInv => TypeOK
  BY DEF TInv
<1> QED
  BY InitTypes, StepTypes, <1>1, PTL DEF Spec
----------------------------------------------------------------------------
(************************** the copy of the file ***************************)

LEMMA CopyUntouched ==
  ASSUME CopyHasFileRows,
         \/ UNCHANGED <<holder, snap, disk>>
         \/ holder' \notin {"sweep", "check"}
  PROVE  CopyHasFileRows'
  BY DEF CopyHasFileRows, Keys, Banned

(* The version detector rewrites a row, whoever holds the lock: pool and   *)
(* ticker stay.                                                            *)
LEMMA VersionKeepsKeys ==
  ASSUME TypeOK, NEW r \in disk, VersionFound(r)
  PROVE  /\ Keys(disk') = Keys(disk)
         /\ Keys(disk' \ Banned(disk')) = Keys(disk \ Banned(disk))
<1> DEFINE q == [r EXCEPT !.ver = TRUE]
<1>1. q.pool = r.pool /\ q.sym = r.sym
  BY DEF TypeOK, Rows
<1>2. disk' = (disk \ {r}) \cup {q}
  BY DEF VersionFound
<1> HIDE DEF q
<1>3. Keys(disk') = Keys(disk)
  BY <1>1, <1>2 DEF Keys
<1>4. Keys(disk' \ Banned(disk')) = Keys(disk \ Banned(disk))
  BY <1>1, <1>2 DEF Keys, Banned
<1> QED
  BY <1>3, <1>4

LEMMA CopyStep == TInv /\ CopyHasFileRows /\ [Next]_vars => CopyHasFileRows'
<1> SUFFICES ASSUME TInv, CopyHasFileRows, [Next]_vars
             PROVE  CopyHasFileRows'
  OBVIOUS
<1> USE DEF cache, rejects, locked, waiters, feed
<1>1. CASE SweepNext
  <2>1. CASE SweepStart
    BY <2>1 DEF SweepStart, CopyHasFileRows
  <2>2. CASE SweepEnd
    BY <2>2, CopyUntouched DEF SweepEnd
  <2>3. ASSUME NEW t \in Tokens, FetchNothing(t)
        PROVE  CopyHasFileRows'
    BY <2>3, CopyUntouched DEF FetchNothing
  <2>4. ASSUME NEW t \in Tokens, NEW p \in Pools, FetchFound(t, p)
        PROVE  CopyHasFileRows'
    BY <2>4 DEF FetchFound, CopyHasFileRows
  <2>5. ASSUME NEW r \in links, SweepLinks(r)
        PROVE  CopyHasFileRows'
    BY <2>5, CopyUntouched DEF SweepLinks
  <2> QED
    BY <1>1, <2>1, <2>2, <2>3, <2>4, <2>5 DEF SweepNext
<1>2. CASE RefreshNext
  <2>1. CASE RefreshStart
    BY <2>1 DEF RefreshStart, CopyHasFileRows
  <2>2. CASE RefreshChecked
    BY <2>2, CopyUntouched DEF RefreshChecked
  <2>3. CASE RefreshSaves
    BY <2>3, CopyUntouched DEF RefreshSaves
  <2>4. CASE RefreshEnd
    BY <2>4, CopyUntouched DEF RefreshEnd
  <2>5. ASSUME NEW r \in todo, RefreshRebinds(r)
        PROVE  CopyHasFileRows'
    BY <2>5, CopyUntouched DEF RefreshRebinds
  <2> QED
    BY <1>2, <2>1, <2>2, <2>3, <2>4, <2>5 DEF RefreshNext
<1>3. CASE UpgradeNext
  <2> SUFFICES \/ UNCHANGED <<holder, snap, disk>>
               \/ /\ UNCHANGED holder
                  /\ holder = "none"
    BY CopyUntouched
  <2>1. PICK t \in Tokens :
          \/ UpgradeAsks(t) \/ UpgradeDeclines(t) \/ UpgradeLinks(t)
          \/ \E ver \in GtVersion :
               \/ UpgradeGetsLock(t, ver)
               \/ \E old \in Pools \cup {NoPool}, new \in Pools :
                    UpgradeDecides(t, old, new, ver)
    BY <1>3 DEF UpgradeNext
  <2>2. CASE UpgradeAsks(t) \/ UpgradeDeclines(t) \/ UpgradeLinks(t)
    BY <2>2 DEF UpgradeAsks, UpgradeDeclines, UpgradeLinks
  <2>3. ASSUME NEW ver \in GtVersion, UpgradeGetsLock(t, ver)
        PROVE  UNCHANGED holder /\ holder = "none"
    BY <2>3 DEF UpgradeGetsLock, SwapRows, LockHeld
  <2>4. ASSUME NEW ver \in GtVersion, NEW old \in Pools \cup {NoPool},
               NEW new \in Pools, UpgradeDecides(t, old, new, ver)
        PROVE  \/ UNCHANGED <<holder, snap, disk>>
               \/ /\ UNCHANGED holder
                  /\ holder = "none"
    BY <2>4 DEF UpgradeDecides, SwapRows, LockFree, LockHeld
  <2> QED
    BY <2>1, <2>2, <2>3, <2>4
<1>4. CASE DropNext
  <2> SUFFICES \/ UNCHANGED <<holder, snap, disk>>
               \/ /\ UNCHANGED holder
                  /\ holder = "none"
    BY CopyUntouched
  <2>1. PICK p \in Pools :
          BadPrice(p) \/ DropStarts(p) \/ DropGetsLock(p)
          \/ RejectionExpires(p)
    BY <1>4 DEF DropNext
  <2>2. CASE BadPrice(p) \/ RejectionExpires(p)
    BY <2>2 DEF BadPrice, RejectionExpires
  <2>3. CASE DropStarts(p)
    BY <2>3 DEF DropStarts, Evict, LockFree, LockHeld
  <2>4. CASE DropGetsLock(p)
    BY <2>4 DEF DropGetsLock, Evict, LockHeld
  <2> QED
    BY <2>1, <2>2, <2>3, <2>4
<1>5. CASE FeedNext
  <2>1. ASSUME NEW r \in disk, VersionFound(r)
        PROVE  CopyHasFileRows'
    <3>1. UNCHANGED <<holder, snap>>
      BY <2>1 DEF VersionFound
    <3> QED
      BY <2>1, <3>1, VersionKeepsKeys DEF CopyHasFileRows, TInv
  <2>2. CASE SessionStarts \/ ThreadWrites
             \/ \E p \in Pools : Swap(p) \/ ThreadRoutes(p)
    BY <2>2, CopyUntouched DEF SessionStarts, ThreadWrites, Swap, ThreadRoutes
  <2> QED
    BY <1>5, <2>1, <2>2 DEF FeedNext
<1>6. CASE Flush \/ Crash \/ UNCHANGED vars
  BY <1>6, CopyUntouched DEF Flush, Crash, vars
<1> QED
  BY <1>1, <1>2, <1>3, <1>4, <1>5, <1>6 DEF Next

(* The lock does what its comment says it is for: while a sweep or a       *)
(* refresh works on its copy nobody, whatever else runs, adds a row to the *)
(* file or takes one away, so that saving the copy loses no row and brings *)
(* none back.  The version detector, which does write, leaves pools and    *)
(* tickers alone.                                                          *)
THEOREM BindingCopyFaithful == Spec => []CopyHasFileRows
<1>1. Init => TInv /\ CopyHasFileRows
  BY InitTypes DEF Init, CopyHasFileRows
<1>2. TInv /\ CopyHasFileRows /\ [Next]_vars => (TInv /\ CopyHasFileRows)'
  BY StepTypes, CopyStep
<1> QED
  BY <1>1, <1>2, PTL DEF Spec
----------------------------------------------------------------------------
(*************************** whose pool is it ******************************)

(* No two tokens with a contract on the chain share a ticker; no pool      *)
(* trades two of them.  The first is what add_pool relies on.              *)
NoTwins ==
  \A t, u \in OnChain : SymbolOf[t] = SymbolOf[u] => t = u
NoSharedPools ==
  \A t, u \in OnChain : t # u => Offers[t] \cap Offers[u] = {}

OwnPair(p, sym) == \E t \in OnChain : SymbolOf[t] = sym /\ p \in Offers[t]

(* With the ticker's owner on the chain, add_pool finds it. *)
LEMMA ChosenOwns ==
  ASSUME NoTwins, NEW p, NEW sym, OwnPair(p, sym)
  PROVE  /\ Chosen(sym) \in OnChain
         /\ SymbolOf[Chosen(sym)] = sym
         /\ p \in Offers[Chosen(sym)]
<1>1. PICK t \in OnChain : SymbolOf[t] = sym /\ p \in Offers[t]
  BY DEF OwnPair
<1>2. t \in Named(sym) \cap OnChain
  BY <1>1, BindingAssumption DEF Named, BindingAssumption
<1>3. \A u \in Named(sym) \cap OnChain : u = t
  BY <1>1 DEF Named, NoTwins
<1>4. FirstOf(Named(sym) \cap OnChain) = t
  <2>1. Named(sym) \cap OnChain \in SUBSET Tokens
    BY DEF Named
  <2> QED
    BY <1>2, <1>3, <2>1, FirstEntry
<1> QED
  BY <1>1, <1>2, <1>4 DEF Chosen

OwnLists(lists) ==
  \A t \in Tokens : /\ lists[t] \subseteq Offers[t]
                    /\ lists[t] # {} => t \in OnChain
Routed == \A p \in Pools : idx[p] # NoToken => p \in bound[idx[p]]

(* The lists hold pools of their tokens, and the index routes a pool to a  *)
(* token that lists it.                                                    *)
OwnBindings == OwnLists(bound) /\ OwnLists(saved) /\ Routed

(* Prices, the one the thread is about to write included. *)
OwnPrices ==
  /\ \A t \in Tokens : slot[t] # NoPool => slot[t] \in Offers[t]
  /\ thread # <<>> => thread[1] \in Offers[thread[2]]

(* Rows, in the file or on their way to it. *)
OwnRows ==
  /\ \A r \in disk \cup snap : OwnPair(r.pool, r.sym)
  /\ \A p \in Pools : drop[p] \in Symbols => OwnPair(p, drop[p])

(* Swaps that wait for the lock or for their link. *)
OwnUpgrades ==
  \A t \in Tokens :
    /\ upgrade[t].stage # "none" => t \in OnChain
    /\ upgrade[t].stage \in {"waiting", "linking"} =>
         upgrade[t].new \in Offers[t]
    /\ upgrade[t].stage = "waiting" =>
         upgrade[t].old \in Offers[t] \cup {NoPool}

OwnInv == OwnBindings /\ OwnPrices /\ OwnRows /\ OwnUpgrades

LEMMA LinkOwns ==
  ASSUME NoTwins, TInv, OwnBindings, NEW sym, NEW pool \in Pools,
         OwnPair(pool, sym), Link(sym, pool), UNCHANGED saved
  PROVE  OwnBindings'
<1> DEFINE t == Chosen(sym)
<1>1. t \in OnChain /\ t \in Tokens /\ pool \in Offers[t] /\ t # NoToken
  BY ChosenOwns, BindingAssumption DEF BindingAssumption
<1>2. CASE pool \in bound[t]
  BY <1>2 DEF Link, cache, OwnBindings, OwnLists, Routed
<1>3. CASE pool \notin bound[t]
  <2>1. /\ bound' = [bound EXCEPT ![t] = @ \cup {pool}]
        /\ idx' = [p \in Pools |->
                     IF p \in bound[t] \cup {pool} THEN t ELSE idx[p]]
    BY <1>1, <1>3 DEF Link
  <2> HIDE DEF t
  <2> QED
    BY <1>1, <2>1 DEF OwnBindings, OwnLists, Routed, TInv, TypeOK
<1> QED
  BY <1>2, <1>3

LEMMA UnlinkOwns ==
  ASSUME TInv, OwnBindings, NEW rows,
         bound' = BoundWithout(rows), idx' = IdxWithout(rows), UNCHANGED saved
  PROVE  OwnBindings'
<1>1. \A t \in Tokens : bound'[t] \subseteq bound[t]
  BY DEF BoundWithout
<1>2. ASSUME NEW p \in Pools, idx'[p] # NoToken
      PROVE  p \in bound'[idx'[p]]
  <2>1. p \notin PoolsIn(rows) /\ idx'[p] = idx[p]
    BY <1>2 DEF IdxWithout
  <2>2. idx[p] \in Tokens /\ p \in bound[idx[p]]
    BY <1>2, <2>1 DEF TInv, TypeOK, OwnBindings, Routed
  <2>3. \A S : S \subseteq rows => p \notin PoolsIn(S)
    BY <2>1 DEF PoolsIn
  <2>4. p \in bound'[idx[p]]
    BY <2>2, <2>3 DEF BoundWithout
  <2> QED
    BY <2>1, <2>4
<1> QED
  BY <1>1, <1>2 DEF OwnBindings, OwnLists, Routed

(* What an action leaves alone. *)
LEMMA OwnUntouched ==
  ASSUME OwnInv
  PROVE  /\ UNCHANGED <<bound, idx, saved>> => OwnBindings'
         /\ UNCHANGED <<slot, thread>> => OwnPrices'
         /\ disk' \cup snap' \subseteq disk \cup snap /\ UNCHANGED drop
              => OwnRows'
         /\ UNCHANGED upgrade => OwnUpgrades'
<1>1. UNCHANGED <<bound, idx, saved>> => OwnBindings'
  BY DEF OwnInv, OwnBindings, OwnLists, Routed
<1>2. UNCHANGED <<slot, thread>> => OwnPrices'
  BY DEF OwnInv, OwnPrices
<1>3. disk' \cup snap' \subseteq disk \cup snap /\ UNCHANGED drop => OwnRows'
  BY DEF OwnInv, OwnRows, OwnPair
<1>4. UNCHANGED upgrade => OwnUpgrades'
  BY DEF OwnInv, OwnUpgrades
<1> QED
  BY <1>1, <1>2, <1>3, <1>4

LEMMA RemoveOwns ==
  ASSUME TInv, OwnPrices, NEW pool, RemovePrice(pool), UNCHANGED thread
  PROVE  OwnPrices'
  BY DEF TInv, TypeOK, OwnPrices, RemovePrice

LEMMA InitOwns == NoTwins /\ Init => OwnInv
<1> SUFFICES ASSUME NoTwins, Init PROVE OwnInv
  OBVIOUS
<1>1. \A r \in disk : OwnPair(r.pool, r.sym)
  BY BindingAssumption DEF Init, BindingAssumption, OwnRow, OwnPair
<1>2. bound \in [Tokens -> SUBSET Pools]
  BY DEF Init
<1>3. OwnLists(bound)
  <2>1. PICK wiped \in SUBSET disk :
          bound = [t \in Tokens |->
                     {p \in Pools : \E r \in disk \ wiped :
                        r.pool = p /\ t = Chosen(r.sym)}]
    BY DEF Init
  <2>2. ASSUME NEW t \in Tokens, NEW p \in bound[t]
        PROVE  t \in OnChain /\ p \in Offers[t]
    <3>1. PICK r \in disk : r.pool = p /\ t = Chosen(r.sym)
      BY <2>1, <2>2
    <3> QED
      BY <1>1, <3>1, ChosenOwns
  <2> QED
    BY <2>2 DEF OwnLists
<1>4. Routed
  BY <1>2, RebuiltTypes DEF Init, Routed
<1>5. OwnPrices
  BY DEF Init, OwnPrices
<1>6. OwnRows
  BY <1>1, BindingAssumption DEF Init, OwnRows, BindingAssumption
<1>7. OwnUpgrades
  BY UpgradeRecords DEF Init, OwnUpgrades
<1> QED
  BY <1>3, <1>4, <1>5, <1>6, <1>7 DEF Init, OwnInv, OwnBindings

LEMMA SweepOwns == NoTwins /\ TInv /\ OwnInv /\ SweepNext => OwnInv'
<1> SUFFICES ASSUME NoTwins, TInv, OwnInv, SweepNext PROVE OwnInv'
  OBVIOUS
<1> USE DEF cache, rejects, locked, waiters, feed
<1>1. CASE SweepStart
  BY <1>1, OwnUntouched DEF SweepStart, OwnInv
<1>2. CASE SweepEnd
  BY <1>2, OwnUntouched DEF SweepEnd, OwnInv
<1>3. ASSUME NEW t \in Tokens, FetchNothing(t)
      PROVE  OwnInv'
  BY <1>3, OwnUntouched DEF FetchNothing, OwnInv
<1>4. ASSUME NEW t \in Tokens, NEW p \in Pools, FetchFound(t, p)
      PROVE  OwnInv'
  <2> DEFINE row == [pool |-> p, sym |-> SymbolOf[t], ver |-> FALSE,
                     gt |-> FALSE]
  <2>1. t \in OnChain /\ OwnPair(row.pool, row.sym)
    BY <1>4 DEF FetchFound, TInv, TypeOK, OwnPair
  <2>2. snap' = snap \cup {row} /\ disk' = snap' /\ UNCHANGED drop
    BY <1>4 DEF FetchFound
  <2> HIDE DEF row
  <2>3. OwnRows'
    BY <2>1, <2>2 DEF OwnInv, OwnRows, OwnPair
  <2> QED
    BY <1>4, <2>3, OwnUntouched DEF FetchFound, OwnInv
<1>5. ASSUME NEW r \in links, SweepLinks(r)
      PROVE  OwnInv'
  <2>1. r \in snap /\ r.pool \in Pools
    BY RowTypes DEF TInv, TypeOK
  <2>2. OwnPair(r.pool, r.sym)
    BY <2>1 DEF OwnInv, OwnRows
  <2>3. OwnBindings'
    BY <1>5, <2>1, <2>2, LinkOwns DEF SweepLinks, OwnInv
  <2> QED
    BY <1>5, <2>3, OwnUntouched DEF SweepLinks, OwnInv
<1> QED
  BY <1>1, <1>2, <1>3, <1>4, <1>5 DEF SweepNext

LEMMA RefreshOwns == NoTwins /\ TInv /\ OwnInv /\ RefreshNext => OwnInv'
<1> SUFFICES ASSUME NoTwins, TInv, OwnInv, RefreshNext PROVE OwnInv'
  OBVIOUS
<1> USE DEF cache, rejects, locked, waiters, feed
<1>1. CASE RefreshStart
  <2>1. OwnBindings'
    BY <1>1, UnlinkOwns DEF RefreshStart, OwnInv
  <2> QED
    BY <1>1, <2>1, OwnUntouched DEF RefreshStart, OwnInv
<1>2. CASE RefreshChecked
  <2>1. OwnBindings'
    BY <1>2, UnlinkOwns DEF RefreshChecked, OwnInv
  <2> QED
    BY <1>2, <2>1, OwnUntouched DEF RefreshChecked, OwnInv
<1>3. CASE RefreshSaves
  BY <1>3, OwnUntouched DEF RefreshSaves, OwnInv
<1>4. CASE RefreshEnd
  <2>1. OwnBindings'
    BY <1>4 DEF RefreshEnd, OwnInv, OwnBindings, OwnLists, Routed
  <2> QED
    BY <1>4, <2>1, OwnUntouched DEF RefreshEnd, OwnInv
<1>5. ASSUME NEW r \in todo, RefreshRebinds(r)
      PROVE  OwnInv'
  <2>1. r \in snap /\ r.pool \in Pools
    BY RowTypes DEF TInv, TypeOK
  <2>2. OwnPair(r.pool, r.sym)
    BY <2>1 DEF OwnInv, OwnRows
  <2>3. OwnBindings'
    BY <1>5, <2>1, <2>2, LinkOwns, OwnUntouched DEF RefreshRebinds, OwnInv
  <2> QED
    BY <1>5, <2>3, OwnUntouched DEF RefreshRebinds, OwnInv
<1> QED
  BY <1>1, <1>2, <1>3, <1>4, <1>5 DEF RefreshNext

LEMMA SwapOwns ==
  ASSUME TInv, OwnInv, NEW t \in Tokens, NEW old \in Pools \cup {NoPool},
         NEW new \in Pools, NEW ver \in GtVersion, SwapRows(t, old, new, ver),
         t \in OnChain, new \in Offers[t]
  PROVE  OwnInv'
<1> USE DEF cache, rejects, locked, waiters, feed
<1> DEFINE row == [pool |-> new, sym |-> SymbolOf[t], ver |-> ver, gt |-> TRUE]
           u == [stage |-> "linking", old |-> NoPool, new |-> new]
<1>1. OwnBindings'
  <2>1. CASE old \in PoolsIn(disk)
    BY <2>1, UnlinkOwns DEF SwapRows, OwnInv
  <2>2. CASE old \notin PoolsIn(disk)
    BY <2>2, OwnUntouched DEF SwapRows
  <2> QED
    BY <2>1, <2>2
<1>2. OwnPrices'
  <2>1. CASE old \in PoolsIn(disk)
    BY <2>1, RemoveOwns DEF SwapRows, OwnInv
  <2>2. CASE old \notin PoolsIn(disk)
    BY <2>2, OwnUntouched DEF SwapRows
  <2> QED
    BY <2>1, <2>2
<1>3. OwnRows'
  <2>1. OwnPair(row.pool, row.sym)
    BY DEF OwnPair
  <2>2. disk' \subseteq disk \cup {row} /\ UNCHANGED <<snap, drop>>
    BY DEF SwapRows
  <2> HIDE DEF row
  <2> QED
    BY <2>1, <2>2 DEF OwnInv, OwnRows, OwnPair
<1>4. OwnUpgrades'
  <2>1. upgrade' = [upgrade EXCEPT ![t] = u]
    BY DEF SwapRows
  <2>2. u.stage = "linking" /\ u.new = new
    OBVIOUS
  <2> HIDE DEF u
  <2> QED
    BY <2>1, <2>2 DEF TInv, TypeOK, OwnInv, OwnUpgrades
<1> QED
  BY <1>1, <1>2, <1>3, <1>4 DEF OwnInv

LEMMA UpgradeOwns == NoTwins /\ TInv /\ OwnInv /\ UpgradeNext => OwnInv'
<1> SUFFICES ASSUME NoTwins, TInv, OwnInv, NEW t \in Tokens,
                    \/ UpgradeAsks(t) \/ UpgradeDeclines(t) \/ UpgradeLinks(t)
                    \/ \E ver \in GtVersion :
                         \/ UpgradeGetsLock(t, ver)
                         \/ \E old \in Pools \cup {NoPool}, new \in Pools :
                              UpgradeDecides(t, old, new, ver)
             PROVE  OwnInv'
  BY DEF UpgradeNext
<1> USE DEF cache, rejects, locked, waiters, feed
<1>0. upgrade \in [Tokens -> Upgrades]
  BY DEF TInv, TypeOK
<1>1. CASE UpgradeAsks(t)
  <2>1. OwnUpgrades'
    BY <1>0, <1>1, UpgradeRecords DEF UpgradeAsks, OwnInv, OwnUpgrades
  <2> QED
    BY <1>1, <2>1, OwnUntouched DEF UpgradeAsks, OwnInv
<1>2. CASE UpgradeDeclines(t)
  <2>1. OwnUpgrades'
    BY <1>0, <1>2, UpgradeRecords DEF UpgradeDeclines, OwnInv, OwnUpgrades
  <2> QED
    BY <1>2, <2>1, OwnUntouched DEF UpgradeDeclines, OwnInv
<1>3. CASE UpgradeLinks(t)
  <2>1. OwnUpgrades'
    BY <1>0, <1>3, UpgradeRecords DEF UpgradeLinks, OwnInv, OwnUpgrades
  <2>2. /\ upgrade[t].new \in Pools
        /\ OwnPair(upgrade[t].new, SymbolOf[t])
    BY <1>3 DEF UpgradeLinks, TInv, Stages, OwnInv, OwnUpgrades, OwnPair
  <2>3. OwnBindings'
    BY <1>3, <2>2, LinkOwns DEF UpgradeLinks, OwnInv
  <2> QED
    BY <1>3, <2>1, <2>3, OwnUntouched DEF UpgradeLinks, OwnInv
<1>4. ASSUME NEW ver \in GtVersion, UpgradeGetsLock(t, ver)
      PROVE  OwnInv'
  <2>1. /\ upgrade[t].old \in Pools \cup {NoPool}
        /\ upgrade[t].new \in Pools
        /\ SwapRows(t, upgrade[t].old, upgrade[t].new, ver)
        /\ t \in OnChain /\ upgrade[t].new \in Offers[t]
    BY <1>0, <1>4, UpgradeRecords
       DEF UpgradeGetsLock, TInv, Stages, OwnInv, OwnUpgrades
  <2> QED
    BY <2>1, SwapOwns
<1>5. ASSUME NEW ver \in GtVersion, NEW old \in Pools \cup {NoPool},
             NEW new \in Pools, UpgradeDecides(t, old, new, ver)
      PROVE  OwnInv'
  <2>1. /\ t \in OnChain /\ new \in Offers[t]
        /\ old \in Offers[t] \cup {NoPool}
    BY <1>5 DEF UpgradeDecides, OwnInv, OwnUpgrades, OwnBindings, OwnLists
  <2>2. CASE LockFree
    BY <1>5, <2>1, <2>2, SwapOwns DEF UpgradeDecides
  <2>3. CASE ~LockFree
    <3> DEFINE u == [stage |-> "waiting", old |-> old, new |-> new]
    <3>1. upgrade' = [upgrade EXCEPT ![t] = u]
          /\ UNCHANGED <<disk, cache, saved, slot, rejects, locked, drop, feed,
                         crashes>>
      BY <1>5, <2>3 DEF UpgradeDecides
    <3>2. u.stage = "waiting" /\ u.old = old /\ u.new = new
      OBVIOUS
    <3> HIDE DEF u
    <3>3. OwnUpgrades'
      BY <1>0, <2>1, <3>1, <3>2 DEF OwnInv, OwnUpgrades
    <3> QED
      BY <3>1, <3>3, OwnUntouched DEF OwnInv
  <2> QED
    BY <2>2, <2>3
<1> QED
  BY <1>1, <1>2, <1>3, <1>4, <1>5

LEMMA EvictOwns ==
  ASSUME TInv, OwnInv, NEW p \in Pools, NEW sym, Evict(p, sym)
  PROVE  OwnInv'
<1> USE DEF cache, rejects, locked, waiters, feed
<1>1. OwnBindings'
  <2>1. CASE sym = "nosym"
    BY <2>1, OwnUntouched DEF Evict
  <2>2. CASE sym # "nosym"
    BY <2>2, UnlinkOwns DEF Evict, OwnInv
  <2> QED
    BY <2>1, <2>2
<1>2. OwnPrices'
  BY RemoveOwns DEF Evict, OwnInv
<1>3. OwnRows'
  BY BindingAssumption
     DEF Evict, OwnInv, OwnRows, OwnPair, BindingAssumption, TInv, TypeOK
<1>4. OwnUpgrades'
  BY OwnUntouched DEF Evict
<1> QED
  BY <1>1, <1>2, <1>3, <1>4 DEF OwnInv

LEMMA DropOwns == TInv /\ OwnInv /\ DropNext => OwnInv'
<1> SUFFICES ASSUME TInv, OwnInv, NEW p \in Pools,
                    \/ BadPrice(p) \/ DropStarts(p)
                    \/ DropGetsLock(p) \/ RejectionExpires(p)
             PROVE  OwnInv'
  BY DEF DropNext
<1> USE DEF cache, rejects, locked, waiters, feed
<1>1. CASE BadPrice(p)
  <2>1. OwnRows'
    BY <1>1, BindingAssumption
       DEF BadPrice, OwnInv, OwnRows, OwnPair, BindingAssumption, TInv, TypeOK
  <2> QED
    BY <1>1, <2>1, OwnUntouched DEF BadPrice, OwnInv
<1>2. CASE DropStarts(p)
  <2>1. CASE LockFree
    BY <1>2, <2>1, EvictOwns DEF DropStarts
  <2>2. CASE ~LockFree
    <3>1. idx[p] # NoToken => OwnPair(p, SymbolOf[idx[p]])
      <4>1. idx[p] \in Tokens \cup {NoToken}
        BY DEF TInv, TypeOK
      <4> QED
        BY <4>1 DEF OwnInv, OwnBindings, OwnLists, Routed, OwnPair
    <3>2. TickerOf(p) \in Symbols => OwnPair(p, TickerOf(p))
      BY <3>1, BindingAssumption DEF TickerOf, BindingAssumption
    <3>3. drop' = [drop EXCEPT ![p] = TickerOf(p)] /\ UNCHANGED <<disk, snap>>
      BY <1>2, <2>2 DEF DropStarts
    <3>4. OwnRows'
      BY <3>2, <3>3 DEF OwnInv, OwnRows, OwnPair, TInv, TypeOK
    <3> QED
      BY <1>2, <2>2, <3>4, OwnUntouched DEF DropStarts, OwnInv
  <2> QED
    BY <2>1, <2>2
<1>3. CASE DropGetsLock(p)
  BY <1>3, EvictOwns DEF DropGetsLock
<1>4. CASE RejectionExpires(p)
  BY <1>4, OwnUntouched DEF RejectionExpires, OwnInv
<1> QED
  BY <1>1, <1>2, <1>3, <1>4

LEMMA FeedOwns == TInv /\ OwnInv /\ FeedNext => OwnInv'
<1> SUFFICES ASSUME TInv, OwnInv, FeedNext PROVE OwnInv'
  OBVIOUS
<1> USE DEF cache, rejects, locked, waiters, feed
<1>0. ASSUME NEW p \in Pools, idx[p] # NoToken
      PROVE  idx[p] \in Tokens /\ p \in Offers[idx[p]]
  BY <1>0 DEF TInv, TypeOK, OwnInv, OwnBindings, OwnLists, Routed
<1>1. CASE SessionStarts
  BY <1>1, OwnUntouched DEF SessionStarts, OwnInv, OwnPrices
<1>2. ASSUME NEW p \in Pools, Swap(p)
      PROVE  OwnInv'
  <2>1. OwnPrices'
    BY <1>0, <1>2 DEF Swap, OwnInv, OwnPrices, TInv, TypeOK
  <2> QED
    BY <1>2, <2>1, OwnUntouched DEF Swap, OwnInv
<1>3. ASSUME NEW p \in Pools, ThreadRoutes(p)
      PROVE  OwnInv'
  <2>1. OwnPrices'
    BY <1>0, <1>3 DEF ThreadRoutes, OwnInv, OwnPrices
  <2> QED
    BY <1>3, <2>1, OwnUntouched DEF ThreadRoutes, OwnInv
<1>4. ASSUME NEW r \in disk, VersionFound(r)
      PROVE  OwnInv'
  <2> DEFINE q == [r EXCEPT !.ver = TRUE]
  <2>1. q.pool = r.pool /\ q.sym = r.sym
    BY DEF TInv, TypeOK, Rows
  <2>2. disk' = (disk \ {r}) \cup {q} /\ UNCHANGED <<snap, drop>>
    BY <1>4 DEF VersionFound
  <2> HIDE DEF q
  <2>3. OwnRows'
    BY <2>1, <2>2 DEF OwnInv, OwnRows, OwnPair
  <2> QED
    BY <1>4, <2>3, OwnUntouched DEF VersionFound, OwnInv
<1>5. CASE ThreadWrites
  <2>1. thread[1] \in Pools /\ thread[2] \in Tokens
    BY <1>5 DEF ThreadWrites, TInv, TypeOK
  <2>2. OwnPrices'
    BY <1>5, <2>1 DEF ThreadWrites, OwnInv, OwnPrices, TInv, TypeOK
  <2> QED
    BY <1>5, <2>2, OwnUntouched DEF ThreadWrites, OwnInv
<1> QED
  BY <1>1, <1>2, <1>3, <1>4, <1>5 DEF FeedNext

LEMMA OtherOwns ==
  ASSUME TInv, OwnInv, Flush \/ Crash \/ UNCHANGED vars
  PROVE  OwnInv'
<1> USE DEF cache, rejects, locked, waiters, feed
<1>1. CASE Flush
  <2>1. OwnBindings'
    BY <1>1 DEF Flush, OwnInv, OwnBindings, OwnLists, Routed
  <2> QED
    BY <1>1, <2>1, OwnUntouched DEF Flush, OwnInv
<1>2. CASE Crash
  <2>1. OwnBindings'
    BY <1>2, RebuiltTypes
       DEF Crash, TInv, TypeOK, OwnInv, OwnBindings, OwnLists, Routed
  <2>2. OwnPrices'
    BY <1>2 DEF Crash, OwnPrices
  <2>3. OwnRows'
    BY <1>2, BindingAssumption
       DEF Crash, OwnInv, OwnRows, OwnPair, BindingAssumption
  <2>4. OwnUpgrades'
    BY <1>2, UpgradeRecords DEF Crash, OwnUpgrades
  <2> QED
    BY <2>1, <2>2, <2>3, <2>4 DEF OwnInv
<1>3. CASE UNCHANGED vars
  BY <1>3, OwnUntouched DEF vars, OwnInv
<1> QED
  BY <1>1, <1>2, <1>3

LEMMA StepOwns ==
  ASSUME NoTwins
  PROVE  TInv /\ OwnInv /\ [Next]_vars => OwnInv'
  BY SweepOwns, RefreshOwns, UpgradeOwns, DropOwns, FeedOwns, OtherOwns
     DEF Next

(* As long as no two tokens with a contract on the chain share a ticker,   *)
(* update_dex, whoever calls it and however late, prices a token only from *)
(* a pool of that token's own contract: add_pool's choice by ticker is the *)
(* one place where a foreign pool can come in.                             *)
THEOREM BindingOwnPool == NoTwins => (Spec => []PricedFromOwnPool)
<1> SUFFICES ASSUME NoTwins PROVE Spec => []PricedFromOwnPool
  OBVIOUS
<1>1. Init => TInv /\ OwnInv
  BY InitTypes, InitOwns
<1>2. TInv /\ OwnInv /\ [Next]_vars => (TInv /\ OwnInv)'
  BY StepTypes, StepOwns
<1>3. OwnInv => PricedFromOwnPool
  BY DEF OwnInv, OwnPrices, PricedFromOwnPool
<1> QED
  BY <1>1, <1>2, <1>3, PTL DEF Spec
----------------------------------------------------------------------------
(************************ the index and the lists **************************)

LEMMA LinkIndexes ==
  ASSUME NoTwins, NoSharedPools, TInv, OwnInv, IndexMatchesLists, NEW sym,
         NEW pool \in Pools, OwnPair(pool, sym), Link(sym, pool)
  PROVE  IndexMatchesLists'
<1> DEFINE t == Chosen(sym)
<1>1. t \in OnChain /\ t \in Tokens /\ pool \in Offers[t] /\ t # NoToken
  BY ChosenOwns, BindingAssumption DEF BindingAssumption
<1>2. CASE pool \in bound[t]
  BY <1>2 DEF Link, cache, IndexMatchesLists
<1>3. CASE pool \notin bound[t]
  <2>1. /\ bound' = [bound EXCEPT ![t] = @ \cup {pool}]
        /\ idx' = [p \in Pools |->
                     IF p \in bound[t] \cup {pool} THEN t ELSE idx[p]]
    BY <1>1, <1>3 DEF Link
  <2> HIDE DEF t
  <2>2. bound \in [Tokens -> SUBSET Pools]
    BY DEF TInv, TypeOK
  <2>3. ASSUME NEW p \in bound[t] \cup {pool}, NEW u \in Tokens, u # t
        PROVE  p \notin bound[u]
    <3>1. p \in Offers[t]
      BY <1>1, <2>3 DEF OwnInv, OwnBindings, OwnLists
    <3>2. p \in bound[u] => u \in OnChain /\ p \in Offers[u]
      BY DEF OwnInv, OwnBindings, OwnLists
    <3> QED
      BY <1>1, <2>3, <3>1, <3>2 DEF NoSharedPools
  <2> QED
    BY <1>1, <2>1, <2>2, <2>3 DEF IndexMatchesLists
<1> QED
  BY <1>2, <1>3

LEMMA UnlinkIndexes ==
  ASSUME NoSharedPools, TInv, OwnInv, IndexMatchesLists, NEW rows,
         \A r \in rows : OwnPair(r.pool, r.sym),
         bound' = BoundWithout(rows), idx' = IdxWithout(rows)
  PROVE  IndexMatchesLists'
<1> SUFFICES ASSUME NEW p \in Pools, NEW t \in Tokens
             PROVE  idx'[p] = t <=> p \in bound'[t]
  BY DEF IndexMatchesLists
<1>1. p \in bound'[t] <=>
        /\ p \in bound[t]
        /\ p \notin PoolsIn({r \in rows : r.sym = SymbolOf[t]})
  BY DEF BoundWithout
<1>2. CASE p \notin PoolsIn(rows)
  <2>1. p \notin PoolsIn({r \in rows : r.sym = SymbolOf[t]})
    BY <1>2 DEF PoolsIn
  <2> QED
    BY <1>1, <1>2, <2>1 DEF IdxWithout, IndexMatchesLists
<1>3. CASE p \in PoolsIn(rows)
  <2>1. PICK r \in rows : r.pool = p
    BY <1>3 DEF PoolsIn
  <2>2. PICK u \in OnChain : SymbolOf[u] = r.sym /\ p \in Offers[u]
    BY <2>1 DEF OwnPair
  <2>3. p \in bound[t] => t = u
    BY <2>2 DEF OwnInv, OwnBindings, OwnLists, NoSharedPools
  <2>4. p \notin bound'[t]
    BY <1>1, <2>1, <2>2, <2>3 DEF PoolsIn
  <2>5. idx'[p] = NoToken /\ t # NoToken
    BY <1>3, BindingAssumption DEF IdxWithout, BindingAssumption
  <2> QED
    BY <2>4, <2>5
<1> QED
  BY <1>2, <1>3

LEMMA SwapIndexes ==
  ASSUME NoSharedPools, TInv, OwnInv, IndexMatchesLists, NEW t \in OnChain,
         NEW old \in Offers[t] \cup {NoPool}, NEW new, NEW ver,
         SwapRows(t, old, new, ver)
  PROVE  IndexMatchesLists'
<1> DEFINE gone == [pool |-> old, sym |-> SymbolOf[t]]
<1>1. CASE old \in PoolsIn(disk)
  <2>1. \A r \in disk : r.pool \in Pools
    BY RowTypes DEF TInv, TypeOK
  <2>2. old # NoPool
    BY <1>1, <2>1, BindingAssumption DEF PoolsIn, BindingAssumption
  <2>3. OwnPair(gone.pool, gone.sym)
    BY <2>2 DEF OwnPair
  <2>4. bound' = BoundWithout({gone}) /\ idx' = IdxWithout({gone})
    BY <1>1 DEF SwapRows
  <2> HIDE DEF gone
  <2> QED
    BY <2>3, <2>4, UnlinkIndexes
<1>2. CASE old \notin PoolsIn(disk)
  BY <1>2 DEF SwapRows, cache, IndexMatchesLists
<1> QED
  BY <1>1, <1>2

LEMMA EvictIndexes ==
  ASSUME NoSharedPools, TInv, OwnInv, IndexMatchesLists, NEW p \in Pools,
         NEW sym, sym # "nosym" => OwnPair(p, sym), Evict(p, sym)
  PROVE  IndexMatchesLists'
<1> DEFINE gone == [pool |-> p, sym |-> sym]
<1>1. CASE sym = "nosym"
  BY <1>1 DEF Evict, cache, IndexMatchesLists
<1>2. CASE sym # "nosym"
  <2>1. OwnPair(gone.pool, gone.sym)
    BY <1>2
  <2>2. bound' = BoundWithout({gone}) /\ idx' = IdxWithout({gone})
    BY <1>2 DEF Evict
  <2> HIDE DEF gone
  <2> QED
    BY <2>1, <2>2, UnlinkIndexes
<1> QED
  BY <1>1, <1>2

LEMMA StepIndexes ==
  ASSUME NoTwins, NoSharedPools, TInv, OwnInv, IndexMatchesLists, [Next]_vars
  PROVE  IndexMatchesLists'
<1>0. UNCHANGED cache => IndexMatchesLists'
  BY DEF cache, IndexMatchesLists
<1>1. CASE SweepNext
  <2>1. ASSUME NEW r \in links, SweepLinks(r)
        PROVE  IndexMatchesLists'
    <3>1. r.pool \in Pools /\ OwnPair(r.pool, r.sym)
      BY RowTypes DEF TInv, TypeOK, OwnInv, OwnRows
    <3> QED
      BY <2>1, <3>1, LinkIndexes DEF SweepLinks
  <2>2. CASE \/ SweepStart \/ SweepEnd
             \/ \E t \in Tokens :
                  FetchNothing(t) \/ \E p \in Pools : FetchFound(t, p)
    BY <1>0, <2>2 DEF SweepStart, SweepEnd, FetchNothing, FetchFound
  <2> QED
    BY <1>1, <2>1, <2>2 DEF SweepNext
<1>2. CASE RefreshNext
  <2>1. CASE RefreshStart
    <3>1. \A r \in Banned(disk) : OwnPair(r.pool, r.sym)
      BY DEF Banned, OwnInv, OwnRows
    <3> QED
      BY <2>1, <3>1, UnlinkIndexes DEF RefreshStart
  <2>2. CASE RefreshChecked
    <3>1. PICK stale \in SUBSET snap :
            bound' = BoundWithout(stale) /\ idx' = IdxWithout(stale)
      BY <2>2 DEF RefreshChecked
    <3>2. \A r \in stale : OwnPair(r.pool, r.sym)
      BY <3>1 DEF OwnInv, OwnRows
    <3> QED
      BY <3>1, <3>2, UnlinkIndexes
  <2>3. ASSUME NEW r \in todo, RefreshRebinds(r)
        PROVE  IndexMatchesLists'
    <3>1. r.pool \in Pools /\ OwnPair(r.pool, r.sym)
      BY RowTypes DEF TInv, TypeOK, OwnInv, OwnRows
    <3> QED
      BY <1>0, <2>3, <3>1, LinkIndexes DEF RefreshRebinds
  <2>4. CASE RefreshSaves \/ RefreshEnd
    BY <1>0, <2>4 DEF RefreshSaves, RefreshEnd
  <2> QED
    BY <1>2, <2>1, <2>2, <2>3, <2>4 DEF RefreshNext
<1>3. CASE UpgradeNext
  <2>1. ASSUME NEW t \in Tokens, UpgradeLinks(t)
        PROVE  IndexMatchesLists'
    <3>1. /\ upgrade[t].new \in Pools
          /\ OwnPair(upgrade[t].new, SymbolOf[t])
      BY <2>1 DEF UpgradeLinks, TInv, Stages, OwnInv, OwnUpgrades, OwnPair
    <3> QED
      BY <2>1, <3>1, LinkIndexes DEF UpgradeLinks
  <2>2. ASSUME NEW t \in Tokens, NEW ver, UpgradeGetsLock(t, ver)
        PROVE  IndexMatchesLists'
    BY <2>2, SwapIndexes DEF UpgradeGetsLock, OwnInv, OwnUpgrades
  <2>3. ASSUME NEW t \in Tokens, NEW ver, NEW old, NEW new,
               UpgradeDecides(t, old, new, ver)
        PROVE  IndexMatchesLists'
    <3>1. t \in OnChain /\ old \in Offers[t] \cup {NoPool}
      BY <2>3 DEF UpgradeDecides, OwnInv, OwnUpgrades, OwnBindings, OwnLists
    <3>2. CASE LockFree
      BY <2>3, <3>1, <3>2, SwapIndexes DEF UpgradeDecides
    <3>3. CASE ~LockFree
      BY <1>0, <2>3, <3>3 DEF UpgradeDecides
    <3> QED
      BY <3>2, <3>3
  <2>4. ASSUME NEW t \in Tokens, UpgradeAsks(t) \/ UpgradeDeclines(t)
        PROVE  IndexMatchesLists'
    BY <1>0, <2>4 DEF UpgradeAsks, UpgradeDeclines
  <2> QED
    BY <1>3, <2>1, <2>2, <2>3, <2>4 DEF UpgradeNext
<1>4. CASE DropNext
  <2>1. ASSUME NEW p \in Pools, DropStarts(p)
        PROVE  IndexMatchesLists'
    <3>1. CASE LockFree
      <4>1. idx[p] \in Tokens \cup {NoToken}
        BY DEF TInv, TypeOK
      <4>2. TickerOf(p) # "nosym" => OwnPair(p, TickerOf(p))
        BY <4>1
           DEF TickerOf, OwnInv, OwnBindings, OwnLists, Routed, OwnPair
      <4> QED
        BY <2>1, <3>1, <4>2, EvictIndexes DEF DropStarts
    <3>2. CASE ~LockFree
      BY <1>0, <2>1, <3>2 DEF DropStarts
    <3> QED
      BY <3>1, <3>2
  <2>2. ASSUME NEW p \in Pools, DropGetsLock(p)
        PROVE  IndexMatchesLists'
    BY <2>2, EvictIndexes DEF DropGetsLock, OwnInv, OwnRows
  <2>3. ASSUME NEW p \in Pools, BadPrice(p) \/ RejectionExpires(p)
        PROVE  IndexMatchesLists'
    BY <1>0, <2>3 DEF BadPrice, RejectionExpires
  <2> QED
    BY <1>4, <2>1, <2>2, <2>3 DEF DropNext
<1>5. CASE FeedNext
  BY <1>0, <1>5
     DEF FeedNext, SessionStarts, Swap, ThreadRoutes, ThreadWrites,
         VersionFound
<1>6. CASE Crash
  <2>1. \A p \in Pools, t, u \in Tokens :
          p \in saved[t] /\ p \in saved[u] => t = u
    BY DEF OwnInv, OwnBindings, OwnLists, NoSharedPools
  <2>2. bound' = saved /\ idx' = Rebuilt(saved)
    BY <1>6 DEF Crash
  <2>3. saved \in [Tokens -> SUBSET Pools]
    BY DEF TInv, TypeOK
  <2>4. \A p \in Pools, t \in Tokens :
          Rebuilt(saved)[p] = t <=> p \in saved[t]
    BY <2>1, <2>3, RebuiltTypes, BindingAssumption DEF BindingAssumption
  <2> QED
    BY <2>2, <2>4 DEF IndexMatchesLists
<1>7. CASE Flush \/ UNCHANGED vars
  BY <1>0, <1>7 DEF Flush, vars, cache
<1> QED
  BY <1>1, <1>2, <1>3, <1>4, <1>5, <1>6, <1>7 DEF Next

LEMMA InitIndexes ==
  ASSUME NoTwins, NoSharedPools, Init
  PROVE  IndexMatchesLists
<1>1. bound \in [Tokens -> SUBSET Pools] /\ idx = Rebuilt(bound)
  BY DEF Init
<1>2. OwnLists(bound)
  BY InitOwns DEF OwnInv, OwnBindings
<1>3. \A p \in Pools, t, u \in Tokens :
        p \in bound[t] /\ p \in bound[u] => t = u
  BY <1>2 DEF OwnLists, NoSharedPools
<1> QED
  BY <1>1, <1>3, RebuiltTypes, BindingAssumption
     DEF IndexMatchesLists, BindingAssumption

(* If, besides, no pool trades two listed tokens, the index and the lists  *)
(* never disagree: neither a link between an upgrade's unlink and its own  *)
(* link, nor a drop that learns its ticker long before it gets the lock,   *)
(* nor a restart on older lists leaves a pool routed to a token that does  *)
(* not list it, or listed by a token it is not routed to.                  *)
THEOREM BindingIndexMatches ==
  NoTwins /\ NoSharedPools => (Spec => []IndexMatchesLists)
<1> SUFFICES ASSUME NoTwins, NoSharedPools PROVE Spec => []IndexMatchesLists
  OBVIOUS
<1> DEFINE Inv == TInv /\ OwnInv /\ IndexMatchesLists
<1>1. Init => Inv
  BY InitTypes, InitOwns, InitIndexes
<1>2. Inv /\ [Next]_vars => Inv'
  BY StepTypes, StepOwns, StepIndexes
<1> QED
  BY <1>1, <1>2, PTL DEF Spec

----------------------------------------------------------------------------
(********************* the rows, with upgrades off *************************)

(* POOL_AUTO_UPGRADE off: no evaluation begins.                            *)
NothingUpgraded == \A t \in Tokens : upgrade[t].stage = "none"

IdleCopy == holder \in {"none", "flush"} => snap = {}

(* A pool that is rejected and dropped is neither in the file nor in the   *)
(* copy that will be saved over it.                                        *)
RejectedInv ==
  /\ NothingUpgraded /\ IdleCopy
  /\ \A p \in Pools : rejected[p] = "fresh" /\ drop[p] = "none" =>
                        p \notin PoolsIn(disk \cup snap)

(* One row for a ticker, in the file and in the copy; the tickers the      *)
(* sweep still asks about have none in its copy.                           *)
Once(rows) == \A r, q \in rows : r.sym = q.sym => r = q
OnceInv ==
  /\ Once(disk) /\ Once(snap)
  /\ holder # "sweep" => fetching = {}
  /\ \A t \in fetching : SymbolOf[t] \notin SymsIn(snap)

LEMMA NoUpgradeSteps ==
  ASSUME "upgrade" \notin Features, NothingUpgraded
  PROVE  ~UpgradeNext
<1>1. \A t \in Tokens : upgrade[t].stage \notin {"fetching", "waiting", "linking"}
  BY DEF NothingUpgraded
<1> QED
  BY <1>1 DEF UpgradeNext, UpgradeAsks, UpgradeDeclines, UpgradeLinks,
              UpgradeGetsLock, UpgradeDecides

LEMMA StepUpgradesNothing ==
  ASSUME "upgrade" \notin Features, NothingUpgraded, [Next]_vars
  PROVE  NothingUpgraded'
<1>1. UNCHANGED upgrade \/ Crash
  BY NoUpgradeSteps
     DEF Next, vars, waiters, feed, locked, SweepNext, SweepStart, SweepEnd,
         FetchNothing, FetchFound, SweepLinks, RefreshNext, RefreshStart,
         RefreshChecked, RefreshRebinds, RefreshSaves, RefreshEnd, DropNext,
         BadPrice, DropStarts, DropGetsLock, RejectionExpires, Evict,
         FeedNext, SessionStarts, Swap, ThreadRoutes, VersionFound,
         ThreadWrites, Flush
<1>2. CASE UNCHANGED upgrade
  BY <1>2 DEF NothingUpgraded
<1>3. CASE Crash
  BY <1>3, UpgradeRecords DEF Crash, NothingUpgraded
<1> QED
  BY <1>1, <1>2, <1>3

LEMMA StepRejects ==
  ASSUME "upgrade" \notin Features, TInv, RejectedInv, [Next]_vars
  PROVE  RejectedInv'
<1> USE DEF TInv, TypeOK, cache, rejects, locked, waiters, feed
<1> DEFINE Out == \A p \in Pools : rejected[p] = "fresh" /\ drop[p] = "none" =>
                                     p \notin PoolsIn(disk \cup snap)
<1> SUFFICES IdleCopy' /\ Out'
  BY StepUpgradesNothing DEF RejectedInv
<1>0. IdleCopy /\ Out
  BY DEF RejectedInv
<1>1. ASSUME UNCHANGED holder, snap' \subseteq disk \cup snap,
             disk' \subseteq disk \cup snap, holder \in {"none", "flush"} => snap' = {},
             UNCHANGED drop,
             \A p \in Pools : rejected'[p] = "fresh" => rejected[p] = "fresh"
      PROVE  IdleCopy' /\ Out'
  BY <1>0, <1>1 DEF IdleCopy, PoolsIn
<1>2. CASE SweepNext
  <2>1. CASE SweepStart \/ SweepEnd
    BY <1>0, <2>1 DEF SweepStart, SweepEnd, IdleCopy, PoolsIn
  <2>2. ASSUME NEW t \in Tokens, FetchNothing(t) PROVE IdleCopy' /\ Out'
    BY <1>0, <1>1, <2>2 DEF FetchNothing, Purged, IdleCopy
  <2>3. ASSUME NEW t \in Tokens, NEW p \in Pools, FetchFound(t, p)
        PROVE  IdleCopy' /\ Out'
    <3> DEFINE row == [pool |-> p, sym |-> SymbolOf[t], ver |-> FALSE, gt |-> FALSE]
    <3>1. /\ snap' = snap \cup {row} /\ disk' = snap \cup {row} /\ holder' = "sweep"
          /\ rejected[p] # "fresh" /\ UNCHANGED drop
          /\ \A q \in Pools : rejected'[q] = "fresh" => rejected[q] = "fresh"
      BY <2>3 DEF FetchFound, Purged
    <3>2. row.pool = p
      OBVIOUS
    <3> HIDE DEF row
    <3> QED
      BY <1>0, <3>1, <3>2 DEF IdleCopy, PoolsIn
  <2>4. ASSUME NEW r \in links, SweepLinks(r) PROVE IdleCopy' /\ Out'
    BY <1>0, <1>1, <2>4 DEF SweepLinks, IdleCopy
  <2> QED
    BY <1>2, <2>1, <2>2, <2>3, <2>4 DEF SweepNext
<1>3. CASE RefreshNext
  <2>1. CASE RefreshStart \/ RefreshChecked \/ RefreshSaves \/ RefreshEnd
    BY <1>0, <2>1 DEF RefreshStart, RefreshChecked, RefreshSaves, RefreshEnd,
                      IdleCopy, PoolsIn
  <2>2. ASSUME NEW r \in todo, RefreshRebinds(r) PROVE IdleCopy' /\ Out'
    BY <1>0, <1>1, <2>2 DEF RefreshRebinds, IdleCopy
  <2> QED
    BY <1>3, <2>1, <2>2 DEF RefreshNext
<1>4. CASE DropNext
  <2>1. ASSUME NEW p \in Pools, NEW sym, Evict(p, sym), holder = "none"
        PROVE  IdleCopy' /\ Out'
    <3>1. snap' = {} /\ disk' = {r \in disk : r.pool # p} /\ holder' = "none"
      BY <1>0, <2>1 DEF Evict, IdleCopy
    <3>2. UNCHANGED rejected /\ \A q \in Pools \ {p} : drop'[q] = drop[q]
      BY <2>1 DEF Evict
    <3> QED
      BY <1>0, <3>1, <3>2 DEF IdleCopy, PoolsIn
  <2>2. ASSUME NEW p \in Pools, DropStarts(p) PROVE IdleCopy' /\ Out'
    <3>1. CASE LockFree
      BY <2>1, <2>2, <3>1 DEF DropStarts, LockFree, LockHeld
    <3>2. CASE ~LockFree
      <4>1. TickerOf(p) # "none"
        BY BindingAssumption, RowTypes DEF TickerOf, BindingAssumption
      <4>2. drop' = [drop EXCEPT ![p] = TickerOf(p)] /\ UNCHANGED <<disk, snap, holder, rejected>>
        BY <2>2, <3>2 DEF DropStarts
      <4> QED
        BY <1>0, <4>1, <4>2 DEF IdleCopy, PoolsIn
    <3> QED
      BY <3>1, <3>2
  <2>3. ASSUME NEW p \in Pools, DropGetsLock(p) PROVE IdleCopy' /\ Out'
    BY <2>1, <2>3 DEF DropGetsLock, LockHeld
  <2>4. ASSUME NEW p \in Pools, BadPrice(p) \/ RejectionExpires(p)
        PROVE  IdleCopy' /\ Out'
    BY <1>0, <2>4 DEF BadPrice, RejectionExpires, IdleCopy, PoolsIn
  <2> QED
    BY <1>4, <2>2, <2>3, <2>4 DEF DropNext
<1>5. CASE FeedNext
  <2>1. ASSUME NEW r \in disk, VersionFound(r) PROVE IdleCopy' /\ Out'
    <3> DEFINE q == [r EXCEPT !.ver = TRUE]
    <3>1. q.pool = r.pool
      BY DEF Rows
    <3>2. disk' = (disk \ {r}) \cup {q} /\ UNCHANGED <<snap, holder, rejected, drop>>
      BY <2>1 DEF VersionFound
    <3> HIDE DEF q
    <3> QED
      BY <1>0, <3>1, <3>2 DEF IdleCopy, PoolsIn
  <2>2. CASE SessionStarts \/ ThreadWrites
             \/ \E p \in Pools : Swap(p) \/ ThreadRoutes(p)
    BY <1>0, <1>1, <2>2 DEF SessionStarts, ThreadWrites, Swap, ThreadRoutes, IdleCopy
  <2> QED
    BY <1>5, <2>1, <2>2 DEF FeedNext
<1>6. CASE Flush \/ UNCHANGED vars
  BY <1>0, <1>1, <1>6 DEF Flush, vars, IdleCopy
<1>7. CASE Crash
  BY <1>7 DEF Crash, IdleCopy
<1> QED
  BY <1>2, <1>3, <1>4, <1>5, <1>6, <1>7, NoUpgradeSteps DEF Next, RejectedInv

(* With automatic upgrades off, a rejected pool whose drop is done is not  *)
(* in pools.json: no sweep, whose query may be older than the rejection,   *)
(* and no refresh, whose copy may be, writes it back (is_rejected in       *)
(* _fetch_best_pool, drop_pool_for_replacement under operation_lock).      *)
THEOREM BindingRejectedStayOut ==
  "upgrade" \notin Features => (Spec => []RejectedStaysOut)
<1> SUFFICES ASSUME "upgrade" \notin Features PROVE Spec => []RejectedStaysOut
  OBVIOUS
<1>1. Init => TInv /\ RejectedInv
  <2> SUFFICES ASSUME Init PROVE TInv /\ RejectedInv
    OBVIOUS
  <2>1. NothingUpgraded
    BY UpgradeRecords DEF Init, NothingUpgraded
  <2>2. \A p \in Pools : rejected[p] = "no"
    BY DEF Init
  <2>3. snap = {}
    BY DEF Init
  <2> QED
    BY <2>1, <2>2, <2>3, InitTypes DEF RejectedInv, IdleCopy
<1>2. TInv /\ RejectedInv /\ [Next]_vars => (TInv /\ RejectedInv)'
  BY StepTypes, StepRejects
<1>3. RejectedInv => RejectedStaysOut
  BY DEF RejectedInv, RejectedStaysOut, PoolsIn
<1> QED
  BY <1>1, <1>2, <1>3, PTL DEF Spec

LEMMA StepOnce ==
  ASSUME "upgrade" \notin Features, NoTwins, TInv, NothingUpgraded, OnceInv,
         [Next]_vars
  PROVE  OnceInv'
<1> USE DEF TInv, TypeOK, cache, rejects, locked, waiters, feed
<1>1. ASSUME UNCHANGED <<holder, snap>>, disk' \subseteq disk, fetching' \subseteq fetching
      PROVE  OnceInv'
  BY <1>1 DEF OnceInv, Once, SymsIn
<1>2. CASE SweepNext
  <2>1. CASE SweepStart
    BY <2>1 DEF SweepStart, OnceInv, Once, SymsIn, Wanted
  <2>2. CASE SweepEnd
    BY <2>2 DEF SweepEnd, OnceInv, Once, SymsIn
  <2>3. ASSUME NEW t \in Tokens, FetchNothing(t) PROVE OnceInv'
    BY <1>1, <2>3 DEF FetchNothing
  <2>4. ASSUME NEW t \in Tokens, NEW p \in Pools, FetchFound(t, p) PROVE OnceInv'
    <3> DEFINE row == [pool |-> p, sym |-> SymbolOf[t], ver |-> FALSE, gt |-> FALSE]
    <3>1. /\ snap' = snap \cup {row} /\ disk' = snap \cup {row} /\ holder' = "sweep"
          /\ t \in fetching /\ fetching' = fetching \ {t}
      BY <2>4 DEF FetchFound
    <3>2. row.sym = SymbolOf[t]
      OBVIOUS
    <3> HIDE DEF row
    <3>3. \A r \in snap : r.sym # row.sym
      BY <3>1, <3>2 DEF OnceInv, SymsIn
    <3>4. \A u \in fetching' : SymbolOf[u] # row.sym
      BY <3>1, <3>2 DEF NoTwins
    <3> QED
      BY <3>1, <3>3, <3>4 DEF OnceInv, Once, SymsIn
  <2>5. ASSUME NEW r \in links, SweepLinks(r) PROVE OnceInv'
    BY <1>1, <2>5 DEF SweepLinks
  <2> QED
    BY <1>2, <2>1, <2>2, <2>3, <2>4, <2>5 DEF SweepNext
<1>3. CASE RefreshNext
  <2>1. CASE RefreshStart
    BY <2>1 DEF RefreshStart, LockHeld, OnceInv, Once
  <2>2. CASE RefreshChecked
    BY <2>2 DEF RefreshChecked, OnceInv, Once
  <2>3. CASE RefreshSaves \/ RefreshEnd
    BY <2>3 DEF RefreshSaves, RefreshEnd, OnceInv, Once
  <2>4. ASSUME NEW r \in todo, RefreshRebinds(r) PROVE OnceInv'
    BY <1>1, <2>4 DEF RefreshRebinds
  <2> QED
    BY <1>3, <2>1, <2>2, <2>3, <2>4 DEF RefreshNext
<1>4. CASE DropNext
  BY <1>1, <1>4 DEF DropNext, BadPrice, DropStarts, DropGetsLock, RejectionExpires, Evict
<1>5. CASE FeedNext
  <2>1. ASSUME NEW r \in disk, VersionFound(r) PROVE OnceInv'
    <3> DEFINE q == [r EXCEPT !.ver = TRUE]
    <3>1. q.sym = r.sym
      BY DEF Rows
    <3>2. disk' = (disk \ {r}) \cup {q} /\ UNCHANGED <<snap, holder, fetching>>
      BY <2>1 DEF VersionFound
    <3> HIDE DEF q
    <3> QED
      BY <3>1, <3>2 DEF OnceInv, Once
  <2>2. CASE SessionStarts \/ ThreadWrites
             \/ \E p \in Pools : Swap(p) \/ ThreadRoutes(p)
    BY <1>1, <2>2 DEF SessionStarts, ThreadWrites, Swap, ThreadRoutes
  <2> QED
    BY <1>5, <2>1, <2>2 DEF FeedNext
<1>6. CASE Flush \/ UNCHANGED vars
  BY <1>1, <1>6 DEF Flush, vars
<1>7. CASE Crash
  BY <1>7 DEF Crash, OnceInv, Once
<1> QED
  BY <1>2, <1>3, <1>4, <1>5, <1>6, <1>7, NoUpgradeSteps DEF Next

(* With automatic upgrades off, no two tokens of one ticker on the chain,  *)
(* and one row for a ticker in the file an earlier run left, it stays so:  *)
(* the sweep asks only about tickers its copy has no row for, and nobody   *)
(* else adds one (collect_dex_pools).                                      *)
THEOREM BindingOneRow ==
  "upgrade" \notin Features /\ NoTwins /\ Once(Found)
    => (Spec => []OneRowPerTicker)
<1> SUFFICES ASSUME "upgrade" \notin Features, NoTwins, Once(Found)
             PROVE  Spec => []OneRowPerTicker
  OBVIOUS
<1> DEFINE Inv == TInv /\ NothingUpgraded /\ OnceInv
<1>1. Init => Inv
  <2> SUFFICES ASSUME Init PROVE Inv
    OBVIOUS
  <2>1. NothingUpgraded
    BY UpgradeRecords DEF Init, NothingUpgraded
  <2>2. disk \subseteq Found /\ snap = {} /\ fetching = {}
    BY DEF Init
  <2> QED
    BY <2>1, <2>2, InitTypes DEF OnceInv, Once
<1>2. Inv /\ [Next]_vars => Inv'
  BY StepTypes, StepUpgradesNothing, StepOnce
<1>3. Inv => OneRowPerTicker
  BY DEF OnceInv, Once, OneRowPerTicker
<1> QED
  BY <1>1, <1>2, <1>3, PTL DEF Spec

----------------------------------------------------------------------------
(******************** listed pools and their rows **************************)

(* The rows that will be in the file: the copy, once the refresh has begun *)
(* to unlink what it will not save.                                        *)
Current == IF holder \in {"check", "rebind"} THEN snap ELSE disk

(* A row GeckoTerminal brought, which the refresh does not ask about.      *)
Kept(rows, p) == \E r \in rows : r.pool = p /\ r.gt

NoDrops == \A p \in Pools : drop[p] = "none"
NotBanned ==
  \A t \in Tokens : upgrade[t].stage # "none" => SymbolOf[t] \notin Blacklist

(* Every listed pool has a row that will stay; so has the pool of an       *)
(* upgrade that is about to be linked, in the sweep's copy too.            *)
Listed == \A t \in Tokens : bound[t] \subseteq PoolsIn(Current)
LinkingKept ==
  \A t \in Tokens : upgrade[t].stage = "linking" =>
    /\ Kept(Current, upgrade[t].new)
    /\ holder = "sweep" => Kept(snap, upgrade[t].new)

ListedInv == NoDrops /\ NotBanned /\ Listed /\ LinkingKept

(* The pools of two tokens differ, so a row of a token's pool is the       *)
(* token's.                                                                *)
LEMMA RowsOfToken ==
  ASSUME NoSharedPools, OwnInv, NEW t \in OnChain, NEW r \in disk \cup snap,
         r.pool \in Offers[t]
  PROVE  r.sym = SymbolOf[t]
BY DEF OwnInv, OwnRows, OwnPair, NoSharedPools

LEMMA LinkLists ==
  ASSUME NoTwins, TInv, OwnInv, ListedInv, NEW sym, NEW pool,
         Link(sym, pool), OwnPair(pool, sym), pool \in PoolsIn(Current),
         UNCHANGED <<disk, snap, holder>>
  PROVE  Listed'
<1> DEFINE u == Chosen(sym)
<1>1. u \in Tokens /\ u # NoToken
  BY ChosenOwns, BindingAssumption DEF BindingAssumption
<1>2. \A t \in Tokens : bound'[t] \subseteq bound[t] \cup {pool}
  BY <1>1 DEF Link, cache, TInv, TypeOK
<1> QED
  BY <1>2 DEF ListedInv, Listed, Current, PoolsIn

LEMMA UnlinkLists ==
  ASSUME NoSharedPools, TInv, OwnInv, ListedInv, NEW gone \in SUBSET Current,
         bound' = BoundWithout(gone), Current' = Current \ gone
  PROVE  Listed'
<1>1. PICK rows : rows = Current
  OBVIOUS
<1>2. rows \subseteq disk \cup snap
  BY <1>1 DEF Current
<1>3. ASSUME NEW t \in Tokens, NEW p \in bound'[t] PROVE p \in PoolsIn(rows \ gone)
  <2>1. /\ p \in bound[t]
        /\ p \notin PoolsIn({r \in gone : r.sym = SymbolOf[t]})
    BY <1>3 DEF BoundWithout
  <2>2. PICK r \in rows : r.pool = p
    BY <1>1, <2>1 DEF ListedInv, Listed, PoolsIn
  <2>3. t \in OnChain /\ p \in Offers[t]
    BY <2>1 DEF OwnInv, OwnBindings, OwnLists
  <2>4. r.sym = SymbolOf[t]
    BY <1>2, <2>2, <2>3, RowsOfToken
  <2> QED
    BY <2>1, <2>2, <2>4 DEF PoolsIn
<1> QED
  BY <1>1, <1>3 DEF Listed

LEMMA ListedStays ==
  ASSUME ListedInv, UNCHANGED <<bound, upgrade, drop>>,
         UNCHANGED holder \/ (Current' = Current /\ holder' # "sweep"),
         UNCHANGED <<disk, snap>> \/ (Current' = Current /\ holder' # "sweep")
  PROVE  ListedInv'
BY DEF ListedInv, NoDrops, NotBanned, Listed, LinkingKept, Current

LEMMA KeysGivePools ==
  ASSUME NEW S, NEW T, Keys(S) = Keys(T)
  PROVE  PoolsIn(S) = PoolsIn(T)
<1>1. ASSUME NEW A, NEW B, Keys(A) = Keys(B), NEW r \in A
      PROVE  r.pool \in PoolsIn(B)
  <2>1. <<r.pool, r.sym>> \in Keys(B)
    BY <1>1 DEF Keys
  <2>2. PICK q \in B : <<r.pool, r.sym>> = <<q.pool, q.sym>>
    BY <2>1 DEF Keys
  <2>3. r.pool = q.pool
    BY <2>2
  <2> QED
    BY <2>3 DEF PoolsIn
<1> QED
  BY <1>1 DEF PoolsIn

LEMMA SweepLists ==
  ASSUME NoTwins, TInv, OwnInv, CopyHasFileRows, ListedInv, SweepNext
  PROVE  ListedInv'
<1> USE DEF cache, rejects, locked, waiters, feed
<1>1. CASE SweepStart
  BY <1>1 DEF SweepStart, LockHeld, ListedInv, NoDrops, NotBanned, Listed,
              LinkingKept, Current
<1>2. CASE SweepEnd
  <2>1. disk' = snap /\ Current = disk /\ Current' = snap /\ holder' = "none" /\ holder = "sweep"
        /\ UNCHANGED <<bound, upgrade, drop>>
    BY <1>2 DEF SweepEnd, Current
  <2>2. PoolsIn(snap) = PoolsIn(disk)
    BY <2>1, KeysGivePools DEF CopyHasFileRows
  <2> QED
    BY <2>1, <2>2 DEF ListedInv, NoDrops, NotBanned, Listed, LinkingKept
<1>3. ASSUME NEW t \in Tokens, FetchNothing(t) PROVE ListedInv'
  BY <1>3, ListedStays DEF FetchNothing
<1>4. ASSUME NEW t \in Tokens, NEW p \in Pools, FetchFound(t, p) PROVE ListedInv'
  <2>1. /\ snap \subseteq snap' /\ disk' = snap' /\ holder = "sweep" /\ holder' = "sweep"
        /\ UNCHANGED <<bound, upgrade, drop>>
    BY <1>4 DEF FetchFound
  <2>2. Current = disk /\ Current' = snap'
    BY <2>1 DEF Current
  <2>3. PoolsIn(disk) \subseteq PoolsIn(snap')
    <3>1. PoolsIn(snap) = PoolsIn(disk)
      BY <2>1, KeysGivePools DEF CopyHasFileRows
    <3> QED
      BY <2>1, <3>1 DEF PoolsIn
  <2>4. Listed'
    BY <2>1, <2>2, <2>3 DEF ListedInv, Listed
  <2>5. LinkingKept'
    BY <2>1, <2>2 DEF ListedInv, LinkingKept, Kept
  <2> QED
    BY <2>1, <2>4, <2>5 DEF ListedInv, NoDrops, NotBanned
<1>5. ASSUME NEW r \in links, SweepLinks(r) PROVE ListedInv'
  <2>1. /\ r \in snap /\ Link(r.sym, r.pool) /\ holder = "sweep"
        /\ UNCHANGED <<disk, snap, holder, upgrade, drop>>
    BY <1>5 DEF SweepLinks, TInv, TypeOK
  <2>2. OwnPair(r.pool, r.sym) /\ r.pool \in PoolsIn(Current)
    <3>1. PoolsIn(snap) = PoolsIn(disk)
      BY <2>1, KeysGivePools DEF CopyHasFileRows
    <3> QED
      BY <2>1, <3>1 DEF OwnInv, OwnRows, PoolsIn, Current
  <2>3. Listed'
    BY <2>1, <2>2, LinkLists
  <2> QED
    BY <2>1, <2>3 DEF ListedInv, NoDrops, NotBanned, LinkingKept, Current
<1> QED
  BY <1>1, <1>2, <1>3, <1>4, <1>5 DEF SweepNext

LEMMA RefreshLists ==
  ASSUME NoTwins, NoSharedPools, TInv, OwnInv, ListedInv, RefreshNext
  PROVE  ListedInv'
<1> USE DEF cache, rejects, locked, waiters, feed
<1>1. ASSUME NEW gone \in SUBSET Current, bound' = BoundWithout(gone),
             Current' = Current \ gone, holder' # "sweep",
             UNCHANGED <<upgrade, drop>>,
             \A r \in gone, t \in Tokens :
               upgrade[t].stage = "linking" => ~(r.gt /\ r.pool = upgrade[t].new)
      PROVE  ListedInv'
  <2>1. Listed'
    BY <1>1, UnlinkLists
  <2>2. PICK rows : rows = Current
    OBVIOUS
  <2>3. LinkingKept'
    BY <1>1, <2>2 DEF ListedInv, LinkingKept, Kept
  <2> QED
    BY <1>1, <2>1, <2>3 DEF ListedInv, NoDrops, NotBanned
<1>2. CASE RefreshStart
  <2>1. /\ Current = disk /\ Current' = disk \ Banned(disk) /\ holder' = "check"
        /\ bound' = BoundWithout(Banned(disk)) /\ UNCHANGED <<upgrade, drop>>
    BY <1>2 DEF RefreshStart, LockHeld, Current
  <2>2. ASSUME NEW r \in Banned(disk), NEW t \in Tokens, upgrade[t].stage = "linking",
               r.pool = upgrade[t].new
        PROVE  FALSE
    <3>1. t \in OnChain /\ r.pool \in Offers[t] /\ SymbolOf[t] \notin Blacklist
      BY <2>2 DEF OwnInv, OwnUpgrades, ListedInv, NotBanned
    <3>2. r \in disk /\ r.sym \in Blacklist
      BY DEF Banned
    <3> QED
      BY <3>1, <3>2, RowsOfToken
  <2>3. Banned(disk) \in SUBSET disk
    BY DEF Banned
  <2> QED
    BY <1>1, <2>1, <2>2, <2>3
<1>3. CASE RefreshChecked
  <2>1. PICK stale \in SUBSET {r \in snap : ~r.gt} :
          snap' = snap \ stale /\ bound' = BoundWithout(stale)
    BY <1>3 DEF RefreshChecked
  <2>2. /\ Current = snap /\ Current' = snap' /\ holder' = "rebind"
        /\ UNCHANGED <<upgrade, drop>>
    BY <1>3 DEF RefreshChecked, Current
  <2> QED
    BY <1>1, <2>1, <2>2
<1>4. CASE RefreshSaves \/ RefreshEnd
  <2>1. Current' = Current /\ holder' # "sweep" /\ UNCHANGED <<bound, upgrade, drop>>
    BY <1>4 DEF RefreshSaves, RefreshEnd, Current
  <2> QED
    BY <2>1, ListedStays
<1>5. ASSUME NEW r \in todo, RefreshRebinds(r) PROVE ListedInv'
  <2>1. /\ r \in snap /\ holder = "rebind"
        /\ Link(r.sym, r.pool) \/ UNCHANGED bound
        /\ UNCHANGED <<disk, snap, holder, upgrade, drop>>
    BY <1>5 DEF RefreshRebinds, TInv, TypeOK
  <2>2. CASE UNCHANGED bound
    BY <2>1, <2>2, ListedStays
  <2>3. CASE Link(r.sym, r.pool)
    <3>1. OwnPair(r.pool, r.sym) /\ r.pool \in PoolsIn(Current)
      BY <2>1 DEF OwnInv, OwnRows, PoolsIn, Current
    <3>2. Listed'
      BY <2>1, <2>3, <3>1, LinkLists
    <3> QED
      BY <2>1, <3>2 DEF ListedInv, NoDrops, NotBanned, LinkingKept, Current
  <2> QED
    BY <2>1, <2>2, <2>3
<1> QED
  BY <1>2, <1>3, <1>4, <1>5 DEF RefreshNext

LEMMA SwapLists ==
  ASSUME NoTwins, NoSharedPools, TInv, OwnInv, ListedInv, NEW t \in OnChain,
         NEW old \in Offers[t] \cup {NoPool}, NEW new \in Offers[t], NEW ver,
         upgrade[t].stage # "none", holder = "none", SwapRows(t, old, new, ver)
  PROVE  ListedInv'
<1> USE DEF cache, rejects, locked, waiters, feed
<1> DEFINE row == [pool |-> new, sym |-> SymbolOf[t], ver |-> ver, gt |-> TRUE]
           linking == [stage |-> "linking", old |-> NoPool, new |-> new]
<1>1. /\ disk' = {r \in disk : r.pool \notin {old, new}} \cup {row}
      /\ upgrade' = [upgrade EXCEPT ![t] = linking]
      /\ Current = disk /\ Current' = disk' /\ holder' = "none" /\ UNCHANGED drop
  BY DEF SwapRows, Current
<1>2. row.pool = new /\ row.gt /\ linking.stage = "linking" /\ linking.new = new
  OBVIOUS
<1> HIDE DEF row, linking
<1>3. t \in Tokens
  BY BindingAssumption DEF BindingAssumption
<1>4. ASSUME NEW u \in OnChain, u # t, NEW p \in Offers[u], NEW r \in disk, r.pool = p
      PROVE  r \in disk'
  <2>1. p \notin Offers[t]
    BY <1>4 DEF NoSharedPools
  <2>2. p # NoPool
    BY <1>4, BindingAssumption DEF BindingAssumption
  <2> QED
    BY <1>1, <1>4, <2>1, <2>2
<1>5. Listed'
  <2> SUFFICES ASSUME NEW u \in Tokens, NEW p \in bound'[u] PROVE p \in PoolsIn(disk')
    BY <1>1 DEF Listed
  <2>1. p \in bound[u]
    <3>1. bound' = bound \/ \E rows : bound' = BoundWithout(rows)
      BY DEF SwapRows
    <3> QED
      BY <3>1 DEF BoundWithout
  <2>2. PICK r \in disk : r.pool = p
    BY <1>1, <2>1 DEF ListedInv, Listed, PoolsIn
  <2>3. u \in OnChain /\ p \in Offers[u]
    BY <2>1 DEF OwnInv, OwnBindings, OwnLists
  <2>4. CASE u # t
    BY <1>4, <2>2, <2>3, <2>4 DEF PoolsIn
  <2>5. CASE u = t /\ p = new
    BY <1>1, <1>2, <2>5 DEF PoolsIn
  <2>6. CASE u = t /\ p = old
    <3>1. old \in PoolsIn(disk)
      BY <2>2, <2>6 DEF PoolsIn
    <3>2. PICK gone : gone.pool = old /\ gone.sym = SymbolOf[t] /\ bound' = BoundWithout({gone})
      <4>1. bound' = BoundWithout({[pool |-> old, sym |-> SymbolOf[t]]})
        BY <3>1 DEF SwapRows
      <4> QED
        BY <4>1
    <3>3. p \notin bound'[t]
      <4>1. old \in PoolsIn({q \in {gone} : q.sym = SymbolOf[t]})
        BY <3>2 DEF PoolsIn
      <4> QED
        BY <1>3, <2>6, <3>2, <4>1 DEF BoundWithout
    <3> QED
      BY <2>6, <3>3
  <2>7. CASE p \notin {old, new}
    BY <1>1, <2>2, <2>7 DEF PoolsIn
  <2> QED
    BY <2>4, <2>5, <2>6, <2>7
<1>6. LinkingKept'
  <2> SUFFICES ASSUME NEW u \in Tokens, upgrade'[u].stage = "linking"
               PROVE  Kept(disk', upgrade'[u].new)
    BY <1>1 DEF LinkingKept
  <2>1. CASE u = t
    BY <1>1, <1>2, <2>1 DEF Kept, TInv, TypeOK
  <2>2. CASE u # t
    <3>1. upgrade'[u] = upgrade[u]
      BY <1>1, <2>2
    <3>2. u \in OnChain /\ upgrade[u].new \in Offers[u] /\ Kept(disk, upgrade[u].new)
      BY <1>1, <3>1 DEF OwnInv, OwnUpgrades, ListedInv, LinkingKept
    <3> QED
      BY <1>4, <2>2, <3>1, <3>2 DEF Kept
  <2> QED
    BY <2>1, <2>2
<1>7. NotBanned'
  BY <1>1, <1>3 DEF ListedInv, NotBanned, TInv, TypeOK
<1> QED
  BY <1>1, <1>5, <1>6, <1>7 DEF ListedInv, NoDrops

LEMMA UpgradeLists ==
  ASSUME NoTwins, NoSharedPools, TInv, OwnInv, ListedInv, UpgradeNext
  PROVE  ListedInv'
<1> USE DEF cache, rejects, locked, waiters, feed
<1>1. PICK t \in Tokens :
        \/ UpgradeAsks(t) \/ UpgradeDeclines(t) \/ UpgradeLinks(t)
        \/ \E ver \in GtVersion :
             \/ UpgradeGetsLock(t, ver)
             \/ \E old \in Pools \cup {NoPool}, new \in Pools :
                  UpgradeDecides(t, old, new, ver)
  BY DEF UpgradeNext
<1>2. ASSUME UNCHANGED <<bound, disk, snap, holder, drop>>, NEW u \in Upgrades,
             upgrade' = [upgrade EXCEPT ![t] = u], u.stage # "linking",
             u.stage # "none" => SymbolOf[t] \notin Blacklist
      PROVE  ListedInv'
  BY <1>2 DEF ListedInv, NoDrops, NotBanned, Listed, LinkingKept, Current, TInv, TypeOK
<1>3. upgrade[t] \in Upgrades
  BY DEF TInv, TypeOK
<1>4. CASE UpgradeAsks(t)
  <2>1. upgrade' = [upgrade EXCEPT ![t] = [upgrade[t] EXCEPT !.stage = "fetching"]]
    BY <1>4 DEF UpgradeAsks
  <2> QED
    BY <1>2, <1>3, <1>4, <2>1, UpgradeRecords DEF UpgradeAsks
<1>5. CASE UpgradeDeclines(t)
  BY <1>2, <1>5, UpgradeRecords DEF UpgradeDeclines
<1>6. CASE UpgradeLinks(t)
  <2>1. /\ OwnPair(upgrade[t].new, SymbolOf[t])
        /\ Kept(Current, upgrade[t].new)
    BY <1>6 DEF UpgradeLinks, OwnInv, OwnUpgrades, OwnPair, ListedInv, LinkingKept
  <2>2. Listed'
    BY <1>6, <2>1, LinkLists DEF UpgradeLinks, Kept, PoolsIn
  <2>3. upgrade' = [upgrade EXCEPT ![t] = NoUpgrade] /\ UNCHANGED <<disk, snap, holder, drop>>
    BY <1>6 DEF UpgradeLinks
  <2>4. NotBanned' /\ LinkingKept'
    BY <2>3, UpgradeRecords DEF ListedInv, NotBanned, LinkingKept, Current, TInv, TypeOK
  <2> QED
    BY <2>2, <2>3, <2>4 DEF ListedInv, NoDrops
<1>7. ASSUME NEW ver \in GtVersion, UpgradeGetsLock(t, ver) PROVE ListedInv'
  <2>1. /\ t \in OnChain /\ upgrade[t].old \in Offers[t] \cup {NoPool}
        /\ upgrade[t].new \in Offers[t] /\ upgrade[t].stage # "none" /\ holder = "none"
        /\ SwapRows(t, upgrade[t].old, upgrade[t].new, ver)
    BY <1>7 DEF UpgradeGetsLock, LockHeld, OwnInv, OwnUpgrades
  <2> QED
    BY <2>1, SwapLists
<1>8. ASSUME NEW ver \in GtVersion, NEW old \in Pools \cup {NoPool},
             NEW new \in Pools, UpgradeDecides(t, old, new, ver)
      PROVE  ListedInv'
  <2>1. /\ t \in OnChain /\ new \in Offers[t] /\ old \in Offers[t] \cup {NoPool}
        /\ upgrade[t].stage = "fetching"
    BY <1>8 DEF UpgradeDecides, OwnInv, OwnUpgrades, OwnBindings, OwnLists
  <2>2. CASE LockFree
    BY <1>8, <2>1, <2>2, SwapLists DEF UpgradeDecides, LockFree, LockHeld
  <2>3. CASE ~LockFree
    <3> DEFINE u == [stage |-> "waiting", old |-> old, new |-> new]
    <3>1. upgrade' = [upgrade EXCEPT ![t] = u] /\ UNCHANGED <<bound, disk, snap, holder, drop>>
      BY <1>8, <2>3 DEF UpgradeDecides
    <3>2. u \in Upgrades /\ u.stage = "waiting"
      BY DEF Upgrades
    <3>3. SymbolOf[t] \notin Blacklist
      BY <2>1 DEF ListedInv, NotBanned
    <3> HIDE DEF u
    <3> QED
      BY <1>2, <3>1, <3>2, <3>3
  <2> QED
    BY <2>2, <2>3
<1> QED
  BY <1>1, <1>4, <1>5, <1>6, <1>7, <1>8

LEMMA OthersList ==
  ASSUME "badprice" \notin Features, "crash" \notin Features,
         TInv, ListedInv, DropNext \/ FeedNext \/ Flush \/ Crash \/ UNCHANGED vars
  PROVE  ListedInv'
<1> USE DEF cache, rejects, locked, waiters, feed
<1>1. CASE DropNext
  <2>1. PICK p \in Pools :
          BadPrice(p) \/ DropStarts(p) \/ DropGetsLock(p) \/ RejectionExpires(p)
    BY <1>1 DEF DropNext
  <2>2. drop[p] = "none" /\ "none" \notin Symbols \cup {"nosym"}
    BY BindingAssumption DEF ListedInv, NoDrops, BindingAssumption
  <2>3. RejectionExpires(p)
    BY <2>1, <2>2 DEF BadPrice, DropStarts, DropGetsLock
  <2> QED
    BY <2>3, ListedStays DEF RejectionExpires
<1>2. ASSUME NEW r \in disk, VersionFound(r) PROVE ListedInv'
  <2> DEFINE q == [r EXCEPT !.ver = TRUE]
  <2>1. q.pool = r.pool /\ q.gt = r.gt
    BY DEF TInv, TypeOK, Rows
  <2>2. disk' = (disk \ {r}) \cup {q} /\ UNCHANGED <<snap, holder, bound, upgrade, drop>>
    BY <1>2 DEF VersionFound
  <2> HIDE DEF q
  <2>3. PoolsIn(disk) \subseteq PoolsIn(disk') /\ \A p : Kept(disk, p) => Kept(disk', p)
    BY <2>1, <2>2 DEF PoolsIn, Kept
  <2>4. Listed'
    BY <2>2, <2>3 DEF ListedInv, Listed, Current
  <2>5. LinkingKept'
    BY <2>2, <2>3 DEF ListedInv, LinkingKept, Current
  <2> QED
    BY <2>2, <2>4, <2>5 DEF ListedInv, NoDrops, NotBanned
<1>3. CASE SessionStarts \/ ThreadWrites
           \/ \E p \in Pools : Swap(p) \/ ThreadRoutes(p)
  BY <1>3, ListedStays DEF SessionStarts, ThreadWrites, Swap, ThreadRoutes
<1>4. CASE Flush \/ UNCHANGED vars
  BY <1>4, ListedStays DEF Flush, vars
<1>5. CASE Crash
  BY <1>5 DEF Crash
<1> QED
  BY <1>1, <1>2, <1>3, <1>4, <1>5 DEF FeedNext

LEMMA InitLists ==
  ASSUME Init
  PROVE  ListedInv
<1>1. PICK wiped \in SUBSET disk :
        bound = [t \in Tokens |->
                   {p \in Pools : \E r \in disk \ wiped :
                      r.pool = p /\ t = Chosen(r.sym)}]
  BY DEF Init
<1>2. Current = disk
  BY DEF Init, Current
<1>3. Listed
  BY <1>1, <1>2 DEF Listed, PoolsIn
<1>4. \A t \in Tokens : upgrade[t].stage = "none"
  BY UpgradeRecords DEF Init
<1> QED
  BY <1>3, <1>4 DEF Init, ListedInv, NoDrops, NotBanned, LinkingKept

(* Where pools are neither dropped nor the process restarted, and tokens   *)
(* share neither tickers nor pools, whatever a token lists has its row:    *)
(* not even between an upgrade's swap and its link does a refresh take the *)
(* row of the new pool away (replace_pool, refresh_pools).                 *)
THEOREM BindingListedHaveRows ==
  NoTwins /\ NoSharedPools /\ "badprice" \notin Features /\ "crash" \notin Features
    => (Spec => []ListedPoolsHaveRows)
<1> SUFFICES ASSUME NoTwins, NoSharedPools, "badprice" \notin Features,
                    "crash" \notin Features
             PROVE  Spec => []ListedPoolsHaveRows
  OBVIOUS
<1> DEFINE Inv == TInv /\ OwnInv /\ CopyHasFileRows /\ ListedInv
<1>1. Init => Inv
  BY InitTypes, InitOwns, InitLists DEF Init, CopyHasFileRows
<1>2. Inv /\ [Next]_vars => Inv'
  <2> SUFFICES ASSUME Inv, [Next]_vars PROVE Inv'
    OBVIOUS
  <2>1. TInv' /\ OwnInv' /\ CopyHasFileRows'
    BY StepTypes, StepOwns, CopyStep
  <2>2. ListedInv'
    BY SweepLists, RefreshLists, UpgradeLists, OthersList DEF Next
  <2> QED
    BY <2>1, <2>2
<1>3. Inv => ListedPoolsHaveRows
  BY DEF ListedInv, Listed, Current, ListedPoolsHaveRows, AtRest
<1> QED
  BY <1>1, <1>2, <1>3, PTL DEF Spec

----------------------------------------------------------------------------
(************************ prices without a pool ****************************)

(* Without the reconciliation thread only update_dex on the loop writes a  *)
(* price.                                                                  *)
NoThread == thread = <<>>
PricesHaveOwner == \A t \in Tokens : slot[t] # NoPool => t \in OnChain

PricesInv == NoThread /\ PricesHaveOwner

LEMMA PricesStep ==
  ASSUME "reconcile" \notin Features, TInv, OwnInv, PricesInv, [Next]_vars
  PROVE  PricesInv'
<1> USE DEF cache, rejects, locked, waiters, feed
<1>1. NoThread'
  <2>0. thread = <<>>
    BY DEF PricesInv, NoThread
  <2>1. CASE SweepNext \/ RefreshNext \/ Flush \/ UNCHANGED vars
    BY <2>0, <2>1 DEF NoThread, SweepNext, SweepStart, SweepEnd, FetchNothing,
         FetchFound, SweepLinks, RefreshNext, RefreshStart, RefreshChecked,
         RefreshRebinds, RefreshSaves, RefreshEnd, Flush, vars
  <2>2. ASSUME NEW t \in Tokens, NEW old, NEW new, NEW ver, SwapRows(t, old, new, ver)
        PROVE  UNCHANGED thread
    BY <2>2 DEF SwapRows
  <2>3. CASE UpgradeNext
    <3>1. UNCHANGED thread
      BY <2>2, <2>3 DEF UpgradeNext, UpgradeAsks, UpgradeDeclines, UpgradeLinks,
                        UpgradeGetsLock, UpgradeDecides
    <3> QED
      BY <2>0, <3>1 DEF NoThread
  <2>4. CASE DropNext
    BY <2>0, <2>4 DEF NoThread, DropNext, BadPrice, DropStarts, DropGetsLock,
                      RejectionExpires, Evict
  <2>5. CASE FeedNext
    BY <2>0, <2>5 DEF NoThread, FeedNext, SessionStarts, Swap, ThreadRoutes,
                      VersionFound, ThreadWrites
  <2>6. CASE Crash
    BY <2>6 DEF NoThread, Crash
  <2> QED
    BY <2>1, <2>3, <2>4, <2>5, <2>6 DEF Next
<1>2. CASE \A t \in Tokens : slot'[t] \in {slot[t], NoPool}
  BY <1>1, <1>2 DEF PricesInv, PricesHaveOwner
<1>3. ASSUME NEW pool, RemovePrice(pool)
      PROVE  \A t \in Tokens : slot'[t] \in {slot[t], NoPool}
  BY <1>3 DEF RemovePrice, TInv, TypeOK
<1>4. CASE SweepNext \/ RefreshNext \/ Flush \/ UNCHANGED vars
  <2>1. UNCHANGED slot
    BY <1>4 DEF SweepNext, SweepStart, SweepEnd, FetchNothing, FetchFound,
                SweepLinks, RefreshNext, RefreshStart, RefreshChecked,
                RefreshRebinds, RefreshSaves, RefreshEnd, Flush, vars
  <2> QED
    BY <1>2, <2>1
<1>5. CASE UpgradeNext
  <2>1. ASSUME NEW t \in Tokens, NEW old, NEW new, NEW ver, SwapRows(t, old, new, ver)
        PROVE  UNCHANGED slot \/ RemovePrice(old)
    BY <2>1 DEF SwapRows
  <2>2. PICK t \in Tokens :
          \/ UpgradeAsks(t) \/ UpgradeDeclines(t) \/ UpgradeLinks(t)
          \/ \E ver \in GtVersion :
               \/ UpgradeGetsLock(t, ver)
               \/ \E old \in Pools \cup {NoPool}, new \in Pools :
                    UpgradeDecides(t, old, new, ver)
    BY <1>5 DEF UpgradeNext
  <2>3. CASE UpgradeAsks(t) \/ UpgradeDeclines(t) \/ UpgradeLinks(t)
    <3>1. UNCHANGED slot
      BY <2>3 DEF UpgradeAsks, UpgradeDeclines, UpgradeLinks
    <3> QED
      BY <1>2, <3>1
  <2>4. ASSUME NEW old, NEW new, NEW ver, SwapRows(t, old, new, ver)
        PROVE  PricesInv'
    <3>1. UNCHANGED slot \/ RemovePrice(old)
      BY <2>1, <2>4
    <3> QED
      BY <1>2, <1>3, <3>1
  <2>5. ASSUME NEW ver \in GtVersion, UpgradeGetsLock(t, ver)
        PROVE  PricesInv'
    BY <2>4, <2>5 DEF UpgradeGetsLock
  <2>6. ASSUME NEW ver \in GtVersion, NEW old \in Pools \cup {NoPool},
               NEW new \in Pools, UpgradeDecides(t, old, new, ver)
        PROVE  PricesInv'
    <3>1. CASE LockFree
      BY <2>4, <2>6, <3>1 DEF UpgradeDecides
    <3>2. CASE ~LockFree
      BY <1>2, <2>6, <3>2 DEF UpgradeDecides
    <3> QED
      BY <3>1, <3>2
  <2> QED
    BY <2>2, <2>3, <2>5, <2>6
<1>6. CASE DropNext
  <2>1. UNCHANGED slot \/ \E pool : RemovePrice(pool)
    BY <1>6 DEF DropNext, BadPrice, DropStarts, DropGetsLock, RejectionExpires, Evict
  <2> QED
    BY <1>2, <1>3, <2>1
<1>7. ASSUME NEW p \in Pools, Swap(p) PROVE PricesInv'
  <2>1. idx[p] \in Tokens /\ idx[p] \in OnChain /\ slot' = [slot EXCEPT ![idx[p]] = p]
    BY <1>7 DEF Swap, TInv, TypeOK, OwnInv, OwnBindings, OwnLists, Routed
  <2> QED
    BY <1>1, <2>1 DEF PricesInv, PricesHaveOwner, TInv, TypeOK
<1>8. CASE SessionStarts \/ ThreadWrites \/ (\E p \in Pools : ThreadRoutes(p))
           \/ (\E r \in disk : VersionFound(r))
  <2>1. UNCHANGED slot
    BY <1>8 DEF SessionStarts, ThreadWrites, ThreadRoutes, VersionFound, PricesInv, NoThread
  <2> QED
    BY <1>2, <2>1
<1>9. CASE Crash
  BY <1>2, <1>9 DEF Crash
<1> QED
  BY <1>4, <1>5, <1>6, <1>7, <1>8, <1>9 DEF Next, FeedNext

(* A price loses its pool only when the index does.                        *)
LEMMA OrphansFewer ==
  ASSUME \A t \in Tokens : slot'[t] \in {slot[t], NoPool},
         \A t \in Tokens :
           slot'[t] # NoPool /\ idx[slot[t]] = t => idx'[slot[t]] = t
  PROVE  Orphans' \subseteq Orphans
BY DEF Orphans

LEMMA LinkOrphans ==
  ASSUME NoTwins, NoSharedPools, TInv, OwnInv, NEW sym, NEW pool \in Pools,
         OwnPair(pool, sym), Link(sym, pool), UNCHANGED slot
  PROVE  Orphans' \subseteq Orphans
<1> DEFINE u == Chosen(sym)
<1>1. u \in OnChain /\ u \in Tokens /\ pool \in Offers[u] /\ u # NoToken
  BY ChosenOwns, BindingAssumption DEF BindingAssumption
<1>2. bound[u] \cup {pool} \subseteq Offers[u]
  BY <1>1 DEF OwnInv, OwnBindings, OwnLists
<1>3. idx' = idx \/ idx' = [p \in Pools |-> IF p \in bound[u] \cup {pool} THEN u ELSE idx[p]]
  BY <1>1 DEF Link, cache
<1> HIDE DEF u
<1>4. ASSUME NEW t \in Tokens, slot[t] # NoPool, idx[slot[t]] = t PROVE idx'[slot[t]] = t
  <2>1. slot[t] \in Pools /\ slot[t] \in bound[t] /\ t \in OnChain /\ slot[t] \in Offers[t]
    BY <1>4, BindingAssumption
       DEF TInv, TypeOK, OwnInv, OwnBindings, OwnLists, Routed, BindingAssumption
  <2>2. slot[t] \in Offers[u] => t = u
    BY <1>1, <2>1 DEF NoSharedPools
  <2> QED
    BY <1>2, <1>3, <1>4, <2>1, <2>2
<1> QED
  BY <1>4, OrphansFewer

(* The price goes with the pool: no other token has one from it.           *)
LEMMA GoneOrphans ==
  ASSUME NoSharedPools, TInv, OwnInv, PricesInv, NEW old \in Pools \cup {NoPool},
         RemovePrice(old),
         idx' = idx \/ \E gone : gone.pool = old /\ idx' = IdxWithout({gone})
  PROVE  Orphans' \subseteq Orphans
<1>1. \A t \in Tokens : slot'[t] \in {slot[t], NoPool}
  BY DEF RemovePrice, TInv, TypeOK
<1>2. ASSUME NEW t \in Tokens, slot[t] = old, slot[t] # NoPool PROVE slot'[t] = NoPool
  <2>1. PICK u \in Tokens : slot[u] = old /\ slot' = [slot EXCEPT ![u] = NoPool]
    BY <1>2 DEF RemovePrice
  <2>2. t \in OnChain /\ u \in OnChain /\ old \in Offers[t] /\ old \in Offers[u]
    BY <1>2, <2>1 DEF PricesInv, PricesHaveOwner, OwnInv, OwnPrices
  <2>3. t = u
    BY <2>2 DEF NoSharedPools
  <2> QED
    BY <2>1, <2>3 DEF TInv, TypeOK
<1>3. ASSUME NEW t \in Tokens, slot'[t] # NoPool, idx[slot[t]] = t PROVE idx'[slot[t]] = t
  <2>1. slot[t] \in Pools /\ slot[t] # old
    BY <1>1, <1>2, <1>3 DEF TInv, TypeOK
  <2>2. \A gone : gone.pool = old => slot[t] \notin PoolsIn({gone})
    BY <2>1 DEF PoolsIn
  <2> QED
    BY <1>3, <2>1, <2>2 DEF IdxWithout
<1> QED
  BY <1>1, <1>3, OrphansFewer

LEMMA SwapOrphans ==
  ASSUME NoSharedPools, TInv, OwnInv, PricesInv, NEW t,
         NEW old \in Pools \cup {NoPool}, NEW new, NEW ver, SwapRows(t, old, new, ver)
  PROVE  Orphans' \subseteq Orphans
<1>1. CASE old \in PoolsIn(disk)
  <2>1. PICK gone : gone.pool = old /\ idx' = IdxWithout({gone}) /\ RemovePrice(old)
    <3>1. RemovePrice(old) /\ idx' = IdxWithout({[pool |-> old, sym |-> SymbolOf[t]]})
      BY <1>1 DEF SwapRows
    <3> QED
      BY <3>1
  <2> QED
    BY <2>1, GoneOrphans
<1>2. CASE old \notin PoolsIn(disk)
  BY <1>2 DEF SwapRows, cache, Orphans
<1> QED
  BY <1>1, <1>2

LEMMA EvictOrphans ==
  ASSUME NoSharedPools, TInv, OwnInv, PricesInv, NEW p \in Pools, NEW sym, Evict(p, sym)
  PROVE  Orphans' \subseteq Orphans
<1>1. RemovePrice(p)
  BY DEF Evict
<1>2. CASE sym = "nosym"
  BY <1>1, <1>2, GoneOrphans DEF Evict, cache
<1>3. CASE sym # "nosym"
  <2>1. PICK gone : gone.pool = p /\ idx' = IdxWithout({gone})
    <3>1. idx' = IdxWithout({[pool |-> p, sym |-> sym]})
      BY <1>3 DEF Evict
    <3> QED
      BY <3>1
  <2> QED
    BY <1>1, <2>1, GoneOrphans
<1> QED
  BY <1>2, <1>3

(* The refresh's steps that may leave a price behind.                      *)
RefreshUnlinks ==
  \/ holder = "none" /\ holder' = "check"
  \/ holder = "check" /\ holder' = "rebind"

LEMMA StepOrphans ==
  ASSUME NoTwins, NoSharedPools, "reconcile" \notin Features,
         TInv, OwnInv, PricesInv, [Next]_vars
  PROVE  Orphans' \subseteq Orphans \/ RefreshUnlinks
<1> USE DEF cache, rejects, locked, waiters, feed
<1>0. UNCHANGED <<idx, slot>> => Orphans' \subseteq Orphans
  BY DEF Orphans
<1>1. CASE SweepNext
  <2>1. ASSUME NEW r \in links, SweepLinks(r) PROVE Orphans' \subseteq Orphans
    <3>1. r.pool \in Pools /\ OwnPair(r.pool, r.sym)
      BY RowTypes DEF TInv, TypeOK, OwnInv, OwnRows
    <3> QED
      BY <2>1, <3>1, LinkOrphans DEF SweepLinks
  <2>2. CASE \/ SweepStart \/ SweepEnd
             \/ \E t \in Tokens :
                  FetchNothing(t) \/ \E p \in Pools : FetchFound(t, p)
    BY <1>0, <2>2 DEF SweepStart, SweepEnd, FetchNothing, FetchFound
  <2> QED
    BY <1>1, <2>1, <2>2 DEF SweepNext
<1>2. CASE RefreshNext
  <2>1. CASE RefreshStart \/ RefreshChecked
    BY <2>1 DEF RefreshStart, RefreshChecked, RefreshUnlinks, LockHeld
  <2>2. ASSUME NEW r \in todo, RefreshRebinds(r) PROVE Orphans' \subseteq Orphans
    <3>1. r.pool \in Pools /\ OwnPair(r.pool, r.sym)
      BY RowTypes DEF TInv, TypeOK, OwnInv, OwnRows
    <3> QED
      BY <1>0, <2>2, <3>1, LinkOrphans DEF RefreshRebinds
  <2>3. CASE RefreshSaves \/ RefreshEnd
    BY <1>0, <2>3 DEF RefreshSaves, RefreshEnd
  <2> QED
    BY <1>2, <2>1, <2>2, <2>3 DEF RefreshNext
<1>3. CASE UpgradeNext
  <2>1. ASSUME NEW t \in Tokens, UpgradeLinks(t) PROVE Orphans' \subseteq Orphans
    <3>1. /\ upgrade[t].new \in Pools
          /\ OwnPair(upgrade[t].new, SymbolOf[t])
      BY <2>1 DEF UpgradeLinks, TInv, Stages, OwnInv, OwnUpgrades, OwnPair
    <3> QED
      BY <2>1, <3>1, LinkOrphans DEF UpgradeLinks
  <2>2. ASSUME NEW t \in Tokens, NEW ver, UpgradeGetsLock(t, ver)
        PROVE  Orphans' \subseteq Orphans
    <3>1. upgrade[t] \in Upgrades
      BY DEF TInv, TypeOK
    <3>2. upgrade[t].old \in Pools \cup {NoPool}
      BY <3>1 DEF Upgrades
    <3> QED
      BY <2>2, <3>2, SwapOrphans DEF UpgradeGetsLock
  <2>3. ASSUME NEW t \in Tokens, NEW ver, NEW old \in Pools \cup {NoPool}, NEW new,
               UpgradeDecides(t, old, new, ver)
        PROVE  Orphans' \subseteq Orphans
    BY <1>0, <2>3, SwapOrphans DEF UpgradeDecides
  <2>4. ASSUME NEW t \in Tokens, UpgradeAsks(t) \/ UpgradeDeclines(t)
        PROVE  Orphans' \subseteq Orphans
    BY <1>0, <2>4 DEF UpgradeAsks, UpgradeDeclines
  <2> QED
    BY <1>3, <2>1, <2>2, <2>3, <2>4 DEF UpgradeNext
<1>4. CASE DropNext
  <2>1. ASSUME NEW p \in Pools, DropStarts(p) PROVE Orphans' \subseteq Orphans
    BY <1>0, <2>1, EvictOrphans DEF DropStarts
  <2>2. ASSUME NEW p \in Pools, DropGetsLock(p) PROVE Orphans' \subseteq Orphans
    BY <2>2, EvictOrphans DEF DropGetsLock
  <2>3. ASSUME NEW p \in Pools, BadPrice(p) \/ RejectionExpires(p)
        PROVE  Orphans' \subseteq Orphans
    BY <1>0, <2>3 DEF BadPrice, RejectionExpires
  <2> QED
    BY <1>4, <2>1, <2>2, <2>3 DEF DropNext
<1>5. ASSUME NEW p \in Pools, Swap(p) PROVE Orphans' \subseteq Orphans
  <2>1. idx[p] \in Tokens /\ slot' = [slot EXCEPT ![idx[p]] = p] /\ UNCHANGED idx
    BY <1>5 DEF Swap, TInv, TypeOK
  <2> QED
    BY <2>1 DEF Orphans, TInv, TypeOK
<1>6. CASE SessionStarts \/ ThreadWrites \/ (\E p \in Pools : ThreadRoutes(p))
           \/ (\E r \in disk : VersionFound(r)) \/ Flush \/ UNCHANGED vars
  BY <1>0, <1>6 DEF SessionStarts, ThreadWrites, ThreadRoutes, VersionFound,
                    PricesInv, NoThread, Flush, vars
<1>7. CASE Crash
  BY <1>7 DEF Crash, Orphans
<1> QED
  BY <1>1, <1>2, <1>3, <1>4, <1>5, <1>6, <1>7 DEF Next, FeedNext

(* Where tokens share neither tickers nor pools and the reconciliation     *)
(* thread is off, a price outlives its pool's link in the refresh alone:   *)
(* swaps and drops take the price of the pool they unlink along            *)
(* (remove_dex_by_pool in replace_pool and drop_pool_for_replacement), and *)
(* no link of one token moves a pool away from another.                    *)
THEOREM BindingRefreshOrphans ==
  NoTwins /\ NoSharedPools /\ "reconcile" \notin Features
    => (Spec => OnlyRefreshOrphans)
<1> SUFFICES ASSUME NoTwins, NoSharedPools, "reconcile" \notin Features
             PROVE  Spec => OnlyRefreshOrphans
  OBVIOUS
<1> DEFINE Inv == TInv /\ OwnInv /\ PricesInv
<1>1. Init => Inv
  BY InitTypes, InitOwns DEF Init, PricesInv, NoThread, PricesHaveOwner
<1>2. Inv /\ [Next]_vars => Inv'
  BY StepTypes, StepOwns, PricesStep
<1>3. Inv /\ [Next]_vars =>
        [\/ Orphans' \subseteq Orphans
         \/ holder = "none" /\ holder' = "check"
         \/ holder = "check" /\ holder' = "rebind"]_vars
  BY StepOrphans DEF RefreshUnlinks
<1> QED
  BY <1>1, <1>2, <1>3, PTL DEF Spec, OnlyRefreshOrphans
=============================================================================
