---- MODULE MCFeeds ----
(* From a ticker to its quotes: an order book kept from the feed, the token cache *)
(* that routes them, and the fresh Kraken listings.  They share no state here: *)
(* part says which of them runs, the others keep their initial state.         *)
EXTENDS BybitBook, TokenCache, KrakenPending

VARIABLE part

MCVars == <<part, bookVars, cacheVars, pendVars>>

--------------------------------------------------------------------------------
\* Litentry and Lit Protocol, which share a ticker, and a third token of that ticker whose
\* contract begins like Lit's.  Gate lists the first or the third as LIT.
litentry == {<<"eth", "a", 1>>, <<"bsc", "a", 1>>}
lit == {<<"eth", "b", 1>>, <<"base", "b", 1>>}
twin == {<<"base", "b", 2>>, <<"bsc", "c", 1>>}
MCTokens == {litentry, lit, twin}
MCAlphabet == [base |-> 1, bsc |-> 2, eth |-> 3]
MCReports ==
    {[cex |-> "kraken", sym |-> "LIT", tid |-> "", contracts |-> {}],
     [cex |-> "bybit", sym |-> "LIT", tid |-> "lit", contracts |-> {<<"base", "b", 1>>}],
     [cex |-> "gate", sym |-> "LIT", tid |-> "litentry", contracts |-> litentry],
     [cex |-> "gate", sym |-> "LITX", tid |-> "", contracts |-> lit],
     [cex |-> "gate", sym |-> "LIT", tid |-> "", contracts |-> twin]}
MCCoins ==
    {[id |-> "litentry", sym |-> "LIT", platforms |-> litentry, kraken |-> TRUE],
     [id |-> "lit", sym |-> "LIT", platforms |-> {<<"eth", "b", 1>>}, kraken |-> FALSE]}

--------------------------------------------------------------------------------
\* What a component that does not run starts with, where it has a choice.
AtRest ==
    /\ part # "book" => ~topic

MCInit ==
    /\ part \in {"book", "cache", "pending"}
    /\ BookInit /\ CacheInit /\ PendInit
    /\ AtRest

BookRuns ==
    /\ part = "book" /\ BookNext
    /\ UNCHANGED <<part, cacheVars, pendVars>>

CacheRuns ==
    /\ part = "cache" /\ CacheNext
    /\ UNCHANGED <<part, bookVars, pendVars>>

PendingRuns ==
    /\ part = "pending" /\ PendNext
    /\ UNCHANGED <<part, bookVars, cacheVars>>

MCNext == BookRuns \/ CacheRuns \/ PendingRuns

\* The fairness of each specification, of the component that runs.
MCFairness ==
    /\ WF_bookVars(part = "book" /\ LinkStep)
    /\ WF_bookVars(part = "book" /\ CallerStep)
    /\ WF_bookVars(part = "book" /\ Pushes)
    /\ WF_pendVars(part = "pending" /\ LoopTurn)
    /\ WF_pendVars(part = "pending" /\ TriesFresh)

MCSpec == MCInit /\ [][MCNext]_MCVars /\ MCFairness

--------------------------------------------------------------------------------
\* The values of the book, the cache and the queue.
FeedsTypeOK == BookTypeOK /\ CacheTypeOK /\ PendTypeOK
====
