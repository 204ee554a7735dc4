---- MODULE BybitBook ----
(* One symbol of the Bybit order-book feed: the connection loop of            *)
(* BybitOrderBookManager, a subscription added to it while it runs, the       *)
(* exchange that streams snapshots and deltas, and the book they are merged   *)
(* into (core/orderbooks.py).  Sizes are abstracted to the presence of a      *)
(* price level; symbols do not interact but for the send lock, so one is      *)
(* enough.                                                                    *)
EXTENDS Naturals, Sequences, FiniteSetsExt

CONSTANTS
    BidLevels, AskLevels,   \* the prices a level may have on either side
    MaxTruth,               \* books the exchange goes through
    MaxConns,               \* connections opened or tried
    MaxRepeats              \* deltas the exchange repeats

ASSUME BookAssumption ==
    /\ \A side \in {BidLevels, AskLevels} : side \subseteq Nat /\ side # {} /\ IsFiniteSet(side)
    /\ \A b \in BidLevels, a \in AskLevels : b < a
    /\ MaxTruth \in Nat /\ MaxConns \in Nat /\ MaxRepeats \in Nat

VARIABLES
    exchange,   \* the books the exchange has had, oldest first
    epoch,      \* position of the last book before the exchange's restart
    served,     \* position the exchange has sent on this connection; 0: not subscribed
    sent,       \* deltas of this connection and epoch
    repeats,    \* deltas repeated so far
    inbox,      \* messages on the way on this connection
    link,       \* where connect() is: "dial" "loop" "lock" "send" "read" "backoff"
    conns,      \* connections opened or tried so far
    socket,     \* self.ws: "none" "live", or "old", a closed one
    listening,  \* self.ready
    topic,      \* the symbol's topic is in self.topics
    passed,     \* the subscription loop has been past it
    subbed,     \* the topic is in self.subscribed
    caller,     \* where subscribe_symbol is: "idle" "wait" "lock" "send" "done" "raised"
    book,       \* ORDERBOOKS[key]: levels, u (0: None), ready
    bookAt,     \* position in exchange of the message last merged
    bookQuote   \* best bid and ask in the price store; empty at first

exchangeVars == <<exchange, epoch, served, sent, repeats>>
linkVars == <<link, conns, socket, listening, topic, passed, subbed, caller>>
storeVars == <<book, bookAt, bookQuote>>
bookVars == <<exchangeVars, inbox, linkVars, storeVars>>

EmptyBook == [levels |-> {}, u |-> 0, ready |-> FALSE]
TwoSided(levels) == levels \cap BidLevels # {} /\ levels \cap AskLevels # {}
\* Mutant: the sides are taken for one another.
BestOfSwapped(levels) == <<Min(levels \cap AskLevels), Max(levels \cap BidLevels)>>

BestOf(levels) == <<Max(levels \cap BidLevels), Min(levels \cap AskLevels)>>

BookInit ==
    /\ exchange = <<{Min(BidLevels), Max(AskLevels)}>>
    /\ epoch = 0 /\ served = 0 /\ sent = {} /\ repeats = 0
    /\ inbox = <<>>
    /\ link = "dial" /\ conns = 0 /\ socket = "none"
    /\ listening = FALSE
    /\ topic \in BOOLEAN
    /\ passed = FALSE /\ subbed = FALSE /\ caller = "idle"
    /\ book = EmptyBook /\ bookAt = 0 /\ bookQuote = {}

--------------------------------------------------------------------------------
\* The exchange.

Message(kind, u, on, off, pos) ==
    [kind |-> kind, u |-> u, on |-> on, off |-> off, pos |-> pos]

\* A subscription is answered by a snapshot; a second one by an error reply,
\* which the reader skips.
Answered ==
    IF served = 0
    THEN /\ served' = Len(exchange)
         /\ inbox' = Append(inbox, Message("snapshot", Len(exchange) - epoch,
                                           exchange[Len(exchange)], {}, Len(exchange)))
    ELSE UNCHANGED <<served, inbox>>

\* One level appears or goes.
BookTrades ==
    /\ Len(exchange) < MaxTruth
    /\ \E l \in BidLevels \cup AskLevels :
          LET now == exchange[Len(exchange)]
          IN  exchange' = Append(exchange, IF l \in now THEN now \ {l} ELSE now \cup {l})
    /\ UNCHANGED <<epoch, served, sent, repeats, inbox, linkVars, storeVars>>

\* The changes since the last message, under the latest u.
Pushes ==
    /\ served \in 1..(Len(exchange) - 1)
    /\ LET now == exchange[Len(exchange)]
           was == exchange[served]
           delta == Message("delta", Len(exchange) - epoch, now \ was, was \ now, Len(exchange))
       IN  /\ inbox' = Append(inbox, delta)
           /\ sent' = sent \cup {delta}
    /\ served' = Len(exchange)
    /\ UNCHANGED <<exchange, epoch, repeats, linkVars, storeVars>>

\* An earlier delta once more: the re-push, or a straggler.
Repeats ==
    /\ served > 0 /\ repeats < MaxRepeats
    /\ \E delta \in sent : inbox' = Append(inbox, delta)
    /\ repeats' = repeats + 1
    /\ UNCHANGED <<exchange, epoch, served, sent, linkVars, storeVars>>

\* The service restarts: numbering starts at 1 again, with the whole book sent
\* as a delta.
ServiceRestarts ==
    /\ epoch = 0 /\ Len(exchange) < MaxTruth
    /\ exchange' = Append(exchange, {Min(BidLevels), Min(AskLevels)})
    /\ epoch' = Len(exchange)
    /\ sent' = {}
    /\ IF served > 0
       THEN /\ served' = Len(exchange')
            /\ inbox' = Append(inbox, Message("delta", 1, exchange'[Len(exchange')], {},
                                              Len(exchange')))
       ELSE UNCHANGED <<served, inbox>>
    /\ UNCHANGED <<repeats, linkVars, storeVars>>

--------------------------------------------------------------------------------
\* The book.

\* apply_snapshot.
Snapshot(m) ==
    [levels |-> m.on, u |-> m.u, ready |-> TwoSided(m.on)]

\* Mutant: the numbers of deltas are not looked at.
TakenAnyway(m) == m.kind \in {"snapshot", "delta"}

\* A delta whose u is not above the book's is dropped, 1 excepted: the service
\* restarted, and the payload is the whole book.
Taken(m) == m.kind = "snapshot" \/ m.u = 1 \/ m.u > book.u

\* apply_delta: the book after it.
Merged(m) ==
    IF m.u = 1 THEN Snapshot(m)
    ELSE IF ~Taken(m) THEN book
    ELSE LET levels == (book.levels \cup m.on) \ m.off
         IN  [levels |-> levels, u |-> m.u, ready |-> TwoSided(levels)]

\* _update_price_store_from_book, after every change of the book.
Quoting(m, after) ==
    /\ bookAt' = IF Taken(m) THEN m.pos ELSE bookAt
    /\ bookQuote' = IF Taken(m) /\ after.ready THEN {BestOf(after.levels)} ELSE bookQuote

Reads ==
    /\ link = "read" /\ inbox # <<>>
    /\ LET m == Head(inbox)
           after == IF m.kind = "snapshot" THEN Snapshot(m) ELSE Merged(m)
       IN  book' = after /\ Quoting(m, after)
    /\ inbox' = Tail(inbox)
    /\ UNCHANGED <<exchangeVars, linkVars>>

--------------------------------------------------------------------------------
\* connect().

\* Nobody holds send_lock.
LockIsFree == link # "send" /\ caller # "send"

\* Mutant: a new connection takes the old one's subscriptions for its own.
TopicsKept == UNCHANGED subbed

\* The subscriptions belong to a connection, so the set starts empty.
NoTopicsYet == subbed' = FALSE

Dials ==
    /\ link = "dial" /\ conns < MaxConns
    /\ conns' = conns + 1
    /\ link' = "loop" /\ socket' = "live"
    /\ NoTopicsYet /\ passed' = FALSE
    /\ served' = 0 /\ sent' = {} /\ inbox' = <<>>
    /\ UNCHANGED <<exchange, epoch, repeats, listening, topic, caller, storeVars>>

\* The loop reaches the topic: it is skipped when subscribed already.  That is not asked
\* again after the wait for the lock.
LoopReaches ==
    /\ link = "loop" /\ topic /\ ~passed
    /\ IF subbed
       THEN passed' = TRUE /\ UNCHANGED link
       ELSE link' = (IF LockIsFree THEN "send" ELSE "lock") /\ UNCHANGED passed
    /\ UNCHANGED <<exchangeVars, inbox, conns, socket, listening, topic, subbed, caller, storeVars>>

LoopGetsLock ==
    /\ link = "lock" /\ LockIsFree
    /\ link' = "send"
    /\ UNCHANGED <<exchangeVars, inbox, conns, socket, listening, topic, passed, subbed, caller, storeVars>>

LoopSent ==
    /\ link = "send"
    /\ link' = "loop" /\ passed' = TRUE /\ subbed' = TRUE
    /\ Answered
    /\ UNCHANGED <<exchange, epoch, sent, repeats, conns, socket, listening, topic, caller, storeVars>>

LoopEnds ==
    /\ link = "loop" /\ (topic => passed)
    /\ link' = "read" /\ listening' = TRUE
    /\ UNCHANGED <<exchangeVars, inbox, conns, socket, topic, passed, subbed, caller, storeVars>>

\* A send under way on the connection fails with it.
CallerLosesSocket == caller' = IF caller = "send" THEN "raised" ELSE caller

\* The exchange closes the socket in good order: the reading loop just ends, and
\* neither the event nor the reference to the socket is reset.
ClosesCleanly ==
    /\ link = "read" /\ conns < MaxConns
    /\ link' = "dial" /\ socket' = "old"
    /\ CallerLosesSocket
    /\ served' = 0 /\ inbox' = <<>>
    /\ UNCHANGED <<exchange, epoch, sent, repeats, conns, listening, topic, passed, subbed, storeVars>>

\* The connection breaks, or cannot be opened.
Breaks ==
    /\ \/ link \in {"loop", "lock", "send", "read"} /\ conns < MaxConns /\ UNCHANGED conns
       \/ link = "dial" /\ conns + 1 < MaxConns /\ conns' = conns + 1
    /\ link' = "backoff" /\ socket' = "none" /\ listening' = FALSE
    /\ CallerLosesSocket
    /\ served' = 0 /\ inbox' = <<>>
    /\ UNCHANGED <<exchange, epoch, sent, repeats, topic, passed, subbed, storeVars>>

BackoffEnds ==
    /\ link = "backoff"
    /\ link' = "dial"
    /\ UNCHANGED <<exchangeVars, inbox, conns, socket, listening, topic, passed, subbed, caller, storeVars>>

--------------------------------------------------------------------------------
\* subscribe_symbol, called by run_bybit for a symbol listed since.

CallerAsks ==
    /\ caller = "idle" /\ ~topic
    /\ topic' = TRUE /\ caller' = "wait"
    /\ UNCHANGED <<exchangeVars, inbox, link, conns, socket, listening, passed, subbed, storeVars>>

\* The event is set: a topic not subscribed gets an empty book, then its message.
CallerChecks ==
    /\ caller = "wait" /\ listening
    /\ IF subbed
       THEN caller' = "done" /\ UNCHANGED book
       ELSE caller' = "lock" /\ book' = EmptyBook
    /\ UNCHANGED <<exchangeVars, inbox, link, conns, socket, listening, topic, passed, subbed,
                   bookAt, bookQuote>>

CallerSends ==
    /\ caller = "lock" /\ LockIsFree
    /\ caller' = IF socket = "live" THEN "send" ELSE "raised"
    /\ UNCHANGED <<exchangeVars, inbox, link, conns, socket, listening, topic, passed, subbed, storeVars>>

CallerSent ==
    /\ caller = "send"
    /\ caller' = "done" /\ subbed' = TRUE
    /\ Answered
    /\ UNCHANGED <<exchange, epoch, sent, repeats, link, conns, socket, listening, topic, passed, storeVars>>

--------------------------------------------------------------------------------
ExchangeStep == BookTrades \/ Pushes \/ Repeats \/ ServiceRestarts
LinkStep == Dials \/ LoopReaches \/ LoopGetsLock \/ LoopSent \/ LoopEnds \/ Reads \/ BackoffEnds
Failure == ClosesCleanly \/ Breaks
CallerStep == CallerChecks \/ CallerSends \/ CallerSent

BookNext == ExchangeStep \/ LinkStep \/ Failure \/ CallerAsks \/ CallerStep

\* The event loop runs what is ready, the exchange sends what changed; nothing
\* is said of trades, failures or listings.
BookSpec ==
    /\ BookInit /\ [][BookNext]_bookVars
    /\ WF_bookVars(LinkStep) /\ WF_bookVars(CallerStep) /\ WF_bookVars(Pushes)

--------------------------------------------------------------------------------
BookTypeOK ==
    /\ book \in [levels : SUBSET (BidLevels \cup AskLevels), u : Nat, ready : BOOLEAN]
    /\ bookAt \in 0..Len(exchange)
    /\ bookQuote \subseteq BidLevels \X AskLevels
    /\ link \in {"dial", "loop", "lock", "send", "read", "backoff"}
    /\ caller \in {"idle", "wait", "lock", "send", "done", "raised"}
    /\ socket \in {"none", "live", "old"}
    /\ served \in 0..Len(exchange)

Promise == INSTANCE BookPromise WITH
    Usable <- TwoSided, Quoted <- BestOf,
    truth <- exchange, at <- bookAt, quote <- bookQuote,
    shown <- IF book.ready THEN {book.levels} ELSE {}

\* A ready book is one the exchange really had and never older than the one before, whatever
\* is repeated, conflated, restarted, reconnected or subscribed twice (apply_delta, connect).
BookKeepsPromise == Promise!PromiseSpec

\* A topic once asked for catches up with the exchange again and again, also when it was
\* added while the connection was being replaced (subscribe_symbol against connect).
BookCatchesUp == topic ~> (bookAt = Len(exchange) /\ book.levels = exchange[bookAt])
====
