---- MODULE BookPromise ----
(* What a reader of an order book is promised, apart from how the feed keeps  *)
(* it: what is shown is a book the exchange really had, never an older one    *)
(* than was shown before, and the quote in the price store is the best bid    *)
(* and ask of the last two-sided book taken over.                             *)
EXTENDS Naturals, Sequences

CONSTANTS
    Usable(_),     \* a book from which a quote can be taken
    Quoted(_)      \* its best bid and ask

VARIABLES
    truth,     \* the books the exchange has had, oldest first
    shown,     \* the book a reader sees: a set of one, empty while it may not be used
    at,        \* its position in truth; it keeps its value while hidden
    quote      \* the quote of the price store: a set of one, empty at first

PromiseInit ==
    /\ Len(truth) = 1
    /\ shown = {}
    /\ at = 0
    /\ quote = {}

\* The exchange's book changes.
Trades ==
    /\ Len(truth') = Len(truth) + 1
    /\ SubSeq(truth', 1, Len(truth)) = truth
    /\ UNCHANGED <<shown, at, quote>>

\* A reader is shown a later book, or the same one again.
Shows ==
    /\ at' \in at..Len(truth)
    /\ at' > 0
    /\ shown' = IF Usable(truth[at']) THEN {truth[at']} ELSE {}
    /\ quote' = IF Usable(truth[at']) THEN {Quoted(truth[at'])} ELSE quote
    /\ UNCHANGED truth

\* The book is emptied for a new subscription.
Hides ==
    /\ shown' = {}
    /\ UNCHANGED <<truth, at, quote>>

PromiseNext == Trades \/ Shows \/ Hides

PromiseSpec == PromiseInit /\ [][PromiseNext]_<<truth, shown, at, quote>>
====
