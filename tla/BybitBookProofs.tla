-------------------------- MODULE BybitBookProofs --------------------------
(***************************************************************************)
(* The Bybit feed keeps the promise of BookPromise for any prices, any     *)
(* number of connections, restarts, repeated deltas and subscriptions.     *)
(*                                                                         *)
(* The argument is about the messages on the way.  Each one is either the  *)
(* whole book at its position or the difference from the position before   *)
(* it in the reader's order; one that is neither is a repetition, and its  *)
(* number gives it away.  "Before" is what the reader will have been shown *)
(* when it comes to the message: the position of the book, and those of    *)
(* the messages ahead.                                                     *)
(***************************************************************************)
EXTENDS BybitBook, SequenceTheorems, FiniteSetTheorems, WellFoundedInduction, TLAPS

Levels == BidLevels \cup AskLevels

(* The number u a book at this position goes under. *)
Number(pos) == IF pos > epoch THEN pos - epoch ELSE pos

BookAtPos(pos) ==
    [levels |-> exchange[pos], u |-> Number(pos), ready |-> TwoSided(exchange[pos])]

Messages == [kind : {"snapshot", "delta"}, u : Nat \ {0}, on : SUBSET Levels,
             off : SUBSET Levels, pos : Nat \ {0}]

Linked == link \notin {"dial", "backoff"}

--------------------------------------------------------------------------------
(* The parts of the invariant. *)

ExchangeShape ==
    /\ exchange \in Seq(SUBSET Levels) /\ Len(exchange) \in Nat \ {0}
    /\ epoch \in Nat /\ epoch < Len(exchange)
    /\ served \in 0..Len(exchange) /\ (served > 0 => served > epoch)
    /\ inbox \in Seq(Messages) /\ sent \subseteq Messages

LinkShape ==
    /\ link \in {"dial", "loop", "lock", "send", "read", "backoff"}
    /\ caller \in {"idle", "wait", "lock", "send", "done", "raised"}
    /\ socket \in {"none", "live", "old"}
    /\ socket = "live" <=> Linked
    /\ caller = "send" => Linked
    /\ served > 0 => Linked /\ subbed
    /\ inbox # <<>> => served > 0

StoreShape ==
    /\ bookAt \in 0..Len(exchange)
    /\ bookQuote \subseteq BidLevels \X AskLevels

(* A book that is not empty is the exchange's book at bookAt, under its number. *)
BookIsTrue == book = EmptyBook \/ (bookAt > 0 /\ book = BookAtPos(bookAt))

Full(m) == (m.kind = "snapshot" \/ m.u = 1) /\ m.on = exchange[m.pos] /\ m.off = {}
Partial(m) == m.kind = "delta" /\ m.u > 1
Follows(m, p) ==
    /\ p \in 1..(m.pos - 1)
    /\ m.on = exchange[m.pos] \ exchange[p] /\ m.off = exchange[p] \ exchange[m.pos]

Before(i) == {bookAt} \cup {inbox[j].pos : j \in 1..(i - 1)}

Numbered ==
    \A i \in 1..Len(inbox) :
        inbox[i].pos <= Len(exchange) /\ inbox[i].u = Number(inbox[i].pos)

EpochsInOrder == \A i \in 1..Len(inbox) : \A p \in Before(i) : p > epoch => inbox[i].pos > epoch

(* What a message needs to be merged rightly, or dropped rightly, after those positions. *)
Repeated(m, p) == p >= m.pos /\ (p > epoch => m.pos > epoch)
Continues(m, p, ps) == Follows(m, p) /\ (m.pos > epoch => p > epoch) /\ \A q \in ps : q <= p
InPlace(m, ps) ==
    \/ Full(m) /\ \A p \in ps : p <= m.pos
    \/ Partial(m) /\ \E p \in ps : Repeated(m, p) \/ Continues(m, p, ps)

InboxInPlace == \A i \in 1..Len(inbox) : InPlace(inbox[i], Before(i))

ServedIsLast ==
    served > 0 => served \in Before(Len(inbox) + 1) /\ \A p \in Before(Len(inbox) + 1) : p <= served

FirstIsFull == served > 0 /\ book.u = 0 => inbox # <<>> /\ Full(inbox[1])

SentIsOld ==
    Linked => \A m \in sent : Partial(m) /\ m.u = Number(m.pos) /\ epoch < m.pos /\ m.pos <= served

BookInv ==
    /\ ExchangeShape /\ LinkShape /\ StoreShape /\ BookIsTrue
    /\ Numbered /\ EpochsInOrder /\ InboxInPlace /\ ServedIsLast /\ FirstIsFull /\ SentIsOld

--------------------------------------------------------------------------------
(* The best prices of a two-sided book are prices of its sides. *)

LEMMA LeastNumber ==
  ASSUME NEW S \in SUBSET Nat, S # {}
  PROVE  \E m \in S : \A n \in S : m <= n
<1>1. PICK m \in S : \A n \in S : <<n, m>> \notin OpToRel(<, Nat)
  BY NatLessThanWellFounded, WFMin
<1>2. ASSUME NEW n \in S, n < m PROVE FALSE
  <2>1. <<n, m>> \in {ss \in Nat \X Nat : ss[1] < ss[2]}
    BY <1>2
  <2> QED
    BY <1>1, <2>1 DEF OpToRel
<1>3. \A n \in S : m <= n
  BY <1>2
<1> QED
  BY <1>3

LEMMA MinOfSide ==
  ASSUME NEW S \in SUBSET Nat, S # {}
  PROVE  Min(S) \in S
BY LeastNumber DEF Min

LEMMA HighestNumber ==
  ASSUME NEW S \in SUBSET Nat, S # {}, IsFiniteSet(S)
  PROVE  \E m \in S : \A n \in S : m >= n
<1> DEFINE Higher(x) == {y \in S : y > x}
           Counts == {Cardinality(Higher(x)) : x \in S}
<1>1. \A x \in S : IsFiniteSet(Higher(x)) /\ Cardinality(Higher(x)) \in Nat
  BY FS_Subset, FS_CardinalityType
<1>2. PICK m \in Counts : \A n \in Counts : m <= n
  <2>1. Counts \in SUBSET Nat /\ Counts # {}
    BY <1>1
  <2> HIDE DEF Counts
  <2> QED
    BY <2>1, LeastNumber
<1>3. PICK x \in S : m = Cardinality(Higher(x))
  BY <1>2
<1>4. ASSUME NEW y \in S, y > x PROVE FALSE
  <2>1. Higher(y) \subseteq Higher(x) /\ y \in Higher(x) /\ y \notin Higher(y)
    <3>1. \A z \in S : z \in Nat
      OBVIOUS
    <3> QED
      BY <1>3, <1>4, <3>1
  <2>2. Cardinality(Higher(y)) < Cardinality(Higher(x))
    <3> HIDE DEF Higher
    <3> QED
      BY <1>1, <2>1, FS_Subset
  <2>3. m <= Cardinality(Higher(y))
    BY <1>2
  <2> HIDE DEF Higher
  <2> QED
    BY <1>1, <1>3, <2>2, <2>3
<1>5. \A y \in S : x >= y
  BY <1>4
<1> QED
  BY <1>5

LEMMA MaxOfSide ==
  ASSUME NEW S \in SUBSET Nat, S # {}, IsFiniteSet(S)
  PROVE  Max(S) \in S
BY HighestNumber DEF Max

LEMMA QuotesAreOfSides ==
  ASSUME NEW levels \in SUBSET Levels, TwoSided(levels)
  PROVE  BestOf(levels) \in BidLevels \X AskLevels
<1>1. /\ levels \cap BidLevels \in SUBSET Nat /\ levels \cap BidLevels # {}
      /\ levels \cap AskLevels \in SUBSET Nat /\ levels \cap AskLevels # {}
      /\ IsFiniteSet(levels \cap BidLevels)
  BY BookAssumption, FS_Subset DEF TwoSided
<1>2. Max(levels \cap BidLevels) \in BidLevels /\ Min(levels \cap AskLevels) \in AskLevels
  BY <1>1, MinOfSide, MaxOfSide
<1> QED
  BY <1>2 DEF BestOf

LEMMA EndsOfSides ==
  Min(BidLevels) \in Levels /\ Min(AskLevels) \in Levels /\ Max(AskLevels) \in Levels
BY BookAssumption, MinOfSide, MaxOfSide DEF Levels

--------------------------------------------------------------------------------
(* The exchange's past does not change, and a position keeps its number.  The  *)
(* restart of the service, which numbers anew, comes once.                     *)

PastStands ==
    /\ exchange' \in Seq(SUBSET Levels) /\ Len(exchange) <= Len(exchange')
    /\ \A p \in 1..Len(exchange) : exchange'[p] = exchange[p]
    /\ epoch' = epoch \/ (epoch = 0 /\ epoch' = Len(exchange))

LEMMA PlacesStand ==
  ASSUME ExchangeShape, PastStands, NEW m \in Messages, m.pos <= Len(exchange),
         NEW ps \in SUBSET (0..Len(exchange)), InPlace(m, ps)
  PROVE  InPlace(m, ps)'
<1>1. m.pos \in 1..Len(exchange) /\ m.u \in Nat
  BY DEF ExchangeShape, Messages
<1>2. CASE Full(m) /\ \A p \in ps : p <= m.pos
  BY <1>1, <1>2 DEF InPlace, Full, PastStands
<1>3. CASE Partial(m) /\ \E p \in ps : Repeated(m, p) \/ Continues(m, p, ps)
  <2>1. PICK p \in ps : Repeated(m, p) \/ Continues(m, p, ps)
    BY <1>3
  <2>2. p \in 0..Len(exchange) /\ epoch \in Nat /\ Len(exchange) \in Nat
    BY DEF ExchangeShape
  <2>3. Repeated(m, p) => Repeated(m, p)'
    BY <1>1, <2>2 DEF Repeated, PastStands
  <2>4. Continues(m, p, ps) => Continues(m, p, ps)'
    BY <1>1, <2>2 DEF Continues, Follows, PastStands
  <2> QED
    BY <1>3, <2>1, <2>3, <2>4 DEF InPlace, Partial
<1> QED
  BY <1>2, <1>3 DEF InPlace

LEMMA NumbersStand ==
  ASSUME ExchangeShape, PastStands, NEW p \in 1..Len(exchange)
  PROVE  Number(p)' = Number(p) /\ Number(p) \in Nat \ {0} /\ BookAtPos(p)' = BookAtPos(p)
         /\ p \in 1..Len(exchange')
<1>1. Number(p)' = Number(p) /\ Number(p) \in Nat \ {0}
  BY DEF ExchangeShape, PastStands, Number
<1>2. BookAtPos(p)' = BookAtPos(p)
  BY <1>1 DEF PastStands, BookAtPos, TwoSided
<1>3. p \in 1..Len(exchange')
  BY DEF PastStands, ExchangeShape
<1> QED
  BY <1>1, <1>2, <1>3

LEMMA InboxMessages ==
  ASSUME ExchangeShape, Numbered, NEW i \in 1..Len(inbox)
  PROVE  inbox[i] \in Messages /\ inbox[i].pos \in 1..Len(exchange)
<1>1. inbox[i] \in Messages
  BY DEF ExchangeShape
<1> QED
  BY <1>1 DEF Messages, Numbered, ExchangeShape

(* Every position before a message is one of the exchange. *)
LEMMA BeforeIsPast ==
  ASSUME ExchangeShape, StoreShape, Numbered, NEW i \in 1..(Len(inbox) + 1)
  PROVE  Before(i) \in SUBSET (0..Len(exchange))
<1>1. ASSUME NEW j \in 1..(i - 1) PROVE inbox[j].pos \in 0..Len(exchange)
  <2>1. j \in 1..Len(inbox)
    BY DEF ExchangeShape
  <2> QED
    BY <2>1, InboxMessages
<1> QED
  BY <1>1 DEF Before, StoreShape

(* The messages on the way stay in place while the exchange goes on. *)
LEMMA InboxStands ==
  ASSUME BookInv, PastStands, UNCHANGED <<inbox, bookAt>>
  PROVE  Numbered' /\ EpochsInOrder' /\ InboxInPlace'
<1> USE DEF BookInv
<1>1. \A i \in 1..Len(inbox) : inbox[i] \in Messages /\ inbox[i].pos \in 1..Len(exchange)
  BY InboxMessages
<1>2. \A i \in 1..Len(inbox) : Before(i)' = Before(i) /\ Before(i) \in SUBSET (0..Len(exchange))
  <2>1. \A i \in 1..Len(inbox) : i \in 1..(Len(inbox) + 1)
    BY DEF ExchangeShape
  <2> QED
    BY <2>1, BeforeIsPast DEF Before
<1>3. Numbered'
  <2> SUFFICES ASSUME NEW i \in 1..Len(inbox)
               PROVE  inbox[i].pos <= Len(exchange') /\ inbox[i].u = Number(inbox[i].pos)'
    BY DEF Numbered
  <2> DEFINE p == inbox[i].pos
  <2>1. p \in 1..Len(exchange) /\ inbox[i].u = Number(p)
    BY <1>1 DEF Numbered
  <2>2. p' = p
    OBVIOUS
  <2> HIDE DEF p
  <2>3. Number(p)' = Number(p) /\ p \in 1..Len(exchange')
    BY <2>1, <2>2, NumbersStand DEF Number
  <2> QED
    BY <2>1, <2>3 DEF p, Number, ExchangeShape
<1>4. EpochsInOrder'
  BY <1>1, <1>2 DEF EpochsInOrder, PastStands, ExchangeShape
<1>5. InboxInPlace'
  <2> SUFFICES ASSUME NEW i \in 1..Len(inbox) PROVE InPlace(inbox[i], Before(i))'
    BY DEF InboxInPlace
  <2>1. InPlace(inbox[i], Before(i))
    BY DEF InboxInPlace
  <2> DEFINE Lasts(m, ps) == InPlace(m, ps)'
  <2>2. ASSUME NEW m \in Messages, m.pos <= Len(exchange),
               NEW ps \in SUBSET (0..Len(exchange)), InPlace(m, ps)
        PROVE  InPlace(m, ps)'
    BY <2>2, PlacesStand
  <2> QED
    BY <1>1, <1>2, <2>1, <2>2
<1> QED
  BY <1>3, <1>4, <1>5

(* A message that is sent goes behind the others. *)
LEMMA SendingKeeps ==
  ASSUME BookInv, PastStands, UNCHANGED bookAt,
         NEW m \in Messages, inbox' = Append(inbox, m),
         m.pos <= Len(exchange'), m.u = Number(m.pos)', m.pos > epoch',
         NEW ps, ps = Before(Len(inbox) + 1), InPlace(m, ps)', \A p \in ps : p <= served',
         m.pos <= served', served' = m.pos \/ (served > 0 /\ served' = served)
  PROVE  inbox' \in Seq(Messages) /\ Numbered' /\ EpochsInOrder' /\ InboxInPlace' /\ ServedIsLast'
<1> USE DEF BookInv
<1> DEFINE n == Len(inbox)
<1>1. /\ inbox \in Seq(Messages) /\ n \in Nat /\ inbox' \in Seq(Messages) /\ Len(inbox') = n + 1
      /\ \A i \in 1..n : inbox'[i] = inbox[i]
      /\ inbox'[n + 1] = m
  BY DEF ExchangeShape
<1>2. \A i \in 1..n : inbox[i] \in Messages /\ inbox[i].pos \in 1..Len(exchange)
  BY InboxMessages
<1>3. \A i \in 1..(n + 1) : Before(i)' = Before(i) /\ Before(i) \in SUBSET (0..Len(exchange))
  BY <1>1, BeforeIsPast DEF Before
<1>4. Numbered'
  <2> SUFFICES ASSUME NEW i \in 1..(n + 1)
               PROVE  inbox'[i].pos <= Len(exchange') /\ inbox'[i].u = Number(inbox[i].pos)'
    BY <1>1 DEF Numbered
  <2>1. CASE i = n + 1
    BY <1>1, <2>1 DEF Number
  <2>2. CASE i \in 1..n
    <3> DEFINE p == inbox[i].pos
    <3>1. p \in 1..Len(exchange) /\ inbox[i].u = Number(p)
      BY <1>2, <2>2 DEF Numbered
    <3>2. p' = p
      BY <1>1, <2>2
    <3> HIDE DEF p
    <3>3. Number(p)' = Number(p) /\ p \in 1..Len(exchange')
      BY <3>1, <3>2, NumbersStand DEF Number
    <3> QED
      BY <1>1, <2>2, <3>1, <3>2, <3>3 DEF p, Number, ExchangeShape, PastStands
  <2> QED
    BY <1>1, <2>1, <2>2
<1>5. EpochsInOrder'
  <2> SUFFICES ASSUME NEW i \in 1..(n + 1), NEW p \in Before(i), p > epoch'
               PROVE  inbox'[i].pos > epoch'
    BY <1>1, <1>3 DEF EpochsInOrder
  <2>1. CASE i = n + 1
    BY <1>1, <2>1
  <2>2. CASE i \in 1..n
    BY <1>1, <1>2, <1>3, <2>2 DEF EpochsInOrder, PastStands, ExchangeShape
  <2> QED
    BY <1>1, <2>1, <2>2
<1>6. InboxInPlace'
  <2> SUFFICES ASSUME NEW i \in 1..(n + 1) PROVE InPlace(inbox[i], Before(i))'
    BY <1>1 DEF InboxInPlace
  <2>1. CASE i = n + 1
    <3>1. inbox'[i] = m /\ Before(i)' = ps
      BY <1>1, <1>3, <2>1
    <3> QED
      BY <3>1
  <2>2. CASE i \in 1..n
    <3>1. InPlace(inbox[i], Before(i))
      BY <2>2 DEF InboxInPlace
    <3>2. ASSUME NEW x \in Messages, x.pos <= Len(exchange),
                 NEW qs \in SUBSET (0..Len(exchange)), InPlace(x, qs)
          PROVE  InPlace(x, qs)'
      BY <3>2, PlacesStand
    <3> QED
      BY <1>1, <1>2, <1>3, <2>2, <3>1, <3>2 DEF ExchangeShape
  <2> QED
    BY <1>1, <2>1, <2>2
<1>7. ServedIsLast'
  <2>1. Before(Len(inbox) + 1)' = ps \cup {m.pos}
    <3>1. Before(Len(inbox) + 1)' = {bookAt} \cup {inbox'[j].pos : j \in 1..(n + 1)}
      BY <1>1 DEF Before
    <3>2. ps = {bookAt} \cup {inbox[j].pos : j \in 1..n}
      BY <1>1 DEF Before
    <3>3. 1..(n + 1) = 1..n \cup {n + 1}
      BY <1>1
    <3> HIDE DEF n
    <3> QED
      BY <1>1, <3>1, <3>2, <3>3
  <2>2. served > 0 => served \in ps
    BY DEF ServedIsLast
  <2>3. served' \in Before(Len(inbox) + 1)' /\ \A p \in Before(Len(inbox) + 1)' : p <= served'
    BY <2>1, <2>2
  <2> QED
    BY <2>3 DEF ServedIsLast
<1> QED
  BY <1>1, <1>4, <1>5, <1>6, <1>7

--------------------------------------------------------------------------------
(* What the reader does with the first message: the book becomes the          *)
(* exchange's at the message's position, or the message is a repetition and   *)
(* the book stays.                                                            *)

TakesOver(pos) ==
    /\ bookAt <= pos /\ bookAt' = pos
    /\ book' = BookAtPos(pos)
    /\ bookQuote' = IF TwoSided(exchange[pos]) THEN {BestOf(exchange[pos])} ELSE bookQuote

LEMMA ReadsRightly ==
  ASSUME BookInv, Reads
  PROVE  \/ TakesOver(inbox[1].pos)
         \/ UNCHANGED storeVars /\ inbox[1].pos <= bookAt
<1> USE DEF BookInv
<1> DEFINE m == inbox[1]
<1>1. /\ 1 \in 1..Len(inbox) /\ Head(inbox) = m /\ Before(1) = {bookAt}
      /\ m \in Messages /\ m.pos \in 1..Len(exchange) /\ m.u = Number(m.pos)
  <2>1. 1 \in 1..Len(inbox) /\ Head(inbox) = m
    BY DEF Reads, ExchangeShape
  <2>2. Before(1) = {bookAt}
    BY DEF Before
  <2> QED
    BY <2>1, <2>2, InboxMessages DEF Numbered
<1>2. /\ book' = IF m.kind = "snapshot" THEN Snapshot(m) ELSE Merged(m)
      /\ bookAt' = IF Taken(m) THEN m.pos ELSE bookAt
      /\ bookQuote' = IF Taken(m) /\ (book').ready THEN {BestOf((book').levels)} ELSE bookQuote
  BY <1>1 DEF Reads, Quoting
<1> HIDE DEF m
<1>3. CASE Full(m) /\ bookAt <= m.pos
  <2>1. Taken(m) /\ book' = Snapshot(m)
    BY <1>2, <1>3 DEF Full, Taken, Merged
  <2>2. Snapshot(m) = BookAtPos(m.pos)
    BY <1>1, <1>3 DEF Full, Snapshot, BookAtPos
  <2> QED
    BY <1>2, <1>3, <2>1, <2>2 DEF TakesOver, BookAtPos, m
<1>4. CASE Partial(m) /\ (Repeated(m, bookAt) \/ Continues(m, bookAt, {bookAt}))
  <2>1. m.kind = "delta" /\ m.u > 1 /\ m.u \in Nat /\ m.pos \in Nat /\ bookAt \in Nat /\ bookAt > 0
    BY <1>1, <1>4 DEF Partial, Messages, Repeated, Continues, Follows, StoreShape, ExchangeShape
  <2>2. book = BookAtPos(bookAt)
    <3>1. ~Full(m)
      BY <2>1 DEF Full
    <3>2. served > 0 /\ book.u # 0
      BY <1>1, <3>1 DEF LinkShape, FirstIsFull, m, Reads
    <3> QED
      BY <3>2 DEF BookIsTrue, EmptyBook
  <2>3. book.u = Number(bookAt) /\ book.levels = exchange[bookAt]
    BY <2>2 DEF BookAtPos
  <2>4. CASE Repeated(m, bookAt)
    <3>1. m.u <= book.u
      BY <1>1, <2>1, <2>3, <2>4 DEF Repeated, Number, ExchangeShape
    <3>2. ~Taken(m)
      BY <2>1, <2>3, <3>1 DEF Taken, Number, ExchangeShape
    <3>3. book' = book
      BY <1>2, <2>1, <3>2 DEF Merged
    <3> QED
      BY <1>2, <2>4, <3>2, <3>3 DEF storeVars, Repeated, m
  <2>5. CASE Continues(m, bookAt, {bookAt})
    <3>1. bookAt < m.pos /\ (m.pos > epoch => bookAt > epoch)
      BY <2>1, <2>5 DEF Continues, Follows
    <3>2. m.u > book.u
      BY <1>1, <2>1, <2>3, <3>1 DEF Number, ExchangeShape
    <3>3. Taken(m) /\ m.u # 1
      BY <2>1, <3>2 DEF Taken
    <3>4. (book.levels \cup m.on) \ m.off = exchange[m.pos]
      BY <2>3, <2>5 DEF Continues, Follows
    <3>5. book' = BookAtPos(m.pos)
      BY <1>1, <1>2, <2>1, <3>3, <3>4 DEF Merged, BookAtPos
    <3> QED
      BY <1>2, <3>1, <2>1, <3>3, <3>5 DEF TakesOver, BookAtPos, m
  <2> QED
    BY <1>4, <2>4, <2>5
<1> QED
  <2>1. InPlace(m, {bookAt})
    BY <1>1 DEF InboxInPlace, m
  <2> QED
    BY <1>3, <1>4, <2>1 DEF InPlace

(* The messages behind the first stay in place. *)
LEMMA ReadingKeeps ==
  ASSUME BookInv, Reads
  PROVE  Numbered' /\ EpochsInOrder' /\ InboxInPlace' /\ ServedIsLast'
<1> USE DEF BookInv
<1> DEFINE n == Len(inbox)
<1>1. /\ n \in Nat \ {0} /\ inbox' \in Seq(Messages) /\ Len(inbox') = n - 1
      /\ \A i \in 1..(n - 1) : inbox'[i] = inbox[i + 1]
      /\ UNCHANGED <<exchange, epoch, served>>
  BY DEF Reads, ExchangeShape, exchangeVars
<1>2. bookAt' \in {bookAt, inbox[1].pos} /\ bookAt' >= bookAt /\ bookAt' >= inbox[1].pos
  <2>1. inbox[1].pos \in Nat /\ bookAt \in Nat
    BY <1>1, InboxMessages DEF StoreShape, ExchangeShape
  <2> QED
    BY <2>1, ReadsRightly DEF TakesOver, storeVars
<1>3. \A i \in 1..(n + 1) : Before(i) \in SUBSET (0..Len(exchange))
  BY BeforeIsPast
<1>4. \A i \in 1..n :
        /\ Before(i)' \subseteq Before(i + 1)
        /\ \A p \in Before(i + 1) : \E q \in Before(i)' : p <= q
  <2> SUFFICES ASSUME NEW i \in 1..n
               PROVE  /\ Before(i)' \subseteq Before(i + 1)
                      /\ \A p \in Before(i + 1) : \E q \in Before(i)' : p <= q
    OBVIOUS
  <2>1. Before(i)' = {bookAt'} \cup {inbox[j + 1].pos : j \in 1..(i - 1)}
    BY <1>1 DEF Before
  <2>2. Before(i + 1) = {bookAt} \cup {inbox[j].pos : j \in 1..i}
    BY <1>1 DEF Before
  <2>3. Before(i)' \subseteq Before(i + 1)
    BY <1>1, <1>2, <2>1, <2>2
  <2>4. ASSUME NEW p \in Before(i + 1) PROVE \E q \in Before(i)' : p <= q
    <3>1. p \in Nat
      BY <1>1, <1>3 DEF ExchangeShape
    <3>2. CASE p \in {bookAt, inbox[1].pos}
      BY <1>2, <2>1, <3>2
    <3>3. CASE p \notin {bookAt, inbox[1].pos}
      <4>1. PICK j \in 1..i : p = inbox[j].pos
        BY <2>2, <3>3
      <4>2. j - 1 \in 1..(i - 1) /\ inbox[(j - 1) + 1].pos = p
        BY <1>1, <3>3, <4>1
      <4> QED
        BY <2>1, <3>1, <4>2
    <3> QED
      BY <3>2, <3>3
  <2> QED
    BY <2>3, <2>4
<1>5. Numbered' /\ EpochsInOrder'
  <2> SUFFICES ASSUME NEW i \in 1..(n - 1)
               PROVE  /\ inbox'[i].pos <= Len(exchange) /\ inbox'[i].u = Number(inbox[i].pos)'
                      /\ \A p \in Before(i)' : p > epoch => inbox'[i].pos > epoch
    BY <1>1 DEF Numbered, EpochsInOrder
  <2>1. i \in 1..n /\ i + 1 \in 1..n /\ inbox'[i] = inbox[i + 1]
    BY <1>1
  <2>2. inbox'[i].pos <= Len(exchange) /\ inbox'[i].u = Number(inbox[i].pos)'
    BY <1>1, <2>1 DEF Numbered, Number
  <2>3. \A p \in Before(i)' : p > epoch => inbox'[i].pos > epoch
    BY <1>4, <2>1 DEF EpochsInOrder
  <2> QED
    BY <2>2, <2>3
<1>6. InboxInPlace'
  <2> SUFFICES ASSUME NEW i \in 1..(n - 1) PROVE InPlace(inbox[i], Before(i))'
    BY <1>1 DEF InboxInPlace
  <2> DEFINE m == inbox[i + 1]
  <2>1. /\ i + 1 \in 1..n /\ i \in 1..n /\ inbox'[i] = m /\ m.pos \in Nat
        /\ InPlace(m, Before(i + 1)) /\ Before(i + 1) \in SUBSET (0..Len(exchange))
    <3>1. i + 1 \in 1..n /\ i \in 1..n
      BY <1>1
    <3> QED
      BY <1>1, <1>3, <3>1, InboxMessages DEF InboxInPlace
  <2>2. /\ Before(i)' \subseteq Before(i + 1)
        /\ \A p \in Before(i + 1) : \E q \in Before(i)' : p <= q
    BY <1>4, <2>1
  <2>3. \A q \in Before(i + 1) : q > epoch => m.pos > epoch
    BY <2>1 DEF EpochsInOrder
  <2> HIDE DEF m
  <2>4. InPlace(m, Before(i)')
    <3>1. CASE Full(m) /\ \A p \in Before(i + 1) : p <= m.pos
      BY <2>2, <3>1 DEF InPlace
    <3>2. CASE Partial(m) /\ \E p \in Before(i + 1) : Repeated(m, p) \/ Continues(m, p, Before(i + 1))
      <4>1. PICK p \in Before(i + 1) : Repeated(m, p) \/ Continues(m, p, Before(i + 1))
        BY <3>2
      <4>2. PICK q \in Before(i)' : p <= q
        BY <2>2, <4>1
      <4>3. p \in Nat /\ q \in Nat /\ epoch \in Nat /\ q \in Before(i + 1)
        BY <2>1, <2>2, <4>1, <4>2 DEF ExchangeShape
      <4>4. Repeated(m, p) => Repeated(m, q)
        BY <2>1, <2>3, <4>2, <4>3 DEF Repeated
      <4>5. Continues(m, p, Before(i + 1)) => q = p /\ Continues(m, p, Before(i)')
        BY <2>2, <4>2, <4>3 DEF Continues
      <4> QED
        BY <3>2, <4>1, <4>4, <4>5 DEF InPlace
    <3> QED
      BY <2>1, <3>1, <3>2 DEF InPlace
  <2>5. InPlace(inbox[i], Before(i))' <=> InPlace(m, Before(i)')
    BY <1>1, <2>1 DEF InPlace, Full, Partial, Repeated, Continues, Follows
  <2> QED
    BY <2>4, <2>5
<1>7. ServedIsLast'
  <2> SUFFICES ASSUME served > 0
               PROVE  /\ served \in Before(Len(inbox) + 1)'
                      /\ \A p \in Before(Len(inbox) + 1)' : p <= served
    BY <1>1 DEF ServedIsLast
  <2>1. \A i \in 1..n : i = n => Before(Len(inbox) + 1)' = Before(i)'
    <3> SUFFICES ASSUME NEW i \in 1..n, i = n PROVE Before(Len(inbox) + 1)' = Before(i)'
      OBVIOUS
    <3>1. (Len(inbox') + 1) - 1 = i - 1
      BY <1>1
    <3> QED
      BY <3>1 DEF Before
  <2>2. served \in Before(n + 1) /\ \A p \in Before(n + 1) : p <= served
    BY DEF ServedIsLast
  <2>3. n \in 1..n /\ served \in Nat
    BY <1>1 DEF ExchangeShape
  <2> QED
    BY <1>3, <1>4, <2>1, <2>2, <2>3
<1> QED
  BY <1>5, <1>6, <1>7

--------------------------------------------------------------------------------
(* What the exchange does. *)

LEMMA BookStands ==
  ASSUME BookInv, PastStands, UNCHANGED storeVars
  PROVE  StoreShape' /\ BookIsTrue'
<1> USE DEF BookInv
<1>1. StoreShape'
  BY DEF StoreShape, PastStands, storeVars, ExchangeShape
<1>2. BookIsTrue'
  <2>1. CASE book = EmptyBook
    BY <2>1 DEF BookIsTrue, storeVars, EmptyBook
  <2>2. CASE bookAt > 0 /\ book = BookAtPos(bookAt)
    <3>1. bookAt \in 1..Len(exchange)
      BY <2>2 DEF StoreShape, ExchangeShape
    <3>2. BookAtPos(bookAt)' = BookAtPos(bookAt)
      <4>1. \A p \in 1..Len(exchange) : BookAtPos(p)' = BookAtPos(p)
        BY NumbersStand
      <4> QED
        BY <3>1, <4>1 DEF storeVars, BookAtPos, Number, TwoSided
    <3> QED
      BY <2>2, <3>2 DEF BookIsTrue, storeVars
  <2> QED
    BY <2>1, <2>2 DEF BookIsTrue
<1> QED
  BY <1>1, <1>2

LEMMA FirstStands ==
  ASSUME BookInv, PastStands, inbox # <<>>, inbox' # <<>>, inbox'[1] = inbox[1], Full(inbox[1])
  PROVE  Full(inbox[1])'
<1>1. 1 \in 1..Len(inbox)
  BY DEF BookInv, ExchangeShape
<1>2. inbox[1].pos \in 1..Len(exchange)
  BY <1>1, InboxMessages DEF BookInv
<1> QED
  BY <1>2 DEF Full, PastStands

LEMMA TradesKeep == BookInv /\ BookTrades => BookInv'
<1> SUFFICES ASSUME BookInv, BookTrades PROVE BookInv'
  OBVIOUS
<1> USE DEF BookInv
<1>1. /\ UNCHANGED <<epoch, served, sent, repeats, inbox, linkVars, storeVars>>
      /\ UNCHANGED <<link, socket, subbed, caller, bookAt, book>>
  BY DEF BookTrades, linkVars, storeVars
<1>2. PICK b \in SUBSET Levels : exchange' = Append(exchange, b)
  <2>1. exchange[Len(exchange)] \in SUBSET Levels
    BY DEF ExchangeShape
  <2> QED
    BY <2>1 DEF BookTrades, Levels
<1>3. PastStands
  BY <1>1, <1>2 DEF PastStands, ExchangeShape
<1>4. Numbered' /\ EpochsInOrder' /\ InboxInPlace' /\ StoreShape' /\ BookIsTrue'
  BY <1>1, <1>3, InboxStands, BookStands
<1>5. ExchangeShape' /\ LinkShape'
  BY <1>1, <1>2 DEF ExchangeShape, LinkShape, Linked
<1>6. ServedIsLast'
  BY <1>1 DEF ServedIsLast, Before
<1>7. FirstIsFull'
  BY <1>1, <1>3, FirstStands DEF FirstIsFull
<1>8. SentIsOld'
  BY <1>1 DEF SentIsOld, Linked, Partial, Number
<1> QED
  BY <1>4, <1>5, <1>6, <1>7, <1>8

(* A number above the epoch goes under u = pos - epoch. *)
LEMMA PushesKeep == BookInv /\ Pushes => BookInv'
<1> SUFFICES ASSUME BookInv, Pushes PROVE BookInv'
  OBVIOUS
<1> USE DEF BookInv
<1> DEFINE n == Len(exchange)
<1>0. PICK m : m = Message("delta", n - epoch, exchange[n] \ exchange[served],
                           exchange[served] \ exchange[n], n)
  OBVIOUS
<1>1. /\ served \in 1..(n - 1) /\ n \in Nat /\ served > epoch /\ epoch \in Nat
      /\ inbox' = Append(inbox, m) /\ sent' = sent \cup {m} /\ served' = n
      /\ UNCHANGED <<exchange, epoch, repeats, linkVars, storeVars>>
      /\ UNCHANGED <<link, socket, subbed, caller, bookAt, book>>
  BY <1>0 DEF Pushes, ExchangeShape, linkVars, storeVars
<1>2. /\ m \in Messages /\ m.pos = n /\ m.u = n - epoch /\ m.kind = "delta"
      /\ m.on = exchange[n] \ exchange[served] /\ m.off = exchange[served] \ exchange[n]
  BY <1>0, <1>1 DEF Message, Messages, ExchangeShape
<1>3. PastStands
  BY <1>1 DEF PastStands, ExchangeShape
<1>4. Linked /\ subbed
  BY <1>1 DEF LinkShape
<1>5. PICK ps : ps = Before(Len(inbox) + 1)
  OBVIOUS
<1>6. served \in ps /\ \A p \in ps : p <= served /\ p \in Nat
  <2>1. ps \in SUBSET (0..n)
    BY <1>5, BeforeIsPast DEF ExchangeShape
  <2> QED
    BY <1>1, <1>5, <2>1 DEF ServedIsLast
<1>7. Partial(m) /\ Continues(m, served, ps)
  BY <1>1, <1>2, <1>6 DEF Partial, Continues, Follows
<1>8. InPlace(m, ps) /\ m.u = Number(m.pos)
  BY <1>1, <1>2, <1>6, <1>7 DEF InPlace, Number
<1>9. InPlace(m, ps)' /\ m.u = Number(m.pos)' /\ m.pos <= Len(exchange') /\ m.pos > epoch'
  BY <1>1, <1>2, <1>8 DEF InPlace, Full, Partial, Repeated, Continues, Follows, Number
<1>10. \A p \in ps : p <= served'
  BY <1>1, <1>6
<1>11. /\ inbox' \in Seq(Messages) /\ Numbered' /\ EpochsInOrder' /\ InboxInPlace'
       /\ ServedIsLast'
  BY <1>1, <1>2, <1>3, <1>5, <1>9, <1>10, SendingKeeps
<1>12. ExchangeShape' /\ LinkShape' /\ StoreShape' /\ BookIsTrue'
  BY <1>1, <1>2, <1>3, <1>4, <1>11, BookStands DEF ExchangeShape, LinkShape, Linked
<1>13. FirstIsFull'
  <2>1. inbox # <<>> => inbox' # <<>> /\ inbox'[1] = inbox[1]
    BY <1>1 DEF ExchangeShape
  <2> QED
    BY <1>1, <1>3, <2>1, FirstStands DEF FirstIsFull
<1>14. SentIsOld'
  <2> SUFFICES ASSUME NEW x \in sent'
               PROVE  Partial(x) /\ x.u = Number(x.pos) /\ epoch < x.pos /\ x.pos <= n
    BY <1>1 DEF SentIsOld, Partial, Number
  <2>1. CASE x = m
    BY <1>1, <1>2, <1>7, <1>8, <2>1
  <2>2. CASE x \in sent
    <3>1. x.pos \in Nat /\ x.pos <= served
      BY <1>4, <2>2 DEF SentIsOld, ExchangeShape, Messages
    <3> QED
      BY <1>1, <1>4, <2>2, <3>1 DEF SentIsOld
  <2> QED
    BY <1>1, <2>1, <2>2
<1> QED
  BY <1>11, <1>12, <1>13, <1>14

LEMMA RepeatsKeep == BookInv /\ Repeats => BookInv'
<1> SUFFICES ASSUME BookInv, Repeats PROVE BookInv'
  OBVIOUS
<1> USE DEF BookInv
<1>1. /\ served > 0 /\ served \in Nat
      /\ UNCHANGED <<exchange, epoch, served, sent, linkVars, storeVars>>
      /\ UNCHANGED <<link, socket, subbed, caller, bookAt, book>>
  BY DEF Repeats, ExchangeShape, linkVars, storeVars
<1>2. PICK m \in sent : inbox' = Append(inbox, m)
  BY DEF Repeats
<1>3. Linked
  BY <1>1 DEF LinkShape
<1>4. /\ m \in Messages /\ m.pos \in Nat /\ epoch \in Nat /\ Partial(m)
      /\ m.u = Number(m.pos) /\ epoch < m.pos /\ m.pos <= served
  BY <1>2, <1>3 DEF SentIsOld, ExchangeShape, Messages
<1>5. PastStands
  BY <1>1 DEF PastStands, ExchangeShape
<1>6. PICK ps : ps = Before(Len(inbox) + 1)
  OBVIOUS
<1>7. served \in ps /\ \A p \in ps : p <= served
  BY <1>1, <1>6 DEF ServedIsLast
<1>8. InPlace(m, ps)
  BY <1>4, <1>7 DEF InPlace, Repeated
<1>9. InPlace(m, ps)' /\ m.u = Number(m.pos)' /\ m.pos <= Len(exchange') /\ m.pos > epoch'
  BY <1>1, <1>4, <1>8 DEF InPlace, Full, Partial, Repeated, Continues, Follows, Number, ExchangeShape
<1>10. /\ inbox' \in Seq(Messages) /\ Numbered' /\ EpochsInOrder' /\ InboxInPlace'
       /\ ServedIsLast'
  BY <1>1, <1>2, <1>4, <1>5, <1>6, <1>7, <1>9, SendingKeeps
<1>11. ExchangeShape' /\ LinkShape' /\ StoreShape' /\ BookIsTrue'
  BY <1>1, <1>3, <1>5, <1>10, BookStands DEF ExchangeShape, LinkShape, Linked
<1>12. FirstIsFull'
  <2>1. inbox # <<>> => inbox' # <<>> /\ inbox'[1] = inbox[1]
    BY <1>2 DEF ExchangeShape
  <2> QED
    BY <1>1, <1>5, <2>1, FirstStands DEF FirstIsFull
<1>13. SentIsOld'
  BY <1>1 DEF SentIsOld, Linked, Partial, Number
<1> QED
  BY <1>10, <1>11, <1>12, <1>13

(* After the restart of the service the whole book comes as a delta numbered 1. *)
LEMMA RestartKeeps == BookInv /\ ServiceRestarts => BookInv'
<1> SUFFICES ASSUME BookInv, ServiceRestarts PROVE BookInv'
  OBVIOUS
<1> USE DEF BookInv
<1> DEFINE n == Len(exchange)
<1>1. /\ epoch = 0 /\ epoch' = n /\ sent' = {} /\ n \in Nat \ {0}
      /\ UNCHANGED <<link, socket, subbed, caller, bookAt, book, storeVars>>
  BY DEF ServiceRestarts, ExchangeShape, linkVars, storeVars
<1>2. PICK b \in SUBSET Levels : exchange' = Append(exchange, b)
  BY EndsOfSides DEF ServiceRestarts, Levels
<1>3. exchange' \in Seq(SUBSET Levels) /\ Len(exchange') = n + 1 /\ exchange'[n + 1] = b
  BY <1>1, <1>2 DEF ExchangeShape
<1>4. PastStands
  BY <1>1, <1>2, <1>3 DEF PastStands, ExchangeShape
<1>5. StoreShape' /\ BookIsTrue' /\ SentIsOld'
  BY <1>1, <1>4, BookStands DEF SentIsOld
<1>6. CASE served = 0
  <2>1. UNCHANGED <<served, inbox>> /\ inbox = <<>>
    BY <1>6 DEF ServiceRestarts, LinkShape
  <2>2. Numbered' /\ EpochsInOrder' /\ InboxInPlace'
    BY <1>1, <1>4, <2>1, InboxStands
  <2>3. ExchangeShape' /\ LinkShape' /\ ServedIsLast' /\ FirstIsFull'
    BY <1>1, <1>3, <1>6, <2>1 DEF ExchangeShape, LinkShape, Linked, ServedIsLast, FirstIsFull
  <2> QED
    BY <1>5, <2>2, <2>3
<1>7. CASE served > 0
  <2>1. PICK m : m = Message("delta", 1, b, {}, n + 1)
    OBVIOUS
  <2>2. inbox' = Append(inbox, m) /\ served' = n + 1
    BY <1>3, <1>7, <2>1 DEF ServiceRestarts
  <2>3. /\ m \in Messages /\ m.pos = n + 1 /\ m.u = 1 /\ m.on = b /\ m.off = {}
    BY <1>1, <2>1 DEF Message, Messages
  <2>4. PICK ps : ps = Before(Len(inbox) + 1)
    OBVIOUS
  <2>5. \A p \in ps : p <= n + 1 /\ p \in Nat
    <3>1. ps \in SUBSET (0..n)
      BY <2>4, BeforeIsPast DEF ExchangeShape
    <3> QED
      BY <1>1, <3>1
  <2>6. InPlace(m, ps)'
    BY <1>3, <2>3, <2>5 DEF InPlace, Full
  <2>7. m.pos <= Len(exchange') /\ m.u = Number(m.pos)' /\ m.pos > epoch'
    BY <1>1, <1>3, <2>3 DEF Number
  <2>8. /\ inbox' \in Seq(Messages) /\ Numbered' /\ EpochsInOrder' /\ InboxInPlace'
        /\ ServedIsLast'
    BY <1>1, <1>4, <2>2, <2>3, <2>4, <2>5, <2>6, <2>7, SendingKeeps
  <2>9. ExchangeShape' /\ LinkShape'
    BY <1>1, <1>3, <1>7, <2>2, <2>8 DEF ExchangeShape, LinkShape, Linked
  <2>10. FirstIsFull'
    <3>1. inbox # <<>> => inbox' # <<>> /\ inbox'[1] = inbox[1]
      BY <2>2 DEF ExchangeShape
    <3> QED
      BY <1>1, <1>4, <1>7, <3>1, FirstStands DEF FirstIsFull
  <2> QED
    BY <1>5, <2>8, <2>9, <2>10
<1> QED
  BY <1>6, <1>7 DEF ExchangeShape

(* A subscription is answered by the whole book, the second one not at all. *)
LEMMA AnsweringKeeps ==
  ASSUME BookInv, Answered, UNCHANGED <<exchange, epoch, sent, bookAt, book, storeVars>>, Linked, Linked'
  PROVE  /\ ExchangeShape' /\ Numbered' /\ EpochsInOrder' /\ InboxInPlace' /\ ServedIsLast'
         /\ FirstIsFull' /\ SentIsOld' /\ StoreShape' /\ BookIsTrue'
         /\ served' > 0
<1> USE DEF BookInv
<1> DEFINE n == Len(exchange)
<1>1. PastStands
  BY DEF PastStands, ExchangeShape
<1>2. StoreShape' /\ BookIsTrue'
  BY <1>1, BookStands
<1>3. CASE served > 0
  <2>1. UNCHANGED <<served, inbox>>
    BY <1>3 DEF Answered
  <2>2. Numbered' /\ EpochsInOrder' /\ InboxInPlace'
    BY <1>1, <2>1, InboxStands
  <2>3. ExchangeShape' /\ ServedIsLast' /\ SentIsOld'
    BY <2>1 DEF ExchangeShape, ServedIsLast, Before, SentIsOld, Partial, Number
  <2>4. FirstIsFull'
    BY <1>1, <2>1, FirstStands DEF FirstIsFull
  <2> QED
    BY <1>2, <1>3, <2>1, <2>2, <2>3, <2>4
<1>4. CASE served = 0
  <2>1. PICK m : m = Message("snapshot", n - epoch, exchange[n], {}, n)
    OBVIOUS
  <2>2. inbox' = Append(inbox, m) /\ served' = n /\ inbox = <<>> /\ n \in Nat \ {0}
    BY <1>4, <2>1 DEF Answered, LinkShape, ExchangeShape
  <2>3. /\ m \in Messages /\ m.pos = n /\ m.u = n - epoch /\ m.on = exchange[n] /\ m.off = {}
        /\ m.kind = "snapshot" /\ epoch < n /\ epoch \in Nat
    BY <2>1 DEF Message, Messages, ExchangeShape
  <2>4. PICK ps : ps = Before(Len(inbox) + 1)
    OBVIOUS
  <2>5. \A p \in ps : p <= n /\ p \in Nat
    <3>1. ps \in SUBSET (0..n)
      BY <2>4, BeforeIsPast DEF ExchangeShape
    <3> QED
      BY <2>2, <3>1
  <2>6. InPlace(m, ps)'
    BY <2>3, <2>5 DEF InPlace, Full
  <2>7. m.pos <= Len(exchange') /\ m.u = Number(m.pos)' /\ m.pos > epoch'
    BY <2>2, <2>3 DEF Number
  <2>8. /\ inbox' \in Seq(Messages) /\ Numbered' /\ EpochsInOrder' /\ InboxInPlace'
        /\ ServedIsLast'
    BY <1>1, <2>2, <2>3, <2>4, <2>5, <2>6, <2>7, SendingKeeps
  <2>9. ExchangeShape'
    BY <2>2, <2>3, <2>8 DEF ExchangeShape
  <2>10. FirstIsFull'
    <3>1. inbox' = <<m>>
      BY <2>2
    <3> QED
      BY <2>3, <3>1 DEF FirstIsFull, Full
  <2>11. SentIsOld'
    <3>1. sent = {}
      <4>1. \A x \in sent : x.pos <= 0 /\ x.pos \in Nat \ {0}
        BY <1>4 DEF SentIsOld, ExchangeShape, Messages
      <4> QED
        BY <4>1
    <3> QED
      BY <3>1 DEF SentIsOld
  <2> QED
    BY <1>2, <2>2, <2>8, <2>9, <2>10, <2>11
<1> QED
  BY <1>3, <1>4 DEF ExchangeShape

--------------------------------------------------------------------------------
(* What the connection and the caller do. *)

LEMMA ReadsKeep == BookInv /\ Reads => BookInv'
<1> SUFFICES ASSUME BookInv, Reads PROVE BookInv'
  OBVIOUS
<1> USE DEF BookInv
<1>1. /\ link = "read" /\ inbox # <<>> /\ served > 0
      /\ UNCHANGED <<exchange, epoch, served, sent, link, socket, subbed, caller>>
  BY DEF Reads, exchangeVars, linkVars, LinkShape
<1>2. Numbered' /\ EpochsInOrder' /\ InboxInPlace' /\ ServedIsLast' /\ inbox' \in Seq(Messages)
  <2>1. inbox' \in Seq(Messages)
    BY DEF Reads, ExchangeShape
  <2> QED
    BY <2>1, ReadingKeeps
<1>3. ExchangeShape' /\ LinkShape' /\ SentIsOld'
  BY <1>1, <1>2 DEF ExchangeShape, LinkShape, Linked, SentIsOld, Partial, Number
<1>4. StoreShape' /\ BookIsTrue' /\ FirstIsFull'
  <2>1. PICK pos : pos = inbox[1].pos
    OBVIOUS
  <2>2. pos \in 1..Len(exchange) /\ exchange[pos] \in SUBSET Levels
    <3>1. pos \in 1..Len(exchange)
      BY <1>1, <2>1, InboxMessages DEF ExchangeShape
    <3> QED
      BY <3>1 DEF ExchangeShape
  <2>3. CASE TakesOver(pos)
    <3>1. bookAt' = pos /\ book' = BookAtPos(pos)
      BY <2>3 DEF TakesOver
    <3>2. BookAtPos(pos)' = BookAtPos(pos) /\ Number(pos) \in Nat \ {0}
      BY <1>1, <2>2 DEF BookAtPos, Number, TwoSided, ExchangeShape
    <3>3. bookQuote' \subseteq BidLevels \X AskLevels
      BY <2>2, <2>3, QuotesAreOfSides DEF TakesOver, StoreShape
    <3>4. StoreShape'
      BY <1>1, <2>2, <3>1, <3>3 DEF StoreShape
    <3>5. BookIsTrue'
      <4>1. BookAtPos(bookAt)' = BookAtPos(pos)
        BY <3>1, <3>2 DEF BookAtPos, Number, TwoSided
      <4> QED
        BY <2>2, <3>1, <4>1 DEF BookIsTrue
    <3>6. (book').u # 0
      BY <3>1, <3>2 DEF BookAtPos
    <3> QED
      BY <3>4, <3>5, <3>6 DEF FirstIsFull
  <2>4. CASE UNCHANGED storeVars /\ pos <= bookAt
    <3>1. PastStands
      BY <1>1 DEF PastStands, ExchangeShape
    <3>2. StoreShape' /\ BookIsTrue'
      BY <2>4, <3>1, BookStands
    <3>3. FirstIsFull'
      <4>1. CASE book.u # 0
        BY <2>4, <4>1 DEF FirstIsFull, storeVars
      <4>2. CASE book.u = 0
        <5>1. Full(inbox[1])
          BY <1>1, <4>2 DEF FirstIsFull
        <5>2. Taken(inbox[1]) /\ book' = Snapshot(inbox[1])
          BY <5>1 DEF Reads, Full, Taken, Merged, ExchangeShape
        <5>3. inbox[1].u \in Nat \ {0}
          <6>1. inbox[1] \in Messages
            BY <1>1, InboxMessages DEF ExchangeShape
          <6> QED
            BY <6>1 DEF Messages
        <5> QED
          BY <2>4, <4>2, <5>2, <5>3 DEF Snapshot, storeVars
      <4> QED
        BY <4>1, <4>2
    <3> QED
      BY <3>2, <3>3
  <2> QED
    BY <2>1, <2>3, <2>4, ReadsRightly
<1> QED
  BY <1>2, <1>3, <1>4

LEMMA SubscriptionsKeep == BookInv /\ (LoopSent \/ CallerSent) => BookInv'
<1> SUFFICES ASSUME BookInv, LoopSent \/ CallerSent PROVE BookInv'
  OBVIOUS
<1> USE DEF BookInv
<1>1. /\ Answered /\ UNCHANGED <<exchange, epoch, sent, socket, storeVars>>
      /\ UNCHANGED <<bookAt, book>>
      /\ subbed' = TRUE
      /\ \/ link = "send" /\ link' = "loop" /\ caller' = caller
         \/ caller = "send" /\ caller' = "done" /\ link' = link
  BY DEF LoopSent, CallerSent, storeVars
<1>2. Linked /\ Linked'
  BY <1>1 DEF LinkShape, Linked
<1>3. /\ ExchangeShape' /\ Numbered' /\ EpochsInOrder' /\ InboxInPlace' /\ ServedIsLast'
      /\ FirstIsFull' /\ SentIsOld' /\ StoreShape' /\ BookIsTrue' /\ served' > 0
  BY <1>1, <1>2, AnsweringKeeps
<1>4. LinkShape'
  BY <1>1, <1>2, <1>3 DEF LinkShape, Linked
<1> QED
  BY <1>3, <1>4

(* A connection that ends or begins has nothing on its way. *)
LEMMA ResetsKeep == BookInv /\ (Dials \/ ClosesCleanly \/ Breaks) => BookInv'
<1> SUFFICES ASSUME BookInv, Dials \/ ClosesCleanly \/ Breaks PROVE BookInv'
  OBVIOUS
<1> USE DEF BookInv
<1>1. /\ served' = 0 /\ inbox' = <<>> /\ UNCHANGED <<exchange, epoch, storeVars>>
      /\ UNCHANGED <<bookAt, book>>
      /\ sent' = {} \/ (sent' = sent /\ ~Linked')
  BY DEF Dials, ClosesCleanly, Breaks, storeVars, Linked
<1>2. PastStands
  BY <1>1 DEF PastStands, ExchangeShape
<1>3. StoreShape' /\ BookIsTrue'
  BY <1>1, <1>2, BookStands
<1>4. ExchangeShape'
  BY <1>1 DEF ExchangeShape
<1>5. LinkShape'
  <2>1. CASE Dials
    BY <2>1 DEF Dials, LinkShape, Linked
  <2>2. CASE ClosesCleanly
    BY <2>2 DEF ClosesCleanly, CallerLosesSocket, LinkShape, Linked
  <2>3. CASE Breaks
    BY <2>3 DEF Breaks, CallerLosesSocket, LinkShape, Linked
  <2> QED
    BY <2>1, <2>2, <2>3
<1>6. Numbered' /\ EpochsInOrder' /\ InboxInPlace' /\ ServedIsLast' /\ FirstIsFull'
  BY <1>1 DEF Numbered, EpochsInOrder, InboxInPlace, ServedIsLast, FirstIsFull
<1>7. SentIsOld'
  BY <1>1 DEF SentIsOld
<1> QED
  BY <1>3, <1>4, <1>5, <1>6, <1>7

(* The book is emptied only while nothing of this connection is on its way. *)
LEMMA EmptyingKeeps == BookInv /\ CallerChecks => BookInv'
<1> SUFFICES ASSUME BookInv, CallerChecks PROVE BookInv'
  OBVIOUS
<1> USE DEF BookInv
<1>1. /\ caller = "wait" /\ caller' \in {"done", "lock"}
      /\ book' = book \/ (book' = EmptyBook /\ ~subbed)
      /\ UNCHANGED <<exchange, epoch, served, sent, inbox, link, socket, subbed, bookAt, bookQuote>>
  BY DEF CallerChecks, exchangeVars
<1>2. ExchangeShape' /\ LinkShape' /\ StoreShape'
  BY <1>1 DEF ExchangeShape, LinkShape, Linked, StoreShape
<1>3. BookIsTrue'
  BY <1>1 DEF BookIsTrue, BookAtPos, Number, TwoSided, EmptyBook
<1>4. Numbered' /\ EpochsInOrder' /\ InboxInPlace'
  <2>1. PastStands
    BY <1>1 DEF PastStands, ExchangeShape
  <2> QED
    BY <1>1, <2>1, InboxStands
<1>5. ServedIsLast' /\ SentIsOld'
  BY <1>1 DEF ServedIsLast, Before, SentIsOld, Linked, Partial, Number
<1>6. FirstIsFull'
  BY <1>1 DEF FirstIsFull, LinkShape, Full
<1> QED
  BY <1>2, <1>3, <1>4, <1>5, <1>6

(* The steps that only move the loop or the caller on. *)
LEMMA MovesKeep ==
  ASSUME BookInv, UNCHANGED <<exchangeVars, inbox, subbed, storeVars>>, LinkShape',
         Linked' = Linked
  PROVE  BookInv'
<1> USE DEF BookInv
<1>1. UNCHANGED <<exchange, epoch, served, sent, inbox, bookAt, book>>
  BY DEF exchangeVars, storeVars
<1>2. PastStands
  BY <1>1 DEF PastStands, ExchangeShape
<1>3. /\ Numbered' /\ EpochsInOrder' /\ InboxInPlace' /\ StoreShape' /\ BookIsTrue'
  BY <1>1, <1>2, InboxStands, BookStands
<1>4. ExchangeShape' /\ ServedIsLast' /\ SentIsOld' /\ FirstIsFull'
  BY <1>1 DEF ExchangeShape, ServedIsLast, Before, SentIsOld, Partial, Number, FirstIsFull, Full
<1> QED
  BY <1>3, <1>4

LEMMA BookInitHolds == BookInit => BookInv
<1> SUFFICES ASSUME BookInit PROVE BookInv
  OBVIOUS
<1>1. ExchangeShape
  BY EndsOfSides DEF BookInit, ExchangeShape, Levels
<1>2. LinkShape /\ StoreShape /\ BookIsTrue
  BY <1>1 DEF BookInit, LinkShape, Linked, StoreShape, BookIsTrue, ExchangeShape
<1>3. Numbered /\ EpochsInOrder /\ InboxInPlace /\ ServedIsLast /\ FirstIsFull /\ SentIsOld
  BY DEF BookInit, Numbered, EpochsInOrder, InboxInPlace, ServedIsLast, FirstIsFull, SentIsOld
<1> QED
  BY <1>1, <1>2, <1>3 DEF BookInv

LEMMA BookStep == BookInv /\ [BookNext]_bookVars => BookInv'
<1> SUFFICES ASSUME BookInv, [BookNext]_bookVars PROVE BookInv'
  OBVIOUS
<1>1. CASE ExchangeStep
  BY <1>1, TradesKeep, PushesKeep, RepeatsKeep, RestartKeeps DEF ExchangeStep
<1>2. CASE LoopReaches \/ LoopGetsLock \/ LoopEnds \/ BackoffEnds
  <2>1. UNCHANGED <<exchangeVars, inbox, subbed, storeVars>>
    BY <1>2 DEF LoopReaches, LoopGetsLock, LoopEnds, BackoffEnds
  <2>2. LinkShape' /\ Linked' = Linked
    BY <1>2 DEF BookInv, LoopReaches, LoopGetsLock, LoopEnds, BackoffEnds, LinkShape, Linked,
                exchangeVars
  <2> QED
    BY <2>1, <2>2, MovesKeep
<1>3. CASE CallerAsks \/ CallerSends
  <2>1. UNCHANGED <<exchangeVars, inbox, subbed, storeVars>>
    BY <1>3 DEF CallerAsks, CallerSends
  <2>2. LinkShape' /\ Linked' = Linked
    BY <1>3 DEF BookInv, CallerAsks, CallerSends, LinkShape, Linked, exchangeVars
  <2> QED
    BY <2>1, <2>2, MovesKeep
<1>4. CASE UNCHANGED bookVars
  <2>1. UNCHANGED <<exchangeVars, inbox, subbed, storeVars>>
    BY <1>4 DEF bookVars, linkVars
  <2>2. LinkShape' /\ Linked' = Linked
    BY <1>4 DEF BookInv, bookVars, linkVars, exchangeVars, LinkShape, Linked
  <2> QED
    BY <2>1, <2>2, MovesKeep
<1> QED
  BY <1>1, <1>2, <1>3, <1>4, ReadsKeep, SubscriptionsKeep, ResetsKeep, EmptyingKeeps
     DEF BookNext, LinkStep, Failure, CallerStep

--------------------------------------------------------------------------------
LEMMA BookInvTypes == BookInv => BookTypeOK
<1> SUFFICES ASSUME BookInv PROVE BookTypeOK
  OBVIOUS
<1> USE DEF BookInv
<1>1. book \in [levels : SUBSET Levels, u : Nat, ready : BOOLEAN]
  <2>1. CASE book = EmptyBook
    BY <2>1 DEF EmptyBook
  <2>2. CASE bookAt > 0 /\ book = BookAtPos(bookAt)
    <3>1. /\ exchange[bookAt] \in SUBSET Levels /\ Number(bookAt) \in Nat
          /\ TwoSided(exchange[bookAt]) \in BOOLEAN
      BY <2>2 DEF ExchangeShape, StoreShape, Number, TwoSided
    <3> QED
      BY <2>2, <3>1 DEF BookAtPos
  <2> QED
    BY <2>1, <2>2 DEF BookIsTrue
<1> QED
  BY <1>1 DEF BookTypeOK, ExchangeShape, LinkShape, StoreShape, Levels

(* A book, its position and its quote have the values the code gives them, and *)
(* the connection is in one of its states, whatever the feed does.             *)
THEOREM BookTypeCorrect == BookSpec => []BookTypeOK
<1> QED
  BY BookInvTypes, BookInitHolds, BookStep, PTL DEF BookSpec

(* Every step of the feed is one that BookPromise allows, or changes nothing of it. *)
LEMMA BookStepIsPromised ==
  BookInv /\ [BookNext]_bookVars =>
      [Promise!PromiseNext]_<<exchange, IF book.ready THEN {book.levels} ELSE {}, bookAt, bookQuote>>
<1> SUFFICES ASSUME BookInv, [BookNext]_bookVars
             PROVE  [Promise!PromiseNext]_<<exchange, IF book.ready THEN {book.levels} ELSE {},
                                            bookAt, bookQuote>>
  OBVIOUS
<1> USE DEF BookInv
<1>1. CASE BookTrades \/ ServiceRestarts
  <2>1. PICK b \in SUBSET Levels : exchange' = Append(exchange, b)
    <3>1. CASE BookTrades
      <4>1. exchange[Len(exchange)] \in SUBSET Levels
        BY DEF ExchangeShape
      <4> QED
        BY <3>1, <4>1 DEF BookTrades, Levels
    <3>2. CASE ServiceRestarts
      BY <3>2, EndsOfSides DEF ServiceRestarts
    <3> QED
      BY <1>1, <3>1, <3>2
  <2>2. exchange \in Seq(SUBSET Levels)
    BY DEF ExchangeShape
  <2>4. Len(exchange') = Len(exchange) + 1 /\ SubSeq(exchange', 1, Len(exchange)) = exchange
    BY <2>1, <2>2, AppendProperties, SubSeqProperties
  <2>5. UNCHANGED storeVars
    BY <1>1 DEF BookTrades, ServiceRestarts
  <2> QED
    BY <2>4, <2>5 DEF storeVars, Promise!PromiseNext, Promise!Trades
<1>2. CASE Reads
  <2>1. UNCHANGED exchange
    BY <1>2 DEF Reads, exchangeVars
  <2>2. PICK pos : pos = inbox[1].pos
    OBVIOUS
  <2>3. pos \in 1..Len(exchange)
    <3>1. 1 \in 1..Len(inbox)
      BY <1>2 DEF Reads, ExchangeShape
    <3> QED
      BY <2>2, <3>1, InboxMessages
  <2>4. CASE TakesOver(pos)
    <3>1. /\ bookAt' = pos /\ bookAt <= pos
          /\ (book').levels = exchange[pos] /\ (book').ready = TwoSided(exchange[pos])
          /\ bookQuote' = IF TwoSided(exchange[pos]) THEN {BestOf(exchange[pos])} ELSE bookQuote
      BY <2>4 DEF TakesOver, BookAtPos
    <3>2. pos \in bookAt..Len(exchange) /\ pos > 0
      BY <2>3, <3>1 DEF StoreShape, ExchangeShape
    <3> QED
      BY <2>1, <3>1, <3>2 DEF Promise!PromiseNext, Promise!Shows
  <2>5. CASE UNCHANGED storeVars
    BY <2>1, <2>5 DEF storeVars
  <2> QED
    BY <1>2, <2>2, <2>4, <2>5, ReadsRightly
<1>3. CASE CallerChecks
  BY <1>3 DEF CallerChecks, EmptyBook, exchangeVars, Promise!PromiseNext, Promise!Hides
<1>4. CASE UNCHANGED <<exchange, storeVars>>
  BY <1>4 DEF storeVars
<1>5. Pushes \/ Repeats \/ Dials \/ LoopReaches \/ LoopGetsLock \/ LoopSent \/ LoopEnds
      \/ BackoffEnds \/ Failure \/ CallerAsks \/ CallerSends \/ CallerSent \/ UNCHANGED bookVars
      => UNCHANGED <<exchange, storeVars>>
  BY DEF Pushes, Repeats, Dials, LoopReaches, LoopGetsLock, LoopSent, LoopEnds, BackoffEnds, Failure,
         ClosesCleanly, Breaks, CallerAsks, CallerSends, CallerSent, bookVars, exchangeVars, storeVars
<1> QED
  BY <1>1, <1>2, <1>3, <1>4, <1>5 DEF BookNext, ExchangeStep, LinkStep, CallerStep

(* A reader of the book is shown only books the exchange really had, never an older one than *)
(* before, with their best prices: the merging and numbering of apply_delta and the          *)
(* connections of connect() keep the promise for any feed.                                   *)
THEOREM BookImplements == BookSpec => BookKeepsPromise
<1>1. BookInit => Promise!PromiseInit
  BY DEF BookInit, EmptyBook, Promise!PromiseInit
<1> QED
  BY <1>1, BookInitHolds, BookStep, BookStepIsPromised, PTL
     DEF BookSpec, BookKeepsPromise, Promise!PromiseSpec
=============================================================================
