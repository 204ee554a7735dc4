---------------------------- MODULE TokenBucket ----------------------------
(***************************************************************************)
(* engine/rate_limiter.py: one _TokenBucket and the coroutines that call   *)
(* acquire() on it.  Every caller of the same host shares one bucket (the  *)
(* names "coingecko", "geckoterminal" and "gecko" are one object), so the  *)
(* bucket is the only thing between the bot and an HTTP 429.               *)
(*                                                                         *)
(* Time is counted in ticks and tokens in fractions of a token: one call   *)
(* costs Unit fractions, a tick brings Rate of them.  asyncio.Lock serves  *)
(* its waiters in order and lets no newcomer overtake them, so the lock is *)
(* the sequence queue, whose head is the holder.                           *)
(***************************************************************************)
EXTENDS Integers, Sequences, FiniteSets

CONSTANTS
  Callers,    \* coroutines that call acquire()
  Unit,       \* fractions one call costs (the 1.0 of the code)
  Rate,       \* fractions a tick brings (self.rate)
  Capacity,   \* self.capacity, in fractions
  Early,      \* ticks a timer may fire early (resolution of the loop's clock)
  Late,       \* ticks the loop may be late in running a due timer
  MaxTime,    \* bound: the model's last tick
  LastCall,   \* bound: no call starts after this tick
  MaxGrants   \* bound: calls started in a behaviour

ASSUME BucketAssumption ==
  /\ Unit \in Nat \ {0}
  /\ Rate \in Nat \ {0}
  /\ Capacity \in Nat
  /\ {Early, Late, MaxTime, LastCall, MaxGrants} \subseteq Nat

VARIABLES
  now,        \* time.monotonic()
  tokens,     \* self._tokens
  last,       \* self._last
  queue,      \* callers inside `async with self._lock`, holder first
  wake,       \* when the holder's sleep (or its turn at the lock) is due
  grants      \* history: the times at which a call was let through

vars == <<now, tokens, last, queue, wake, grants>>
----------------------------------------------------------------------------
Least(a, b) == IF a <= b THEN a ELSE b

(* Mutant: the bucket fills without end. *)
RefilledUncapped(t) == t + (now - last) * Rate

(* Fractions in the bucket once the time since `last` is credited. *)
Refilled(t) == Least(Capacity, t + (now - last) * Rate)

(* (1.0 - tokens) / rate, rounded up to a tick. *)
Shortfall(t) == ((Unit - t) + Rate - 1) \div Rate

(* Mutant: the return is missing, so that the loop goes on with the lock held. *)
TurnNeverReturns(holder, rest) ==
  LET t == Refilled(tokens) IN
  /\ last' = now
  /\ tokens' = IF t >= Unit THEN t - Unit ELSE t
  /\ queue' = <<holder>> \o rest
  /\ wake' = now + IF t >= Unit THEN 0 ELSE Shortfall(t)
  /\ UNCHANGED <<now, grants>>

(* Mutant: the time just credited is credited again by the next turn. *)
TurnKeepsLast(holder, rest) ==
  LET t == Refilled(tokens) IN
  /\ UNCHANGED <<last, now>>
  /\ tokens' = IF t >= Unit THEN t - Unit ELSE t
  /\ grants' = IF t >= Unit THEN Append(grants, now) ELSE grants
  /\ queue' = IF t >= Unit THEN rest ELSE <<holder>> \o rest
  /\ wake' = now + IF t >= Unit THEN 0 ELSE Shortfall(t)

(* One turn of acquire()'s loop by the holder: refill, then either pay and *)
(* leave the lock to `rest`, or sleep with the lock held.                  *)
Turn(holder, rest) ==
  LET t == Refilled(tokens) IN
  /\ last' = now
  /\ IF t >= Unit
       THEN /\ tokens' = t - Unit
            /\ grants' = Append(grants, now)
            /\ queue' = rest
            /\ wake' = now
       ELSE /\ tokens' = t
            /\ queue' = <<holder>> \o rest
            /\ wake' = now + Shortfall(t)
            /\ UNCHANGED grants
  /\ UNCHANGED now

----------------------------------------------------------------------------
Init ==
  /\ now = 0
  /\ tokens = Capacity
  /\ last = 0
  /\ queue = <<>>
  /\ wake = 0
  /\ grants = <<>>

Waiting == {queue[i] : i \in 1..Len(queue)}

MayCall(c) ==
  /\ c \notin Waiting
  /\ now <= LastCall
  /\ Len(grants) + Len(queue) < MaxGrants

(* An uncontended `async with` does not suspend: the caller takes its      *)
(* first turn at once.                                                     *)
CallFree(c) ==
  /\ MayCall(c)
  /\ queue = <<>>
  /\ Turn(c, <<>>)

CallBusy(c) ==
  /\ MayCall(c)
  /\ queue # <<>>
  /\ queue' = Append(queue, c)
  /\ UNCHANGED <<now, tokens, last, wake, grants>>

(* The holder wakes from its sleep, or gets the lock from its predecessor. *)
HolderRuns ==
  /\ queue # <<>>
  /\ now + Early >= wake
  /\ Turn(Head(queue), Tail(queue))

(* The loop runs a due timer at most Late ticks after it is due. *)
Tick ==
  /\ now < MaxTime
  /\ queue # <<>> => now < wake + Late
  /\ now' = now + 1
  /\ UNCHANGED <<tokens, last, queue, wake, grants>>

Next ==
  \/ \E c \in Callers : CallFree(c) \/ CallBusy(c)
  \/ HolderRuns
  \/ Tick

Spec == Init /\ [][Next]_vars

(* The event loop goes on running due timers and the clock goes on. *)
FairSpec == Spec /\ WF_vars(HolderRuns) /\ WF_vars(Tick)
----------------------------------------------------------------------------
(* The bucket never holds more than its capacity nor less than nothing,    *)
(* and its clock reading is never ahead of the clock.                      *)
TypeOK ==
  /\ now \in Nat
  /\ tokens \in 0..Capacity
  /\ last \in 0..now
  /\ queue \in Seq(Callers)
  /\ wake \in Nat
  /\ grants \in Seq(Nat)

(* What the module promises ("we cap ourselves at a lower number ... to    *)
(* stay well clear of bursts that trip 429"): in ANY window, from the i-th *)
(* call let through to the j-th, the calls cost no more than one full      *)
(* bucket plus what the window's length brings.  An idle hour, a late      *)
(* wake-up or a queue of waiters buys nobody more.                         *)
RateBound ==
  \A i, j \in 1..Len(grants) :
    i <= j => (j - i + 1) * Unit <= Capacity + (grants[j] - grants[i]) * Rate

(* A caller blocked in acquire() is let through, however many others are   *)
(* ahead of it and whatever calls arrive behind it.                        *)
EveryCallServed == \A c \in Callers : c \in Waiting ~> c \notin Waiting
=============================================================================
