------------------------- MODULE TokenBucketProofs -------------------------
(***************************************************************************)
(* The rate bound of the token bucket, for every set of callers, rate,     *)
(* capacity and any number of calls.                                       *)
(*                                                                         *)
(* RateBound alone is not inductive: it says nothing of the fractions      *)
(* still in the bucket, which pay for the next call.  Credit adds them:    *)
(* from the i-th call on, what was paid plus what is left never exceeds    *)
(* one full bucket plus what the time up to the last refill brought.       *)
(***************************************************************************)
EXTENDS TokenBucket, TLAPS

(* What n calls cost, and what the time from a to b brings. *)
Paid(n) == n * Unit
Brought(a, b) == (b - a) * Rate

Credit ==
  \A i \in 1..Len(grants) :
    Paid(Len(grants) - i + 1) + tokens <= Capacity + Brought(grants[i], last)

PastGrants == \A i \in 1..Len(grants) : grants[i] <= last

IInv == TypeOK /\ PastGrants /\ Credit /\ RateBound
----------------------------------------------------------------------------
(* Arithmetic of the refill: it stays within the bucket and adds no more   *)
(* than the elapsed time brings.                                           *)
LEMMA RefillBounds ==
  ASSUME NEW t \in 0..Capacity, TypeOK
  PROVE  /\ Refilled(t) \in 0..Capacity
         /\ Refilled(t) <= t + Brought(last, now)
<1>1. now - last \in Nat /\ Rate \in Nat /\ Capacity \in Nat
  BY BucketAssumption DEF TypeOK
<1>2. Brought(last, now) \in Nat
  BY <1>1 DEF Brought
<1>3. t + Brought(last, now) \in Nat
  BY <1>1, <1>2
<1> QED
  BY <1>1, <1>3 DEF Refilled, Least, Brought

(* Distributivity, the only non-linear facts the argument needs. *)
LEMMA PaidOneMore ==
  ASSUME NEW n \in Int
  PROVE  /\ Paid(n) \in Int
         /\ Paid(n + 1) = Paid(n) + Unit
         /\ Paid(1) = Unit
  BY BucketAssumption DEF Paid

LEMMA ElapsedSplits ==
  ASSUME NEW a \in Int, NEW b \in Int, NEW c \in Int
  PROVE  /\ Brought(b, a) \in Int
         /\ Brought(b, a) + Brought(c, b) = Brought(c, a)
         /\ Brought(a, a) = 0
  BY BucketAssumption DEF Brought

(* The credit at the last refill, carried over to this one. *)
LEMMA CreditCarries ==
  ASSUME NEW paid \in Int, NEW old \in Int, NEW new \in Int,
         NEW m \in Int, NEW l \in Int, NEW g \in Int,
         new <= old + Brought(l, m),
         paid + old <= Capacity + Brought(g, l)
  PROVE  paid + new <= Capacity + Brought(g, m)
<1>1. /\ Brought(l, m) \in Int
      /\ Brought(g, l) \in Int
      /\ Brought(g, m) \in Int
      /\ Brought(l, m) + Brought(g, l) = Brought(g, m)
      /\ Capacity \in Int
  BY ElapsedSplits, BucketAssumption
<1> QED
  BY <1>1
----------------------------------------------------------------------------
LEMMA InitIInv == Init => IInv
  BY BucketAssumption DEF Init, IInv, TypeOK, PastGrants, Credit, RateBound,
                          Paid, Brought

(* A turn that pays: the new call joins the history. *)
LEMMA TurnPays ==
  ASSUME IInv, NEW c \in Callers, NEW rest \in Seq(Callers), Turn(c, rest),
         Refilled(tokens) >= Unit
  PROVE  IInv'
<1> DEFINE t == Refilled(tokens)
           n == Len(grants)
<1>1. /\ tokens' = t - Unit
      /\ grants' = Append(grants, now)
      /\ queue' = rest
      /\ last' = now /\ now' = now /\ wake' = now
  BY DEF Turn
<1>2. /\ t \in 0..Capacity
      /\ t <= tokens + Brought(last, now)
  BY RefillBounds DEF IInv, TypeOK
<1>3. /\ Unit \in Nat /\ Rate \in Nat /\ Capacity \in Nat
      /\ grants \in Seq(Nat) /\ n \in Nat
      /\ now \in Nat /\ last \in Nat /\ last <= now /\ tokens \in Nat
  BY BucketAssumption DEF IInv, TypeOK
<1>4. /\ Len(grants') = n + 1
      /\ \A i \in 1..n : grants'[i] = grants[i] /\ grants[i] \in Nat
      /\ grants'[n + 1] = now
      /\ grants' \in Seq(Nat)
  BY <1>1, <1>3
<1>5. TypeOK'
  BY <1>1, <1>2, <1>3, <1>4 DEF TypeOK
<1>6. PastGrants'
  BY <1>1, <1>3, <1>4 DEF IInv, PastGrants
<1>7. Credit'
  <2> SUFFICES ASSUME NEW i \in 1..(n + 1)
               PROVE  Paid((n + 1) - i + 1) + (t - Unit)
                        <= Capacity + Brought(grants'[i], now)
    BY <1>1, <1>4 DEF Credit
  <2>1. CASE i = n + 1
    <3>1. Paid((n + 1) - i + 1) = Unit
      BY <2>1, <1>3, PaidOneMore
    <3>2. Brought(grants'[i], now) = 0
      BY <2>1, <1>3, <1>4, ElapsedSplits
    <3> QED
      BY <3>1, <3>2, <1>2, <1>3
  <2>2. CASE i \in 1..n
    <3> DEFINE k == n - i + 1
               g == grants[i]
    <3>1. k \in Int /\ (n + 1) - i + 1 = k + 1 /\ g \in Int
      BY <2>2, <1>3, <1>4
    <3>2. Paid(k + 1) = Paid(k) + Unit /\ Paid(k) \in Int
      BY <3>1, PaidOneMore
    <3>3. Paid(k) + tokens <= Capacity + Brought(g, last)
      BY <2>2 DEF IInv, Credit
    <3>4. t \in Int
      BY <1>2, <1>3
    <3>5. grants'[i] = g
      BY <2>2, <1>4
    <3> HIDE DEF k, t, g
    <3>6. Paid(k) + t <= Capacity + Brought(g, now)
      BY <1>2, <1>3, <3>1, <3>2, <3>3, <3>4, CreditCarries
    <3>7. Brought(g, now) \in Int
      BY <1>3, <3>1, ElapsedSplits
    <3>8. Paid(k + 1) + (t - Unit) <= Capacity + Brought(g, now)
      BY <1>3, <3>2, <3>4, <3>6, <3>7
    <3> QED
      BY <3>1, <3>5, <3>8
  <2> QED
    BY <2>1, <2>2, <1>3
<1>8. RateBound'
  <2> SUFFICES ASSUME NEW i \in 1..(n + 1), NEW j \in 1..(n + 1), i <= j
               PROVE  Paid(j - i + 1)
                        <= Capacity + Brought(grants'[i], grants'[j])
    BY <1>4 DEF RateBound, Paid, Brought
  <2>1. CASE j = n + 1
    <3>1. Paid((n + 1) - i + 1) + (t - Unit)
            <= Capacity + Brought(grants'[i], now)
      BY <1>1, <1>4, <1>7 DEF Credit
    <3>2. grants'[i] \in Int
      BY <1>3, <1>4
    <3>3. Paid((n + 1) - i + 1) \in Int /\ Brought(grants'[i], now) \in Int
      <4>1. (n + 1) - i + 1 \in Int /\ now \in Int
        BY <1>3
      <4> QED
        BY <4>1, <3>2, PaidOneMore, ElapsedSplits
    <3>4. grants'[j] = now /\ t - Unit \in Nat /\ j = n + 1
      BY <2>1, <1>2, <1>3, <1>4
    <3> HIDE DEF n, t
    <3>5. Paid((n + 1) - i + 1) <= Capacity + Brought(grants'[i], now)
      BY <3>1, <3>3, <3>4, <1>3
    <3> QED
      BY <3>4, <3>5
  <2>2. CASE j \in 1..n
    <3>1. i \in 1..n
      BY <2>2, <1>3
    <3> QED
      BY <2>2, <3>1, <1>4 DEF IInv, RateBound, Paid, Brought
  <2> QED
    BY <2>1, <2>2, <1>3
<1> QED
  BY <1>5, <1>6, <1>7, <1>8 DEF IInv

(* A turn that must sleep: only the refill is written back. *)
LEMMA TurnSleeps ==
  ASSUME IInv, NEW c \in Callers, NEW rest \in Seq(Callers), Turn(c, rest),
         ~(Refilled(tokens) >= Unit)
  PROVE  IInv'
<1> DEFINE t == Refilled(tokens)
<1>1. /\ tokens' = t
      /\ queue' = <<c>> \o rest
      /\ wake' = now + Shortfall(t)
      /\ last' = now /\ now' = now /\ grants' = grants
  BY DEF Turn
<1>2. /\ t \in 0..Capacity
      /\ t <= tokens + Brought(last, now)
  BY RefillBounds DEF IInv, TypeOK
<1>3. /\ Unit \in Nat /\ Rate \in Nat \ {0} /\ Capacity \in Nat
      /\ grants \in Seq(Nat) /\ Len(grants) \in Nat
      /\ now \in Nat /\ last \in Nat /\ last <= now /\ tokens \in Nat
  BY BucketAssumption DEF IInv, TypeOK
<1>4. TypeOK'
  <2>1. Shortfall(t) \in Nat
    <3>1. (Unit - t) + Rate - 1 \in Nat
      BY <1>2, <1>3
    <3> HIDE DEF t
    <3> QED
      BY <3>1, <1>3 DEF Shortfall
  <2>2. queue' \in Seq(Callers)
    BY <1>1
  <2> QED
    BY <1>1, <1>2, <1>3, <2>1, <2>2 DEF TypeOK
<1>5. PastGrants'
  BY <1>1, <1>3 DEF IInv, PastGrants
<1>6. Credit'
  <2> SUFFICES ASSUME NEW i \in 1..Len(grants)
               PROVE  Paid(Len(grants) - i + 1) + t
                        <= Capacity + Brought(grants[i], now)
    BY <1>1 DEF Credit
  <2>1. grants[i] \in Nat
    BY <1>3
  <2>2. Paid(Len(grants) - i + 1) + tokens
          <= Capacity + Brought(grants[i], last)
    BY DEF IInv, Credit
  <2>3. Paid(Len(grants) - i + 1) \in Int
    BY <1>3, PaidOneMore
  <2>4. t \in Int
    BY <1>2, <1>3
  <2> HIDE DEF t
  <2> QED
    BY <1>2, <1>3, <2>1, <2>2, <2>3, <2>4, CreditCarries
<1>7. RateBound'
  BY <1>1 DEF IInv, RateBound
<1> QED
  BY <1>4, <1>5, <1>6, <1>7 DEF IInv

LEMMA TurnIInv ==
  ASSUME IInv, NEW c \in Callers, NEW rest \in Seq(Callers), Turn(c, rest)
  PROVE  IInv'
  BY TurnPays, TurnSleeps
----------------------------------------------------------------------------
LEMMA NextIInv == IInv /\ [Next]_vars => IInv'
<1> SUFFICES ASSUME IInv, [Next]_vars PROVE IInv'
  OBVIOUS
<1>1. ASSUME NEW c \in Callers, CallFree(c) PROVE IInv'
  <2>1. <<>> \in Seq(Callers)
    OBVIOUS
  <2> QED
    BY <1>1, <2>1, TurnIInv DEF CallFree
<1>2. ASSUME NEW c \in Callers, CallBusy(c) PROVE IInv'
  <2>1. queue' \in Seq(Callers)
    BY <1>2 DEF CallBusy, IInv, TypeOK
  <2> QED
    BY <1>2, <2>1 DEF CallBusy, IInv, TypeOK, PastGrants, Credit, RateBound
<1>3. CASE HolderRuns
  <2>1. Head(queue) \in Callers /\ Tail(queue) \in Seq(Callers)
    BY <1>3 DEF HolderRuns, IInv, TypeOK
  <2> QED
    BY <1>3, <2>1, TurnIInv DEF HolderRuns
<1>4. CASE Tick
  BY <1>4 DEF Tick, IInv, TypeOK, PastGrants, Credit, RateBound
<1>5. CASE UNCHANGED vars
  BY <1>5 DEF vars, IInv, TypeOK, PastGrants, Credit, RateBound
<1> QED
  BY <1>1, <1>2, <1>3, <1>4, <1>5 DEF Next

(* The bucket's level and clocks stay in range. *)
THEOREM BucketTypeCorrect == Spec => []TypeOK
<1>1. IInv => TypeOK
  BY DEF IInv
<1> QED
  BY InitIInv, NextIInv, <1>1, PTL DEF Spec

(* acquire() never lets more calls through, in any window of time, than a  *)
(* full bucket plus what the window brings: whatever the callers do, for   *)
(* every rate and capacity.                                                *)
THEOREM BucketRateBound == Spec => []RateBound
<1>1. IInv => RateBound
  BY DEF IInv
<1> QED
  BY InitIInv, NextIInv, <1>1, PTL DEF Spec
=============================================================================
