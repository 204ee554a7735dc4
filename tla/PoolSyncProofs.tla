--------------------------- MODULE PoolSyncProofs ---------------------------
(***************************************************************************)
(* No request for a pool sweep is forgotten, for every set of tokens.      *)
(*                                                                         *)
(* NoRequestForgotten needs nothing but itself; TypeOK needs to know that  *)
(* whoever is inside the lock is at the head of its queue, so that leaving *)
(* it removes the right one, and that what is being swept has been         *)
(* enumerated.                                                             *)
(***************************************************************************)
EXTENDS PoolSync, TLAPS

InsideHolds ==
  /\ task = "sweeping" => Holds("runner")
  /\ loop = "sweeping" => Holds("loop")
  /\ other = "holding" => Holds("other")
  /\ reading \subseteq attempted

IInv == TypeOK /\ InsideHolds /\ NoRequestForgotten
----------------------------------------------------------------------------
(* Queueing keeps the head; leaving keeps a queue. *)
LEMMA QueueFacts ==
  ASSUME NEW q \in Seq(Contenders), NEW a \in Contenders
  PROVE  /\ Append(q, a) \in Seq(Contenders)
         /\ Append(q, a) # <<>>
         /\ q = <<>> => Head(Append(q, a)) = a
         /\ q # <<>> => /\ Head(Append(q, a)) = Head(q)
                        /\ Tail(q) \in Seq(Contenders)
<1>1. Append(q, a) \in Seq(Contenders) /\ Append(q, a) # <<>>
  <2>1. Append(q, a) \in Seq(Contenders)
    OBVIOUS
  <2>2. Len(Append(q, a)) = Len(q) + 1 /\ Len(q) \in Nat
    OBVIOUS
  <2>3. Len(<<>>) = 0
    OBVIOUS
  <2> QED
    BY <2>1, <2>2, <2>3
<1>2. q = <<>> => Head(Append(q, a)) = a
  OBVIOUS
<1>3. ASSUME q # <<>>
      PROVE  Head(Append(q, a)) = Head(q) /\ Tail(q) \in Seq(Contenders)
  <2>1. Len(q) \in Nat /\ Len(q) # 0 /\ Len(Append(q, a)) = Len(q) + 1
    BY <1>3
  <2>2. Head(q) = q[1] /\ Head(Append(q, a)) = Append(q, a)[1]
    BY <1>1, <1>3
  <2>3. Append(q, a)[1] = q[1]
    BY <2>1
  <2>4. Tail(q) \in Seq(Contenders)
    BY <1>3
  <2> QED
    BY <2>2, <2>3, <2>4
<1> QED
  BY <1>1, <1>2, <1>3

LEMMA ContenderNames ==
  /\ "runner" \in Contenders /\ "loop" \in Contenders /\ "other" \in Contenders
  BY DEF Contenders

LEMMA InitIInv == Init => IInv
<1> SUFFICES ASSUME Init PROVE IInv
  OBVIOUS
<1>1. lock \in Seq(Contenders)
  BY DEF Init
<1>2. TypeOK
  <2>1. fails \in 0..MaxFails
    BY SyncAssumption DEF Init
  <2>2. /\ known \subseteq Tokens /\ reading \subseteq known
        /\ attempted \subseteq known /\ covered \subseteq attempted
        /\ rerun \in BOOLEAN
    BY DEF Init
  <2>3. /\ task \in {"done", "debounce", "waiting", "sweeping"}
        /\ loop \in {"sleep", "waiting", "sweeping"}
        /\ other \in {"away", "waiting", "holding"}
    BY DEF Init
  <2> QED
    BY <1>1, <2>1, <2>2, <2>3 DEF TypeOK
<1>3. InsideHolds /\ NoRequestForgotten
  BY DEF Init, InsideHolds, NoRequestForgotten
<1> QED
  BY <1>2, <1>3 DEF IInv

LEMMA NextIInv == IInv /\ [Next]_vars => IInv'
<1> SUFFICES ASSUME IInv, [Next]_vars PROVE IInv'
  OBVIOUS
<1> USE SyncAssumption DEF IInv, TypeOK, InsideHolds, NoRequestForgotten,
                           Promised, Holds
<1>1. ASSUME NEW t \in Tokens, Merge(t) PROVE IInv'
  BY <1>1 DEF Merge, Schedule
<1>2. CASE Ask
  BY <1>2 DEF Ask, Schedule
<1>3. CASE DebounceOver
  BY <1>3, QueueFacts, ContenderNames DEF DebounceOver, LockFree, StartReading
<1>4. CASE RunnerReads
  BY <1>4 DEF RunnerReads, StartReading
<1>5. CASE RunnerEnds
  <2>1. Tail(lock) \in Seq(Contenders)
    BY <1>5, QueueFacts, ContenderNames DEF RunnerEnds
  <2>2. covered' \subseteq attempted /\ fails' \in 0..MaxFails
    BY <1>5 DEF RunnerEnds, SweepResult
  <2> QED
    BY <1>5, <2>1, <2>2 DEF RunnerEnds, AfterSweep
<1>6. CASE LoopTick
  BY <1>6, QueueFacts, ContenderNames DEF LoopTick, LockFree, StartReading
<1>7. CASE LoopReads
  BY <1>7 DEF LoopReads, StartReading
<1>8. CASE LoopEnds
  <2>1. Tail(lock) \in Seq(Contenders)
    BY <1>8, QueueFacts, ContenderNames DEF LoopEnds
  <2>2. covered' \subseteq attempted /\ fails' \in 0..MaxFails
    BY <1>8 DEF LoopEnds, SweepResult
  <2> QED
    BY <1>8, <2>1, <2>2 DEF LoopEnds
<1>9. CASE OtherAsks
  BY <1>9, QueueFacts, ContenderNames DEF OtherAsks, LockFree
<1>10. CASE OtherHolds
  BY <1>10 DEF OtherHolds
<1>11. CASE OtherReleases
  BY <1>11, QueueFacts, ContenderNames DEF OtherReleases
<1>12. CASE UNCHANGED vars
  BY <1>12 DEF vars
<1> QED
  BY <1>1, <1>2, <1>3, <1>4, <1>5, <1>6, <1>7, <1>8, <1>9, <1>10, <1>11, <1>12
     DEF Next

(* The states of the runner, the minute loop and the lock stay in range. *)
THEOREM SyncTypeCorrect == Spec => []TypeOK
<1>1. IInv => TypeOK
  BY DEF IInv
<1> QED
  BY InitIInv, NextIInv, <1>1, PTL DEF Spec

(* background_task.py: a token added while a sweep runs, waits or is       *)
(* debounced keeps the runner bound to enumerate the cache again, however  *)
(* many tokens are added and whoever holds the lock.                       *)
THEOREM SyncForgetsNoRequest == Spec => []NoRequestForgotten
<1>1. IInv => NoRequestForgotten
  BY DEF IInv
<1> QED
  BY InitIInv, NextIInv, <1>1, PTL DEF Spec
=============================================================================
