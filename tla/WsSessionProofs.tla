-------------------------- MODULE WsSessionProofs --------------------------
(***************************************************************************)
(* Sessions follow the pool file, for every set of rows, every number and  *)
(* kind of endpoints and every number of rewrites.  NoChangeMissed is kept *)
(* by every step once the types are known: the history variable `undone`   *)
(* records the one thing it would otherwise have to remember.              *)
(***************************************************************************)
EXTENDS WsSession, TLAPS

LEMMA MonitorNames == Monitors \subseteq {"chain", "v4"} /\ "chain" \in Monitors
BY SessionAssumption

(* The cursor stays on the list. *)
LEMMA RotatedStaysOnList ==
  ASSUME cursor \in Endpoints
  PROVE  Rotated \in Endpoints
BY SessionAssumption DEF Rotated, Endpoints

LEMMA FirstEndpoint == 0 \in Endpoints
BY SessionAssumption DEF Endpoints

LEMMA InitType == Init => TypeOK
<1> SUFFICES ASSUME Init PROVE TypeOK
  OBVIOUS
<1>1. file \in SUBSET Rows /\ known \in SUBSET Rows
  BY SessionAssumption DEF Init
<1>2. writes \in 0..MaxWrites
  BY SessionAssumption DEF Init
<1>3. url \in [Monitors -> Endpoints] /\ cursor \in Endpoints
  BY FirstEndpoint DEF Init
<1>4. /\ stage \in [Monitors -> {"idle", "init", "connecting", "live", "asleep"}]
      /\ erring \in [Monitors -> BOOLEAN]
  BY DEF Init
<1> QED
  BY <1>1, <1>2, <1>3, <1>4 DEF Init, TypeOK

Stages == {"idle", "init", "connecting", "live", "asleep"}

(* What a session leaves behind when it ends. *)
LEMMA LeavesTypes ==
  ASSUME TypeOK, NEW m \in Monitors, NEW s \in Stages, Leaves(m, s)
  PROVE  /\ stage' \in [Monitors -> Stages]
         /\ url' \in [Monitors -> Endpoints]
         /\ loaded' \in SUBSET Rows
         /\ subscribed' \subseteq cached
<1>1. stage' \in [Monitors -> Stages]
  BY DEF TypeOK, Leaves, Goes, Stages
<1>2. url' \in [Monitors -> Endpoints]
  BY FirstEndpoint DEF TypeOK, Leaves
<1>3. loaded' \in SUBSET Rows /\ subscribed' \subseteq cached
  BY DEF TypeOK, Leaves
<1> QED
  BY <1>1, <1>2, <1>3

(* A session that ends well changes nothing but its own state. *)
LEMMA EndTypes ==
  ASSUME TypeOK, NEW m \in Monitors, NEW s \in {"idle", "asleep"}, EndsWell(m, s),
         UNCHANGED <<file, touched, known, writes, cursor, cached>>,
         event' \in BOOLEAN, undone' \in BOOLEAN
  PROVE  TypeOK'
<1>1. s \in Stages /\ Leaves(m, s)
  BY DEF EndsWell, Stages
<1>2. erring' \in [Monitors -> BOOLEAN]
  BY DEF TypeOK, EndsWell
<1> QED
  BY <1>1, <1>2, LeavesTypes DEF TypeOK, Stages

(* The steps both sessions have. *)
LEMMA SharedTypes ==
  ASSUME TypeOK, NEW m \in Monitors,
         Connects(m) \/ Refused(m) \/ Stumbles(m) \/ LiveEnds(m) \/ Wakes(m)
  PROVE  TypeOK'
<1>1. CASE Connects(m)
  BY <1>1 DEF TypeOK, Connects, Goes, poolFile, v4Sets
<1>2. CASE Refused(m) \/ Stumbles(m)
  <2> PICK banned \in BOOLEAN : Error(m, banned)
    BY <1>2 DEF Refused, Stumbles
  <2>1. erring' \in [Monitors -> BOOLEAN]
    BY DEF TypeOK, Error
  <2>2. cursor' \in Endpoints
    BY RotatedStaysOnList DEF TypeOK, Error
  <2>3. Leaves(m, "asleep") /\ "asleep" \in Stages
    BY DEF Error, Stages
  <2> QED
    BY <2>1, <2>2, <2>3, LeavesTypes DEF TypeOK, Error, poolFile, Stages
<1>3. CASE LiveEnds(m)
  BY <1>3, EndTypes DEF TypeOK, LiveEnds, poolFile
<1>4. CASE Wakes(m)
  BY <1>4 DEF TypeOK, Wakes, Goes, poolFile, v4Sets
<1> QED
  BY <1>1, <1>2, <1>3, <1>4

LEMMA ChainTypes ==
  ASSUME TypeOK, ChainStarts \/ ChainInit \/ ChainRestarts
  PROVE  TypeOK'
<1>1. CASE ChainStarts
  <2>1. CASE EndsWell("chain", "asleep")
    BY <1>1, <2>1, MonitorNames, EndTypes DEF TypeOK, ChainStarts
  <2>2. CASE /\ Goes("chain", "init")
             /\ url' = [url EXCEPT !["chain"] = cursor]
             /\ loaded' = file
             /\ UNCHANGED <<erring, subscribed>>
    BY <1>1, <2>2, MonitorNames DEF TypeOK, ChainStarts, Goes
  <2> QED
    BY <1>1, <2>1, <2>2 DEF ChainStarts
<1>2. CASE ChainInit
  <2>1. CASE EndsWell("chain", "asleep")
    BY <1>2, <2>1, MonitorNames, EndTypes DEF TypeOK, ChainInit, poolFile
  <2>2. CASE /\ Goes("chain", "connecting")
             /\ UNCHANGED <<url, erring, loaded, subscribed>>
    BY <1>2, <2>2, MonitorNames DEF TypeOK, ChainInit, Goes, poolFile
  <2> QED
    BY <1>2, <2>1, <2>2 DEF ChainInit
<1>3. CASE ChainRestarts
  BY <1>3, MonitorNames, EndTypes DEF TypeOK, ChainRestarts, poolFile
<1> QED
  BY <1>1, <1>2, <1>3

LEMMA V4Types ==
  ASSUME TypeOK, V4Starts \/ V4Reloads
  PROVE  TypeOK'
<1>1. CASE V4Starts
  <2>1. CASE EndsWell("v4", "asleep")
    BY <1>1, <2>1, EndTypes DEF TypeOK, V4Starts, poolFile
  <2>2. CASE /\ Goes("v4", "connecting")
             /\ url' = [url EXCEPT !["v4"] = cursor]
             /\ subscribed' = cached
             /\ UNCHANGED <<erring, loaded>>
    BY <1>1, <2>2 DEF TypeOK, V4Starts, Goes, poolFile
  <2> QED
    BY <1>1, <2>1, <2>2 DEF V4Starts
<1>2. CASE V4Reloads
  BY <1>2, EndTypes DEF TypeOK, V4Reloads, poolFile
<1> QED
  BY <1>1, <1>2

LEMMA StepType == TypeOK /\ [Next]_vars => TypeOK'
<1> SUFFICES ASSUME TypeOK, [Next]_vars PROVE TypeOK'
  OBVIOUS
<1>1. ASSUME NEW rows \in SUBSET Rows, Write(rows) PROVE TypeOK'
  BY <1>1, SessionAssumption DEF TypeOK, Write, v4Sets
<1>2. CASE Signal
  BY <1>2 DEF TypeOK, Signal, poolFile, v4Sets
<1>3. CASE WatcherPolls
  BY <1>3 DEF TypeOK, WatcherPolls, v4Sets
<1>4. ASSUME NEW p \in V4Pools, V4Added(p) PROVE TypeOK'
  BY <1>4 DEF TypeOK, V4Added, poolFile
<1>5. CASE UNCHANGED vars
  BY <1>5 DEF TypeOK, vars
<1> QED
  BY <1>1, <1>2, <1>3, <1>4, <1>5, SharedTypes, ChainTypes, V4Types DEF Next

(* Whatever endpoints there are and however often the file is rewritten,   *)
(* the sessions' state keeps its type; the cursor never leaves the list of *)
(* endpoints.                                                              *)
THEOREM SessionTypeCorrect == Spec => []TypeOK
<1> QED
  BY InitType, StepType, PTL DEF Spec
----------------------------------------------------------------------------
(* A step that leaves the file, the event and what is loaded alone, and    *)
(* does not put the V2/V3 session to work.                                 *)
LEMMA FeedUntouched ==
  ASSUME NoChangeMissed, UNCHANGED <<poolFile, event, loaded>>, AtWork' => AtWork
  PROVE  NoChangeMissed'
BY DEF NoChangeMissed, poolFile

(* A session that ends: either the V2/V3 session works no more, or it is   *)
(* not concerned.                                                          *)
LEMMA LeavesFollows ==
  ASSUME TypeOK, NoChangeMissed, NEW m \in Monitors, NEW s \in {"idle", "asleep"},
         Leaves(m, s), UNCHANGED <<poolFile, event>>
  PROVE  NoChangeMissed'
<1>1. CASE m = "chain"
  <2>1. ~AtWork'
    BY <1>1, MonitorNames DEF TypeOK, AtWork, Leaves, Goes
  <2> QED
    BY <2>1 DEF NoChangeMissed
<1>2. CASE m # "chain"
  <2>1. UNCHANGED loaded
    BY <1>2 DEF Leaves
  <2>2. AtWork' => AtWork
    BY <1>2, MonitorNames DEF TypeOK, AtWork, Leaves, Goes
  <2> QED
    BY <2>1, <2>2, FeedUntouched
<1> QED
  BY <1>1, <1>2

LEMMA SharedFollows ==
  ASSUME TypeOK, NoChangeMissed, NEW m \in Monitors,
         Connects(m) \/ Refused(m) \/ Stumbles(m) \/ LiveEnds(m) \/ Wakes(m)
  PROVE  NoChangeMissed'
<1>1. CASE Connects(m) \/ Wakes(m)
  <2>1. UNCHANGED <<poolFile, event, loaded>>
    BY <1>1 DEF Connects, Wakes
  <2>2. AtWork' => AtWork
    BY <1>1, MonitorNames DEF TypeOK, AtWork, Connects, Wakes, Goes
  <2> QED
    BY <2>1, <2>2, FeedUntouched
<1>2. CASE Refused(m) \/ Stumbles(m)
  BY <1>2, LeavesFollows DEF Refused, Stumbles, Error
<1>3. CASE LiveEnds(m)
  BY <1>3, LeavesFollows DEF LiveEnds, EndsWell
<1> QED
  BY <1>1, <1>2, <1>3

LEMMA StepFollows == TypeOK /\ NoChangeMissed /\ [Next]_vars => NoChangeMissed'
<1> SUFFICES ASSUME TypeOK, NoChangeMissed, [Next]_vars PROVE NoChangeMissed'
  OBVIOUS
<1>1. ASSUME NEW rows \in SUBSET Rows, Write(rows) PROVE NoChangeMissed'
  \* The new rows are the watcher's: then a change was taken back, or
  \* nothing changed.
  BY <1>1 DEF Write, NoChangeMissed, AtWork
<1>2. CASE Signal
  BY <1>2 DEF Signal, NoChangeMissed
<1>3. CASE WatcherPolls
  BY <1>3 DEF WatcherPolls, NoChangeMissed, AtWork
<1>4. CASE ChainStarts
  <2>1. CASE EndsWell("chain", "asleep")
    <3>1. ~AtWork'
      BY <2>1, MonitorNames DEF TypeOK, AtWork, EndsWell, Leaves, Goes
    <3> QED
      BY <3>1 DEF NoChangeMissed
  <2>2. CASE loaded' = file
    BY <1>4, <2>2 DEF ChainStarts, NoChangeMissed
  <2> QED
    BY <1>4, <2>1, <2>2 DEF ChainStarts
<1>5. CASE ChainInit
  <2>1. CASE EndsWell("chain", "asleep")
    BY <1>5, <2>1, MonitorNames, LeavesFollows DEF ChainInit, EndsWell
  <2>2. CASE Goes("chain", "connecting") /\ UNCHANGED loaded
    <3>1. AtWork
      BY <1>5 DEF ChainInit, AtWork
    <3> QED
      BY <1>5, <2>2, <3>1, FeedUntouched DEF ChainInit
  <2> QED
    BY <1>5, <2>1, <2>2 DEF ChainInit
<1>6. CASE ChainRestarts
  BY <1>6, MonitorNames, LeavesFollows DEF ChainRestarts, EndsWell
<1>7. CASE V4Starts
  <2>1. CASE EndsWell("v4", "asleep")
    BY <1>7, <2>1, LeavesFollows DEF V4Starts, EndsWell
  <2>2. CASE Goes("v4", "connecting") /\ UNCHANGED loaded
    <3>1. AtWork' => AtWork
      BY <2>2, MonitorNames DEF TypeOK, AtWork, Goes
    <3> QED
      BY <1>7, <2>2, <3>1, FeedUntouched DEF V4Starts
  <2> QED
    BY <1>7, <2>1, <2>2 DEF V4Starts
<1>8. CASE V4Reloads
  BY <1>8, LeavesFollows DEF V4Reloads, EndsWell
<1>9. ASSUME NEW p \in V4Pools, V4Added(p) PROVE NoChangeMissed'
  BY <1>9, FeedUntouched DEF V4Added, AtWork
<1>10. CASE UNCHANGED vars
  BY <1>10, FeedUntouched DEF vars, AtWork, poolFile
<1> QED
  BY <1>1, <1>2, <1>3, <1>4, <1>5, <1>6, <1>7, <1>8, <1>9, <1>10,
     SharedFollows DEF Next

(* No change of the pool file is missed by a session at work, but one that *)
(* was undone between two polls of the watcher.                            *)
THEOREM SessionMissesNoChange == Spec => []NoChangeMissed
<1>1. Init => TypeOK /\ NoChangeMissed
  BY InitType, MonitorNames DEF Init, NoChangeMissed, AtWork
<1>2. TypeOK /\ NoChangeMissed /\ [Next]_vars => (TypeOK /\ NoChangeMissed)'
  BY StepType, StepFollows
<1> QED
  BY <1>1, <1>2, PTL DEF Spec
=============================================================================
