--------------------------- MODULE PollingProofs ---------------------------
(***************************************************************************)
(* What the two REST pollers promise the scanner, for any tickers, naps    *)
(* and times to live: a depth book is of the present watch unless a fetch  *)
(* outlived an earlier one, and a wrong network flag is seen within a nap. *)
(* And what the scan promises its reader, for any exchanges and prices:    *)
(* the list logged last is the present one.                                *)
(***************************************************************************)
EXTENDS MCPolling, FiniteSetTheorems, TLAPS

--------------------------------------------------------------------------------
(* The depth watch.  Whatever is on its way for a ticker - task, mark, fetch *)
(* or book - belongs to its present watch, or the ticker was overrun.        *)

FlightsMarked ==
    /\ \A f \in flights : f.sym \in pending
    /\ \A f, g \in flights : f.sym = g.sym => f = g

WorkIsWatched ==
    \A s \in (tasks \cup pending \cup active) \ overrun : s \in watched

SleepsEmpty == poll = "sleep" => active = {}
ActiveWatched == active \subseteq watched

BooksAreOurs ==
    \A s \in Watchable \ overrun : depth[s] # 0 => s \in watched /\ depth[s] = watchNo[s]
AnswersAreOurs ==
    \A f \in flights : (f.sym \notin overrun /\ f.at # 0) => f.at = watchNo[f.sym]

DepthShape ==
    /\ {spread, watched, tasks, pending, active, polling, overrun} \subseteq SUBSET Watchable
    /\ watchNo \in [Watchable -> Nat] /\ depth \in [Watchable -> Nat]
    /\ flights \subseteq [sym : Watchable, by : {"task", "loop"}, at : Nat]
    /\ poll \in {"sleep", "work"}

\* A ticker with a spread that may begin no further watch is watched, and its entry is new.
WatchesFit ==
    \A s \in Watchable :
        /\ watchNo[s] <= MaxWatches[s] /\ depth[s] <= watchNo[s]
        /\ s \in spread => watchNo[s] < MaxWatches[s] \/ (s \in watched /\ age[s] = 0)
AnswersFit == \A f \in flights : f.at <= watchNo[f.sym]
AgesFit == age \in [Watchable -> 0..(WatchTTL + 1)]

CountsFit == WatchesFit /\ AnswersFit /\ AgesFit

DepthInv ==
    /\ DepthShape /\ FlightsMarked /\ WorkIsWatched /\ SleepsEmpty /\ ActiveWatched
    /\ BooksAreOurs /\ AnswersAreOurs

LEMMA DepthInitHolds == DepthInit => DepthInv
BY DEF DepthInit, DepthInv, DepthShape, FlightsMarked, WorkIsWatched, SleepsEmpty,
       ActiveWatched, BooksAreOurs, AnswersAreOurs

LEMMA DepthImplies == DepthInv => OldDepthHasCause
BY DEF DepthInv, DepthShape, BooksAreOurs, OldDepthHasCause

(* A fetch begins for a ticker that is watched, or overrun. *)
LEMMA FetchBeginsKeeps ==
  ASSUME DepthInv, NEW s \in Watchable, NEW by \in {"task", "loop"}, FetchBegins(s, by),
         s \in watched \cup overrun,
         UNCHANGED <<spread, watched, watchNo, depth, overrun, poll>>,
         tasks' \subseteq tasks, active' \subseteq active, polling' \subseteq Watchable
  PROVE  DepthInv'
<1> USE DEF DepthInv
<1>1. CASE s \in pending
  BY <1>1 DEF FetchBegins, DepthShape, FlightsMarked, WorkIsWatched, SleepsEmpty, ActiveWatched,
              BooksAreOurs, AnswersAreOurs
<1>2. CASE s \notin pending
  <2>1. /\ pending' = pending \cup {s}
        /\ flights' = flights \cup {[sym |-> s, by |-> by, at |-> 0]}
    BY <1>2 DEF FetchBegins
  <2>2. DepthShape'
    BY <2>1 DEF DepthShape
  <2>3. FlightsMarked'
    BY <1>2, <2>1 DEF FlightsMarked
  <2>4. WorkIsWatched' /\ SleepsEmpty' /\ ActiveWatched'
    BY <2>1 DEF WorkIsWatched, SleepsEmpty, ActiveWatched
  <2>5. BooksAreOurs' /\ AnswersAreOurs'
    BY <2>1 DEF BooksAreOurs, AnswersAreOurs
  <2> QED
    BY <2>2, <2>3, <2>4, <2>5
<1> QED
  BY <1>1, <1>2

(* A fetch ends; its book, if any, is of the watch it was answered in. *)
LEMMA FetchEndsKeeps ==
  ASSUME DepthInv, NEW f \in flights, FetchEnds(f),
         depth' = depth \/ (f.at > 0 /\ depth' = [depth EXCEPT ![f.sym] = f.at]),
         UNCHANGED <<spread, watched, watchNo, tasks, overrun, poll, active>>
  PROVE  DepthInv'
<1> USE DEF DepthInv
<1>0. f.sym \in Watchable /\ f.at \in Nat /\ f.sym \in pending
  BY DEF DepthShape, FlightsMarked
<1>1. /\ pending' = pending \ {f.sym} /\ flights' = flights \ {f}
      /\ polling' \in {polling, {}}
  BY DEF FetchEnds
<1>2. DepthShape'
  <2>1. depth' \in [Watchable -> Nat]
    BY <1>0 DEF DepthShape
  <2> QED
    BY <1>1, <2>1 DEF DepthShape
<1>3. FlightsMarked'
  BY <1>0, <1>1 DEF FlightsMarked
<1>4. WorkIsWatched' /\ SleepsEmpty' /\ ActiveWatched'
  BY <1>1 DEF WorkIsWatched, SleepsEmpty, ActiveWatched
<1>5. BooksAreOurs'
  <2> SUFFICES ASSUME NEW s \in Watchable \ overrun, depth'[s] # 0
               PROVE  s \in watched /\ depth'[s] = watchNo[s]
    BY DEF BooksAreOurs
  <2>1. CASE depth'[s] = depth[s]
    BY <2>1 DEF BooksAreOurs
  <2>2. CASE s = f.sym /\ depth'[s] = f.at
    BY <1>0, <2>2 DEF WorkIsWatched, AnswersAreOurs
  <2> QED
    BY <1>0, <2>1, <2>2 DEF DepthShape
<1>6. AnswersAreOurs'
  BY <1>1 DEF AnswersAreOurs
<1> QED
  BY <1>2, <1>3, <1>4, <1>5, <1>6

LEMMA DepthStep == DepthInv /\ [DepthNext]_depthVars => DepthInv'
<1> SUFFICES ASSUME DepthInv, [DepthNext]_depthVars PROVE DepthInv'
  OBVIOUS
<1> USE DEF DepthInv
<1>1. CASE SpreadMoves \/ TimePasses \/ UNCHANGED depthVars
  <2>1. /\ spread' \subseteq Watchable
        /\ UNCHANGED <<watched, watchNo, tasks, pending, flights, depth, poll, active, polling,
                       overrun>>
    BY <1>1 DEF SpreadMoves, TimePasses, DepthShape, depthVars, watchVars, fetchVars, pollVars
  <2> QED
    BY <2>1 DEF DepthShape, FlightsMarked, WorkIsWatched, SleepsEmpty, ActiveWatched,
                BooksAreOurs, AnswersAreOurs
<1>2. CASE ScanRegisters
  <2>1. /\ watched' = watched \cup spread /\ tasks' = tasks \cup (spread \ watched)
        /\ watchNo' = [s \in Watchable |->
                         IF s \in spread \ watched THEN watchNo[s] + 1 ELSE watchNo[s]]
        /\ UNCHANGED <<spread, pending, flights, depth, poll, active, polling, overrun>>
    BY <1>2 DEF ScanRegisters, fetchVars, pollVars
  <2>2. DepthShape'
    BY <2>1 DEF DepthShape
  <2>3. FlightsMarked' /\ SleepsEmpty' /\ ActiveWatched' /\ WorkIsWatched'
    BY <2>1 DEF FlightsMarked, SleepsEmpty, ActiveWatched, WorkIsWatched
  <2>4. BooksAreOurs'
    BY <2>1 DEF BooksAreOurs, DepthShape
  <2>5. AnswersAreOurs'
    <3> SUFFICES ASSUME NEW f \in flights, f.sym \notin overrun, f.at # 0
                 PROVE  f.at = watchNo'[f.sym]
      BY <2>1 DEF AnswersAreOurs
    <3>1. f.sym \in Watchable /\ f.sym \in pending
      BY DEF DepthShape, FlightsMarked
    <3>2. f.sym \in watched /\ f.at = watchNo[f.sym]
      BY <3>1 DEF WorkIsWatched, AnswersAreOurs
    <3> QED
      BY <2>1, <3>1, <3>2
  <2> QED
    BY <2>2, <2>3, <2>4, <2>5
<1>3. ASSUME NEW s \in Watchable, TaskRuns(s) PROVE DepthInv'
  <2>1. s \in watched \cup overrun
    BY <1>3 DEF TaskRuns, WorkIsWatched
  <2> QED
    BY <1>3, <2>1, FetchBeginsKeeps DEF TaskRuns, pollVars, DepthShape
<1>4. ASSUME NEW s \in Watchable, Answers(s) PROVE DepthInv'
  <2>1. PICK f \in flights :
          /\ f.sym = s /\ f.at = 0
          /\ flights' = (flights \ {f}) \cup {[f EXCEPT !.at = watchNo[s]]}
          /\ UNCHANGED <<spread, watchVars, pending, misses, depth, pollVars, overrun>>
    BY <1>4 DEF Answers
  <2>2. UNCHANGED <<spread, watched, watchNo, tasks, pending, depth, poll, active, polling, overrun>>
    BY <2>1 DEF watchVars, pollVars
  <2>3. f \in [sym : Watchable, by : {"task", "loop"}, at : Nat] /\ watchNo[s] \in Nat
    BY DEF DepthShape
  <2> DEFINE g == [f EXCEPT !.at = watchNo[s]]
  <2>4. /\ g.sym = s /\ g.at = watchNo[s]
        /\ g \in [sym : Watchable, by : {"task", "loop"}, at : Nat]
    BY <2>1, <2>3
  <2>5. flights' = (flights \ {f}) \cup {g}
    BY <2>1
  <2> HIDE DEF g
  <2>6. DepthShape'
    BY <2>2, <2>4, <2>5 DEF DepthShape
  <2>7. FlightsMarked'
    BY <2>1, <2>2, <2>4, <2>5 DEF FlightsMarked
  <2>8. WorkIsWatched' /\ SleepsEmpty' /\ ActiveWatched' /\ BooksAreOurs'
    BY <2>2 DEF WorkIsWatched, SleepsEmpty, ActiveWatched, BooksAreOurs
  <2>9. AnswersAreOurs'
    BY <2>2, <2>4, <2>5 DEF AnswersAreOurs
  <2> QED
    BY <2>6, <2>7, <2>8, <2>9
<1>5. ASSUME NEW s \in Watchable, Stores(s) PROVE DepthInv'
  <2>1. PICK f \in flights :
          /\ f.sym = s /\ f.at > 0
          /\ depth' = [depth EXCEPT ![s] = f.at]
          /\ FetchEnds(f)
          /\ UNCHANGED <<spread, watchVars, misses, poll, active, overrun>>
    BY <1>5 DEF Stores
  <2> QED
    BY <2>1, FetchEndsKeeps DEF watchVars
<1>6. CASE Misses
  <2>1. PICK f \in flights :
          FetchEnds(f) /\ UNCHANGED <<spread, watchVars, depth, poll, active, overrun>>
    BY <1>6 DEF Misses
  <2> QED
    BY <2>1, FetchEndsKeeps DEF watchVars
<1>7. CASE PollWakes
  <2>1. /\ poll = "sleep" /\ poll' = "work" /\ active = {}
        /\ watched' = watched \ Expired /\ active' = watched \ Expired
        /\ depth' = [s \in Watchable |-> IF s \in Expired THEN 0 ELSE depth[s]]
        /\ overrun' = overrun \cup (Expired \cap (pending \cup tasks))
        /\ UNCHANGED <<spread, watchNo, tasks, pending, flights, polling>>
    BY <1>7 DEF PollWakes, Dropped, SleepsEmpty
  <2>2. Expired \subseteq watched /\ watched \subseteq Watchable
    BY DEF Expired, DepthShape
  <2>3. DepthShape'
    BY <2>1, <2>2 DEF DepthShape
  <2>4. FlightsMarked' /\ SleepsEmpty' /\ ActiveWatched'
    BY <2>1 DEF FlightsMarked, SleepsEmpty, ActiveWatched
  <2>5. WorkIsWatched'
    BY <2>1 DEF WorkIsWatched
  <2>6. BooksAreOurs' /\ AnswersAreOurs'
    BY <2>1 DEF BooksAreOurs, AnswersAreOurs
  <2> QED
    BY <2>3, <2>4, <2>5, <2>6
<1>8. CASE PollFetches
  <2>1. PICK s \in active :
          /\ active' = active \ {s}
          /\ polling' = IF s \in pending THEN {} ELSE {s}
          /\ FetchBegins(s, "loop")
    BY <1>8 DEF PollFetches
  <2>2. s \in Watchable /\ s \in watched /\ polling' \subseteq Watchable
    BY <2>1 DEF DepthShape, ActiveWatched
  <2>3. UNCHANGED <<spread, watched, watchNo, tasks, depth, overrun, poll>>
    BY <1>8 DEF PollFetches, watchVars
  <2> QED
    BY <2>1, <2>2, <2>3, FetchBeginsKeeps
<1>9. CASE PollEnds
  <2>1. /\ active = {} /\ poll' = "sleep"
        /\ UNCHANGED <<spread, watched, watchNo, tasks, pending, flights, depth, active, polling,
                       overrun>>
    BY <1>9 DEF PollEnds, watchVars, fetchVars
  <2> QED
    BY <2>1 DEF DepthShape, FlightsMarked, WorkIsWatched, SleepsEmpty, ActiveWatched,
                BooksAreOurs, AnswersAreOurs
<1> QED
  BY <1>1, <1>2, <1>3, <1>4, <1>5, <1>6, <1>7, <1>8, <1>9 DEF DepthNext, FetchStep, PollStep

LEMMA CountsInitHold == DepthInit => CountsFit
BY DepthAssumption DEF DepthInit, CountsFit, WatchesFit, AnswersFit, AgesFit

LEMMA CountsStep == DepthInv /\ CountsFit /\ [DepthNext]_depthVars => CountsFit'
<1> SUFFICES ASSUME DepthInv, CountsFit, [DepthNext]_depthVars PROVE CountsFit'
  OBVIOUS
<1> USE DepthAssumption DEF DepthInv, CountsFit
<1>1. CASE SpreadMoves
  <2>1. UNCHANGED <<watched, age, watchNo, depth, flights>>
    BY <1>1 DEF SpreadMoves, watchVars, fetchVars
  <2>2. WatchesFit'
    BY <1>1, <2>1 DEF SpreadMoves, WatchesFit, DepthShape
  <2> QED
    BY <2>1, <2>2 DEF AnswersFit, AgesFit
<1>2. CASE ScanRegisters
  <2>1. /\ watched' = watched \cup spread
        /\ age' = [s \in Watchable |-> IF s \in spread THEN 0 ELSE age[s]]
        /\ watchNo' = [s \in Watchable |->
                         IF s \in spread \ watched THEN watchNo[s] + 1 ELSE watchNo[s]]
        /\ UNCHANGED <<spread, flights, depth>>
    BY <1>2 DEF ScanRegisters, fetchVars
  <2>2. AgesFit'
    BY <2>1 DEF AgesFit
  <2>3. WatchesFit'
    <3> SUFFICES ASSUME NEW s \in Watchable
                 PROVE  /\ watchNo'[s] <= MaxWatches[s] /\ depth[s] <= watchNo'[s]
                        /\ s \in spread => s \in watched' /\ age'[s] = 0
      BY <2>1 DEF WatchesFit
    <3>1. watchNo[s] \in Nat /\ depth[s] \in Nat /\ MaxWatches[s] \in Nat
      BY DEF DepthShape
    <3> QED
      BY <2>1, <3>1 DEF WatchesFit
  <2>4. AnswersFit'
    <3> SUFFICES ASSUME NEW f \in flights PROVE f.at <= watchNo'[f.sym]
      BY <2>1 DEF AnswersFit
    <3>1. f.sym \in Watchable /\ f.at \in Nat /\ watchNo[f.sym] \in Nat /\ f.at <= watchNo[f.sym]
      BY DEF DepthShape, AnswersFit
    <3> QED
      BY <2>1, <3>1
  <2> QED
    BY <2>2, <2>3, <2>4
<1>3. CASE TimePasses
  <2>1. /\ age' = [s \in Watchable |-> IF s \in watched \ spread /\ age[s] <= WatchTTL
                                       THEN age[s] + 1 ELSE age[s]]
        /\ UNCHANGED <<spread, watched, watchNo, depth, flights>>
    BY <1>3 DEF TimePasses, fetchVars
  <2>2. AgesFit'
    BY <2>1 DEF AgesFit
  <2>3. WatchesFit' /\ AnswersFit'
    BY <2>1 DEF WatchesFit, AnswersFit
  <2> QED
    BY <2>2, <2>3
<1>4. ASSUME NEW s \in Watchable, NEW by \in {"task", "loop"}, FetchBegins(s, by),
             UNCHANGED <<spread, watched, age, watchNo, depth>>
      PROVE  CountsFit'
  <2>1. \A f \in flights' : f \in flights \/ (f.sym \in Watchable /\ f.at = 0)
    BY <1>4 DEF FetchBegins
  <2> QED
    BY <1>4, <2>1 DEF WatchesFit, AnswersFit, AgesFit, DepthShape
<1>5. ASSUME NEW s \in Watchable, TaskRuns(s) PROVE CountsFit'
  BY <1>4, <1>5 DEF TaskRuns
<1>6. CASE PollFetches
  <2>1. PICK s \in active : FetchBegins(s, "loop")
    BY <1>6 DEF PollFetches
  <2> QED
    BY <1>4, <1>6, <2>1 DEF PollFetches, watchVars, DepthShape
<1>7. ASSUME NEW s \in Watchable, Answers(s) PROVE CountsFit'
  <2>1. PICK f \in flights :
          /\ flights' = (flights \ {f}) \cup {[f EXCEPT !.at = watchNo[s]]} /\ f.sym = s
          /\ UNCHANGED <<spread, watched, age, watchNo, depth>>
    BY <1>7 DEF Answers, watchVars
  <2>2. f \in [sym : Watchable, by : {"task", "loop"}, at : Nat]
    BY DEF DepthShape
  <2>3. \A g \in flights' : g \in flights \/ (g.sym = s /\ g.at = watchNo[s])
    BY <2>1, <2>2
  <2> QED
    BY <2>1, <2>3 DEF WatchesFit, AnswersFit, AgesFit, DepthShape
<1>8. ASSUME NEW s \in Watchable, Stores(s) PROVE CountsFit'
  <2>1. PICK f \in flights :
          /\ depth' = [depth EXCEPT ![s] = f.at] /\ flights' = flights \ {f} /\ f.sym = s
          /\ UNCHANGED <<spread, watched, age, watchNo>>
    BY <1>8 DEF Stores, FetchEnds, watchVars
  <2>2. f.at <= watchNo[s]
    BY <2>1 DEF AnswersFit
  <2> QED
    BY <2>1, <2>2 DEF WatchesFit, AnswersFit, AgesFit, DepthShape
<1>9. CASE Misses
  BY <1>9 DEF Misses, FetchEnds, watchVars, WatchesFit, AnswersFit, AgesFit
<1>10. CASE PollWakes
  <2>1. /\ watched' = watched \ Expired
        /\ depth' = [s \in Watchable |-> IF s \in Expired THEN 0 ELSE depth[s]]
        /\ UNCHANGED <<spread, age, watchNo, flights>>
    BY <1>10 DEF PollWakes, Dropped
  <2>2. \A s \in Expired : age[s] # 0
    BY DEF Expired, AgesFit, DepthShape
  <2> QED
    BY <2>1, <2>2 DEF WatchesFit, AnswersFit, AgesFit, DepthShape
<1>11. CASE PollEnds \/ UNCHANGED depthVars
  BY <1>11 DEF PollEnds, depthVars, watchVars, fetchVars, WatchesFit, AnswersFit, AgesFit
<1> QED
  BY <1>1, <1>2, <1>3, <1>5, <1>6, <1>7, <1>8, <1>9, <1>10, <1>11 DEF DepthNext, FetchStep, PollStep

LEMMA DepthInvTypes == DepthInv /\ CountsFit => DepthTypeOK
<1> SUFFICES ASSUME DepthInv, CountsFit, NEW s \in Watchable PROVE depth[s] \in 0..MaxWatches[s]
  BY DEF DepthInv, CountsFit, DepthShape, AgesFit, DepthTypeOK
<1>1. depth[s] \in Nat /\ watchNo[s] \in Nat /\ MaxWatches[s] \in Nat
  BY DepthAssumption DEF DepthInv, DepthShape
<1> QED
  BY <1>1 DEF CountsFit, WatchesFit

(* The scanner is shown a book from before the present spread only for a     *)
(* ticker whose earlier watch ended with a fetch under way (depth_poll_loop, *)
(* _fetch_kraken_depth).                                                     *)
THEOREM DepthHasCause == DepthSpec => []OldDepthHasCause
<1> QED
  BY DepthInitHolds, DepthStep, DepthImplies, PTL DEF DepthSpec

--------------------------------------------------------------------------------
(* The network status.  A flag is wrong for no longer than the nap that has   *)
(* passed, and a nap begun before the token was hot ends before it has been   *)
(* hot for a passive nap.                                                     *)

NetShape ==
    /\ truth \in {"open", "closed", "silent"} /\ flag \in {"open", "closed"}
    /\ asked \in {"none", "open", "closed", "silent"}
    /\ hotAge \in Nat /\ hotFor \in Nat /\ nap \in Nat /\ lag \in Nat /\ missed \in 0..1

RightHasNoLag == truth \in {flag, "silent"} => lag = 0
AnswerIsCurrent == asked # "none" => asked = truth \/ lag = 0
AsleepAsksNothing == asked # "none" => nap = 0
IdleIsNotHot == hotAge >= HotTTL => hotFor = 0
LagFits == missed = 0 => lag + nap <= PassiveNap
HotLagFits == hotFor + nap <= PassiveNap \/ (missed = 0 => lag + nap <= HotNap)

NapsFit ==
    /\ hotAge <= HotTTL /\ hotFor <= PassiveNap + 1 /\ nap <= PassiveNap /\ lag <= MaxLag

NetInv ==
    /\ NetShape /\ RightHasNoLag /\ AnswerIsCurrent /\ AsleepAsksNothing /\ IdleIsNotHot
    /\ LagFits /\ HotLagFits

LEMMA NetInitHolds == NetInit => NetInv
BY NapAssumption DEF NetInit, NetInv, NetShape, RightHasNoLag, AnswerIsCurrent, AsleepAsksNothing,
              IdleIsNotHot, LagFits, HotLagFits

LEMMA NetImplies == NetInv => FlagSeenInTime
BY NapAssumption DEF NetInv, NetShape, LagFits, HotLagFits, FlagSeenInTime

LEMMA NetStep == NetInv /\ [NetNext]_netVars => NetInv'
<1> SUFFICES ASSUME NetInv, [NetNext]_netVars PROVE NetInv'
  OBVIOUS
<1> USE NapAssumption DEF NetInv
<1>1. CASE TruthMoves
  <2>1. NetShape' /\ RightHasNoLag' /\ AsleepAsksNothing' /\ IdleIsNotHot' /\ LagFits' /\ HotLagFits'
    BY <1>1 DEF TruthMoves, NetShape, RightHasNoLag, AsleepAsksNothing, IdleIsNotHot, LagFits,
                HotLagFits
  <2>2. AnswerIsCurrent'
    BY <1>1 DEF TruthMoves, NetShape, RightHasNoLag, AnswerIsCurrent
  <2> QED
    BY <2>1, <2>2
<1>2. CASE HotRegistered
  BY <1>2 DEF HotRegistered, NetShape, RightHasNoLag, AnswerIsCurrent, AsleepAsksNothing,
              IdleIsNotHot, LagFits, HotLagFits
<1>3. CASE Passes
  <2>1. NetShape'
    BY <1>3 DEF Passes, NetShape, Capped
  <2>2. RightHasNoLag' /\ LagFits'
    BY <1>3 DEF Passes, NetShape, RightHasNoLag, LagFits
  <2>3. AnswerIsCurrent' /\ AsleepAsksNothing'
    BY <1>3 DEF Passes, NetShape, AnswerIsCurrent, AsleepAsksNothing
  <2>4. IdleIsNotHot'
    BY <1>3 DEF Passes, NetShape, IdleIsNotHot, Capped
  <2>5. HotLagFits'
    BY <1>3 DEF Passes, NetShape, HotLagFits, Capped
  <2> QED
    BY <2>1, <2>2, <2>3, <2>4, <2>5
<1>4. CASE Refreshes
  BY <1>4 DEF Refreshes, NetShape, RightHasNoLag, AnswerIsCurrent, AsleepAsksNothing,
              IdleIsNotHot, LagFits, HotLagFits
<1>5. CASE RefreshEnds
  <2>1. lag' = 0
    BY <1>5 DEF RefreshEnds, NetShape, AnswerIsCurrent
  <2>2. /\ flag' \in {"open", "closed"} /\ missed' = 0 /\ asked' = "none" /\ nap' = NextNap
        /\ UNCHANGED <<truth, hotAge, hotFor>>
    BY <1>5 DEF RefreshEnds, NetShape
  <2> QED
    BY <2>1, <2>2 DEF NextNap, NetShape, RightHasNoLag, AnswerIsCurrent, AsleepAsksNothing,
              IdleIsNotHot, LagFits, HotLagFits
<1>6. CASE RefreshFails
  BY <1>6 DEF RefreshFails, NextNap, NetShape, RightHasNoLag, AnswerIsCurrent, AsleepAsksNothing,
              IdleIsNotHot, LagFits, HotLagFits
<1>7. CASE UNCHANGED netVars
  BY <1>7 DEF netVars, NetShape, RightHasNoLag, AnswerIsCurrent, AsleepAsksNothing,
              IdleIsNotHot, LagFits, HotLagFits
<1> QED
  BY <1>1, <1>2, <1>3, <1>4, <1>5, <1>6, <1>7 DEF NetNext

LEMMA NapsStep == NetInv /\ NapsFit /\ [NetNext]_netVars => NapsFit'
<1> USE NapAssumption DEF NetInv, NetShape, NapsFit
<1>1. ASSUME NetInv, NapsFit, Passes PROVE NapsFit'
  BY <1>1 DEF Passes, Capped
<1>2. ASSUME NetInv, NapsFit, RefreshEnds \/ RefreshFails PROVE NapsFit'
  BY <1>2 DEF RefreshEnds, RefreshFails, NextNap
<1>3. ASSUME NetInv, NapsFit, TruthMoves \/ HotRegistered \/ Refreshes \/ UNCHANGED netVars
      PROVE  NapsFit'
  BY <1>3 DEF TruthMoves, HotRegistered, Refreshes, netVars
<1> QED
  BY <1>1, <1>2, <1>3 DEF NetNext

LEMMA NetInvTypes == NetInv /\ NapsFit => NetTypeOK
BY NapAssumption DEF NetInv, NetShape, NapsFit, NetTypeOK

(* A reported flag is wrong for one passive nap at most after a refresh that  *)
(* worked, and for a hot one once a token has been hot for longer than a      *)
(* passive nap (cex_network_loop, has_hot_for_cex).                           *)
THEOREM NetworkFlagSeen == NetSpec => []FlagSeenInTime
<1> QED
  BY NetInitHolds, NetStep, NetImplies, PTL DEF NetSpec

--------------------------------------------------------------------------------
(* The scan.  The rows are ranked: ranks are a numbering of them, so the list *)
(* has each row once, by its rank.                                            *)

Gains == {g \in Nat \X Nat : 0 < g[2] /\ g[2] < g[1]}
RowSet == [venue : Venues, dir : Directions, gain : Gains]

MarketShape == quoted \in [Venues -> Nat \X Nat] /\ dexPrice \in Nat

LEMMA ProductsCompare ==
  ASSUME NEW a \in Nat, NEW b \in Nat, NEW c \in Nat, c > 0
  PROVE  a * c > b * c <=> a > b
<1>1. ASSUME a > b PROVE a * c > b * c
  <2>1. PICK d \in Nat : a = b + d /\ d > 0
    BY <1>1
  <2>2. a * c = b * c + d * c /\ d * c > 0
    BY <2>1
  <2> QED
    BY <2>2
<1>2. ASSUME b >= a PROVE b * c >= a * c
  <2>1. PICK d \in Nat : b = a + d
    BY <1>2
  <2>2. b * c = a * c + d * c /\ d * c >= 0
    BY <2>1
  <2> QED
    BY <2>2
<1> QED
  BY <1>1, <1>2

LEMMA PlacesDiffer ==
  /\ \A v \in Venues : Place(v) \in 1..Len(Exchanges)
  /\ \A v, w \in Venues : Place(v) = Place(w) => v = w
<1>1. Exchanges \in Seq(STRING)
  BY SpreadAssumption
<1>2. \A v \in Venues : \E i \in 1..Len(Exchanges) : Exchanges[i] = v
  BY <1>1 DEF Venues, ToSet
<1>3. \A v \in Venues : Place(v) \in 1..Len(Exchanges) /\ Exchanges[Place(v)] = v
  BY <1>2 DEF Place
<1> QED
  BY <1>3

LEMMA RowsAre ==
  ASSUME MarketShape
  PROVE  /\ Rows \subseteq RowSet
         /\ \A r \in Rows : r = Row(r.venue, r.dir) /\ Survives(r.venue, r.dir)
         /\ \A r, s \in Rows : r.venue = s.venue => r = s
         /\ IsFiniteSet(Rows) /\ Cardinality(Rows) \in Nat
<1>1. \A r \in Rows :
        /\ r.venue \in Venues /\ r.dir \in Directions
        /\ r = Row(r.venue, r.dir) /\ Survives(r.venue, r.dir)
  BY DEF Rows, Row
<1>2. \A v \in Venues, dir \in Directions :
        Survives(v, dir) => Gain(dir, quoted[v], dexPrice) \in Gains
  BY DEF MarketShape, Survives, Calculated, Gain, Gains, Directions
<1>3. Rows \subseteq RowSet
  <2> SUFFICES ASSUME NEW r \in Rows PROVE r \in RowSet
    OBVIOUS
  <2>1. r = [venue |-> r.venue, dir |-> r.dir, gain |-> Gain(r.dir, quoted[r.venue], dexPrice)]
    BY <1>1 DEF Row
  <2> QED
    BY <1>1, <1>2, <2>1 DEF RowSet
<1>4. \A v \in Venues : ~(Survives(v, "dex->cex") /\ Survives(v, "cex->dex"))
  BY DEF MarketShape, Survives, Calculated, Gain
<1>5. ASSUME NEW r \in Rows, NEW s \in Rows, r.venue = s.venue PROVE r = s
  <2>1. r.dir = s.dir
    BY <1>1, <1>4, <1>5 DEF Directions
  <2> QED
    BY <1>1, <1>5, <2>1
<1> DEFINE f == [r \in Rows |-> Place(r.venue)]
<1>6. f \in Injection(Rows, 1..Len(Exchanges))
  <2>1. \A r \in Rows : f[r] \in 1..Len(Exchanges)
    BY <1>1, PlacesDiffer
  <2>2. \A r, s \in Rows : f[r] = f[s] => r = s
    BY <1>1, <1>5, PlacesDiffer
  <2> QED
    BY <2>1, <2>2 DEF Injection, IsInjective
<1>7. IsFiniteSet(1..Len(Exchanges))
  BY SpreadAssumption, FS_Interval
<1>8. IsFiniteSet(Rows)
  BY <1>6, <1>7, FS_Injection
<1> QED
  BY <1>1, <1>3, <1>5, <1>8, FS_CardinalityType

LEMMA AboveOrders ==
  /\ \A r \in RowSet : ~Above(r, r)
  /\ \A r, s \in RowSet : r.venue # s.venue => Above(r, s) \/ Above(s, r)
  /\ \A r, s, t \in RowSet : Above(r, s) /\ Above(s, t) => Above(r, t)
<1> DEFINE Won(r) == r.gain[1] - r.gain[2]
           On(r) == r.gain[2]
<1>1. \A r \in RowSet : /\ Won(r) \in Nat /\ On(r) \in Nat /\ On(r) > 0
                        /\ r.venue \in Venues /\ Place(r.venue) \in Nat
  BY PlacesDiffer DEF RowSet, Gains
<1>2. \A r, s \in RowSet :
        Above(r, s) <=> \/ Won(r) * On(s) > Won(s) * On(r)
                        \/ /\ Won(r) * On(s) = Won(s) * On(r)
                           /\ Place(r.venue) < Place(s.venue)
  BY DEF Above
<1>3. \A r, s \in RowSet : Won(r) * On(s) \in Nat
  BY <1>1
<1> HIDE DEF Won, On
<1>4. \A r \in RowSet : ~Above(r, r)
  BY <1>1, <1>2, <1>3
<1>5. ASSUME NEW r \in RowSet, NEW s \in RowSet, r.venue # s.venue
      PROVE  Above(r, s) \/ Above(s, r)
  <2>1. Place(r.venue) # Place(s.venue) /\ Place(r.venue) \in Nat /\ Place(s.venue) \in Nat
    BY <1>1, <1>5, PlacesDiffer
  <2>2. Won(r) * On(s) \in Nat /\ Won(s) * On(r) \in Nat
    BY <1>3
  <2> QED
    BY <1>2, <2>1, <2>2
<1>6. ASSUME NEW r \in RowSet, NEW s \in RowSet, NEW t \in RowSet, Above(r, s), Above(s, t)
      PROVE  Above(r, t)
  <2> DEFINE a == Won(r) * On(s)
             b == Won(s) * On(r)
             c == Won(s) * On(t)
             d == Won(t) * On(s)
             e == Won(r) * On(t)
             g == Won(t) * On(r)
  <2>1. /\ a \in Nat /\ b \in Nat /\ c \in Nat /\ d \in Nat /\ e \in Nat /\ g \in Nat
        /\ On(r) \in Nat /\ On(s) \in Nat /\ On(t) \in Nat /\ On(r) > 0 /\ On(s) > 0 /\ On(t) > 0
        /\ Won(r) \in Nat /\ Won(s) \in Nat /\ Won(t) \in Nat
    BY <1>1, <1>3
  <2>2. /\ a * On(t) = e * On(s) /\ b * On(t) = c * On(r) /\ d * On(r) = g * On(s)
        /\ {a * On(t), b * On(t), c * On(r), d * On(r), e * On(s), g * On(s)} \subseteq Nat
    BY <2>1
  <2>3. /\ a > b \/ (a = b /\ Place(r.venue) < Place(s.venue))
        /\ c > d \/ (c = d /\ Place(s.venue) < Place(t.venue))
    BY <1>2, <1>6
  <2>4. Above(r, t) <=> e > g \/ (e = g /\ Place(r.venue) < Place(t.venue))
    BY <1>2
  <2> HIDE DEF a, b, c, d, e, g
  <2>5. /\ a * On(t) > b * On(t) <=> a > b
        /\ c * On(r) > d * On(r) <=> c > d
        /\ e * On(s) > g * On(s) <=> e > g
        /\ g * On(s) > e * On(s) <=> g > e
    BY <2>1, ProductsCompare
  <2>6. Place(r.venue) \in Nat /\ Place(s.venue) \in Nat /\ Place(t.venue) \in Nat
    BY <1>1
  <2>7. CASE a > b \/ c > d
    <3>1. /\ a = b => a * On(t) = b * On(t)
          /\ c = d => c * On(r) = d * On(r)
      OBVIOUS
    <3>2. e * On(s) > g * On(s)
      BY <2>2, <2>3, <2>5, <2>7, <3>1
    <3> QED
      BY <2>4, <2>5, <3>2
  <2>8. CASE a = b /\ c = d
    <3>1. e * On(s) = g * On(s)
      BY <2>2, <2>8
    <3>2. e = g
      BY <2>1, <2>2, <2>5, <3>1
    <3> QED
      BY <2>1, <2>3, <2>4, <2>6, <2>8, <3>2
  <2> QED
    BY <2>3, <2>7, <2>8
<1> QED
  BY <1>4, <1>5, <1>6

LEMMA RanksNumber ==
  ASSUME MarketShape, NEW n \in 1..Cardinality(Rows)
  PROVE  \E r \in Rows : Rank(r) = n
<1> DEFINE Higher(r) == {s \in Rows : Above(s, r)}
           f == [r \in Rows |-> Rank(r)]
<1>1. IsFiniteSet(Rows) /\ Cardinality(Rows) \in Nat /\ Rows \subseteq RowSet
  BY RowsAre
<1>2. \A r \in Rows : /\ IsFiniteSet(Higher(r)) /\ Cardinality(Higher(r)) \in Nat
                      /\ Rank(r) = 1 + Cardinality(Higher(r))
  BY <1>1, FS_Subset, FS_CardinalityType DEF Rank
<1>3. ASSUME NEW r \in Rows, NEW s \in Rows, Above(r, s) PROVE Rank(r) < Rank(s)
  <2>1. Higher(r) \subseteq Higher(s) /\ r \in Higher(s) /\ r \notin Higher(r)
    BY <1>1, <1>3, AboveOrders
  <2> HIDE DEF Higher
  <2>2. Cardinality(Higher(r)) < Cardinality(Higher(s))
    BY <1>2, <2>1, FS_Subset
  <2> QED
    BY <1>2, <2>2
<1>4. \A r \in Rows : Rank(r) \in 1..Cardinality(Rows)
  <2> SUFFICES ASSUME NEW r \in Rows PROVE Rank(r) \in 1..Cardinality(Rows)
    OBVIOUS
  <2>1. Higher(r) \subseteq Rows /\ r \notin Higher(r)
    BY <1>1, AboveOrders
  <2> HIDE DEF Higher
  <2>2. Cardinality(Higher(r)) < Cardinality(Rows)
    BY <1>1, <1>2, <2>1, FS_Subset
  <2> QED
    BY <1>1, <1>2, <2>2
<1>5. f \in Injection(Rows, 1..Cardinality(Rows))
  <2>1. ASSUME NEW r \in Rows, NEW s \in Rows, r # s PROVE Rank(r) # Rank(s)
    <3>1. Above(r, s) \/ Above(s, r)
      BY <1>1, <2>1, RowsAre, AboveOrders
    <3> QED
      BY <1>3, <1>4, <3>1
  <2> QED
    BY <1>4, <2>1 DEF Injection, IsInjective
<1>6. IsFiniteSet(1..Cardinality(Rows)) /\ Cardinality(1..Cardinality(Rows)) = Cardinality(Rows)
  BY <1>1, FS_Interval
<1>7. f \in Surjection(Rows, 1..Cardinality(Rows))
  <2> HIDE DEF f
  <2> QED
    BY <1>5, <1>6, FS_Injection
<1>8. \A m \in 1..Cardinality(Rows) : \E r \in Rows : f[r] = m
  <2> HIDE DEF f
  <2> QED
    BY <1>7 DEF Surjection
<1> QED
  BY <1>8

LEMMA OpportunitiesAre ==
  ASSUME MarketShape
  PROVE  /\ Opportunities \in Seq(RowSet)
         /\ \A i \in 1..Len(Opportunities) : Opportunities[i] \in Rows
<1>1. \A i \in 1..Cardinality(Rows) : (CHOOSE r \in Rows : Rank(r) = i) \in Rows
  BY RanksNumber
<1>2. Cardinality(Rows) \in Nat /\ Rows \subseteq RowSet
  BY RowsAre
<1>3. \A i \in 1..Cardinality(Rows) : Opportunities[i] \in Rows
  BY <1>1 DEF Opportunities
<1>4. Opportunities \in [1..Cardinality(Rows) -> RowSet]
  BY <1>1, <1>2 DEF Opportunities
<1>5. Opportunities \in Seq(RowSet) /\ Len(Opportunities) = Cardinality(Rows)
  BY <1>2, <1>4
<1> QED
  BY <1>3, <1>5

LEMMA FloorBounds ==
  ASSUME NEW n \in Nat, NEW d \in Nat, d > 0
  PROVE  n \div d \in Int /\ d * (n \div d) <= n /\ n < d * (n \div d) + d
<1>1. PICK q \in Int, r \in Int : q = n \div d /\ r = n % d /\ n = d * q + r /\ 0 <= r /\ r < d
  OBVIOUS
<1> QED
  BY <1>1

(* Percentages that are rounded to the same hundredth are close. *)
LEMMA RoundedClose ==
  ASSUME NEW g \in Gains, NEW h \in Gains, Rounded(g) = Rounded(h)
  PROVE  Close(g, h)
<1>1. PICK A \in Nat, B \in Nat, C \in Nat, D \in Nat :
        /\ A = g[1] - g[2] /\ B = g[2] /\ C = h[1] - h[2] /\ D = h[2]
        /\ B > 0 /\ D > 0
  BY DEF Gains
<1>2. PICK k : k = Rounded(g) /\ k = Rounded(h)
  OBVIOUS
<1>3. k = (A * 20000 + B) \div (2 * B) /\ k = (C * 20000 + D) \div (2 * D)
  BY <1>1, <1>2 DEF Rounded
<1>4. /\ k \in Int
      /\ 2 * B * k <= A * 20000 + B /\ A * 20000 + B < 2 * B * k + 2 * B
      /\ 2 * D * k <= C * 20000 + D /\ C * 20000 + D < 2 * D * k + 2 * D
  <2>1. A * 20000 + B \in Nat /\ 2 * B \in Nat /\ 2 * B > 0
    BY <1>1
  <2>2. C * 20000 + D \in Nat /\ 2 * D \in Nat /\ 2 * D > 0
    BY <1>1
  <2> QED
    BY <1>3, <2>1, <2>2, FloorBounds
<1> DEFINE m == B * D
           a == A * D
           c == C * B
           p == m * k
<1>5. m \in Nat /\ m > 0 /\ a \in Nat /\ c \in Nat /\ p \in Int
  BY <1>1, <1>4
<1>6. 2 * p <= a * 20000 + m /\ a * 20000 + m < 2 * p + 2 * m
  <2>1. (2 * B * k) * D <= (A * 20000 + B) * D /\ (A * 20000 + B) * D < (2 * B * k + 2 * B) * D
    BY <1>1, <1>4
  <2> QED
    BY <1>1, <1>4, <2>1
<1>7. 2 * p <= c * 20000 + m /\ c * 20000 + m < 2 * p + 2 * m
  <2>1. (2 * D * k) * B <= (C * 20000 + D) * B /\ (C * 20000 + D) * B < (2 * D * k + 2 * D) * B
    BY <1>1, <1>4
  <2> QED
    BY <1>1, <1>4, <2>1
<1>8. Close(g, h) <=> (IF a > c THEN a - c ELSE c - a) <= m \div 10000
  BY <1>1 DEF Close
<1> HIDE DEF m, a, c, p
<1>9. (a - c) * 10000 < m /\ (c - a) * 10000 < m
  BY <1>5, <1>6, <1>7
<1>10. a - c <= m \div 10000 /\ c - a <= m \div 10000
  BY <1>5, <1>9
<1> QED
  BY <1>8, <1>10

--------------------------------------------------------------------------------
(* The list logged last is the one its fingerprint was taken of; after a scan the *)
(* fingerprint is that of the present list.                                       *)

LogShape ==
    /\ quoted \in [Venues -> Quotations \cup {<<0, 0>>}] /\ dexPrice \in Nat
    /\ block \in [Venues -> Blocks \cup {"none"}]
    /\ cexAge \in [Venues -> {"unknown", "fresh", "stale"}]
    /\ sideDepth \in [Venues -> {"unknown", "thin"}]
    /\ hotVenues \subseteq Venues /\ excluded \subseteq Venues /\ logged \in Seq(RowSet)
LastIsLogged == lastFp = {} \/ lastFp = {Fingerprint(logged)}
LastIsPresent == scanned => lastFp = {Fingerprint(Opportunities)}

ScanInv == LogShape /\ LastIsLogged /\ LastIsPresent

LEMMA LogShapesMarket == LogShape => MarketShape
<1>1. Quotations \cup {<<0, 0>>} \subseteq Nat \X Nat
  BY SpreadAssumption
<1> QED
  BY <1>1 DEF LogShape, MarketShape

LEMMA ScanInitHolds == ScanInit => ScanInv
BY SpreadAssumption DEF ScanInit, ScanInv, LogShape, LastIsLogged, LastIsPresent, Venues

LEMMA ScanStep == ScanInv /\ [ScanNext]_scanVars => ScanInv'
<1> SUFFICES ASSUME ScanInv, [ScanNext]_scanVars PROVE ScanInv'
  OBVIOUS
<1> USE DEF ScanInv
<1>1. CASE Quotes
  <2>1. UNCHANGED <<logged, lastFp, hotVenues, dexPrice, excluded, block, sideDepth>> /\ scanned' = FALSE
    BY <1>1 DEF Quotes, logVars
  <2>2. /\ quoted' \in [Venues -> Quotations \cup {<<0, 0>>}]
        /\ cexAge' \in [Venues -> {"unknown", "fresh", "stale"}]
    BY <1>1 DEF Quotes, LogShape
  <2>3. LogShape'
    BY <2>1, <2>2 DEF LogShape
  <2>4. LastIsLogged' /\ LastIsPresent'
    BY <2>1 DEF LastIsLogged, LastIsPresent, Fingerprint
  <2> QED
    BY <2>3, <2>4
<1>2. CASE MarketMoves
  <2>1. UNCHANGED <<logged, lastFp, hotVenues, quoted, excluded>> /\ scanned' = FALSE
    BY <1>2 DEF MarketMoves, logVars
  <2>2. /\ dexPrice' \in Nat
        /\ block' \in [Venues -> Blocks \cup {"none"}]
        /\ cexAge' \in [Venues -> {"unknown", "fresh", "stale"}]
        /\ sideDepth' \in [Venues -> {"unknown", "thin"}]
    BY <1>2, SpreadAssumption DEF MarketMoves, LogShape
  <2>3. LogShape'
    BY <2>1, <2>2 DEF LogShape
  <2>4. LastIsLogged' /\ LastIsPresent'
    BY <2>1 DEF LastIsLogged, LastIsPresent, Fingerprint
  <2> QED
    BY <2>3, <2>4
<1>3. CASE Scans \/ UNCHANGED scanVars
  <2>1. PICK rows, fp : rows = Opportunities /\ fp = Fingerprint(rows)
    OBVIOUS
  <2>2. rows \in Seq(RowSet) /\ {r.venue : r \in Rows} \subseteq Venues
    BY <2>1, LogShapesMarket, OpportunitiesAre, RowsAre DEF RowSet
  <2>3. UNCHANGED marketVars
    BY <1>3 DEF Scans, scanVars
  <2>4. Opportunities' = rows
    BY <2>1, <2>3 DEF marketVars, Opportunities, Rank, Rows, Row, Survives
  <2>5. LogShape'
    BY <1>3, <2>1, <2>2, <2>3 DEF Scans, scanVars, logVars, marketVars, LogShape
  <2>6. CASE UNCHANGED <<logged, lastFp>> /\ (scanned' => scanned \/ lastFp = {fp})
    <3>1. LastIsLogged'
      BY <2>6 DEF LastIsLogged, Fingerprint
    <3>2. LastIsPresent'
      BY <2>1, <2>4, <2>6 DEF LastIsPresent, Fingerprint
    <3> QED
      BY <2>5, <3>1, <3>2
  <2>7. CASE logged' = rows /\ lastFp' = {fp}
    <3>1. Fingerprint(logged)' = fp /\ Fingerprint(Opportunities)' = fp
      BY <2>1, <2>4, <2>7 DEF Fingerprint
    <3> QED
      BY <2>5, <2>7, <3>1 DEF LastIsLogged, LastIsPresent
  <2> QED
    BY <1>3, <2>1, <2>6, <2>7 DEF Scans, scanVars, logVars
<1> QED
  BY <1>1, <1>2, <1>3 DEF ScanNext

LEMMA ScanInvTypes == ScanInv => ScanTypeOK
BY DEF ScanInv, LogShape, ScanTypeOK

LEMMA LastListIsPresent == ScanInv => LogIsCurrent
<1> SUFFICES ASSUME ScanInv, scanned PROVE LogIsCurrent!2
  BY DEF LogIsCurrent
<1> DEFINE rows == Opportunities
<1>1. rows \in Seq(RowSet) /\ logged \in Seq(RowSet)
  BY LogShapesMarket, OpportunitiesAre DEF ScanInv, LogShape
<1>2. Fingerprint(rows) = Fingerprint(logged)
  BY DEF ScanInv, LastIsLogged, LastIsPresent
<1> HIDE DEF rows
<1>3. Len(logged) = Len(rows)
  <2>1. DOMAIN Fingerprint(rows) = 1..Len(rows) /\ DOMAIN Fingerprint(logged) = 1..Len(logged)
    BY DEF Fingerprint
  <2>2. 1..Len(rows) = 1..Len(logged) /\ Len(rows) \in Nat /\ Len(logged) \in Nat
    BY <1>1, <1>2, <2>1
  <2> QED
    BY <2>2
<1>4. ASSUME NEW i \in 1..Len(logged)
      PROVE  /\ logged[i].venue = rows[i].venue /\ logged[i].dir = rows[i].dir
             /\ Close(logged[i].gain, rows[i].gain)
  <2>1. /\ Fingerprint(rows)[i] = <<rows[i].venue, rows[i].dir, Rounded(rows[i].gain)>>
        /\ Fingerprint(logged)[i] = <<logged[i].venue, logged[i].dir, Rounded(logged[i].gain)>>
    BY <1>3 DEF Fingerprint
  <2>2. /\ logged[i].venue = rows[i].venue /\ logged[i].dir = rows[i].dir
        /\ Rounded(logged[i].gain) = Rounded(rows[i].gain)
    BY <1>2, <2>1
  <2>3. logged[i].gain \in Gains /\ rows[i].gain \in Gains
    <3>1. i \in 1..Len(rows)
      BY <1>3
    <3>2. logged[i] \in RowSet /\ rows[i] \in RowSet
      BY <1>1, <3>1
    <3> QED
      BY <3>2 DEF RowSet
  <2> QED
    BY <2>2, <2>3, RoundedClose
<1> QED
  BY <1>3, <1>4 DEF rows

(* After a scan the list logged last is the present one, each percentage within a hundredth: *)
(* moves too small to be logged do not add up (_make_fingerprint, last_fp in spread_runner). *)
THEOREM ScanLogIsCurrent == ScanSpec => []LogIsCurrent
<1> QED
  BY ScanInitHolds, ScanStep, LastListIsPresent, PTL DEF ScanSpec

--------------------------------------------------------------------------------
(* The components as they are checked together: one runs, the others keep their state. *)
THEOREM PollingTypeCorrect == MCSpec => []PollingTypeOK
<1> DEFINE PollingInv == DepthInv /\ CountsFit /\ NetInv /\ NapsFit /\ ScanInv
<1>1. MCInit => PollingInv
  <2>1. NetInit => NapsFit
    BY NapAssumption DEF NetInit, NapsFit
  <2> QED
    BY <2>1, DepthInitHolds, CountsInitHold, NetInitHolds, ScanInitHolds DEF MCInit
<1>2. PollingInv /\ [MCNext]_MCVars => PollingInv'
  <2> SUFFICES ASSUME PollingInv, [MCNext]_MCVars PROVE PollingInv'
    OBVIOUS
  <2>1. [DepthNext]_depthVars /\ [NetNext]_netVars /\ [ScanNext]_scanVars
    BY DEF MCNext, BucketRuns, DepthRuns, StatusRuns, ScanRuns, MCVars
  <2> QED
    BY <2>1, DepthStep, CountsStep, NetStep, NapsStep, ScanStep
<1>3. PollingInv => PollingTypeOK
  BY DepthInvTypes, NetInvTypes, ScanInvTypes DEF PollingTypeOK
<1> QED
  BY <1>1, <1>2, <1>3, PTL DEF MCSpec
=============================================================================
