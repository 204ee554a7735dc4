---- MODULE MCPolling ----
(* What asks the exchanges over REST, and what for: the outbound rate limiter, *)
(* the depth watch, the network status, and the scan of spreads.  They share no *)
(* state: part says which of them runs, the others keep their initial state.  *)
EXTENDS TokenBucket, DepthWatch, NetworkStatus, SpreadScan

VARIABLE part

MCVars == <<part, vars, depthVars, netVars, scanVars>>

--------------------------------------------------------------------------------
MCWatches == [w1 |-> 2, w2 |-> 1]

MCExchanges == <<"bybit", "gate">>
\* Percentages on both sides of a rounding step and of the threshold; a crossed quote.
MCQuotations == {<<20101, 20110>>, <<20102, 20112>>, <<20110, 20105>>}
MCBlacklists == {{}, {"gate"}}

--------------------------------------------------------------------------------
\* What a component that does not run starts with, where it has a choice.
AtRest ==
    /\ part # "status" => truth = "open"
    /\ part # "scan" => excluded = {}

MCInit ==
    /\ part \in {"bucket", "depth", "status", "scan"}
    /\ Init /\ DepthInit /\ NetInit /\ ScanInit
    /\ AtRest

BucketRuns ==
    /\ part = "bucket" /\ Next
    /\ UNCHANGED <<part, depthVars, netVars, scanVars>>

DepthRuns ==
    /\ part = "depth" /\ DepthNext
    /\ UNCHANGED <<part, vars, netVars, scanVars>>

StatusRuns ==
    /\ part = "status" /\ NetNext
    /\ UNCHANGED <<part, vars, depthVars, scanVars>>

ScanRuns ==
    /\ part = "scan" /\ ScanNext
    /\ UNCHANGED <<part, vars, depthVars, netVars>>

MCNext == BucketRuns \/ DepthRuns \/ StatusRuns \/ ScanRuns

\* The fairness of each specification, of the component that runs.
MCFairness ==
    /\ WF_vars(part = "bucket" /\ HolderRuns)
    /\ WF_vars(part = "bucket" /\ Tick)
    /\ WF_depthVars(part = "depth" /\ ScanRegisters)
    /\ WF_depthVars(part = "depth" /\ PollStep)
    /\ \A s \in Watchable : WF_depthVars(part = "depth" /\ FetchStep(s))

MCSpec == MCInit /\ [][MCNext]_MCVars /\ MCFairness

--------------------------------------------------------------------------------
\* The values of the depth watch, the network status and the scan.
PollingTypeOK == DepthTypeOK /\ NetTypeOK /\ ScanTypeOK
====
