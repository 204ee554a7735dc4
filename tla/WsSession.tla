----------------------------- MODULE WsSession -----------------------------
(***************************************************************************)
(* The websocket sessions of one chain: how they follow pools.json and how *)
(* they move from endpoint to endpoint.                                    *)
(*                                                                         *)
(*   "chain"   dex_part/core/chain_monitor.py, the V2/V3 session           *)
(*   "v4"      dex_part/core/v4_monitor.py, the Uniswap V4 session         *)
(*   watcher   dex_part/core/pools_watcher.py                              *)
(*   cursor    engine/endpoints.py, one per chain, shared by both sessions *)
(*                                                                         *)
(* The V2/V3 session loads the file once, when it starts; the watcher      *)
(* compares the file with its own copy every ten seconds and sets the      *)
(* chain's restart event; replace_pool sets it too.  The event is cleared  *)
(* only where a new session starts, and looked at only by the receive      *)
(* loop, minutes later if the RPC is slow.  What a session does with the   *)
(* swaps is in PoolBinding.                                                *)
(***************************************************************************)
EXTENDS Naturals

CONSTANTS
  Rows,       \* rows of pools.json as the watcher compares them
  FirstRows,  \* those an earlier run left
  V4Pools,    \* V4 poolIds
  Monitors,   \* sessions of the chain: "chain", and "v4" where there is V4
  Count,      \* number of endpoints in ws_list
  Kind,       \* what each of them does: "good", "dead", "banning" (429, 403)
  MaxWrites   \* bound: rewrites of pools.json

Endpoints == 0..(Count - 1)

ASSUME SessionAssumption ==
  /\ Monitors \in {{"chain"}, {"chain", "v4"}}
  /\ Count \in Nat \ {0}
  /\ Kind \in [Endpoints -> {"good", "dead", "banning"}]
  /\ FirstRows \subseteq Rows
  /\ MaxWrites \in Nat

VARIABLES
  file,       \* normalized_snapshot() of pools.json
  touched,    \* its mtime is not the watcher's last_mtime
  known,      \* the watcher's copy
  event,      \* the chain's restart event
  undone,     \* history: since the session loaded the file, a change was
              \*   taken back before the watcher saw it
  writes,     \* rewrites so far
  stage,      \* per session: "idle" (top of the loop), "init" (metadata),
              \*   "connecting", "live" (receive loop), "asleep" (back-off)
  url,        \* per session: the endpoint current_ws gave it (0: no session)
  erring,     \* per session: consecutive_errors > 0; more only grow the wait
  cursor,     \* _ws_cursor
  loaded,     \* rows the V2/V3 session loaded; it streams those whose
              \*   metadata it could read
  cached,     \* V4 pools in the metadata cache
  subscribed  \* V4 pools the V4 session subscribes

vars == <<file, touched, known, event, undone, writes, stage, url, erring,
          cursor, loaded, cached, subscribed>>

poolFile == <<file, touched, known, undone, writes>>
v4Sets   == <<cached, subscribed>>
----------------------------------------------------------------------------
Init ==
  /\ file = FirstRows
  /\ touched = FALSE
  /\ known = file
  /\ event = FALSE
  /\ undone = FALSE
  /\ writes = 0
  /\ stage = [m \in Monitors |-> "idle"]
  /\ url = [m \in Monitors |-> 0]
  /\ erring = [m \in Monitors |-> FALSE]
  /\ cursor = 0
  /\ loaded = {}
  /\ cached = {}
  /\ subscribed = {}

(* Any actor of PoolBinding rewrites the file, changed or not. *)
Write(rows) ==
  /\ writes < MaxWrites
  /\ writes' = writes + 1
  /\ file' = rows
  /\ touched' = TRUE
  /\ undone' = (undone \/ (file # known /\ rows = known))
  /\ UNCHANGED <<known, event, stage, url, erring, cursor, loaded, v4Sets>>

(* replace_pool asks for a restart itself. *)
Signal ==
  /\ event' = TRUE
  /\ UNCHANGED <<poolFile, stage, url, erring, cursor, loaded, v4Sets>>

(* pools_file_watcher, every POLL_INTERVAL. *)
WatcherPolls ==
  /\ touched
  /\ touched' = FALSE
  /\ known' = file
  /\ event' = (event \/ file # known)
  /\ UNCHANGED <<file, undone, writes, stage, url, erring, cursor, loaded,
                 v4Sets>>
----------------------------------------------------------------------------
(************************ what both sessions share *************************)

Goes(m, s) == stage' = [stage EXCEPT ![m] = s]

(* The session function is left, and its locals are gone. *)
Leaves(m, s) ==
  /\ Goes(m, s)
  /\ url' = [url EXCEPT ![m] = 0]
  /\ loaded' = IF m = "chain" THEN {} ELSE loaded
  /\ subscribed' = IF m = "v4" THEN {} ELSE subscribed

(* It has returned, or the connection was closed: no error to count. *)
EndsWell(m, s) == Leaves(m, s) /\ erring' = [erring EXCEPT ![m] = FALSE]

(* Mutant: the cursor runs off the list. *)
RotatedPastEnd == cursor + 1

(* rotate_ws: the next endpoint of the list, round robin. *)
Rotated == IF cursor + 1 = Count THEN 0 ELSE cursor + 1

Connects(m) ==
  /\ stage[m] = "connecting"
  /\ Kind[url[m]] = "good"
  /\ Goes(m, "live")
  /\ UNCHANGED <<poolFile, event, url, erring, cursor, loaded, v4Sets>>

(* Mutant: a failing session tries the same endpoint for ever. *)
ErrorStays(m, banned) ==
  /\ erring' = [erring EXCEPT ![m] = TRUE]
  /\ Leaves(m, "asleep")
  /\ UNCHANGED <<poolFile, event, cursor, cached>>

(* A session error: it backs off, and a ban or a second failure in a row   *)
(* moves the cursor on, wherever the other session has moved it meanwhile. *)
Error(m, banned) ==
  /\ erring' = [erring EXCEPT ![m] = TRUE]
  /\ cursor' = IF banned \/ erring[m] THEN Rotated ELSE cursor
  /\ Leaves(m, "asleep")
  /\ UNCHANGED <<poolFile, event, cached>>

Refused(m) ==
  /\ stage[m] = "connecting"
  /\ Kind[url[m]] # "good"
  /\ Error(m, Kind[url[m]] = "banning")

(* A good endpoint's handshake times out, or a handler raises. *)
Stumbles(m) ==
  /\ stage[m] \in {"connecting", "live"}
  /\ Kind[url[m]] = "good"
  /\ Error(m, FALSE)

(* The provider closes the connection (a second's sleep), or the stall     *)
(* watchdog gives it up (none): neither counts as an error.                *)
LiveEnds(m) ==
  /\ stage[m] = "live"
  /\ \E s \in {"asleep", "idle"} : EndsWell(m, s)
  /\ UNCHANGED <<poolFile, event, cursor, cached>>

Wakes(m) ==
  /\ stage[m] = "asleep"
  /\ Goes(m, "idle")
  /\ UNCHANGED <<poolFile, event, url, erring, cursor, loaded, v4Sets>>
----------------------------------------------------------------------------
(************************** the V2/V3 session ******************************)

(* monitor_chain clears the event and _run_ws_session reads the endpoint   *)
(* and the file, all without suspending.  Without rows it sleeps and       *)
(* returns cleanly.                                                        *)
ChainStarts ==
  /\ stage["chain"] = "idle"
  /\ event' = FALSE
  /\ undone' = FALSE
  /\ IF file = {}
       THEN EndsWell("chain", "asleep")
       ELSE /\ Goes("chain", "init")
            /\ url' = [url EXCEPT !["chain"] = cursor]
            /\ loaded' = file
            /\ UNCHANGED <<erring, subscribed>>
  /\ UNCHANGED <<file, touched, known, writes, cursor, cached>>

(* Mutant: the event is cleared once the session is ready to receive. *)
ChainInitClears ==
  /\ stage["chain"] = "init"
  /\ \/ Goes("chain", "connecting") /\ UNCHANGED <<url, erring, loaded, subscribed>>
     \/ EndsWell("chain", "asleep")
  /\ event' = FALSE
  /\ UNCHANGED <<poolFile, cursor, cached>>

(* _init_metadata: each pool's metadata is read or not, within its         *)
(* timeouts; with none at all the session sleeps and returns cleanly.      *)
ChainInit ==
  /\ stage["chain"] = "init"
  /\ \/ Goes("chain", "connecting") /\ UNCHANGED <<url, erring, loaded, subscribed>>
     \/ EndsWell("chain", "asleep")
  /\ UNCHANGED <<poolFile, event, cursor, cached>>

(* _recv_loop sees the event, after thirty quiet seconds at the latest. *)
ChainRestarts ==
  /\ stage["chain"] = "live"
  /\ event
  /\ EndsWell("chain", "idle")
  /\ UNCHANGED <<poolFile, event, cursor, cached>>
----------------------------------------------------------------------------
(***************************** the V4 session ******************************)

(* get_v4_pool_metadata adds a pool to the cache; nothing removes one. *)
V4Added(p) ==
  /\ p \notin cached
  /\ cached' = cached \cup {p}
  /\ UNCHANGED <<poolFile, event, stage, url, erring, cursor, loaded,
                 subscribed>>

V4Starts ==
  /\ "v4" \in Monitors
  /\ stage["v4"] = "idle"
  /\ IF cached = {}
       THEN EndsWell("v4", "asleep")
       ELSE /\ Goes("v4", "connecting")
            /\ url' = [url EXCEPT !["v4"] = cursor]
            /\ subscribed' = cached
            /\ UNCHANGED <<erring, loaded>>
  /\ UNCHANGED <<poolFile, event, cursor, cached>>

(* Mutant: the reload renews the table but keeps the subscription. *)
V4ReloadsInPlace ==
  /\ "v4" \in Monitors
  /\ stage["v4"] = "live"
  /\ cached # subscribed
  /\ UNCHANGED vars

(* The minute's reload finds another set of pools: the session ends. *)
V4Reloads ==
  /\ "v4" \in Monitors
  /\ stage["v4"] = "live"
  /\ cached # subscribed
  /\ EndsWell("v4", "idle")
  /\ UNCHANGED <<poolFile, event, cursor, cached>>

Next ==
  \/ \E rows \in SUBSET Rows : Write(rows)
  \/ Signal
  \/ WatcherPolls
  \/ \E m \in Monitors :
       Connects(m) \/ Refused(m) \/ Stumbles(m) \/ LiveEnds(m) \/ Wakes(m)
  \/ ChainStarts \/ ChainInit \/ ChainRestarts
  \/ \E p \in V4Pools : V4Added(p)
  \/ V4Starts \/ V4Reloads

Spec == Init /\ [][Next]_vars

(* The loops go round: sleeps end, reads and handshakes have timeouts, the *)
(* watcher polls, the receive loop looks at the event every half minute.   *)
(* The acknowledgement V4Monitor waits for has no timeout: that a peer     *)
(* which answers pings also sends it is assumed.                           *)
(* No provider is obliged to close a connection, nobody to write the file. *)
FairSpec ==
  /\ Spec
  /\ WF_vars(WatcherPolls)
  /\ \A m \in Monitors : WF_vars(Connects(m)) /\ WF_vars(Refused(m)) /\ WF_vars(Wakes(m))
  /\ WF_vars(ChainStarts) /\ WF_vars(ChainInit) /\ WF_vars(ChainRestarts)
  /\ WF_vars(V4Starts) /\ WF_vars(V4Reloads)

(* From some moment on good endpoints do not stumble and the RPC does not  *)
(* fail for every pool at once.  Without the second, sessions that end for *)
(* want of metadata end cleanly, which resets the count of errors that     *)
(* moves the cursor on; without the first, one session's stumbling can     *)
(* turn the cursor so that the other always finds the dead endpoint.       *)
Settles ==
  <>[][ /\ ChainInit => stage'["chain"] = "connecting"
        /\ \A m \in Monitors : ~Stumbles(m) ]_vars
----------------------------------------------------------------------------
TypeOK ==
  /\ file \in SUBSET Rows
  /\ touched \in BOOLEAN
  /\ known \in SUBSET Rows
  /\ event \in BOOLEAN
  /\ undone \in BOOLEAN
  /\ writes \in 0..MaxWrites
  /\ stage \in [Monitors -> {"idle", "init", "connecting", "live", "asleep"}]
  /\ url \in [Monitors -> Endpoints]
  /\ erring \in [Monitors -> BOOLEAN]
  /\ cursor \in Endpoints
  /\ loaded \in SUBSET Rows
  /\ subscribed \subseteq cached
  /\ cached \in SUBSET V4Pools

(* "Watch pools.json for changes and signal WS sessions to restart": a     *)
(* session at work on rows that are not the file's any more is either told *)
(* so already or about to be, in whatever order the file is written, the   *)
(* watcher polls, sessions start and the event is set and cleared.  One    *)
(* way around it is left: a change the session has loaded is taken back    *)
(* before the watcher looks.                                               *)
AtWork == stage["chain"] \in {"init", "connecting", "live"}
NoChangeMissed ==
  AtWork /\ loaded # file => event \/ (touched /\ file # known) \/ undone

(* Again and again the session is live on the very rows the file has,      *)
(* although the endpoint in use when it starts is dead, the connection is  *)
(* closed any number of times and restarts are asked for at any moment.    *)
FeedFollowsFile ==
  Settles =>
    []<>( (stage["chain"] = "live" /\ loaded = file) \/ undone \/ file = {} )

(* A V4 pool that enters the cache is subscribed by a live session. *)
V4PoolStreamed ==
  Settles =>
    \A p \in V4Pools :
      p \in cached ~> (stage["v4"] = "live" /\ p \in subscribed)

(* endpoints.py: "a single dead endpoint therefore can't darken a chain -  *)
(* we move on".                                                            *)
ChainStaysLit ==
  Settles =>
    []<>( (\E m \in Monitors : stage[m] = "live") \/ file = {} )
=============================================================================
