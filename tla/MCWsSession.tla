---------------------------- MODULE MCWsSession ----------------------------
(***************************************************************************)
(* WsSession with bad endpoints at the head of the list.  `Four` has two   *)
(* good ones behind a dead and a banning one: wherever the rotations of    *)
(* two sessions leave the cursor, a good one comes up before the list has  *)
(* gone round.  `Two` has one dead and one good.                           *)
(***************************************************************************)
EXTENDS WsSession

CONSTANTS r1, r2

Four == [e \in Endpoints |->
           IF e = 0 THEN "dead" ELSE IF e = 1 THEN "banning" ELSE "good"]
Two == [e \in Endpoints |-> IF e = 0 THEN "dead" ELSE "good"]
=============================================================================
