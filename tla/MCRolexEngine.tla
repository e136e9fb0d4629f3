---------------------------- MODULE MCRolexEngine ----------------------------
(***************************************************************************)
(* Training keys 10, 20, 50, 60, 70, 80 with Epsilon = 1: PLR's corridor   *)
(* of 0 cuts at 50, so train builds a submodel of one slot (10, 20;        *)
(* position k/10 - 1) and one of two slots (50 .. 80; position k/10 - 5).  *)
(* A scan from 15 that runs past 20 continues in the second submodel,      *)
(* where 15 predicts position -4.                                          *)
(***************************************************************************)
EXTENDS RolexEngine

MCTrain1 == <<10, 20>>
MCTrain2 == <<50, 60, 70, 80>>
MCIntercept1 == -1
MCIntercept2 == -5
=============================================================================
