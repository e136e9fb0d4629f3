----------------------------- MODULE MCSubModel -----------------------------
(***************************************************************************)
(* A submodel trained on spec.md's scenario keys 10..40 with leaves of two *)
(* keys, so that two slots exist, every predicted window spans both, and a *)
(* few inserts split leaves and grow synonym chains until the synonym      *)
(* table runs out.                                                         *)
(***************************************************************************)
EXTENDS SubModel

MCTrainKeys == <<10, 20, 30, 40>>
MCIntercept == -1
=============================================================================
