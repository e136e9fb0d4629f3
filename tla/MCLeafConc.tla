----------------------------- MODULE MCLeafConc -----------------------------
(***************************************************************************)
(* A leaf of two slots, as the submodel runs use, trained with 10 and 20.  *)
(***************************************************************************)
EXTENDS LeafConc

MCInitKeys == <<10, 20>>
MCInitVals == <<1, 1>>
=============================================================================
