-------------------------------- MODULE MCRolex --------------------------------
(* Training keys for the Rolex runs: nine keys, so that a run of segment *)
(* cuts can yield one to five submodels.                                  *)
EXTENDS Rolex

MCTrainKeys == <<10, 20, 30, 40, 50, 60, 70, 80, 90>>
=============================================================================
