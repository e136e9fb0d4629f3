---------------------------- MODULE MCLearnedCache ----------------------------
EXTENDS LearnedCache

MCTrainKeys == <<10, 20, 30, 40>>
MCIntercept == -1
=============================================================================
