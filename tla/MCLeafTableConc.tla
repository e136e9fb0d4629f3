--------------------------- MODULE MCLeafTableConc ---------------------------
EXTENDS LeafTableConc

MCTrainKeys == <<10, 20, 30, 40>>
MCIntercept == -1

\* The worker threads run the same code: any permutation of them is sound.
Sym == Permutations(Threads)
=============================================================================
