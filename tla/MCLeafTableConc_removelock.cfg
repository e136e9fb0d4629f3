CONSTANTS
  N = 2
  KInvalid = 99
  NoVal = 0
  SynMax = 4
  LeafCapacity = 5
  TrainKeys <- MCTrainKeys
  TrainVal = 1
  Keys = {30, 40}
  Vals = {2}
  SlopeNum = 1
  SlopeDen = 10
  Intercept <- MCIntercept
  Epsilon = 1
  Ops = {"remove"}
  Threads = {t1, t2}
INIT CInit
NEXT CNext

INVARIANTS MutatorsExclusive
