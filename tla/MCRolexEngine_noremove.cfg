CONSTANTS
  N = 2
  KInvalid = 99
  NoVal = 0
  SynMax = 4
  LeafCapacity = 6
  TrainVal = 1
  Keys = {5, 15, 25, 45, 85}
  Vals = {2}
  SlopeNum = 1
  SlopeDen = 10
  Epsilon = 1
  Ops = {"search", "update", "insert"}
  Train1 <- MCTrain1
  Train2 <- MCTrain2
  Intercept1 <- MCIntercept1
  Intercept2 <- MCIntercept2
INIT Init
NEXT Next
CHECK_DEADLOCK FALSE
INVARIANTS
  EngineChainsWellFormed
  
PROPERTIES
  EngineKVRefinement
