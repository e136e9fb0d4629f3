CONSTANTS
  N = 2
  KInvalid = 99
  NoVal = 0
  SynMax = 4
  LeafCapacity = 4
  TrainKeys <- MCTrainKeys
  TrainVal = 1
  Keys = {15, 30, 35, 40}
  Vals = {2}
  SlopeNum = 1
  SlopeDen = 10
  Intercept <- MCIntercept
  Epsilon = 1
  Ops = {"search", "update", "insert", "remove"}
INIT Init
NEXT Next
PROPERTIES
  KVRefinement
