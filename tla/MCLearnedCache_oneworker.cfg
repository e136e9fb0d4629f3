CONSTANTS
  N = 2
  KInvalid = 99
  NoVal = 0
  SynMax = 4
  LeafCapacity = 3
  TrainKeys <- MCTrainKeys
  TrainVal = 1
  Keys = {35, 40}
  Vals = {2}
  SlopeNum = 1
  SlopeDen = 10
  Intercept <- MCIntercept
  Epsilon = 1
  Ops = {"insert", "update", "remove"}
  Threads = {t1}
  CNodes = {c1}
  CacheOps = {"search", "insert", "search_asyn", "insert_asyn"}
  CacheKeys = {40}
SPECIFICATION LFairSpec
CHECK_DEADLOCK FALSE
INVARIANTS CacheTypeOK ChainsWellFormed
PROPERTIES LocksReleased
