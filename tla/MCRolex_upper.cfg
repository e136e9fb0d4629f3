CONSTANTS
  TrainKeys <- MCTrainKeys
  N = 2
  SynMax = 4
  LeafCapacity = 9
  UpperBytes = 64
  TotalBytes = 1024
  Probes = {5, 10, 15, 50, 55, 90, 95}
INIT Init
NEXT Next
CHECK_DEADLOCK FALSE
INVARIANTS ReplicasMatchEngine
