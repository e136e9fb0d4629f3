CONSTANTS
  TrainKeys <- MCTrainKeys
  N = 2
  SynMax = 4
  LeafCapacity = 5
  UpperBytes = 128
  TotalBytes = 1024
  Probes = {5, 10, 15, 50, 55, 90, 95}
INIT Init
NEXT Next
CHECK_DEADLOCK FALSE
INVARIANTS TypeOK RoutingConsistent SearchIsLowerBound ReplicasMatchEngine
