CONSTANTS
  Values <- MCValues
  Flags = {FALSE, TRUE}
  Clients = 5
  Minima <- MCMinima
  Methods <- MCMethods
  Fs <- MCFs
  Ks <- MCKs
  Betas <- MCBetas
  Samples <- MCSamples
SPECIFICATION MCSpec
INVARIANTS
  CountsAreSound
  RobustAggregation
  BackendsAgree
  PartitionIsExact
  DecryptsToFedAvg
CHECK_DEADLOCK FALSE
