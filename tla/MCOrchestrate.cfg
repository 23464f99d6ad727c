CONSTANTS
  Workers <- MCWorkers
  Options <- MCOptions
  Leftovers <- MCLeftovers
SPECIFICATION FairSpec
INVARIANTS
  StartsInOrder
  ZeroMeansTrained
PROPERTIES
  DashboardIsOptional
  SignalOrLossEnds
  NothingOutlives
CHECK_DEADLOCK FALSE
