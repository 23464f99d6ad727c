SPECIFICATION FairSpec
CONSTANTS
  w1 = w1
  w2 = w2
  Workers <- MCWorkers
  Rounds = 3
  Required = 2
  MinResults = 1
  MaxCrashes = 1
INVARIANTS
  BusyMarksAreTrue
  SendNeverBlocks
PROPERTIES
  RunEnds
  ImplementsTrainingRun
