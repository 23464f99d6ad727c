CONSTANTS
  w1 = w1
  w2 = w2
  Workers <- MCWorkers
  Private <- MCPrivate
  Quorum = 2
  MaxRound = 2
  MaxFaults = 1
  Commands <- MCCommands
SPECIFICATION FairSpec
INVARIANTS
  AccountantIsExact
  TrainedOnCurrent
  OncePerRound
PROPERTIES
  RoundsGoOn
CHECK_DEADLOCK FALSE
