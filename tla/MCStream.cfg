CONSTANTS
  Rounds = 3
  Keep = 2
  MaxSamples = 3
  MaxPosts = 2
SPECIFICATION FairSpec
INVARIANTS
  PublishedIsCurrent
  StopWithinOneRound
PROPERTIES
  PublishedNeverRegresses
  Finishes
CHECK_DEADLOCK FALSE
