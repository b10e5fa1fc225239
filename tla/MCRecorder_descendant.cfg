SPECIFICATION FairSpec
CONSTANTS
  LineKinds <- Plain
  Behaviours <- Forks
  Launches <- OneAdapter
  MaxCancels = 0
  PipeCap = 1
  MaxLines <- OneEach
PROPERTIES
  EveryAttemptEnds
