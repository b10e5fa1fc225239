SPECIFICATION FairSpec
CONSTANTS
  NTrials = 3
  Concurrency = 2
  CarryForward = FALSE
  RecordResults <- OkOnly
  Faults <- Endings
  MaxEdits = 0
  MaxDrift = 1
INVARIANTS
  TypeOK
  CompletedRunIsComplete
  RowFollowsRun
  NoDesignDeviation
  BoundedConcurrency
  CancelledIsAllOrNothing
PROPERTIES
  MovesUntilItEnds
  CommandEnds
