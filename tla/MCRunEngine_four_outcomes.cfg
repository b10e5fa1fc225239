SPECIFICATION Spec
CONSTANTS
  NTrials = 2
  Concurrency = 2
  CarryForward = FALSE
  RecordResults <- AllResults
  Faults <- NoFaults
  MaxEdits = 0
  MaxDrift = 0
INVARIANTS
  CompletedMeansAllFour
