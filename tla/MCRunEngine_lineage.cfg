SPECIFICATION FairSpec
CONSTANTS
  NTrials = 3
  Concurrency = 1
  CarryForward = TRUE
  RecordResults <- TwoResults
  Faults <- LineageFaults
  MaxEdits = 1
  MaxDrift = 0
INVARIANTS
  EvidenceChain
  LineageIsCompleted
  ChildInheritsParent
PROPERTIES
  SealedForGood
  ImplementsLedger
