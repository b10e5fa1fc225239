SPECIFICATION FairSpec
CONSTANTS
  LineKinds <- AllLineKinds
  Behaviours <- AllBehaviours
  Launches <- BothAdapters
  MaxCancels = 2
  PipeCap = 2
  MaxLines <- ThreeAndOne
INVARIANTS
  LossHasItsReason
  ReturnIsComplete
  ClosedTranscriptIsDense
  TranscriptFollowsRaw
  ResultMatchesOutput
PROPERTIES
  SupervisionEnds
