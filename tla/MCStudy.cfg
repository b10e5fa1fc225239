CONSTANTS
  Drafts <- Documents
  MaxShuffled = 2
  Observable <- ObservedStudies
  MaxLost = 1
  MaxOrbit = 36
  SmallRun = 4
SPECIFICATION Spec
INVARIANTS ConfirmatoryStudiesCompile ConfirmatoryMeansNothingLost PermutationTestIsValid HolmIsClosedTesting
CHECK_DEADLOCK FALSE
