CONSTANTS
  Procs = {p1, p2, p3}
  MaxCrashes = 3
SPECIFICATION Spec
INVARIANTS FoundMeansRunnable
PROPERTY ImplementsCachedObject
