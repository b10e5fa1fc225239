SPECIFICATION Spec
CONSTANTS
  Runs = {"run1", "run2"}
  NTrials = 2
  PlanOf <- TwoPlans
  Faults <- AllFaults
  MaxCommands = 2
INVARIANTS
  IndexShowsOnlyFiles
  ReindexRestores
  RowLagsOnlyAfterRace
