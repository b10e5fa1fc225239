CONSTANTS
  NTrials = 2
  Reps = 1
  Procs = {p1, p2}
  Results = {"scored", "omitted"}
  MaxFaults = 2
  MaxDatasets = 2
SPECIFICATION Spec
SYMMETRY Symmetry
INVARIANTS DatasetsStayGrounded BlindingMapIsLast ConfirmatoryAnalysisIsUnique AnalysisMatchesItsDataset RowsFollowEvaluations
PROPERTY PublishedIsFinal
