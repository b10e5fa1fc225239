CONSTANTS
  Paths <- TwoPaths
  Slash = 1
  SourceNodes = {"one"}
  AgentNodes = {"two"}
  MaxEdits = 2
SPECIFICATION Spec
INVARIANT ChangesAreListed
