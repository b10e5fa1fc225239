CONSTANTS
  Paths <- TwoPaths
  Slash = 1
  SourceNodes = {"one", "dangling", "escape"}
  AgentNodes = {"absent", "two", "link", "dangling", "escape", "fifo", "nested", "unborn", "unexported", "rewritten"}
  MaxEdits = 2
SPECIFICATION Spec
INVARIANTS InitialIsWhatTheAgentFound HonestAttemptCounts
PROPERTIES CountsAsSealed ScoringEnds
