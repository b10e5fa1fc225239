SPECIFICATION Spec
CONSTANTS
  Byte = {"a"}
  Newline = "newline"
  MaxBytes = 7
  MaxChunk = 4
INVARIANTS
  SameAsWholeFile
