SPECIFICATION Spec
CONSTANTS
  Majors = {14, 18}
  Sources <- MCSources
  Rules <- MCRules
  Tokens <- MCTokens
  Numberings = {"scattered"}
  Identifier <- MCIdentifier
  ChunkCount = 3
  MaxTokens = 4
INVARIANT DiagnosticsAgree
CHECK_DEADLOCK FALSE
