SPECIFICATION Spec
CONSTANTS
  Majors = {14, 18}
  Sources <- BrokenSources
  Rules <- MCRules
  Tokens <- MCTokens
  Numberings = {"scattered"}
  Identifier <- MCIdentifier
  ChunkCount = 3
  MaxTokens = 4
INVARIANT UnsupportedIsRefused
CHECK_DEADLOCK FALSE
