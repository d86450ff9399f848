SPECIFICATION Spec
CONSTANTS
  Majors = {14, 18}
  Sources <- MCSources
  Rules <- MCRules
  Tokens <- MCTokens
  Numberings = {"scattered", "shared", "reserved"}
  Identifier <- MCIdentifier
  ChunkCount = 3
  MaxTokens = 4
INVARIANT ReductionsAgree
INVARIANT DispatchIsExact
INVARIANT SharedActionsAreOneBody
CHECK_DEADLOCK FALSE
