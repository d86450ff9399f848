SPECIFICATION Spec
CONSTANTS
  MajorsInOrder <- MCMajorsInOrder
  Releases = {"a", "b"}
  Marked <- MCMarked
  ChunkCount = 2
  Leftovers <- MCLeftovers
  MaxImports = 1
  MaxInterrupts = 1
INVARIANT CheckedIsCurrent
 
 
