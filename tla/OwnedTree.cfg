SPECIFICATION Spec
CONSTANTS
  Majors = {14, 16}
  Schemas <- MCSchemas
  Enumerators <- MCEnumerators
  Statements <- MCStatements
  MaximumDepth = 10
  MaxFuel = 15
INVARIANT StorageIsReturned
INVARIANT AcceptedTreesAgree
INVARIANT ShallowStatementsAreAccepted
INVARIANT ComparatorDecides
INVARIANT TraversalIsNested
