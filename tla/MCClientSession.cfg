CONSTANTS
  Columns = {c1, c2}
  NoDescription = NoDescription
  MaxPending = 3
SPECIFICATION Spec
SYMMETRY Symmetry
INVARIANT TypeOK
INVARIANT CopyFlagsAgree
INVARIANT PipelineExcludesCopy
INVARIANT ReadyIsClean
INVARIANT CopySyncIsPending
INVARIANT OriginFits
