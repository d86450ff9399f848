---------------------------- MODULE MCPipelineWire ----------------------------
(* PipelineWire on small instances. *)
EXTENDS PipelineWire, TLC

Symmetry == Permutations(Columns)
=============================================================================
