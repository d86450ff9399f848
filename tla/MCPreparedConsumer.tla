-------------------------- MODULE MCPreparedConsumer --------------------------
(* PreparedConsumer on small instances. *)
EXTENDS PreparedConsumer, TLC

Symmetry == Permutations(Gids) \union Permutations(Xids)
=============================================================================
