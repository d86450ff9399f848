--------------------------- MODULE MCSessionServer ---------------------------
(* SessionServer on small instances. *)
EXTENDS SessionServer, TLC

Symmetry == Permutations(Workers) \union Permutations(Secrets)
=============================================================================
