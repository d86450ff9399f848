--------------------------- MODULE MCManagedPrimary ---------------------------
(* ManagedPrimary on small instances. *)
EXTENDS ManagedPrimary, TLC

Symmetry == Permutations(Sessions)
=============================================================================
