--------------------------- MODULE MCClientSession ---------------------------
(* ClientSession against an arbitrary peer, on a small instance. *)
EXTENDS ClientSession, TLC

Symmetry == Permutations(Columns)
=============================================================================
