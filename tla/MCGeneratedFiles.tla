-------------------------- MODULE MCGeneratedFiles --------------------------
(* One old major and one new one, two releases of each.                    *)
EXTENDS GeneratedFiles

\* The second release of the old major has no strchrnul fallback to shim.
MCMarked(m, r) == m = 18 \/ r = "a"

MCMajorsInOrder == <<14, 18>>

MCLeftovers == {<<"action_catalog_chunk", 3>>, <<"parse_subunit", 18>>}
=============================================================================
