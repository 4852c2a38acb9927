----------------------------- MODULE MCRunStore -----------------------------
(* Two runs of one project over two datasets, one of them for validation. *)
EXTENDS RunStore, TLC

CONSTANTS p1, r1, r2, d1, d2, l1, l2, k1

MCProjects == {p1}
MCRuns == {r1, r2}
MCDatasets == {d1, d2}
MCLeases == {l1, l2}
MCKeys == {k1}
MCSpecs == {[project |-> p1, dataset |-> d1, validation |-> None, options |-> 0],
            [project |-> p1, dataset |-> d1, validation |-> d2, options |-> 0]}
MCBodies == {"provenance"}
MCPolicies == {"initial"}
MCManifests == {"manifest"}

Symmetry == Permutations(MCRuns) \cup Permutations(MCLeases)
=============================================================================
