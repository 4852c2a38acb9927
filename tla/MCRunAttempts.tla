--------------------------- MODULE MCRunAttempts ---------------------------
(* A chain of three attempts at two different pieces of work.              *)
EXTENDS RunAttempts, TLC

CONSTANTS r1, r2, r3, i1, i2

MCRuns == {r1, r2, r3}
MCIdentities == {i1, i2}
Symmetry == Permutations(MCRuns) \cup Permutations(MCIdentities)
=============================================================================
