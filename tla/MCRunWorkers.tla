---------------------------- MODULE MCRunWorkers ----------------------------
(* Two runs of one project compete for an HTTP worker and a local runner.  *)
(* The project is the one the dataset was registered in; the workers' file *)
(* of credentials may have an invalid entry for the second one.            *)
EXTENDS RunWorkers, TLC

CONSTANTS p1, p2, r1, r2, d1, l1, l2, w1, local

OneProject == {p1}
TwoProjects == {p1, p2}
InvalidEntries == {p2}
MCRuns == {r1, r2}
MCDatasets == {d1}
MCLeases == {l1, l2}
MCSpecs == [project : Projects, dataset : {d1}, validation : {None}, options : {0}]
MCHttpWorkers == {w1}
MCLocalRunners == {local}
(* Policies are updated where there are no faults and no recoveries.       *)
UpdatesWithoutFaults ==
  (\E p \in Projects : policy[p] # InitialPolicy) \/ (\E r \in Runs : body[r] = "changed")
    => faults = 0 /\ now = 0
(* The policy of a project without data is of no interest.                 *)
UpdatesWhereTheDataIs ==
  \A p \in Projects : policy[p] # InitialPolicy => dsProject[d1] = p
Symmetry == Permutations(MCRuns) \cup Permutations(MCLeases)
=============================================================================
