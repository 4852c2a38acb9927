--------------------------- MODULE MCRunSubmission ---------------------------
(* Two clients of one project.                                             *)
EXTENDS RunSubmission, FiniteSets, TLC

CONSTANTS p1, r1, r2, d1, l1, k1, c1, c2

MCProjects == {p1}
MCRuns == {r1, r2}
MCDatasets == {d1}
MCLeases == {l1}
MCKeys == {k1}
MCClients == {c1, c2}
OneSpec == {[project |-> p1, dataset |-> d1, validation |-> None, options |-> 0]}
TwoSpecs == OneSpec \cup
  {[project |-> p1, dataset |-> d1, validation |-> None, options |-> 1]}

(* Of four complications at most one is met in one behaviour: requests     *)
(* that differ or have a key, the clock, altered snapshots and an updated  *)
(* policy, which meets one client at a time.  A parent is not named while  *)
(* there are two specifications.  The clock moves once a run was claimed.  *)
OtherSpecs ==
  \/ \E r \in Runs : spec[r] \in Specs \ OneSpec
  \/ \E c \in Clients : op[c].spec \in Specs \ OneSpec
NamesParent == \E c \in Clients : op[c].resume = None /\ op[c].parent # None
Requests ==
  \/ OtherSpecs \/ NamesParent
  \/ \E r \in Runs : idem[r] # None /\ idem[r][2] \in Keys
  \/ \E c \in Clients : op[c].key # None
Complications ==
  {n \in 1..4 : CASE n = 1 -> Requests
                   [] n = 2 -> now > 0
                   [] n = 3 -> \E d \in Datasets : file[d] = "altered"
                   [] n = 4 -> \E p \in Projects : policy[p] # InitialPolicy}
Limited ==
  /\ Cardinality(Complications) <= 1
  /\ 2 \in Complications => issued # {}
  /\ ~ (OtherSpecs /\ NamesParent)
  /\ 4 \in Complications => Cardinality({c \in Clients : op[c] # Idle}) <= 1

Symmetry == Permutations(MCRuns) \cup Permutations(MCClients)
=============================================================================
