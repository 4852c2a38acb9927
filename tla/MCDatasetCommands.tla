------------------------- MODULE MCDatasetCommands --------------------------
(* Four rows in up to three partitions, two seeds, two rounds.           *)
EXTENDS DatasetCommands

MCRelativeGain == <<1, 10>>
Plain == [labels |-> <<"x", "y", "x", "x">>, parts |-> 2, stratify |-> TRUE,
          command |-> "refine", given |-> "returned", ray |-> FALSE, similar |-> {}, blank |-> {},
          used |-> TRUE]
(* Two rows for three partitions: two are not written.                     *)
Short == [Plain EXCEPT !.labels = <<"x", "y">>, !.parts = 3]
Pairs == {{i, j} : i, j \in 1..4} \ {{i} : i \in 1..4}

(* Every dataset of no, one or four rows, up to the names of its classes,  *)
(* is split, every command run over one split, dedup with every likeness   *)
(* of four rows in one partition, augment with equal, blank and unlabelled *)
(* ones, and the commands are given partitions of an earlier dataset, or   *)
(* ones that are not there.                                                *)
Datasets == {l \in UNION {[1..k -> {"x", "y", None}] : k \in {0, 1, 4}} :
               \A i \in DOMAIN l : l[i] = "y" => \E j \in 1..(i - 1) : l[j] = "x"}
Splits == {[Plain EXCEPT !.labels = l, !.parts = n, !.stratify = s] :
             l \in Datasets, n \in 1..3, s \in BOOLEAN}
MCConfigurations ==
  Splits
  \cup {[Plain EXCEPT !.command = c, !.parts = n] : c \in Commands \ {"dedup"}, n \in 1..2}
  \cup {[Plain EXCEPT !.command = "optimize", !.ray = TRUE, !.used = u] : u \in BOOLEAN}
  \cup {[Plain EXCEPT !.command = "dedup", !.parts = 1, !.similar = L] : L \in SUBSET Pairs}
  \cup {[Plain EXCEPT !.command = "augment", !.parts = n, !.similar = L, !.blank = B] :
          n \in 1..2, L \in {{{1, 2}}, {{1, 3}}, {{2, 4}, {1, 3}}}, B \in {{}, {3}}}
  \cup {[Short EXCEPT !.labels[2] = None, !.command = "augment"]}
  \cup {[Short EXCEPT !.command = c, !.given = g, !.used = u] :
          c \in {"optimize", "augment", "score"}, g \in {"listed", "numbered"}, u \in BOOLEAN}

(* The documented optimize run.                                            *)
MCOptimized == {[Plain EXCEPT !.command = "optimize", !.used = FALSE]}

(* A split of other labels is not followed into the commands, and the      *)
(* gated commands, which share no variable with the shards, are followed   *)
(* from the start.  An attempt after one that left no output is like the   *)
(* first.                                                                  *)
MCExplored ==
  /\ phase = "new" \/ stage = "new"
  /\ attempt > 1 => saved # Nothing
  /\ validation = labelled \/ ~ validation \subseteq labelled
  /\ command = "optimize" => labelled = {"x", "y"}
  /\ phase \in {"new", "shard"} \/ Len(setup.labels) = 2 \/ setup.labels = Plain.labels
       \/ \A p \in Parts : worker[p] = "idle"
=============================================================================
