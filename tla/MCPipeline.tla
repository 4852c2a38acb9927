----------------------------- MODULE MCPipeline -----------------------------
(* Two rows of every kind, and configurations that exercise every stage.   *)
EXTENDS Pipeline, FiniteSets, TLC

CONSTANTS r1, r2

TwoRows == {r1, r2}
AllInputs == [TwoRows -> Kinds]
(* A file with a labelled and an invalid row, edited into a mixed one.     *)
EditedInputs == {[r \in TwoRows |-> IF r = r1 THEN "labelled" ELSE k] :
                   k \in {"invalid", "unlabelled"}}

Balanced == [contract |-> "balanced", scrub |-> TRUE, labelledPii |-> "identifiers",
             dedup |-> TRUE, quality |-> "sampled", classification |-> "auto"]
Strict == [Balanced EXCEPT !.contract = "strict", !.quality = "llm"]

DefaultConfigs == {Balanced, Strict}

(* Stages on and off, under both contracts; deduplication that is off does *)
(* what one that finds no duplicates does.                                 *)
ManyConfigs ==
  {[Strict EXCEPT !.contract = k, !.scrub = s, !.quality = q, !.classification = c] :
     k \in {"strict", "balanced"}, s \in BOOLEAN,
     q \in {"llm", "sampled", "off"}, c \in {"off", "auto", "explicit"}}
AllConfigs == DefaultConfigs \cup ManyConfigs

(* A path that sees several inputs or configurations, or is used again     *)
(* when its outputs are complete, sees these only.                         *)
InputsSeen == {input} \cup {h.identity.input : h \in Held}
ConfigsSeen == {h.identity.config : h \in Held}
UsedAgain == output # None /\ output # checkpoint /\ pc # "done"
ReuseWithDefaults ==
  Cardinality(InputsSeen) > 1 \/ Cardinality(ConfigsSeen) > 1 \/ UsedAgain =>
     InputsSeen \subseteq EditedInputs /\ ConfigsSeen \subseteq DefaultConfigs

StrictOnly == {Strict}
Symmetry == Permutations(TwoRows)
=============================================================================
