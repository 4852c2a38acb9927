---------------------------- MODULE AccuracyGate ----------------------------
(***************************************************************************)
(* The decision of evaluate_accuracy_gain (evaluation/accuracy_gate.py):   *)
(* one classifier is trained for each seed on the original rows and one on *)
(* the candidate's, and the accuracies on the validation rows are          *)
(* compared.  An accuracy is a whole number of parts; a mean over the      *)
(* seeds is compared as the sum.                                           *)
(***************************************************************************)
EXTENDS Integers, FiniteSets

CONSTANTS
  Seeds,          \* the seeds of a command
  Top,            \* bound: an accuracy of 1 in parts
  MinimumGain,    \* optimize: parts by which a candidate must be better
  RelativeGain    \* generate: <<a, b>> for the fraction a/b of the original

ASSUME GateAssumption ==
  /\ IsFiniteSet(Seeds) /\ Seeds # {}
  /\ {Top, MinimumGain} \subseteq Nat
  /\ RelativeGain \in Nat \X (Nat \ {0})

Accuracies == [Seeds -> 0..Top]

(* The sum over the seeds: the parts that were reached, counted.           *)
Total(runs) == Cardinality({part \in Seeds \X (1..Top) : part[2] <= runs[part[1]]})

(* meets_relative_gain: over an original of 0 any right answer will do.    *)
MeetsRelative(candidate, original) ==
  IF original <= 0 THEN candidate > 0
  ELSE candidate * RelativeGain[2] >= original * (RelativeGain[1] + RelativeGain[2])

MeetsAbsolute(candidate, original, seeds) == candidate - original > MinimumGain * seeds

(* accepted: on the mean and on every seed.                                *)
OnMean(relative, candidate, original) ==
  IF relative THEN MeetsRelative(Total(candidate), Total(original))
  ELSE MeetsAbsolute(Total(candidate), Total(original), Cardinality(Seeds))
Accepts(relative, candidate, original) ==
  /\ OnMean(relative, candidate, original)
  /\ \A s \in Seeds : IF relative THEN MeetsRelative(candidate[s], original[s])
                      ELSE MeetsAbsolute(candidate[s], original[s], 1)

(* Every label of the validation rows must be in both training sets, or    *)
(* there is no decision.                                                   *)
Comparable(original, candidate, validation) == validation \subseteq original \cap candidate
=============================================================================
