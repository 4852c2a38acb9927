--------------------------- MODULE GatedCommands ----------------------------
(***************************************************************************)
(* The two commands that measure what they made before they write it:      *)
(* `buffdata optimize --require-positive-gain` and `buffdata generate`     *)
(* (cli/main.py, optimizers/gated_generator.py).  Both refuse an output    *)
(* that exists, since one that a stopped attempt left could be taken for   *)
(* this one's.  A file holds the number of the attempt, and of the round,  *)
(* it was written by.                                                      *)
(***************************************************************************)
EXTENDS AccuracyGate, Sequences

CONSTANTS
  Labels,         \* labels of rows
  MaxIterations,  \* --max-iterations
  MaxAttempts,    \* bound: times the command is started for one output
  Nothing

ASSUME GatedAssumption ==
  /\ MaxIterations \in Nat \ {0} /\ MaxAttempts \in Nat /\ Nothing \notin Labels
  /\ Nothing \notin [attempt : Nat, round : Nat]

VARIABLES
  command, stage, attempt,
  labelled, validation, \* labels of the original and of the validation rows
  pool,           \* labels of the rows that generate augments
  rounds,         \* per_iteration: total accuracy, relative gain, accepted
  baseline,       \* total accuracy of the original rows in the first round
  best,           \* the round of best_pool
  original, candidate, \* accuracies of the last comparison
  saved,          \* what is written to the output
  quarantine,     \* .rejected.jsonl of optimize
  gateReport      \* .report.json, .accuracy_gate.json

fileVars == <<saved, quarantine, gateReport>>
measureVars == <<pool, rounds, baseline, best, original, candidate>>
inputVars == <<command, attempt, labelled, validation>>
gatedVars == <<stage, inputVars, measureVars, fileVars>>

GatedInit ==
  /\ command = Nothing /\ stage = "new" /\ attempt = 0
  /\ labelled = {} /\ validation = {} /\ pool = {}
  /\ rounds = <<>> /\ baseline = 0 /\ best = 0 /\ original = Nothing /\ candidate = Nothing
  /\ saved = Nothing /\ quarantine = Nothing /\ gateReport = Nothing

(* The command starts, or starts again for the same output.                *)
Begin(c, L, V) ==
  /\ stage \in {"new", "over"} /\ attempt < MaxAttempts
  /\ (attempt > 0) => (<<command, labelled, validation>> = <<c, L, V>>)
  /\ command' = c /\ labelled' = L /\ validation' = V /\ attempt' = attempt + 1
  /\ stage' = IF saved = Nothing THEN "measure" ELSE "refused"
  /\ pool' = L /\ rounds' = <<>> /\ baseline' = 0 /\ best' = 0
  /\ original' = Nothing /\ candidate' = Nothing
  /\ UNCHANGED fileVars

(* The pipeline may reject every row of a label, and augmenting drop them, *)
(* if they repeat the texts of other rows, or of a variation that came     *)
(* before them.  A validation label that is missing ends the command.      *)
CandidateLabels == SUBSET pool
Measured(o, c) == original' = o /\ candidate' = c

Incomparable ==
  /\ stage = "measure"
  /\ \E C \in CandidateLabels : ~ Comparable(labelled, C, validation)
  /\ stage' = "over"
  /\ UNCHANGED <<inputVars, measureVars, fileVars>>

Publishable ==
  /\ stage = "measure"
  /\ \E C \in CandidateLabels : Comparable(labelled, C, validation)

(* optimize: one comparison; exit 2, with nothing written, if it fails.    *)
Optimize(o, c) ==
  /\ command = "optimize" /\ Publishable /\ Measured(o, c)
  /\ stage' = IF Accepts(FALSE, c, o) THEN "accepted" ELSE "over"
  /\ UNCHANGED <<inputVars, pool, rounds, baseline, best, fileVars>>

(* generate: each round augments the last candidate and compares it with   *)
(* the original rows.                                                      *)
Better(c) == best = 0 \/ Total(c) > rounds[best].accuracy
Gain(accuracy, over) == IF over > 0 THEN <<accuracy - over, over>> ELSE <<0, 1>>  \* a fraction
Round(o, c) ==
  /\ command = "generate" /\ stage = "measure" /\ Measured(o, c)
  /\ \E C \in CandidateLabels : Comparable(labelled, C, validation) /\ pool' = C
  /\ baseline' = IF rounds = <<>> THEN Total(o) ELSE baseline
  /\ LET passed == Accepts(TRUE, c, o) IN
       /\ rounds' = Append(rounds, [accuracy |-> Total(c), gain |-> Gain(Total(c), Total(o)),
                                    accepted |-> passed])
       /\ stage' = IF passed \/ Len(rounds) + 1 = MaxIterations THEN "write" ELSE "diagnose"
  /\ best' = IF Better(c) THEN Len(rounds) + 1 ELSE best
  /\ UNCHANGED <<inputVars, fileVars>>

(* diagnose_candidate_errors steers the next round; it needs two labels.   *)
(* The accuracies on each seed are not kept.                               *)
Diagnose ==
  /\ stage = "diagnose"
  /\ original' = Nothing /\ candidate' = Nothing
  /\ stage' = IF Cardinality(pool \cup validation) < 2 THEN "over" ELSE "measure"
  /\ UNCHANGED <<inputVars, pool, rounds, baseline, best, fileVars>>

(* A provider error in the pipeline or in augmenting, a row without a      *)
(* scalar label, or the process stops, wherever it is.                     *)
Stop ==
  /\ stage \notin {"new", "over", "refused", "done"}
  /\ stage' = "over"
  /\ UNCHANGED <<inputVars, measureVars, fileVars>>

-----------------------------------------------------------------------------
(* optimize replaces its three files one after the other.                  *)
WriteAccepted ==
  /\ stage = "accepted" /\ stage' = "reject"
  /\ saved' = [attempt |-> attempt, round |-> 1]
  /\ UNCHANGED <<inputVars, measureVars, quarantine, gateReport>>
WriteRejected ==
  /\ stage = "reject" /\ stage' = "report"
  /\ quarantine' = attempt
  /\ UNCHANGED <<inputVars, measureVars, saved, gateReport>>
WriteReport ==
  /\ stage = "report" /\ stage' = "done"
  /\ gateReport' = [attempt |-> attempt, original |-> original, candidate |-> candidate]
  /\ UNCHANGED <<inputVars, measureVars, saved, quarantine>>

(* What generate returns: the candidate that was accepted or the best.     *)
Passed == rounds[Len(rounds)].accepted
Returned == IF Passed THEN Len(rounds) ELSE best

(* Opening the output empties it; the rows and the report follow.          *)
OpenCandidate ==
  /\ stage = "write" /\ stage' = "fill"
  /\ saved' = [attempt |-> attempt, round |-> 0]
  /\ UNCHANGED <<inputVars, measureVars, quarantine, gateReport>>
WriteCandidate ==
  /\ stage = "fill" /\ stage' = "gate"
  /\ saved' = [saved EXCEPT !.round = Returned]
  /\ UNCHANGED <<inputVars, measureVars, quarantine, gateReport>>
(* The gain in the report is the last round's, whichever it returns.       *)
WriteGateReport ==
  /\ stage = "gate" /\ stage' = "done"
  /\ gateReport' = [attempt |-> attempt, passed |-> Passed, baseline |-> baseline,
                    final |-> rounds[Returned].accuracy, gain |-> rounds[Len(rounds)].gain,
                    per |-> rounds]
  /\ UNCHANGED <<inputVars, measureVars, saved, quarantine>>

GatedStep ==
  \/ \E c \in {"optimize", "generate"}, L, V \in (SUBSET Labels) \ {{}} : Begin(c, L, V)
  \/ Incomparable \/ Diagnose \/ Stop
  \/ \E o, c \in Accuracies : Optimize(o, c) \/ Round(o, c)
  \/ WriteAccepted \/ WriteRejected \/ WriteReport
  \/ OpenCandidate \/ WriteCandidate \/ WriteGateReport

-----------------------------------------------------------------------------
(* An output that optimize published is better than the original on every  *)
(* seed, and the files beside it are of the same attempt.                  *)
PublishedOnlyIfBetter ==
  (command = "optimize" /\ saved # Nothing) =>
    /\ attempt = saved.attempt =>
         \A s \in Seeds : candidate[s] > original[s] + MinimumGain
    /\ quarantine \in {Nothing, saved.attempt}
    /\ gateReport # Nothing => gateReport.attempt = saved.attempt /\ quarantine = saved.attempt

(* The report of generate is about the candidate beside it: it says passed *)
(* only of the last round's, if that was better on every seed, and has     *)
(* otherwise the accuracy of the best round.  Its gain is the last round's *)
(* over the original rows of that round, so that a failing report may have *)
(* the gain of another candidate, and its baseline is the first round's:   *)
(* the three figures are sure to fit together after one round only.        *)
ReportedHonestly ==
  (command = "generate" /\ gateReport # Nothing) =>
    LET per == gateReport.per IN
    /\ gateReport.attempt = saved.attempt
    /\ saved.round \in DOMAIN per
    /\ gateReport.final = per[saved.round].accuracy
    /\ gateReport.passed = per[saved.round].accepted
    /\ gateReport.passed => saved.round = Len(per)
    /\ (gateReport.passed /\ attempt = saved.attempt) =>
         \A s \in Seeds : original[s] = 0 \/
           (candidate[s] - original[s]) * RelativeGain[2] >= original[s] * RelativeGain[1]
    /\ ~ gateReport.passed =>
         \A i \in DOMAIN per : ~ per[i].accepted /\ per[i].accuracy <= gateReport.final
    /\ gateReport.gain = per[Len(per)].gain
    /\ Len(per) = 1 => gateReport.gain = Gain(gateReport.final, gateReport.baseline)

(* optimize publishes only what was better, and the report of generate     *)
(* claims nothing that was not measured in one of its rounds.              *)
GatesHonest == PublishedOnlyIfBetter /\ ReportedHonestly
=============================================================================
