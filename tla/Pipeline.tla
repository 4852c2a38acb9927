------------------------------ MODULE Pipeline ------------------------------
(***************************************************************************)
(* The optimization pipeline (buffdata/engine/pipeline.py, run_file and    *)
(* run): seven stages over the rows of a dataset, a checkpoint after each, *)
(* then three output files.  The process may stop between any two steps    *)
(* (killed, out of memory, a provider error), and a later one may find the *)
(* files it left, with the same input and configuration or with others.    *)
(*                                                                         *)
(* A row is an identity with what the stages do to it: the edits of its    *)
(* text, its label, its score and the stage that rejected it.  What a      *)
(* provider or a similarity measure answers is nondeterministic.           *)
(***************************************************************************)
EXTENDS Integers, Sequences

CONSTANTS
  Rows,      \* the records of the dataset
  Inputs,    \* the versions of the input file: what each row is when read
  Configs,   \* the configurations the pipeline may be started with
  Again,     \* bound: whether a finished output path is used again
  None

(* A label of white space, or an empty list of labels, is blank: it is     *)
(* there, but names no class.                                              *)
Kinds == {"labelled", "blank", "unlabelled", "invalid"}

(* The fields of PipelineConfig that decide what happens to a row.         *)
ConfigType ==
  [contract : {"strict", "balanced"},          \* accuracy_contract
   scrub : BOOLEAN,                            \* scrub_pii
   labelledPii : {"identifiers", "all", "off"},\* classification_pii_mode
   dedup : BOOLEAN,                            \* dedup_method # "off"
   quality : {"llm", "sampled", "off"},        \* quality_mode
   classification : {"off", "auto", "explicit"}]

Identities == [input : Inputs, config : Configs]

(* What the pipeline holds of its rows, in memory and in its files.        *)
RowType ==
  [edits : Seq({"redact", "refine"}),
   score : {"high", "low", None},
   by : {"validate", "dedup", "filter", "classify", None},
   label : {"given", "blank", "assigned", None}]
WorkType ==
  [completed : 0 .. 7, accepted : SUBSET Rows, rejected : SUBSET Rows,
   applicable : BOOLEAN, row : [Rows -> RowType]]
ResultType == [identity : Identities, work : WorkType]

ASSUME PipelineAssumption ==
  /\ Inputs \subseteq [Rows -> Kinds]
  /\ Inputs # {}
  /\ Configs \subseteq ConfigType
  /\ None \notin Configs \cup Identities \cup WorkType \cup ResultType
  /\ None \notin {"validate", "dedup", "filter", "classify", "given", "blank", "assigned"}
  /\ Again \in BOOLEAN

VARIABLES
  input,       \* the input file
  checkpoint,  \* .<output>.checkpoint.json
  output,      \* the accepted rows' file
  quarantine,  \* <output>.rejected.jsonl
  report,      \* <output>.report.json
  pc,          \* where the process is; "down" when there is none
  identity,    \* the fingerprint it computed: input and configuration
  work,        \* what it has in memory
  sent         \* what the last stage handed to a provider: each row's edits

diskVars == <<checkpoint, output, quarantine, report>>
vars == <<input, diskVars, pc, identity, work, sent>>

Stages == <<"validate", "pii", "profile", "dedup", "score_refine", "filter", "classify">>

config == identity.config

(* What read_dataset makes of the input file.                              *)
LabelRead(kind) ==
  CASE kind = "labelled" -> "given"
    [] kind = "blank" -> "blank"
    [] kind \in {"unlabelled", "invalid"} -> None

Fresh(i) ==
  [completed |-> 0,
   accepted |-> Rows,
   rejected |-> {},
   applicable |-> FALSE,
   row |-> [r \in Rows |-> [edits |-> <<>>, score |-> None, by |-> None,
                            label |-> LabelRead(i[r])]]]

Init ==
  /\ input \in Inputs
  /\ checkpoint = None /\ output = None /\ quarantine = None /\ report = None
  /\ pc = "down"
  /\ identity = None
  /\ work = None
  /\ sent = {}

-----------------------------------------------------------------------------
(* _load_checkpoint: none, or one with this very fingerprint, or raise.    *)
CheckpointOfAnyone(id) == TRUE
CheckpointUsable(id) == checkpoint # None => checkpoint.identity = id

Start(c) ==
  /\ pc = "down" \/ (pc = "done" /\ Again)
  /\ LET id == [input |-> input, config |-> c]
     IN  /\ CheckpointUsable(id)
         /\ identity' = id
  /\ work' = IF checkpoint = None THEN Fresh(input) ELSE checkpoint.work
  /\ pc' = "working"
  /\ sent' = {}
  /\ UNCHANGED <<input, diskVars>>

-----------------------------------------------------------------------------
(* The stages.  A blank label counts: the rows are asked for None.         *)
Labelled(R) == R # {} /\ \A r \in R : work.row[r].label # None
StrictLabelled(R) == config.contract = "strict" /\ Labelled(R)

At(stage) ==
  /\ pc = "working"
  /\ work.completed < Len(Stages)
  /\ Stages[work.completed + 1] = stage

(* A stage ends in memory; its checkpoint is the next step.                *)
Complete(w) ==
  /\ work' = [w EXCEPT !.completed = @ + 1]
  /\ pc' = "saving"
  /\ UNCHANGED <<input, diskVars, identity>>

Edit(w, R, e) ==
  [w EXCEPT !.row = [r \in Rows |-> IF r \in R THEN [w.row[r] EXCEPT !.edits = Append(@, e)]
                                               ELSE w.row[r]]]

RejectWithoutRemoving(w, R, stage) ==
  [w EXCEPT !.rejected = @ \cup R,
            !.row = [r \in Rows |-> IF r \in R THEN [@[r] EXCEPT !.by = stage] ELSE @[r]]]

Reject(w, R, stage) ==
  [w EXCEPT !.accepted = @ \ R, !.rejected = @ \cup R,
            !.row = [r \in Rows |-> IF r \in R THEN [@[r] EXCEPT !.by = stage] ELSE @[r]]]

Send(R) == sent' = {work.row[r].edits : r \in R}
SendNothing == Send({})

Validate ==
  /\ At("validate")
  /\ Complete(Reject(work, {r \in work.accepted : identity.input[r] = "invalid"}, "validate"))
  /\ SendNothing

(* classification_mode: whose text scrub_batch redacts, if it runs at all. *)
PiiModeOffWhenStrict(R) ==
  CASE config.contract = "strict" -> "off"
    [] config.contract # "strict" /\ Labelled(R) -> config.labelledPii
    [] config.contract # "strict" /\ ~ Labelled(R) -> "all"

PiiMode(R) ==
  CASE StrictLabelled(R) -> "off"
    [] ~ StrictLabelled(R) /\ Labelled(R) -> config.labelledPii
    [] ~ Labelled(R) -> "all"

Pii ==
  /\ At("pii")
  /\ Complete(IF config.scrub /\ PiiMode(work.accepted) # "off"
                THEN Edit(work, work.accepted, "redact")
                ELSE work)
  /\ SendNothing

(* A dataset that names a class is profiled locally; otherwise a sample    *)
(* may go to the provider.  Here blank labels do not count.                *)
NamesNoClass(R) == \A r \in R : work.row[r].label \in {None, "blank"}

Profile ==
  /\ At("profile")
  /\ \E a \in BOOLEAN : Complete([work EXCEPT !.applicable = a])
  /\ \/ SendNothing
     \/ /\ NamesNoClass(work.accepted)
        /\ \E R \in SUBSET work.accepted : R # {} /\ Send(R)

(* Of several duplicates one is kept.                                      *)
Dedup ==
  /\ At("dedup")
  /\ IF config.dedup /\ ~ StrictLabelled(work.accepted)
       THEN \E D \in SUBSET work.accepted :
               /\ D # work.accepted \/ D = {}
               /\ Complete(Reject(work, D, "dedup"))
       ELSE Complete(work)
  /\ SendNothing

QualityModeAsConfigured(R) == config.quality
QualityMode(R) == IF StrictLabelled(R) THEN "off" ELSE config.quality

(* A row that could not be scored is low: filter rejects it as well.       *)
Scores == {"high", "low"}

(* Low scorers in a refinable format are rewritten and scored again; a     *)
(* rewrite the provider does not return leaves the row as it was.          *)
ScoreRefine ==
  /\ At("score_refine")
  /\ CASE QualityMode(work.accepted) = "off" -> Complete(work) /\ SendNothing
       [] QualityMode(work.accepted) = "sampled" ->
            /\ Complete(work)      \* copies of a sample are scored
            /\ \E R \in SUBSET work.accepted : Send(R)
       [] QualityMode(work.accepted) = "llm" ->
            /\ \E R \in SUBSET work.accepted, S \in [Rows -> Scores] :
                 LET w == Edit(work, R, "refine")
                 IN  Complete([w EXCEPT !.row = [r \in Rows |->
                        IF r \in work.accepted THEN [@[r] EXCEPT !.score = S[r]] ELSE @[r]]])
            /\ Send(work.accepted)

Filter ==
  /\ At("filter")
  /\ IF QualityMode(work.accepted) = "llm"
       THEN Complete(Reject(work, {r \in work.accepted : work.row[r].score # "high"}, "filter"))
       ELSE Complete(work)
  /\ SendNothing

(* Whether the rows are classified at all, given a usable schema.          *)
Classifies ==
  CASE StrictLabelled(work.accepted) -> FALSE
    [] ~ StrictLabelled(work.accepted) /\ config.classification = "off" -> FALSE
    [] ~ StrictLabelled(work.accepted) /\ config.classification = "auto" ->
         ~ Labelled(work.accepted) /\ work.applicable
    [] ~ StrictLabelled(work.accepted) /\ config.classification = "explicit" -> TRUE

(* classify_batch labels every row anew; a chunk that fails twice leaves   *)
(* its rows with an error, whatever labels the first try gave them.        *)
Classify ==
  /\ At("classify")
  /\ IF Classifies
       THEN /\ \E F \in SUBSET work.accepted, G \in SUBSET work.accepted :
                 LET w == Reject(work, F, "classify")
                 IN  Complete([w EXCEPT !.row = [r \in Rows |->
                        IF r \in (work.accepted \ F) \cup G
                          THEN [@[r] EXCEPT !.label = "assigned"] ELSE @[r]]])
            /\ Send(work.accepted)
       ELSE Complete(work) /\ SendNothing

-----------------------------------------------------------------------------
(* _save_checkpoint: an atomic replacement.                                *)
SaveCheckpoint ==
  /\ pc = "saving"
  /\ checkpoint' = [identity |-> identity, work |-> work]
  /\ pc' = IF work.completed = Len(Stages) THEN "output" ELSE "working"
  /\ UNCHANGED <<input, output, quarantine, report, identity, work, sent>>

(* A process that resumes after the last stage goes straight to the files. *)
SkipStages ==
  /\ pc = "working" /\ work.completed = Len(Stages)
  /\ pc' = "output"
  /\ UNCHANGED <<input, diskVars, identity, work, sent>>

Result == [identity |-> identity, work |-> work]

WriteOutputAndUnlink ==
  /\ pc = "output"
  /\ output' = Result
  /\ checkpoint' = None
  /\ pc' = "quarantine"
  /\ UNCHANGED <<input, quarantine, report, identity, work, sent>>

WriteOutput ==
  /\ pc = "output"
  /\ output' = Result
  /\ pc' = "quarantine"
  /\ UNCHANGED <<input, checkpoint, quarantine, report, identity, work, sent>>

WriteRejected ==
  /\ pc = "quarantine"
  /\ quarantine' = Result
  /\ pc' = "report"
  /\ UNCHANGED <<input, checkpoint, output, report, identity, work, sent>>

WriteReport ==
  /\ pc = "report"
  /\ report' = Result
  /\ pc' = "unlink"
  /\ UNCHANGED <<input, checkpoint, output, quarantine, identity, work, sent>>

(* The checkpoint goes last.                                               *)
UnlinkAndReturn ==
  /\ pc = "unlink"
  /\ checkpoint' = None
  /\ pc' = "done"
  /\ UNCHANGED <<input, output, quarantine, report, identity, work, sent>>

-----------------------------------------------------------------------------
(* The process dies or raises: only the files are left.                    *)
Stop ==
  /\ pc \notin {"down", "done"}
  /\ pc' = "down"
  /\ identity' = None
  /\ work' = None
  /\ sent' = {}
  /\ UNCHANGED <<input, diskVars>>

(* The input file is edited between runs (not under a running one).        *)
EditInput ==
  /\ pc = "down" \/ (pc = "done" /\ Again)
  /\ \E i \in Inputs : i # input /\ input' = i
  /\ UNCHANGED <<diskVars, pc, identity, work, sent>>

Stage ==
  \/ Validate \/ Pii \/ Profile \/ Dedup \/ ScoreRefine \/ Filter \/ Classify

Files == WriteOutput \/ WriteRejected \/ WriteReport \/ UnlinkAndReturn

Next ==
  \/ \E c \in Configs : Start(c)
  \/ Stage \/ SaveCheckpoint \/ SkipStages \/ Files
  \/ Stop
  \/ EditInput

Spec == Init /\ [][Next]_vars

-----------------------------------------------------------------------------
Steps == {"down", "working", "saving", "output", "quarantine", "report", "unlink", "done"}

(* The work in memory and on disk, each with the identity it is of.        *)
Saved == {checkpoint, output, quarantine, report} \ {None}
Held == Saved \cup (IF work = None THEN {} ELSE {Result})

TypeOK ==
  /\ input \in Inputs
  /\ pc \in Steps
  /\ pc = "down" <=> work = None
  /\ pc = "down" <=> identity = None
  /\ Held \subseteq ResultType
  /\ sent # {} => work # None

(* Every input row is either accepted or in quarantine, in memory, in the  *)
(* checkpoint and in each output file, whatever was stopped and resumed,   *)
(* and a quarantined row names the one stage that rejected it.             *)
EachRowOnce ==
  \A h \in Held :
     /\ h.work.accepted = Rows \ h.work.rejected
     /\ \A r \in Rows : h.work.row[r].by # None <=> r \in h.work.rejected

(* A result holds rows of the input version its fingerprint names: exactly *)
(* the rows invalid there are quarantined by validate, even when the       *)
(* process resumed from a checkpoint.                                      *)
ResultsMatchFingerprint ==
  \A h \in Held : h.work.completed > 0 =>
     \A r \in Rows : h.work.row[r].by = "validate" <=> h.identity.input[r] = "invalid"

(* No crash between a stage and its checkpoint edits a row twice, and      *)
(* nothing is redacted after it was rewritten.                             *)
EachEditOnce ==
  \A h \in Held : \A r \in Rows :
     h.work.row[r].edits \in {<<>>, <<"redact">>, <<"refine">>, <<"redact", "refine">>}

(* A stop and a resume, between any two steps, neither loses nor doubles a *)
(* row nor what was done to it.                                            *)
RowsConserved == EachRowOnce /\ EachEditOnce

(* The strict contract leaves rows with blank labels unredacted, like all  *)
(* labelled ones, and the profile takes the same rows for unlabelled.      *)
ProfiledAsUnlabelled ==
  /\ work.completed = 3
  /\ config.contract = "strict"
  /\ \A r \in work.accepted : work.row[r].label = "blank"

(* With PII scrubbing on for labelled rows too, text reaches a provider    *)
(* redacted, in a resumed process as well, with one exception: the sample  *)
(* profiled of a dataset under the strict contract all of whose labels are *)
(* blank.                                                                  *)
OnlyRedactedRowsAreSent ==
  <<>> \in sent /\ config.scrub /\ config.labelledPii # "off" => ProfiledAsUnlabelled

(* When no process runs and no checkpoint is left, the three output files  *)
(* are those of one run: a crash between them leaves the checkpoint that   *)
(* makes the next run write all three again.                               *)
FilesOfOneRun ==
  pc \in {"down", "done"} /\ checkpoint = None => output = quarantine /\ quarantine = report

(* The outputs agree with each other and with the input and configuration  *)
(* they are of, whatever was left at the path before.                      *)
OutputsAgree == FilesOfOneRun /\ ResultsMatchFingerprint

(* Checkpointed work is given up only for its finished outputs: until then *)
(* a checkpoint keeps its input and configuration and no stage it holds is *)
(* done again.                                                             *)
ProgressIsKept ==
  [][checkpoint # None =>
       IF checkpoint' = None
         THEN output = checkpoint /\ quarantine = checkpoint /\ report = checkpoint
         ELSE /\ checkpoint'.identity = checkpoint.identity
              /\ checkpoint'.work.completed >= checkpoint.work.completed]_vars

Survives(h, r) ==
  r \in h.work.accepted /\ h.work.row[r].edits = <<>> /\ h.work.row[r].label = "given"

(* The strict contract, when every valid row has a label, if only a blank  *)
(* one: each labelled row is accepted with its text and label untouched.   *)
StrictKeepsLabelledDatasets ==
  \A h \in {output} \ {None} :
     /\ h.identity.config.contract = "strict"
     /\ \A r \in Rows : h.identity.input[r] # "unlabelled"
     => \A r \in Rows : h.identity.input[r] = "labelled" => Survives(h, r)

(* The strict contract as documented: "every valid labeled row survives    *)
(* with byte-identical text and labels", whatever else is in the dataset.  *)
StrictKeepsLabelledRows ==
  \A h \in {output} \ {None} : h.identity.config.contract = "strict" =>
     \A r \in Rows : h.identity.input[r] = "labelled" => Survives(h, r)

=============================================================================
