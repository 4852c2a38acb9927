--------------------------- MODULE PipelineProofs ---------------------------
(***************************************************************************)
(* What the optimization pipeline guarantees for any dataset, any input    *)
(* and any set of configurations, wherever its process stops.              *)
(***************************************************************************)
EXTENDS Pipeline, SequenceTheorems, TLAPS

-----------------------------------------------------------------------------
(* The inductive invariant.                                                *)

Redacts(i) == i.config.scrub /\ i.config.labelledPii # "off"

(* Work that the strict contract protects.                                 *)
Protected(i, w) ==
  i.config.contract = "strict" /\ w.accepted # {} /\ \A r \in w.accepted : w.row[r].label # None

RowsSplit(w) ==
  /\ w.accepted = Rows \ w.rejected
  /\ \A r \in Rows : w.row[r].by # None <=> r \in w.rejected

(* What has been edited after so many stages: the second redacts, the      *)
(* fifth refines.                                                          *)
EditsInOrder(w) ==
  /\ \A r \in Rows : w.row[r].edits \in {<<>>, <<"redact">>, <<"refine">>, <<"redact", "refine">>}
  /\ w.completed < 5 => \A r \in Rows : w.row[r].edits \in {<<>>, <<"redact">>}
  /\ w.completed < 2 => \A r \in Rows : w.row[r].edits = <<>>

InvalidRejected(i, w) ==
  /\ w.completed = 0 => w.rejected = {}
  /\ w.completed > 0 => \A r \in Rows : w.row[r].by = "validate" <=> i.input[r] = "invalid"

(* Rows that are not redacted are protected, and so not sent while they    *)
(* name a class.                                                           *)
RedactedOrProtected(i, w) ==
  w.completed >= 2 /\ Redacts(i) =>
    Protected(i, w) \/ \A r \in w.accepted : w.row[r].edits # <<>>

HasLabel == {"labelled", "blank"}

LabelledKept(i, w) ==
  i.config.contract = "strict" /\ (\A r \in Rows : i.input[r] # "unlabelled") =>
    \A r \in Rows : i.input[r] \in HasLabel =>
      r \in w.accepted /\ w.row[r].edits = <<>> /\ w.row[r].label = LabelRead(i.input[r])

Sound(i, w) ==
  /\ i \in Identities /\ w \in WorkType
  /\ RowsSplit(w) /\ EditsInOrder(w)
  /\ InvalidRejected(i, w) /\ RedactedOrProtected(i, w) /\ LabelledKept(i, w)

SavedSound == \A h \in Saved : h \in ResultType /\ Sound(h.identity, h.work)

WorkSound ==
  /\ input \in Inputs /\ pc \in Steps
  /\ pc = "down" => work = None /\ identity = None /\ sent = {}
  /\ pc # "down" => Sound(identity, work)

(* What the files hold at each point of the process.                       *)
FilesFollow ==
  /\ pc = "working" => checkpoint = Result \/ (checkpoint = None /\ work.completed = 0)
  /\ pc = "saving" => checkpoint = None \/ (/\ checkpoint.identity = identity
                                            /\ checkpoint.work.completed <= work.completed)
  /\ pc \in {"output", "quarantine", "report", "unlink"} => checkpoint = Result
  /\ pc \in {"quarantine", "report", "unlink"} => output = Result
  /\ pc \in {"report", "unlink"} => quarantine = Result
  /\ pc = "unlink" => report = Result
  /\ pc = "done" => checkpoint = None

FilesAgree == checkpoint = None => output = quarantine /\ quarantine = report

Inv == SavedSound /\ WorkSound /\ FilesFollow /\ FilesAgree /\ OnlyRedactedRowsAreSent
-----------------------------------------------------------------------------
(* What the stages do to the work.                                         *)

RejectStages == {"validate", "dedup", "filter", "classify"}

(* How d follows from w.                                                   *)
Completes(d, w) ==
  /\ d \in WorkType /\ d.completed = w.completed + 1
  /\ d.accepted = w.accepted /\ d.rejected = w.rejected /\ d.row = w.row

Rejects(d, w, R, stage) ==
  /\ d \in WorkType /\ d.completed = w.completed
  /\ d.accepted = w.accepted \ R /\ d.rejected = w.rejected \cup R
  /\ \A r \in Rows : /\ d.row[r].edits = w.row[r].edits
                     /\ d.row[r].label = w.row[r].label
                     /\ d.row[r].by = IF r \in R THEN stage ELSE w.row[r].by

Edits(d, w, R, e) ==
  /\ d \in WorkType /\ d.completed = w.completed
  /\ d.accepted = w.accepted /\ d.rejected = w.rejected
  /\ \A r \in Rows : /\ d.row[r].edits = IF r \in R THEN Append(w.row[r].edits, e) ELSE w.row[r].edits
                     /\ d.row[r].label = w.row[r].label /\ d.row[r].by = w.row[r].by

ScoresOnly(d, w) ==
  /\ d \in WorkType /\ d.completed = w.completed
  /\ d.accepted = w.accepted /\ d.rejected = w.rejected
  /\ \A r \in Rows : /\ d.row[r].edits = w.row[r].edits
                     /\ d.row[r].label = w.row[r].label /\ d.row[r].by = w.row[r].by

LabelsOnly(d, w) ==
  /\ d \in WorkType /\ d.completed = w.completed
  /\ d.accepted = w.accepted /\ d.rejected = w.rejected
  /\ \A r \in Rows : d.row[r].edits = w.row[r].edits /\ d.row[r].by = w.row[r].by

(* How many stages are completed before each.                              *)
LEMMA StageOrder ==
  ASSUME work \in WorkType
  PROVE  /\ At("validate") => work.completed = 0
         /\ At("pii") => work.completed = 1
         /\ At("profile") => work.completed = 2
         /\ At("dedup") => work.completed = 3
         /\ At("score_refine") => work.completed = 4
         /\ At("filter") => work.completed = 5
         /\ At("classify") => work.completed = 6
<1>1. work.completed \in 0 .. 7
  BY DEF WorkType
<1>2. Len(Stages) = 7
  BY DEF Stages
<1>3. ASSUME NEW stage, At(stage)
      PROVE  work.completed \in 0 .. 6 /\ Stages[work.completed + 1] = stage
  BY <1>1, <1>2, <1>3 DEF At
<1>4. /\ Stages[1] = "validate" /\ Stages[2] = "pii" /\ Stages[3] = "profile" /\ Stages[4] = "dedup"
      /\ Stages[5] = "score_refine" /\ Stages[6] = "filter" /\ Stages[7] = "classify"
  BY DEF Stages
<1>5. \A n \in 0 .. 6 : n = 0 \/ n = 1 \/ n = 2 \/ n = 3 \/ n = 4 \/ n = 5 \/ n = 6
  OBVIOUS
<1> QED
  BY <1>3, <1>4, <1>5

(* The number of completed stages is the only thing that completing one    *)
(* changes.                                                                *)
LEMMA CompleteWork ==
  ASSUME NEW w \in WorkType, w.completed < 7
  PROVE  Completes([w EXCEPT !.completed = @ + 1], w)
<1>1. w.completed + 1 \in 0 .. 7
  BY DEF WorkType
<1> QED
  BY <1>1 DEF Completes, WorkType

(* Rejected rows leave the accepted ones for the quarantine, marked with   *)
(* the stage that rejected them.                                           *)
LEMMA RejectWork ==
  ASSUME NEW w \in WorkType, NEW R \in SUBSET w.accepted, NEW stage \in RejectStages
  PROVE  Rejects(Reject(w, R, stage), w, R, stage)
<1> DEFINE row == [r \in Rows |-> IF r \in R THEN [w.row[r] EXCEPT !.by = stage] ELSE w.row[r]]
<1>1. w.row \in [Rows -> RowType] /\ w.accepted \subseteq Rows /\ w.rejected \subseteq Rows
  BY DEF WorkType
<1>2. row \in [Rows -> RowType]
  BY <1>1 DEF RowType, RejectStages
<1>3. \A r \in Rows : /\ row[r].edits = w.row[r].edits /\ row[r].label = w.row[r].label
                      /\ row[r].by = IF r \in R THEN stage ELSE w.row[r].by
  BY <1>1 DEF RowType
<1>4. Reject(w, R, stage)
         = [w EXCEPT !.accepted = w.accepted \ R, !.rejected = w.rejected \cup R, !.row = row]
  BY DEF Reject
<1> HIDE DEF row
<1>5. w.accepted \ R \in SUBSET Rows /\ w.rejected \cup R \in SUBSET Rows
  BY <1>1
<1>6. \A a \in SUBSET Rows, b \in SUBSET Rows :
         [w EXCEPT !.accepted = a, !.rejected = b, !.row = row] \in WorkType
  BY <1>2, Zenon DEF WorkType
<1>7. Reject(w, R, stage) \in WorkType
  BY <1>4, <1>5, <1>6
<1>8. LET d == Reject(w, R, stage)
      IN  /\ d.completed = w.completed /\ d.row = row
          /\ d.accepted = w.accepted \ R /\ d.rejected = w.rejected \cup R
  BY <1>4 DEF WorkType
<1> QED
  BY <1>3, <1>7, <1>8 DEF Rejects

(* An edit is appended to those of its rows and changes nothing else.      *)
LEMMA EditWork ==
  ASSUME NEW w \in WorkType, NEW R \in SUBSET Rows, NEW e \in {"redact", "refine"}
  PROVE  Edits(Edit(w, R, e), w, R, e)
<1> DEFINE row == [r \in Rows |->
                     IF r \in R THEN [w.row[r] EXCEPT !.edits = Append(w.row[r].edits, e)] ELSE w.row[r]]
<1>1. w.row \in [Rows -> RowType]
  BY DEF WorkType
<1>2. \A r \in Rows : w.row[r] \in RowType /\ Append(w.row[r].edits, e) \in Seq({"redact", "refine"})
  BY <1>1, AppendProperties DEF RowType
<1>3. row \in [Rows -> RowType]
  BY <1>2 DEF RowType
<1>4. \A r \in Rows : /\ row[r].edits = IF r \in R THEN Append(w.row[r].edits, e) ELSE w.row[r].edits
                      /\ row[r].label = w.row[r].label /\ row[r].by = w.row[r].by
  BY <1>2 DEF RowType
<1>5. Edit(w, R, e) = [w EXCEPT !.row = row]
  BY DEF Edit
<1> HIDE DEF row
<1>6. LET d == [w EXCEPT !.row = row]
      IN  /\ d \in WorkType /\ d.completed = w.completed /\ d.row = row
          /\ d.accepted = w.accepted /\ d.rejected = w.rejected
  BY <1>3 DEF WorkType
<1> QED
  BY <1>4, <1>5, <1>6 DEF Edits

(* What score_refine and classify write into the rows of R.                *)
Scored(w, R, S) ==
  [w EXCEPT !.row = [r \in Rows |-> IF r \in R THEN [@[r] EXCEPT !.score = S[r]] ELSE @[r]]]
Relabelled(w, R) ==
  [w EXCEPT !.row = [r \in Rows |-> IF r \in R THEN [@[r] EXCEPT !.label = "assigned"] ELSE @[r]]]

(* Scores change neither edits nor labels nor rejections.                  *)
LEMMA ScoreWork ==
  ASSUME NEW w \in WorkType, NEW R \in SUBSET Rows, NEW S \in [Rows -> Scores]
  PROVE  ScoresOnly(Scored(w, R, S), w)
<1> DEFINE row == [r \in Rows |-> IF r \in R THEN [w.row[r] EXCEPT !.score = S[r]] ELSE w.row[r]]
<1>1. w.row \in [Rows -> RowType]
  BY DEF WorkType
<1>2. row \in [Rows -> RowType]
  BY <1>1 DEF RowType, Scores
<1>3. \A r \in Rows : /\ row[r].edits = w.row[r].edits
                      /\ row[r].label = w.row[r].label /\ row[r].by = w.row[r].by
  BY <1>1 DEF RowType
<1>4. Scored(w, R, S) = [w EXCEPT !.row = row]
  BY DEF Scored
<1> HIDE DEF row
<1>5. LET d == [w EXCEPT !.row = row]
      IN  /\ d \in WorkType /\ d.completed = w.completed /\ d.row = row
          /\ d.accepted = w.accepted /\ d.rejected = w.rejected
  BY <1>2 DEF WorkType
<1> QED
  BY <1>3, <1>4, <1>5 DEF ScoresOnly

(* Labels change neither edits nor rejections.                             *)
LEMMA LabelWork ==
  ASSUME NEW w \in WorkType, NEW R \in SUBSET Rows
  PROVE  LabelsOnly(Relabelled(w, R), w)
<1> DEFINE row == [r \in Rows |-> IF r \in R THEN [w.row[r] EXCEPT !.label = "assigned"] ELSE w.row[r]]
<1>1. w.row \in [Rows -> RowType]
  BY DEF WorkType
<1>2. row \in [Rows -> RowType]
  BY <1>1 DEF RowType
<1>3. \A r \in Rows : row[r].edits = w.row[r].edits /\ row[r].by = w.row[r].by
  BY <1>1 DEF RowType
<1>4. Relabelled(w, R) = [w EXCEPT !.row = row]
  BY DEF Relabelled
<1> HIDE DEF row
<1>5. LET d == [w EXCEPT !.row = row]
      IN  /\ d \in WorkType /\ d.completed = w.completed /\ d.row = row
          /\ d.accepted = w.accepted /\ d.rejected = w.rejected
  BY <1>2 DEF WorkType
<1> QED
  BY <1>3, <1>4, <1>5 DEF LabelsOnly
-----------------------------------------------------------------------------
(* How work follows in one stage: with all its rows kept, or some rejected. *)
Keeps(d, w) ==
  /\ d \in WorkType /\ d.completed = w.completed + 1
  /\ d.accepted = w.accepted /\ d.rejected = w.rejected
  /\ \A r \in Rows : /\ d.row[r].edits = w.row[r].edits
                     /\ d.row[r].label = w.row[r].label /\ d.row[r].by = w.row[r].by

Removes(d, w, R, stage) ==
  /\ d \in WorkType /\ d.completed = w.completed + 1
  /\ d.accepted = w.accepted \ R /\ d.rejected = w.rejected \cup R
  /\ \A r \in Rows : /\ d.row[r].edits = w.row[r].edits
                     /\ d.row[r].by = IF r \in R THEN stage ELSE w.row[r].by

(* What the stages do to sound work.                                       *)

(* What the code asks before a stage touches a row is whether the work is  *)
(* protected.                                                              *)
LEMMA ProtectedIsStrict ==
  StrictLabelled(work.accepted) <=> Protected(identity, work)
BY DEF StrictLabelled, Labelled, Protected, config

(* A row that has a label is read with it.                                 *)
LEMMA LabelOfARow ==
  /\ \A k \in Kinds : LabelRead(k) \in {"given", "blank", None}
  /\ \A k \in HasLabel : LabelRead(k) # None
  /\ "labelled" \in HasLabel /\ LabelRead("labelled") = "given"
BY PipelineAssumption DEF LabelRead, HasLabel, Kinds

(* In a dataset without unlabelled rows what validation accepts is         *)
(* protected, if it accepts anything.                                      *)
LEMMA LabelledDatasets ==
  ASSUME NEW i, NEW w, Sound(i, w), w.completed >= 1, ~ Protected(i, w),
         i.config.contract = "strict", \A r \in Rows : i.input[r] # "unlabelled"
  PROVE  \A r \in Rows : i.input[r] \notin HasLabel
<1>1. /\ i.input \in [Rows -> Kinds] /\ w.accepted \subseteq Rows /\ w.completed \in 0 .. 7
      /\ w.completed > 0
  BY PipelineAssumption DEF Sound, Identities, WorkType
<1>2. \A r \in w.accepted : i.input[r] \in HasLabel
  <2>1. \A r \in w.accepted : r \in Rows /\ w.row[r].by = None
    BY <1>1 DEF Sound, RowsSplit
  <2>2. \A r \in Rows : w.row[r].by = "validate" <=> i.input[r] = "invalid"
    BY <1>1 DEF Sound, InvalidRejected
  <2>3. None # "validate"
    BY PipelineAssumption
  <2> QED
    BY <1>1, <2>1, <2>2, <2>3 DEF Kinds, HasLabel
<1>3. \A r \in w.accepted : w.row[r].label # None
  BY <1>1, <1>2, LabelOfARow DEF Sound, LabelledKept
<1>4. w.accepted = {}
  BY <1>3 DEF Protected
<1> QED
  BY <1>4 DEF Sound, LabelledKept

(* A stage after the second that neither edits nor rejects.                *)
LEMMA NothingDone ==
  ASSUME NEW i, NEW w, Sound(i, w), w.completed \in 2 .. 6,
         NEW d, Keeps(d, w)
  PROVE  Sound(i, d)
<1> USE DEF Keeps
<1>1. w.accepted \subseteq Rows
  BY DEF Sound, WorkType
<1>2. RowsSplit(d) /\ EditsInOrder(d) /\ InvalidRejected(i, d) /\ LabelledKept(i, d)
  BY <1>1 DEF Sound, RowsSplit, EditsInOrder, InvalidRejected, LabelledKept
<1>3. RedactedOrProtected(i, d)
  <2>1. Protected(i, w) => Protected(i, d)
    BY <1>1 DEF Protected
  <2>2. \A r \in w.accepted : d.row[r].edits = w.row[r].edits
    BY <1>1
  <2> QED
    BY <2>1, <2>2 DEF Sound, RedactedOrProtected
<1> QED
  BY <1>2, <1>3 DEF Sound

(* A stage after the second that rejects rows, or labels them: it leaves   *)
(* protected work alone.                                                   *)
LEMMA SomeRejected ==
  ASSUME NEW i, NEW w, Sound(i, w), w.completed \in 2 .. 6, ~ Protected(i, w),
         NEW R \in SUBSET w.accepted, NEW stage \in RejectStages \ {"validate"},
         NEW d, Removes(d, w, R, stage)
  PROVE  Sound(i, d)
<1> USE DEF Removes
<1>1. w.accepted \subseteq Rows /\ w.rejected \subseteq Rows /\ w.completed > 0 /\ None \notin RejectStages
  BY PipelineAssumption DEF Sound, WorkType, RejectStages
<1>2. RowsSplit(d)
  BY <1>1 DEF Sound, RowsSplit
<1>3. EditsInOrder(d)
  BY DEF Sound, EditsInOrder
<1>4. InvalidRejected(i, d)
  <2>1. \A r \in R : w.row[r].by = None /\ "validate" # None
    BY <1>1, PipelineAssumption DEF Sound, RowsSplit
  <2> QED
    BY <1>1, <2>1 DEF Sound, InvalidRejected
<1>5. RedactedOrProtected(i, d)
  BY <1>1 DEF Sound, RedactedOrProtected
<1>6. LabelledKept(i, d)
  <2>1. w.completed >= 1
    OBVIOUS
  <2> QED
    BY <2>1, LabelledDatasets DEF LabelledKept
<1> QED
  BY <1>2, <1>3, <1>4, <1>5, <1>6 DEF Sound

(* What is handed to a provider by work that is not protected.             *)
LEMMA SentIsRedacted ==
  ASSUME Sound(identity, work), work.completed >= 2, ~ Protected(identity, work), UNCHANGED identity,
         NEW R \in SUBSET work.accepted, Send(R)
  PROVE  OnlyRedactedRowsAreSent'
BY DEF Sound, RedactedOrProtected, Redacts, OnlyRedactedRowsAreSent, Send, config

(* A stage that calls no provider sends nothing.                           *)
LEMMA NothingSent ==
  ASSUME SendNothing
  PROVE  OnlyRedactedRowsAreSent'
BY DEF SendNothing, Send, OnlyRedactedRowsAreSent

(* What every stage leaves: sound work to be saved.                        *)
StageDone ==
  /\ pc = "working" /\ pc' = "saving" /\ UNCHANGED <<input, diskVars, identity>>
  /\ work'.completed = work.completed + 1 /\ Sound(identity, work')
  /\ OnlyRedactedRowsAreSent'

(* Validation rejects exactly the invalid rows.                            *)
LEMMA ValidateDone ==
  ASSUME WorkSound, Validate
  PROVE  StageDone
<1> DEFINE R == {r \in work.accepted : identity.input[r] = "invalid"}
           w == Reject(work, R, "validate")
           d == [w EXCEPT !.completed = @ + 1]
<1>1. Sound(identity, work) /\ work.completed = 0 /\ pc = "working" /\ work \in WorkType
  BY StageOrder DEF Validate, At, WorkSound, Sound
<1>2. Rejects(w, work, R, "validate")
  BY <1>1, RejectWork DEF RejectStages
<1>3. work' = d /\ pc' = "saving" /\ UNCHANGED <<input, diskVars, identity>> /\ SendNothing
  BY DEF Validate, Complete
<1> HIDE DEF w
<1>4. d.completed = 1 /\ Completes(d, w)
  BY <1>1, <1>2, CompleteWork DEF Completes, Rejects
<1> HIDE DEF d
<1>5. work.accepted = Rows /\ work.rejected = {} /\ \A r \in Rows : work.row[r].by = None
  BY <1>1 DEF Sound, RowsSplit, InvalidRejected
<1>6. RowsSplit(d) /\ EditsInOrder(d) /\ InvalidRejected(identity, d) /\ RedactedOrProtected(identity, d)
  BY <1>1, <1>2, <1>4, <1>5, PipelineAssumption
  DEF Completes, Rejects, Sound, RowsSplit, EditsInOrder, InvalidRejected, RedactedOrProtected
<1>7. LabelledKept(identity, d)
  BY <1>1, <1>2, <1>4, <1>5 DEF Completes, Rejects, Sound, LabelledKept, HasLabel
<1>8. Sound(identity, d)
  BY <1>1, <1>4, <1>6, <1>7 DEF Sound, Completes
<1> QED
  BY <1>1, <1>3, <1>4, <1>8, NothingSent DEF StageDone, Completes
(* After the second stage what is to be redacted is redacted, but for      *)
(* protected work.                                                         *)
LEMMA PiiDone ==
  ASSUME WorkSound, Pii
  PROVE  StageDone
<1> DEFINE w == IF config.scrub /\ PiiMode(work.accepted) # "off"
                  THEN Edit(work, work.accepted, "redact") ELSE work
           d == [w EXCEPT !.completed = @ + 1]
<1>1. /\ Sound(identity, work) /\ work.completed = 1 /\ pc = "working" /\ work \in WorkType
      /\ work.accepted \subseteq Rows /\ identity.config \in ConfigType
  BY StageOrder, PipelineAssumption DEF Pii, At, WorkSound, Sound, WorkType, Identities
<1>2. work' = d /\ pc' = "saving" /\ UNCHANGED <<input, diskVars, identity>> /\ SendNothing
  BY DEF Pii, Complete
<1>3. \A r \in Rows : work.row[r].edits = <<>>
  <2>1. EditsInOrder(work) /\ work.completed < 2
    BY <1>1 DEF Sound
  <2> QED
    BY <2>1 DEF EditsInOrder
<1>4. /\ w \in WorkType /\ w.completed = 1
      /\ w.accepted = work.accepted /\ w.rejected = work.rejected
      /\ \A r \in Rows : /\ w.row[r].label = work.row[r].label /\ w.row[r].by = work.row[r].by
                         /\ w.row[r].edits = IF config.scrub /\ PiiMode(work.accepted) # "off" /\ r \in work.accepted
                                               THEN <<"redact">> ELSE <<>>
  <2>1. CASE config.scrub /\ PiiMode(work.accepted) # "off"
    <3>1. w = Edit(work, work.accepted, "redact")
      BY <2>1
    <3>2. Append(<<>>, "redact") = <<"redact">>
      OBVIOUS
    <3>3. Edits(w, work, work.accepted, "redact")
      <4> HIDE DEF w
      <4>1. work.accepted \in SUBSET Rows /\ "redact" \in {"redact", "refine"}
        BY <1>1
      <4> QED
        BY <1>1, <3>1, <4>1, EditWork
    <3> HIDE DEF w
    <3> QED
      BY <1>1, <1>3, <2>1, <3>2, <3>3 DEF Edits
  <2>2. CASE ~ (config.scrub /\ PiiMode(work.accepted) # "off")
    <3>1. w = work
      BY <2>2
    <3> QED
      BY <1>1, <1>3, <2>2, <3>1
  <2> QED
    BY <2>1, <2>2
<1> HIDE DEF w
<1>5. /\ d \in WorkType /\ d.completed = 2
      /\ d.accepted = w.accepted /\ d.rejected = w.rejected /\ d.row = w.row
  BY <1>4, CompleteWork DEF Completes
<1> HIDE DEF d
<1>6. RowsSplit(d) /\ EditsInOrder(d) /\ InvalidRejected(identity, d)
  BY <1>1, <1>4, <1>5 DEF Sound, RowsSplit, EditsInOrder, InvalidRejected
<1>7. RedactedOrProtected(identity, d)
  <2>1. SUFFICES ASSUME Redacts(identity), ~ Protected(identity, d)
                 PROVE  \A r \in d.accepted : d.row[r].edits # <<>>
    BY DEF RedactedOrProtected
  <2>2. ~ StrictLabelled(work.accepted)
    BY <1>1, <1>4, <1>5, <2>1, ProtectedIsStrict DEF Protected
  <2>3. config.scrub /\ PiiMode(work.accepted) # "off"
    BY <2>1, <2>2 DEF PiiMode, Redacts, config
  <2>4. <<"redact">> # <<>>
    OBVIOUS
  <2> QED
    BY <1>1, <1>4, <1>5, <2>3, <2>4
<1>8. LabelledKept(identity, d)
  <2>1. SUFFICES ASSUME identity.config.contract = "strict", \A r \in Rows : identity.input[r] # "unlabelled",
                        NEW r \in Rows, identity.input[r] \in HasLabel
                 PROVE  /\ r \in d.accepted /\ d.row[r].edits = <<>>
                        /\ d.row[r].label = LabelRead(identity.input[r])
    BY DEF LabelledKept
  <2>2. StrictLabelled(work.accepted)
    BY <1>1, <2>1, LabelledDatasets, ProtectedIsStrict
  <2>3. ~ (config.scrub /\ PiiMode(work.accepted) # "off")
    BY <2>2 DEF PiiMode, StrictLabelled
  <2>4. r \in work.accepted /\ work.row[r].label = LabelRead(identity.input[r])
    BY <1>1, <2>1 DEF Sound, LabelledKept
  <2> QED
    BY <1>4, <1>5, <2>3, <2>4
<1>9. Sound(identity, d)
  BY <1>1, <1>5, <1>6, <1>7, <1>8 DEF Sound
<1> QED
  BY <1>1, <1>2, <1>5, <1>9, NothingSent DEF StageDone

(* Profiling sends rows that name no class: their text is redacted by      *)
(* then, or all have a blank label.                                        *)
LEMMA ProfileDone ==
  ASSUME WorkSound, Profile
  PROVE  StageDone
<1>1. Sound(identity, work) /\ work.completed = 2 /\ pc = "working" /\ work \in WorkType
  BY StageOrder DEF Profile, At, WorkSound, Sound
<1>2. PICK a \in BOOLEAN : Complete([work EXCEPT !.applicable = a])
  BY DEF Profile
<1> DEFINE w == [work EXCEPT !.applicable = a]
           d == [w EXCEPT !.completed = @ + 1]
<1>3. work' = d /\ pc' = "saving" /\ UNCHANGED <<input, diskVars, identity>>
  BY <1>2 DEF Complete
<1>4. /\ w \in WorkType /\ w.completed = 2
      /\ w.accepted = work.accepted /\ w.rejected = work.rejected /\ w.row = work.row
  BY <1>1 DEF WorkType
<1> HIDE DEF w
<1>5. /\ d \in WorkType /\ d.completed = 3
      /\ d.accepted = w.accepted /\ d.rejected = w.rejected /\ d.row = w.row
  BY <1>4, CompleteWork DEF Completes
<1> HIDE DEF d
<1>6. Sound(identity, d)
  BY <1>1, <1>4, <1>5, NothingDone DEF Keeps
<1>7. OnlyRedactedRowsAreSent'
  <2>1. CASE SendNothing
    BY <2>1, NothingSent
  <2>2. CASE /\ \A r \in work.accepted : work.row[r].label \in {None, "blank"}
             /\ \E R \in SUBSET work.accepted : R # {} /\ Send(R)
    <3>1. PICK R \in SUBSET work.accepted : R # {} /\ Send(R)
      BY <2>2
    <3>2. CASE ~ Protected(identity, work)
      BY <1>1, <1>3, <3>1, <3>2, SentIsRedacted
    <3>3. CASE Protected(identity, work)
      <4>1. \A r \in work.accepted : work.row[r].label = "blank"
        BY <2>2, <3>3 DEF Protected
      <4>2. ProfiledAsUnlabelled'
        BY <1>3, <1>4, <1>5, <3>3, <4>1 DEF ProfiledAsUnlabelled, Protected, config
      <4> QED
        BY <4>2 DEF OnlyRedactedRowsAreSent
    <3> QED
      BY <3>2, <3>3
  <2> QED
    BY <2>1, <2>2 DEF Profile, NamesNoClass
<1> QED
  BY <1>1, <1>3, <1>5, <1>6, <1>7 DEF StageDone

(* A stage that leaves the rows as they are.                               *)
LEMMA NothingButCompleted ==
  ASSUME WorkSound, pc = "working", work.completed \in 2 .. 6, Complete(work), OnlyRedactedRowsAreSent'
  PROVE  StageDone
<1> DEFINE d == [work EXCEPT !.completed = @ + 1]
<1>1. Sound(identity, work) /\ work \in WorkType /\ work.completed < 7
  BY DEF WorkSound, Sound
<1>2. work' = d /\ pc' = "saving" /\ UNCHANGED <<input, diskVars, identity>>
  BY DEF Complete
<1>3. Completes(d, work)
  BY <1>1, CompleteWork
<1> HIDE DEF d
<1>4. Sound(identity, d)
  BY <1>1, <1>3, NothingDone DEF Keeps, Completes
<1> QED
  BY <1>2, <1>3, <1>4 DEF StageDone, Completes

(* A stage that rejects rows of work that is not protected.                *)
LEMMA RejectedAndCompleted ==
  ASSUME WorkSound, pc = "working", work.completed \in 2 .. 6, ~ Protected(identity, work),
         NEW R \in SUBSET work.accepted, NEW stage \in RejectStages \ {"validate"},
         Complete(Reject(work, R, stage)), OnlyRedactedRowsAreSent'
  PROVE  StageDone
<1> DEFINE w == Reject(work, R, stage)
           d == [w EXCEPT !.completed = @ + 1]
<1>1. Sound(identity, work) /\ work \in WorkType /\ work.completed < 7
  BY DEF WorkSound, Sound
<1>2. work' = d /\ pc' = "saving" /\ UNCHANGED <<input, diskVars, identity>>
  BY DEF Complete
<1>3. Rejects(w, work, R, stage)
  BY <1>1, RejectWork
<1> HIDE DEF w
<1>4. Completes(d, w)
  BY <1>1, <1>3, CompleteWork DEF Rejects
<1> HIDE DEF d
<1>5. Removes(d, work, R, stage)
  BY <1>3, <1>4 DEF Rejects, Completes, Removes
<1>6. Sound(identity, d)
  BY <1>1, <1>5, SomeRejected
<1> QED
  BY <1>2, <1>5, <1>6 DEF StageDone, Removes

(* Deduplication leaves protected work alone.                              *)
LEMMA DedupDone ==
  ASSUME WorkSound, Dedup
  PROVE  StageDone
<1>1. work.completed = 3 /\ pc = "working" /\ OnlyRedactedRowsAreSent'
  BY StageOrder, NothingSent DEF Dedup, At, WorkSound, Sound
<1>2. CASE config.dedup /\ ~ StrictLabelled(work.accepted)
  <2>1. PICK D \in SUBSET work.accepted : Complete(Reject(work, D, "dedup"))
    BY <1>2 DEF Dedup
  <2>2. ~ Protected(identity, work)
    BY <1>2, ProtectedIsStrict
  <2> QED
    BY <1>1, <2>1, <2>2, RejectedAndCompleted DEF RejectStages
<1>3. CASE ~ (config.dedup /\ ~ StrictLabelled(work.accepted))
  BY <1>1, <1>3, NothingButCompleted DEF Dedup
<1> QED
  BY <1>2, <1>3

(* The quality filter leaves protected work alone.                         *)
LEMMA FilterDone ==
  ASSUME WorkSound, Filter
  PROVE  StageDone
<1>1. work.completed = 5 /\ pc = "working" /\ OnlyRedactedRowsAreSent'
  BY StageOrder, NothingSent DEF Filter, At, WorkSound, Sound
<1>2. CASE QualityMode(work.accepted) = "llm"
  <2>1. PICK R \in SUBSET work.accepted : Complete(Reject(work, R, "filter"))
    BY <1>2 DEF Filter
  <2>2. ~ Protected(identity, work)
    BY <1>2, ProtectedIsStrict DEF QualityMode
  <2> QED
    BY <1>1, <2>1, <2>2, RejectedAndCompleted DEF RejectStages
<1>3. CASE QualityMode(work.accepted) # "llm"
  BY <1>1, <1>3, NothingButCompleted DEF Filter
<1> QED
  BY <1>2, <1>3
(* The sequences of edits a refinement makes.                              *)
LEMMA AppendRefine ==
  /\ Append(<<>>, "refine") = <<"refine">>
  /\ Append(<<"redact">>, "refine") = <<"redact", "refine">>
<1> DEFINE E == {"redact", "refine"}
           a == Append(<<"redact">>, "refine")
           b == <<"redact", "refine">>
<1>1. <<"redact">> \in Seq(E) /\ Len(<<"redact">>) = 1
  OBVIOUS
<1>2. a \in Seq(E) /\ Len(a) = 2 /\ a[1] = "redact" /\ a[2] = "refine"
  BY <1>1, AppendProperties
<1>3. b \in Seq(E) /\ Len(b) = 2 /\ b[1] = "redact" /\ b[2] = "refine"
  OBVIOUS
<1>4. \A n \in 1 .. 2 : n = 1 \/ n = 2
  OBVIOUS
<1> HIDE DEF a, b
<1>5. \A n \in 1 .. Len(a) : a[n] = b[n]
  BY <1>2, <1>3, <1>4
<1>6. a = b
  BY <1>2, <1>3, <1>5, SeqEqual
<1>7. Append(<<>>, "refine") = <<"refine">>
  OBVIOUS
<1> QED
  BY <1>6, <1>7 DEF a, b

(* Rewriting and scoring leave protected work alone and send redacted      *)
(* text.                                                                   *)
LEMMA ScoreRefineDone ==
  ASSUME WorkSound, ScoreRefine
  PROVE  StageDone
<1>1. /\ Sound(identity, work) /\ work.completed = 4 /\ pc = "working" /\ work \in WorkType
      /\ work.accepted \subseteq Rows /\ identity.config \in ConfigType
  BY StageOrder, PipelineAssumption DEF ScoreRefine, At, WorkSound, Sound, WorkType, Identities
<1>2. QualityMode(work.accepted) \in {"llm", "sampled", "off"}
  BY <1>1 DEF QualityMode, ConfigType, config
<1>3. QualityMode(work.accepted) # "off" => ~ Protected(identity, work)
  BY ProtectedIsStrict DEF QualityMode
<1>4. CASE QualityMode(work.accepted) = "off"
  <2>1. Complete(work) /\ SendNothing
    BY <1>4 DEF ScoreRefine
  <2> QED
    BY <1>1, <2>1, NothingButCompleted, NothingSent
<1>5. CASE QualityMode(work.accepted) = "sampled"
  <2>1. Complete(work) /\ \E R \in SUBSET work.accepted : Send(R)
    BY <1>5 DEF ScoreRefine
  <2>2. OnlyRedactedRowsAreSent'
    BY <1>1, <1>3, <1>5, <2>1, SentIsRedacted DEF Complete
  <2> QED
    BY <1>1, <2>1, <2>2, NothingButCompleted
<1>6. CASE QualityMode(work.accepted) = "llm"
  <2>1. /\ \E R \in SUBSET work.accepted, S \in [Rows -> Scores] :
              Complete(Scored(Edit(work, R, "refine"), work.accepted, S))
        /\ Send(work.accepted)
    BY <1>6 DEF ScoreRefine, Scored
  <2>2. PICK R \in SUBSET work.accepted, S \in [Rows -> Scores] :
           Complete(Scored(Edit(work, R, "refine"), work.accepted, S))
    BY <2>1
  <2> DEFINE w == Edit(work, R, "refine")
             v == Scored(w, work.accepted, S)
             d == [v EXCEPT !.completed = @ + 1]
  <2>3. work' = d /\ pc' = "saving" /\ UNCHANGED <<input, diskVars, identity>>
    BY <2>2 DEF Complete
  <2>4. Edits(w, work, R, "refine")
    <3>1. R \in SUBSET Rows /\ "refine" \in {"redact", "refine"}
      BY <1>1
    <3> HIDE DEF v, d
    <3> QED
      BY <1>1, <3>1, EditWork
  <2> HIDE DEF w
  <2>5. ScoresOnly(v, w)
    <3>1. w \in WorkType /\ work.accepted \in SUBSET Rows
      BY <1>1, <2>4 DEF Edits
    <3> QED
      BY <3>1, ScoreWork
  <2> HIDE DEF v
  <2>6. Completes(d, v)
    <3>1. v \in WorkType /\ v.completed < 7
      BY <1>1, <2>4, <2>5 DEF Edits, ScoresOnly
    <3> QED
      BY <3>1, CompleteWork
  <2> HIDE DEF d
  <2>7. /\ d \in WorkType /\ d.completed = 5
         /\ d.accepted = work.accepted /\ d.rejected = work.rejected
         /\ \A r \in Rows : /\ d.row[r].edits = IF r \in R THEN Append(work.row[r].edits, "refine")
                                                           ELSE work.row[r].edits
                            /\ d.row[r].label = work.row[r].label /\ d.row[r].by = work.row[r].by
    BY <1>1, <2>4, <2>5, <2>6 DEF Edits, ScoresOnly, Completes
  <2>8. RowsSplit(d) /\ InvalidRejected(identity, d)
    BY <1>1, <2>7 DEF Sound, RowsSplit, InvalidRejected
  <2>9. \A r \in Rows : work.row[r].edits \in {<<>>, <<"redact">>}
    <3>1. EditsInOrder(work) /\ work.completed < 5
      BY <1>1 DEF Sound
    <3> QED
      BY <3>1 DEF EditsInOrder
  <2>10. /\ Append(<<>>, "refine") = <<"refine">>
         /\ Append(<<"redact">>, "refine") = <<"redact", "refine">>
    BY AppendRefine
  <2>11. EditsInOrder(d)
    <3>1. \A r \in Rows : d.row[r].edits \in {<<>>, <<"redact">>, <<"refine">>, <<"redact", "refine">>}
      <4>1. TAKE r \in Rows
      <4>2. CASE r \in R /\ work.row[r].edits = <<>>
        BY <2>7, <2>10, <4>2
      <4>3. CASE r \in R /\ work.row[r].edits = <<"redact">>
        BY <2>7, <2>10, <4>3
      <4>4. CASE r \notin R
        BY <2>7, <2>9, <4>4
      <4> QED
        BY <2>9, <4>2, <4>3, <4>4
    <3> QED
      BY <2>7, <3>1 DEF EditsInOrder
  <2>12. RedactedOrProtected(identity, d)
    <3>1. <<"refine">> # <<>> /\ <<"redact", "refine">> # <<>>
      OBVIOUS
    <3>2. Redacts(identity) => \A r \in work.accepted : work.row[r].edits # <<>>
      BY <1>1, <1>3, <1>6 DEF Sound, RedactedOrProtected
    <3> QED
      BY <1>1, <2>7, <2>9, <2>10, <3>1, <3>2 DEF RedactedOrProtected
  <2>13. LabelledKept(identity, d)
    <3>1. ~ Protected(identity, work) /\ work.completed >= 1
      BY <1>1, <1>3, <1>6
    <3> QED
      BY <1>1, <3>1, LabelledDatasets DEF LabelledKept
  <2>14. Sound(identity, d)
    BY <1>1, <2>7, <2>8, <2>11, <2>12, <2>13 DEF Sound
  <2>15. OnlyRedactedRowsAreSent'
    BY <1>1, <1>3, <1>6, <2>1, <2>3, SentIsRedacted
  <2> QED
    BY <1>1, <2>3, <2>7, <2>14, <2>15 DEF StageDone
<1> QED
  BY <1>2, <1>4, <1>5, <1>6

(* Classification leaves protected work alone and sends redacted text.     *)
LEMMA ClassifyDone ==
  ASSUME WorkSound, Classify
  PROVE  StageDone
<1>1. /\ Sound(identity, work) /\ work.completed = 6 /\ pc = "working" /\ work \in WorkType
      /\ work.accepted \subseteq Rows
  BY StageOrder DEF Classify, At, WorkSound, Sound, WorkType
<1>2. CASE ~ Classifies
  <2>1. Complete(work) /\ SendNothing
    BY <1>2 DEF Classify
  <2> QED
    BY <1>1, <2>1, NothingButCompleted, NothingSent
<1>3. CASE Classifies
  <2>1. ~ Protected(identity, work)
    BY <1>3, ProtectedIsStrict DEF Classifies
  <2>2. /\ \E F \in SUBSET work.accepted, G \in SUBSET work.accepted :
              Complete(Relabelled(Reject(work, F, "classify"), (work.accepted \ F) \cup G))
        /\ Send(work.accepted)
    BY <1>3 DEF Classify, Relabelled
  <2>3. PICK F \in SUBSET work.accepted, G \in SUBSET work.accepted :
           Complete(Relabelled(Reject(work, F, "classify"), (work.accepted \ F) \cup G))
    BY <2>2
  <2> DEFINE w == Reject(work, F, "classify")
             v == Relabelled(w, (work.accepted \ F) \cup G)
             d == [v EXCEPT !.completed = @ + 1]
  <2>4. work' = d /\ pc' = "saving" /\ UNCHANGED <<input, diskVars, identity>>
    BY <2>3 DEF Complete
  <2>5. Rejects(w, work, F, "classify")
    <3>1. "classify" \in RejectStages
      BY DEF RejectStages
    <3> HIDE DEF v, d
    <3> QED
      BY <1>1, <3>1, RejectWork
  <2> HIDE DEF w
  <2>6. LabelsOnly(v, w)
    <3>1. w \in WorkType /\ (work.accepted \ F) \cup G \in SUBSET Rows
      BY <1>1, <2>5 DEF Rejects
    <3> QED
      BY <3>1, LabelWork
  <2> HIDE DEF v
  <2>7. Completes(d, v)
    <3>1. v \in WorkType /\ v.completed < 7
      BY <1>1, <2>5, <2>6 DEF Rejects, LabelsOnly
    <3> QED
      BY <3>1, CompleteWork
  <2> HIDE DEF d
  <2>8. Sound(identity, d)
    <3>1. Removes(d, work, F, "classify")
      BY <2>5, <2>6, <2>7 DEF Rejects, LabelsOnly, Completes, Removes
    <3>2. "classify" \in RejectStages \ {"validate"}
      BY DEF RejectStages
    <3>3. work.completed \in 2 .. 6
      BY <1>1
    <3> QED
      BY <1>1, <2>1, <3>1, <3>2, <3>3, SomeRejected
  <2>9. OnlyRedactedRowsAreSent'
    BY <1>1, <2>1, <2>2, <2>4, SentIsRedacted
  <2> QED
    BY <1>1, <2>4, <2>5, <2>6, <2>7, <2>8, <2>9 DEF StageDone, Rejects, LabelsOnly, Completes
<1> QED
  BY <1>2, <1>3

(* Every stage leaves sound work to be saved, and has sent only what may   *)
(* be sent.                                                                *)
LEMMA EveryStageDone ==
  ASSUME WorkSound, Stage
  PROVE  StageDone
BY ValidateDone, PiiDone, ProfileDone, DedupDone, ScoreRefineDone, FilterDone, ClassifyDone
DEF Stage
-----------------------------------------------------------------------------
(* The invariant is inductive.                                             *)

(* A record written of sound work is no absent file, and holds that work.  *)
LEMMA ResultIsWork ==
  ASSUME Sound(identity, work)
  PROVE  Result \in ResultType /\ Result # None /\ Result.identity = identity /\ Result.work = work
BY PipelineAssumption DEF Sound, Result, ResultType

(* The input as it is read is sound.                                       *)
LEMMA FreshIsSound ==
  ASSUME NEW i \in Identities
  PROVE  Sound(i, Fresh(i.input)) /\ Fresh(i.input).completed = 0
<1> DEFINE w == Fresh(i.input)
           row == [r \in Rows |-> [edits |-> <<>>, score |-> None, by |-> None,
                                   label |-> LabelRead(i.input[r])]]
<1>1. row \in [Rows -> RowType]
  <2>1. \A r \in Rows : LabelRead(i.input[r]) \in {"given", "blank", "assigned", None}
    BY LabelOfARow, PipelineAssumption DEF Identities
  <2> QED
    BY <2>1 DEF RowType
<1>2. \A r \in Rows : /\ row[r].edits = <<>> /\ row[r].by = None
                      /\ row[r].label = LabelRead(i.input[r])
  OBVIOUS
<1>3. w = [completed |-> 0, accepted |-> Rows, rejected |-> {}, applicable |-> FALSE, row |-> row]
  BY DEF Fresh
<1> HIDE DEF row, w
<1>4. w \in WorkType /\ w.completed = 0 /\ w.accepted = Rows /\ w.rejected = {} /\ w.row = row
  BY <1>1, <1>3 DEF WorkType
<1>5. /\ RowsSplit(w) /\ EditsInOrder(w) /\ InvalidRejected(i, w)
      /\ RedactedOrProtected(i, w) /\ LabelledKept(i, w)
  BY <1>2, <1>4 DEF RowsSplit, EditsInOrder, InvalidRejected, RedactedOrProtected, LabelledKept
<1> QED
  BY <1>4, <1>5 DEF Sound, w

(* A process starts from the input or from the checkpoint of its own       *)
(* fingerprint.                                                            *)
LEMMA StartKeeps ==
  ASSUME Inv, NEW c \in Configs, Start(c)
  PROVE  Inv'
<1> DEFINE id == [input |-> input, config |-> c]
<1>1. id \in Identities /\ id.input = input
  BY DEF Inv, WorkSound, Identities
<1>2. /\ identity' = id /\ pc' = "working" /\ sent' = {}
      /\ UNCHANGED <<input, checkpoint, output, quarantine, report>>
      /\ work' = IF checkpoint = None THEN Fresh(input) ELSE checkpoint.work
      /\ checkpoint # None => checkpoint.identity = id
  BY DEF Start, CheckpointUsable, diskVars
<1> HIDE DEF id
<1>3. /\ Sound(id, work')
      /\ Result' = checkpoint' \/ (checkpoint' = None /\ work'.completed = 0)
  <2>1. CASE checkpoint = None
    BY <1>1, <1>2, <2>1, FreshIsSound
  <2>2. CASE checkpoint # None
    <3>1. checkpoint \in ResultType /\ Sound(checkpoint.identity, checkpoint.work)
      BY <2>2 DEF Inv, SavedSound, Saved
    <3>2. checkpoint = [identity |-> checkpoint.identity, work |-> checkpoint.work]
      BY <3>1 DEF ResultType
    <3> QED
      BY <1>2, <2>2, <3>1, <3>2 DEF Result
  <2> QED
    BY <2>1, <2>2
<1>4. SavedSound' /\ FilesAgree'
  BY <1>2 DEF Inv, SavedSound, Saved, FilesAgree
<1>5. WorkSound'
  BY <1>2, <1>3 DEF Inv, WorkSound, Steps
<1>6. FilesFollow' /\ OnlyRedactedRowsAreSent'
  BY <1>2, <1>3 DEF FilesFollow, OnlyRedactedRowsAreSent
<1> QED
  BY <1>4, <1>5, <1>6 DEF Inv

(* A stage leaves the files as they are.                                   *)
LEMMA StageKeeps ==
  ASSUME Inv, Stage
  PROVE  Inv'
<1>1. StageDone
  BY EveryStageDone DEF Inv
<1>2. /\ pc = "working" /\ pc' = "saving" /\ work'.completed = work.completed + 1
      /\ UNCHANGED <<input, checkpoint, output, quarantine, report, identity>>
  BY <1>1 DEF StageDone, diskVars
<1>3. SavedSound' /\ FilesAgree'
  BY <1>2 DEF Inv, SavedSound, Saved, FilesAgree
<1>4. WorkSound'
  BY <1>1, <1>2 DEF Inv, WorkSound, Steps, StageDone
<1>5. FilesFollow'
  <2>1. Sound(identity, work) /\ work.completed \in 0 .. 7
    BY <1>2 DEF Inv, WorkSound, Sound, WorkType
  <2>2. checkpoint # None => checkpoint.identity = identity /\ checkpoint.work = work
    BY <1>2, <2>1, ResultIsWork DEF Inv, FilesFollow
  <2>3. checkpoint' # None => /\ checkpoint'.identity = identity'
                              /\ checkpoint'.work.completed <= work'.completed
    BY <1>2, <2>1, <2>2
  <2> QED
    BY <1>2, <2>3 DEF FilesFollow
<1> QED
  BY <1>1, <1>3, <1>4, <1>5 DEF Inv, StageDone

(* The steps that write files leave the work as it is.                     *)
OnlyFiles == UNCHANGED <<input, identity, work, sent>> /\ pc # "down" /\ pc' \in Steps \ {"down"}

(* Whatever of them is written, the files hold sound work.                 *)
LEMMA FilesKeep ==
  ASSUME Inv, OnlyFiles,
         /\ checkpoint' \in {checkpoint, Result, None} /\ output' \in {output, Result}
         /\ quarantine' \in {quarantine, Result} /\ report' \in {report, Result}
  PROVE  SavedSound' /\ WorkSound' /\ OnlyRedactedRowsAreSent'
<1>1. Sound(identity, work)
  BY DEF Inv, WorkSound, OnlyFiles
<1>2. Saved' \subseteq Saved \cup {Result}
  BY DEF Saved
<1>3. Sound(Result.identity, Result.work) /\ Result \in ResultType
  BY <1>1, ResultIsWork
<1>4. SavedSound'
  BY <1>2, <1>3 DEF Inv, SavedSound
<1>5. WorkSound'
  BY DEF Inv, WorkSound, OnlyFiles
<1>6. OnlyRedactedRowsAreSent'
  BY DEF Inv, OnlyRedactedRowsAreSent, OnlyFiles, config, ProfiledAsUnlabelled
<1> QED
  BY <1>4, <1>5, <1>6

(* The checkpoint becomes the work in memory.                              *)
LEMMA SaveCheckpointKeeps ==
  ASSUME Inv, SaveCheckpoint
  PROVE  Inv'
<1>1. /\ pc = "saving" /\ pc' \in {"output", "working"} /\ checkpoint' = Result
      /\ UNCHANGED <<input, output, quarantine, report, identity, work, sent>>
  BY DEF SaveCheckpoint, Result
<1>2. Result' = Result /\ Result # None
  BY <1>1, ResultIsWork DEF Inv, WorkSound, Result
<1>3. SavedSound' /\ WorkSound' /\ OnlyRedactedRowsAreSent'
  BY <1>1, FilesKeep DEF OnlyFiles, Steps
<1>4. FilesFollow' /\ FilesAgree'
  BY <1>1, <1>2 DEF FilesFollow, FilesAgree
<1> QED
  BY <1>3, <1>4 DEF Inv

(* A process that resumes after the last stage holds what the checkpoint   *)
(* holds.                                                                  *)
LEMMA SkipStagesKeeps ==
  ASSUME Inv, SkipStages
  PROVE  Inv'
<1>1. /\ pc = "working" /\ work.completed = 7 /\ pc' = "output"
      /\ UNCHANGED <<input, checkpoint, output, quarantine, report, identity, work, sent>>
  BY DEF SkipStages, Stages, diskVars
<1>2. checkpoint' = Result' /\ Result' # None
  BY <1>1, ResultIsWork DEF Inv, WorkSound, FilesFollow, Result
<1>3. SavedSound' /\ WorkSound' /\ OnlyRedactedRowsAreSent'
  BY <1>1, FilesKeep DEF OnlyFiles, Steps
<1>4. FilesFollow' /\ FilesAgree'
  BY <1>1, <1>2 DEF FilesFollow, FilesAgree
<1> QED
  BY <1>3, <1>4 DEF Inv

(* The output files are written while the checkpoint still holds the same  *)
(* work.                                                                   *)
LEMMA WritingKeeps ==
  ASSUME Inv, Files
  PROVE  Inv'
<1>1. UNCHANGED <<input, identity, work, sent>> /\ Result' = Result
  BY DEF Files, WriteOutput, WriteRejected, WriteReport, UnlinkAndReturn, Result
<1>2. /\ pc \in {"output", "quarantine", "report", "unlink"}
      /\ pc' \in {"quarantine", "report", "unlink", "done"}
      /\ checkpoint' \in {checkpoint, Result, None} /\ output' \in {output, Result}
      /\ quarantine' \in {quarantine, Result} /\ report' \in {report, Result}
  BY DEF Files, WriteOutput, WriteRejected, WriteReport, UnlinkAndReturn
<1>3. SavedSound' /\ WorkSound' /\ OnlyRedactedRowsAreSent'
  BY <1>1, <1>2, FilesKeep DEF OnlyFiles, Steps
<1>4. Result # None
  BY <1>2, ResultIsWork DEF Inv, WorkSound
<1>5. FilesFollow' /\ FilesAgree'
  <2>1. CASE WriteOutput
    BY <1>1, <1>4, <2>1 DEF Inv, WriteOutput, FilesFollow, FilesAgree
  <2>2. CASE WriteRejected
    BY <1>1, <1>4, <2>2 DEF Inv, WriteRejected, FilesFollow, FilesAgree
  <2>3. CASE WriteReport
    BY <1>1, <1>4, <2>3 DEF Inv, WriteReport, FilesFollow, FilesAgree
  <2>4. CASE UnlinkAndReturn
    BY <1>1, <2>4 DEF Inv, UnlinkAndReturn, FilesFollow, FilesAgree
  <2> QED
    BY <2>1, <2>2, <2>3, <2>4 DEF Files
<1> QED
  BY <1>3, <1>5 DEF Inv

(* A stop leaves the files at any of those points.                         *)
LEMMA StopKeeps ==
  ASSUME Inv, Stop
  PROVE  Inv'
<1>1. /\ pc' = "down" /\ identity' = None /\ work' = None /\ sent' = {}
      /\ UNCHANGED <<input, checkpoint, output, quarantine, report>>
  BY DEF Stop, diskVars
<1>2. SavedSound' /\ FilesAgree'
  BY <1>1 DEF Inv, SavedSound, Saved, FilesAgree
<1>3. WorkSound' /\ FilesFollow' /\ OnlyRedactedRowsAreSent'
  BY <1>1 DEF Inv, WorkSound, Steps, FilesFollow, OnlyRedactedRowsAreSent
<1> QED
  BY <1>2, <1>3 DEF Inv

(* An edited input changes no result: the fingerprint holds the old one.   *)
LEMMA EditInputKeeps ==
  ASSUME Inv, EditInput
  PROVE  Inv'
<1>1. /\ input' \in Inputs
      /\ UNCHANGED <<checkpoint, output, quarantine, report, pc, identity, work, sent>>
  BY DEF EditInput, diskVars
<1>2. SavedSound' /\ FilesAgree' /\ FilesFollow'
  BY <1>1 DEF Inv, SavedSound, Saved, FilesAgree, FilesFollow, Result
<1>3. WorkSound' /\ OnlyRedactedRowsAreSent'
  BY <1>1 DEF Inv, WorkSound, OnlyRedactedRowsAreSent, ProfiledAsUnlabelled, config
<1> QED
  BY <1>2, <1>3 DEF Inv

(* A step that changes nothing.                                            *)
LEMMA StutterKeeps ==
  ASSUME Inv, UNCHANGED vars
  PROVE  Inv'
<1>1. UNCHANGED <<input, checkpoint, output, quarantine, report, pc, identity, work, sent>>
  BY DEF vars, diskVars
<1>2. SavedSound' /\ FilesAgree' /\ FilesFollow'
  BY <1>1 DEF Inv, SavedSound, Saved, FilesAgree, FilesFollow, Result
<1>3. WorkSound' /\ OnlyRedactedRowsAreSent'
  BY <1>1 DEF Inv, WorkSound, OnlyRedactedRowsAreSent, ProfiledAsUnlabelled, config
<1> QED
  BY <1>2, <1>3 DEF Inv

(* Sound work in memory and in every file, at every point where the        *)
(* process may be stopped and another one started.                         *)
THEOREM PipelineInvariant == Spec => []Inv
<1>1. Init => Inv
  BY DEF Init, Inv, SavedSound, Saved, WorkSound, Steps, FilesFollow, FilesAgree, OnlyRedactedRowsAreSent
<1>2. Inv /\ [Next]_vars => Inv'
  BY StartKeeps, StageKeeps, SaveCheckpointKeeps, SkipStagesKeeps, WritingKeeps,
     StopKeeps, EditInputKeeps, StutterKeeps DEF Next
<1> QED
  BY <1>1, <1>2, PTL DEF Spec
-----------------------------------------------------------------------------
(* What follows from it.                                                   *)

(* Work in memory and in the files is sound.                               *)
LEMMA HeldIsSound ==
  ASSUME Inv, NEW h \in Held
  PROVE  Sound(h.identity, h.work) /\ h \in ResultType
<1>1. CASE h \in Saved
  BY <1>1 DEF Inv, SavedSound
<1>2. CASE h \notin Saved
  <2>1. work # None /\ h = Result
    BY <1>2 DEF Held
  <2>2. Sound(identity, work)
    BY <2>1 DEF Inv, WorkSound
  <2> QED
    BY <2>1, <2>2, ResultIsWork
<1> QED
  BY <1>1, <1>2

(* Types of the variables, of what is in memory and of what is on disk.    *)
THEOREM PipelineTypes == Spec => []TypeOK
<1>1. Inv => TypeOK
  <2> SUFFICES ASSUME Inv PROVE TypeOK
    OBVIOUS
  <2>1. Held \subseteq ResultType
    BY HeldIsSound
  <2>2. pc # "down" => work # None /\ identity # None
    BY PipelineAssumption DEF Inv, WorkSound, Sound
  <2> QED
    BY <2>1, <2>2 DEF Inv, WorkSound, TypeOK
<1> QED
  BY <1>1, PipelineInvariant, PTL

(* No stop between two steps and no resume loses or doubles a row of the   *)
(* dataset, or what a stage did to it.                                     *)
THEOREM RowsAreConserved == Spec => []RowsConserved
<1>1. Inv => RowsConserved
  <2> SUFFICES ASSUME Inv PROVE RowsConserved
    OBVIOUS
  <2>1. EachRowOnce
    BY HeldIsSound DEF EachRowOnce, Sound, RowsSplit
  <2>2. EachEditOnce
    BY HeldIsSound DEF EachEditOnce, Sound, EditsInOrder
  <2> QED
    BY <2>1, <2>2 DEF RowsConserved
<1> QED
  BY <1>1, PipelineInvariant, PTL

(* When nothing is left to resume the three output files are of one run,   *)
(* and every result is of the input its fingerprint names.                 *)
THEOREM OutputsAlwaysAgree == Spec => []OutputsAgree
<1>1. Inv => OutputsAgree
  <2> SUFFICES ASSUME Inv PROVE OutputsAgree
    OBVIOUS
  <2>1. FilesOfOneRun
    BY DEF FilesOfOneRun, Inv, FilesAgree
  <2>2. ResultsMatchFingerprint
    BY HeldIsSound DEF ResultsMatchFingerprint, Sound, InvalidRejected
  <2> QED
    BY <2>1, <2>2 DEF OutputsAgree
<1> QED
  BY <1>1, PipelineInvariant, PTL

(* Where labelled rows are scrubbed too, a text that was not redacted is   *)
(* sent to a provider only by the profile of a dataset under the strict    *)
(* contract all of whose labels are blank.                                 *)
THEOREM OnlyRedactedTextLeaves == Spec => []OnlyRedactedRowsAreSent
<1>1. Inv => OnlyRedactedRowsAreSent
  BY DEF Inv
<1> QED
  BY <1>1, PipelineInvariant, PTL

(* Under the strict contract a dataset whose valid rows are all labelled   *)
(* comes out with every one of them, text and label untouched.             *)
THEOREM LabelledDatasetsSurvive == Spec => []StrictKeepsLabelledDatasets
<1>1. Inv => StrictKeepsLabelledDatasets
  <2> SUFFICES ASSUME Inv, NEW h \in {output} \ {None},
                      h.identity.config.contract = "strict",
                      \A r \in Rows : h.identity.input[r] # "unlabelled",
                      NEW r \in Rows, h.identity.input[r] = "labelled"
               PROVE  Survives(h, r)
    BY DEF StrictKeepsLabelledDatasets
  <2>1. Sound(h.identity, h.work)
    BY DEF Inv, SavedSound, Saved
  <2> QED
    BY <2>1, LabelOfARow DEF Sound, LabelledKept, Survives
<1> QED
  BY <1>1, PipelineInvariant, PTL

(* A step of the pipeline never gives up checkpointed work before its      *)
(* outputs are written, and never replaces it by less or by other work.    *)
THEOREM CheckpointsAreKept == Spec => ProgressIsKept
<1> DEFINE Kept ==
  checkpoint # None =>
    IF checkpoint' = None
      THEN output = checkpoint /\ quarantine = checkpoint /\ report = checkpoint
      ELSE /\ checkpoint'.identity = checkpoint.identity
           /\ checkpoint'.work.completed >= checkpoint.work.completed
<1>1. Inv /\ [Next]_vars => Kept
  <2> SUFFICES ASSUME Inv, [Next]_vars, checkpoint # None PROVE Kept
    OBVIOUS
  <2>1. checkpoint.work.completed \in 0 .. 7
    BY DEF Inv, SavedSound, Saved, Sound, WorkType
  <2>2. CASE UNCHANGED checkpoint
    BY <2>1, <2>2
  <2>3. CASE SaveCheckpoint
    <3>1. checkpoint' = Result /\ pc = "saving"
      BY <2>3 DEF SaveCheckpoint, Result
    <3>2. Result # None /\ Result.identity = identity /\ Result.work = work
      BY <3>1, ResultIsWork DEF Inv, WorkSound
    <3>3. checkpoint.identity = identity /\ checkpoint.work.completed <= work.completed
      BY <3>1 DEF Inv, FilesFollow
    <3>4. work.completed \in 0 .. 7
      BY <3>1 DEF Inv, WorkSound, Sound, WorkType
    <3> QED
      BY <2>1, <3>1, <3>2, <3>3, <3>4
  <2>4. CASE UnlinkAndReturn
    BY <2>4 DEF UnlinkAndReturn, Inv, FilesFollow
  <2>5. Stage => UNCHANGED checkpoint
    BY EveryStageDone DEF Inv, StageDone, diskVars
  <2> QED
    BY <2>2, <2>3, <2>4, <2>5
    DEF Next, Start, SkipStages, Files, WriteOutput, WriteRejected, WriteReport, Stop, EditInput,
        vars, diskVars
<1> QED
  BY <1>1, PipelineInvariant, PTL DEF Spec, ProgressIsKept
=============================================================================
