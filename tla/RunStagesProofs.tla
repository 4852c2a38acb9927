-------------------------- MODULE RunStagesProofs --------------------------
(***************************************************************************)
(* What the plugin stages and a provider stage guarantee for any number of *)
(* rows, chunks, plugins, slots and requests a window, and for every       *)
(* configuration.                                                          *)
(***************************************************************************)
EXTENDS RunStages, FiniteSetTheorems, SequenceTheorems, WellFoundedInduction, TLAPS

-----------------------------------------------------------------------------
(* The plugin stages.                                                      *)

Calls == {"validate", "pii_construct", "pii_analyze", "anonymize"}
Answer == [id : Nat, ok : BOOLEAN]

BoxType == [process : {"none", "up", "exited"}, poisoned : BOOLEAN, id : Nat, out : Seq(Answer)]

BoxesTyped ==
  /\ setup \in SetupType
  /\ box \in [Boxes -> BoxType]
  /\ call \in [box : Boxes, id : Nat \ {0}, kind : Calls] \cup {NoCall}

RowsTyped ==
  /\ phase \in {"validate", "construct", "scrub", "over", "raised"}
  /\ at \in RowIds
  /\ verdict \in [RowIds -> {"pending", "valid", "rejected"}]
  /\ text \in [RowIds -> {"raw", "detected", "redacted", "patterns"}]
  /\ counted \subseteq RowIds

(* A call that is waited for is the one the pipeline wants, of a sandbox   *)
(* that never failed.                                                      *)
CallIsWanted ==
  call # NoCall => call.kind = Wanted /\ call.box = BoxOf(call.kind) /\ ~box[call.box].poisoned

(* Only its sandbox has written, and its answer is an honest one if it     *)
(* answers that call and says that it went well.                           *)
OutputIsOfCall ==
  \A b \in Boxes : box[b].out # <<>> =>
    /\ call # NoCall /\ call.box = b
    /\ Len(box[b].out) = 1
    /\ Head(box[b].out).id = call.id /\ Head(box[b].out).ok /\ call.kind = "validate" => Loads(Validators)

FailuresPoison == \A b \in failures : b \in Boxes /\ box[b].poisoned

(* Rows are validated in order, then scrubbed in order.                    *)
RowsInOrder ==
  /\ phase \in {"validate", "construct"} => \A r \in RowIds : text[r] = "raw"
  /\ phase = "validate" => \A r \in RowIds : r < at => verdict[r] # "pending"
  /\ phase \in {"construct", "scrub", "over"} => \A r \in RowIds : verdict[r] # "pending"
  /\ phase = "scrub" =>
       /\ text[at] \in {"raw", "detected"}
       /\ \A r \in RowIds : r > at => text[r] = "raw"
       /\ \A r \in RowIds : r < at /\ verdict[r] = "valid" => text[r] # "raw"
  /\ phase = "over" => \A r \in RowIds : verdict[r] = "valid" => text[r] # "raw"

(* A verdict needs all validators.                                         *)
VerdictsNeedValidators ==
  phase \notin {"validate", "raised"} \/ (\E r \in RowIds : verdict[r] # "pending") => Loads(Validators)

RowsInv == RowsTyped /\ RowsInOrder /\ VerdictsNeedValidators /\ CountsMatchText
BoxesInv == BoxesTyped /\ CallIsWanted /\ OutputIsOfCall /\ FailuresPoison /\ NoAnswerAfterFailure
PluginsInv == RowsInv /\ BoxesInv

-----------------------------------------------------------------------------
(* The provider stage.                                                     *)

Ages == 0 .. Window
Replies == [kind : {"lost", "unparsed", "answer"}, rows : SUBSET RowSet]
States == {"none", "queued", "pacing", "sleeping", "admitted", "returned",
           "backoff", "done", "failed", "cancelled"} \cup InThread
Settled == {"none", "done", "failed", "cancelled", "returned"} \cup InThread
Holding == {"pacing", "sleeping", "admitted", "returned"} \cup InThread

CallsTyped ==
  /\ stage \in {"new", "running", "done", "raised"}
  /\ stage # "new" => conf \in ConfType /\ kind \in StageKinds /\ own \subseteq RowSet
  /\ pc \in [AllChunks -> States]
  /\ attempts \in [AllChunks -> Nat]
  /\ reply \in [AllChunks -> Replies \cup {None}]
  /\ free \in Nat
  /\ got \in [RowSet -> Gains] /\ error \subseteq RowSet
  /\ {usage, responses, seen} \subseteq Nat
  /\ holder \in AllChunks \cup {None}

(* Only the chunks of a running stage move, except in threads.             *)
ChunksSettle ==
  \A c \in AllChunks :
    /\ stage # "running" => pc[c] \in Settled
    /\ stage = "new" \/ c \notin Chunks => pc[c] = "none"
    /\ stage = "done" /\ c \in Chunks => pc[c] = "done"
    /\ pc[c] \in {"recording", "writing", "returned"} => reply[c] \in Replies

(* Requests need the client that the configuration gives.                  *)
ClientDecides ==
  /\ stage # "new" => client = CreateClient(conf)
  /\ stage \in {"running", "done"} => client # None
  /\ \A c \in AllChunks : attempts[c] > 0 => stage # "new" /\ client # None /\ client.sends

SlotsCounted ==
  /\ stage = "new" => free = Slots
  /\ stage = "running" => free + Cardinality(Holders) = Slots
  /\ Cardinality(InFlight) <= Slots

(* The timestamps are the last of the recent admissions, and those that    *)
(* are no longer among them have left the window.                          *)
Fits(t, r) ==
  /\ t \in Seq(Ages) /\ r \in Seq(Ages)
  /\ Len(t) <= MaxRpm /\ Len(t) <= Len(r) /\ Len(r) <= MaxRpm + 1
  /\ \A i \in 1 .. Len(t) : t[i] = r[Len(r) - Len(t) + i]
  /\ \A i \in 1 .. Len(r) - Len(t) : r[i] = Window
  /\ \A i, j \in 1 .. Len(r) : i <= j => r[i] >= r[j]
WindowKept == Fits(timestamps, recent)

Unrecorded == {c \in AllChunks : pc[c] \in {"recording", "writing"}}
UsageCounted ==
  /\ usage + Cardinality(Unrecorded) = responses
  /\ \A c \in AllChunks : (pc[c] = "writing") <=> (holder = c)
  /\ holder # None => seen = usage

Accounted(r) == r \in error \/ got[r] # "nothing"
DoneChunksAccounted ==
  stage # "new" /\ client # None /\ kind # "augment" =>
    /\ \A r \in own : Accounted(r)
    /\ \A c \in AllChunks : pc[c] = "done" => \A r \in RowsOf(c) : Accounted(r)

CallsInv ==
  /\ CallsTyped /\ ChunksSettle /\ ClientDecides
  /\ SlotsCounted /\ WindowKept
  /\ UsageCounted /\ DoneChunksAccounted

(* The provider stage follows the plugin stages.                           *)
StageComesLast == stage # "new" => phase = "over"

Inv == PluginsInv /\ CallsInv /\ StageComesLast

-----------------------------------------------------------------------------
(* Least elements.                                                         *)

(* A set of naturals has a least element.                                  *)
LEMMA LeastExists ==
  ASSUME NEW R \in SUBSET Nat, R # {}
  PROVE  \E m \in R : \A s \in R : m <= s
<1>1. PICK m \in R : \A s \in R : ~(<<s, m>> \in OpToRel(<, Nat))
  BY WFMin, NatLessThanWellFounded
<1>2. ASSUME NEW s \in R
      PROVE  m <= s
  <2>1. <<s, m>> \in OpToRel(<, Nat) <=> s < m
    BY DEF OpToRel
  <2>2. ~(s < m)
    BY <1>1, <2>1, Zenon
  <2> QED
    BY <2>2
<1> QED
  BY <1>2

(* First is the least of a set of naturals.                                *)
LEMMA FirstIsLeast ==
  ASSUME NEW R \in SUBSET Nat, R # {}
  PROVE  First(R) \in R /\ \A s \in R : First(R) <= s
BY LeastExists DEF First

(* The pipeline goes on with the first of the rows that remain.            *)
LEMMA NextRowIsFirst ==
  ASSUME RowsTyped, Remaining # {}
  PROVE  /\ NextRow \in Remaining /\ \A s \in Remaining : NextRow <= s
         /\ Remaining \subseteq RowIds
<1>1. Remaining \in SUBSET Nat
  BY PluginAssumption DEF Remaining, RowIds
<1> QED
  BY <1>1, FirstIsLeast DEF NextRow, Remaining

-----------------------------------------------------------------------------
(* What is proved of the plugin stages.                                    *)

(* How a row, or the stage, may go on: with what the step that does it has *)
(* seen.                                                                   *)
RowStep ==
  \/ phase = "validate" /\ Loads(Validators) /\ \E v \in {"valid", "rejected"} : Validated(v)
  \/ \E ok \in BOOLEAN : Constructed(ok)
  \/ phase = "scrub" /\ text[at] = "raw" /\ Analyzed
  \/ phase = "scrub" /\ \E ok \in BOOLEAN : (ok => text[at] = "detected") /\ Scrubbed(ok)
  \/ Raise

RowVars == <<phase, at, verdict, text, counted>>

(* Whatever fails, the rows stay in order and the counts match the texts.  *)
LEMMA RowsKept ==
  ASSUME RowsInv, RowStep, UNCHANGED setup
  PROVE  RowsInv'
<1> USE PluginAssumption DEF RowIds
<1>0. Loads(Validators)' <=> Loads(Validators)
  BY DEF Loads
<1>1. CASE phase = "validate" /\ Loads(Validators) /\ \E v \in {"valid", "rejected"} : Validated(v)
  <2>1. PICK v \in {"valid", "rejected"} : Validated(v)
    BY <1>1
  <2>2. CASE Remaining # {}
    <3>1. /\ NextRow \in RowIds /\ NextRow > at
          /\ \A s \in RowIds : s > at => NextRow <= s
      BY <1>1, <2>2, NextRowIsFirst DEF RowsInv, Remaining
    <3>2. phase' = "validate" /\ at' = NextRow
      BY <1>1, <2>1, <2>2 DEF Validated, Leave
    <3> QED
      BY <1>0, <1>1, <2>1, <3>1, <3>2 DEF RowsInv, RowsTyped, RowsInOrder, VerdictsNeedValidators,
         CountsMatchText, Validated
  <2>3. CASE Remaining = {}
    <3>1. \A s \in RowIds : s <= at
      BY <1>1, <2>3 DEF Remaining, RowsInv, RowsTyped
    <3>2. phase' = "construct" /\ at' = at
      BY <2>1, <2>3 DEF Validated, Leave, NextRow
    <3> QED
      BY <1>0, <1>1, <2>1, <3>1, <3>2 DEF RowsInv, RowsTyped, RowsInOrder, VerdictsNeedValidators,
         CountsMatchText, Validated
  <2> QED
    BY <2>2, <2>3
<1>2. CASE \E ok \in BOOLEAN : Constructed(ok)
  <2>1. phase = "construct" /\ UNCHANGED <<verdict, text, counted>>
    BY <1>2 DEF Constructed
  <2> DEFINE Good == {r \in RowIds : verdict[r] = "valid"}
  <2>2. CASE Good = {}
    <3>1. phase' = "over" /\ UNCHANGED at
      BY <1>2, <2>2 DEF Constructed
    <3> QED
      BY <1>0, <2>1, <2>2, <3>1 DEF RowsInv, RowsTyped, RowsInOrder, VerdictsNeedValidators, CountsMatchText
  <2>3. CASE Good # {}
    <3>1. phase' = "scrub" /\ at' = First(Good)
      BY <1>2, <2>3, Zenon DEF Constructed
    <3>2. First(Good) \in Good /\ \A s \in Good : First(Good) <= s
      BY <2>3, FirstIsLeast
    <3> HIDE DEF Good
    <3>3. at' \in Good /\ \A s \in Good : at' <= s
      BY <3>1, <3>2
    <3> QED
      BY <1>0, <2>1, <3>1, <3>3 DEF Good, RowsInv, RowsTyped, RowsInOrder, VerdictsNeedValidators, CountsMatchText
  <2> QED
    BY <2>2, <2>3
<1>3. CASE phase = "scrub" /\ text[at] = "raw" /\ Analyzed
  BY <1>0, <1>3 DEF RowsInv, RowsTyped, RowsInOrder, VerdictsNeedValidators, CountsMatchText, Analyzed
<1>4. CASE phase = "scrub" /\ \E ok \in BOOLEAN : (ok => text[at] = "detected") /\ Scrubbed(ok)
  <2>1. PICK ok \in BOOLEAN : (ok => text[at] = "detected") /\ Scrubbed(ok)
    BY <1>4
  <2>2. /\ text' = [text EXCEPT ![at] = IF ok THEN "redacted" ELSE "patterns"]
        /\ counted' = (IF ok THEN counted \cup {at} ELSE counted)
        /\ text[at] # "redacted" /\ UNCHANGED verdict
    BY <1>4, <2>1 DEF Scrubbed, Counts, RowsInv, RowsInOrder
  <2>3. CountsMatchText'
    BY <2>2 DEF RowsInv, RowsTyped, CountsMatchText
  <2>4. CASE Remaining # {}
    <3>1. /\ NextRow \in RowIds /\ NextRow > at
          /\ \A s \in RowIds : s > at /\ verdict[s] = "valid" => NextRow <= s
      BY <1>4, <2>4, NextRowIsFirst DEF RowsInv, Remaining
    <3>2. phase' = "scrub" /\ at' = NextRow
      BY <1>4, <2>1, <2>4 DEF Scrubbed, Leave
    <3> QED
      BY <1>0, <1>4, <2>2, <2>3, <3>1, <3>2 DEF RowsInv, RowsTyped, RowsInOrder, VerdictsNeedValidators
  <2>5. CASE Remaining = {}
    <3>1. \A s \in RowIds : verdict[s] = "valid" => s <= at
      BY <1>4, <2>5 DEF Remaining, RowsInv, RowsTyped
    <3>2. phase' = "over" /\ at' = at
      BY <2>1, <2>5 DEF Scrubbed, Leave, NextRow
    <3> QED
      BY <1>0, <1>4, <2>2, <2>3, <3>1, <3>2 DEF RowsInv, RowsTyped, RowsInOrder, VerdictsNeedValidators
  <2> QED
    BY <2>4, <2>5
<1>5. CASE Raise
  BY <1>0, <1>5 DEF RowsInv, RowsTyped, RowsInOrder, VerdictsNeedValidators, CountsMatchText, Raise
<1> QED
  BY <1>1, <1>2, <1>3, <1>4, <1>5 DEF RowStep

(* A step of a sandbox alone leaves the rows as they are.                  *)
LEMMA RowsUntouched ==
  ASSUME RowsInv, UNCHANGED RowVars, UNCHANGED setup
  PROVE  RowsInv'
BY DEF RowsInv, RowsTyped, RowsInOrder, VerdictsNeedValidators, CountsMatchText, Loads, RowVars

(* The outcomes of what the pipeline wants.                                *)
LEMMA FailedIsRowStep ==
  ASSUME NEW k \in Calls, k = Wanted, Failed(k)
  PROVE  RowStep
BY DEF Wanted, Failed, RowStep, Calls

(* An answer to a validation is one of all the validators.                 *)
LEMMA SucceededIsRowStep ==
  ASSUME RowsInv, NEW k \in Calls, k = Wanted, Succeeded(k), k = "validate" => Loads(Validators)
  PROVE  RowStep
<1>1. phase = "scrub" => text[at] \in {"raw", "detected"}
  BY DEF RowsInv, RowsInOrder
<1> QED
  BY <1>1 DEF Wanted, Succeeded, RowStep, Calls

(* What the pipeline wants is one of the four calls.                       *)
LEMMA WantedType == Wanted # "none" => Wanted \in Calls
BY DEF Wanted, Calls

(* A sandbox that is not waited for has written nothing.                   *)
LEMMA NothingWritten ==
  ASSUME BoxesInv, call = NoCall
  PROVE  \A b \in Boxes : box[b].out = <<>>
BY DEF BoxesInv, OutputIsOfCall

(* Each change that a step makes to a sandbox gives a sandbox again.        *)
LEMMA BoxChanges ==
  ASSUME NEW x \in BoxType
  PROVE  /\ Poison(x) \in BoxType /\ Poison(x).poisoned /\ Poison(x).out = <<>>
         /\ LET y == [x EXCEPT !.process = "up", !.id = x.id + 1]
            IN  y \in BoxType /\ y.poisoned = x.poisoned /\ y.out = x.out
         /\ LET y == [x EXCEPT !.process = "exited"]
            IN  y \in BoxType /\ y.poisoned = x.poisoned /\ y.out = x.out
         /\ \A o \in Seq(Answer) :
              LET y == [x EXCEPT !.out = o]
              IN  y \in BoxType /\ y.poisoned = x.poisoned /\ y.out = o
<1>1. x.poisoned \in BOOLEAN /\ x.id + 1 \in Nat /\ x.out \in Seq(Answer)
  BY DEF BoxType
<1>2. <<>> \in Seq(Answer)
  BY EmptySeq
<1>3. \A o \in Seq(Answer) : [x EXCEPT !.process = "none", !.poisoned = TRUE, !.out = o] \in BoxType
  BY Zenon DEF BoxType
<1>4. Poison(x) \in BoxType
  BY <1>2, <1>3 DEF Poison
<1>5. Poison(x).poisoned /\ Poison(x).out = <<>>
  BY DEF Poison, BoxType
<1>6. \A n \in Nat : [x EXCEPT !.process = "up", !.id = n] \in BoxType
  BY Zenon DEF BoxType
<1>7. /\ [x EXCEPT !.process = "up", !.id = x.id + 1].poisoned = x.poisoned
      /\ [x EXCEPT !.process = "up", !.id = x.id + 1].out = x.out
  BY DEF BoxType
<1>8. LET y == [x EXCEPT !.process = "exited"]
      IN  y \in BoxType /\ y.poisoned = x.poisoned /\ y.out = x.out
  BY DEF BoxType
<1>9. \A o \in Seq(Answer) :
        LET y == [x EXCEPT !.out = o]
        IN  y \in BoxType /\ y.poisoned = x.poisoned /\ y.out = o
  BY DEF BoxType
<1> QED
  BY <1>1, <1>4, <1>5, <1>6, <1>7, <1>8, <1>9

(* Work without a sandbox.                                                 *)
LEMMA InProcessKeeps ==
  ASSUME PluginsInv, InProcess
  PROVE  PluginsInv'
<1>1. RowStep
  <2>1. phase = "scrub" => text[at] \in {"raw", "detected"}
    BY DEF PluginsInv, RowsInv, RowsInOrder
  <2>2. CASE Wanted = "validate"
    <3>1. phase = "validate"
      BY <2>2 DEF Wanted
    <3> QED
      BY <2>2, <3>1 DEF InProcess, RowStep
  <2>3. CASE Wanted = "pii_construct"
    BY <2>3 DEF InProcess, RowStep, Constructed
  <2>4. CASE Wanted = "pii_analyze"
    <3>1. phase = "scrub" /\ text[at] = "raw"
      BY <2>4 DEF Wanted
    <3> QED
      BY <2>4, <3>1 DEF InProcess, RowStep
  <2>5. CASE Wanted = "anonymize"
    <3>1. phase = "scrub" /\ text[at] = "detected"
      BY <2>1, <2>5 DEF Wanted
    <3> QED
      BY <2>5, <3>1 DEF InProcess, RowStep
  <2> QED
    BY <2>2, <2>3, <2>4, <2>5 DEF InProcess, Wanted
<1>2. UNCHANGED <<setup, box, call, failures, trusted>> /\ call = NoCall
  BY DEF InProcess
<1>3. RowsInv'
  BY <1>1, <1>2, RowsKept DEF PluginsInv
<1>4. BoxesInv'
  BY <1>2 DEF PluginsInv, BoxesInv, BoxesTyped, CallIsWanted, OutputIsOfCall, FailuresPoison, NoAnswerAfterFailure
<1> QED
  BY <1>3, <1>4 DEF PluginsInv

(* A failure poisons the sandbox and ends the wait.                        *)
LEMMA PoisonKeeps ==
  ASSUME PluginsInv, NEW b \in Boxes,
         box' = [box EXCEPT ![b] = Poison(@)], failures' = failures \cup {b},
         call' = NoCall, call = NoCall \/ call.box = b, UNCHANGED <<setup, trusted>>
  PROVE  BoxesInv'
<1> USE DEF PluginsInv, BoxesInv
<1>1. /\ box'[b].poisoned /\ box'[b].out = <<>>
      /\ \A d \in Boxes \ {b} : box'[d] = box[d] /\ box[d].out = <<>>
      /\ box' \in [Boxes -> BoxType]
  <2>1. box[b] \in BoxType /\ box \in [Boxes -> BoxType]
    BY DEF BoxesTyped
  <2>2. Poison(box[b]) \in BoxType /\ Poison(box[b]).poisoned /\ Poison(box[b]).out = <<>>
    BY <2>1, BoxChanges
  <2>3. \A d \in Boxes \ {b} : box[d].out = <<>>
    BY DEF OutputIsOfCall
  <2> QED
    BY <2>1, <2>2, <2>3
<1>2. BoxesTyped' /\ CallIsWanted' /\ NoAnswerAfterFailure'
  BY <1>1 DEF BoxesTyped, CallIsWanted, NoAnswerAfterFailure
<1>3. \A d \in Boxes : box'[d].out = <<>>
  BY <1>1
<1>4. FailuresPoison'
  BY <1>1 DEF FailuresPoison
<1> QED
  BY <1>2, <1>3, <1>4 DEF OutputIsOfCall

(* A call to a sandbox that is down fails it, any other is waited for.     *)
LEMMA CallKeeps ==
  ASSUME PluginsInv, Call
  PROVE  PluginsInv'
<1> DEFINE b == BoxOf(Wanted)
           down == box[b].poisoned \/ box[b].process = "exited"
<1>1. b \in Boxes /\ Wanted \in Calls /\ call = NoCall
  BY WantedType DEF Call, BoxOf, Boxes
<1>2. CASE down
  <2>1. /\ box' = [box EXCEPT ![b] = Poison(@)] /\ failures' = failures \cup {b}
        /\ Failed(Wanted) /\ UNCHANGED <<call, setup, trusted>>
    BY <1>2 DEF Call
  <2>2. BoxesInv'
    BY <1>1, <2>1, PoisonKeeps
  <2>3. RowsInv'
    BY <1>1, <2>1, FailedIsRowStep, RowsKept DEF PluginsInv
  <2> QED
    BY <2>2, <2>3 DEF PluginsInv
<1>3. CASE ~down
  <2>1. /\ box' = [box EXCEPT ![b].process = "up", ![b].id = @ + 1]
        /\ call' = [box |-> b, id |-> box[b].id + 1, kind |-> Wanted]
        /\ UNCHANGED <<phase, at, verdict, text, counted, failures, setup, trusted>>
    BY <1>3 DEF Call
  <2>2. RowsInv'
    BY <2>1, RowsUntouched DEF PluginsInv, RowVars
  <2>3. /\ box' \in [Boxes -> BoxType]
        /\ \A d \in Boxes : box'[d].poisoned = box[d].poisoned /\ box'[d].out = box[d].out
    <3> DEFINE y == [box[b] EXCEPT !.process = "up", !.id = box[b].id + 1]
    <3>1. box[b] \in BoxType /\ box \in [Boxes -> BoxType]
      BY <1>1 DEF PluginsInv, BoxesInv, BoxesTyped
    <3>2. box' = [box EXCEPT ![b] = y]
      BY <1>1, <2>1, <3>1, Zenon
    <3>3. y \in BoxType /\ y.poisoned = box[b].poisoned /\ y.out = box[b].out
      BY <3>1, BoxChanges
    <3> HIDE DEF b, y
    <3> QED
      BY <1>1, <3>1, <3>2, <3>3
  <2>4. Wanted' = Wanted
    BY <2>1 DEF Wanted
  <2>5. box[b].id + 1 \in Nat \ {0}
    <3>1. box[b].id \in Nat
      BY <1>1 DEF PluginsInv, BoxesInv, BoxesTyped, BoxType
    <3> QED
      BY <3>1
  <2>6. BoxesTyped'
    BY <1>1, <2>1, <2>3, <2>5 DEF PluginsInv, BoxesInv, BoxesTyped
  <2>7. CallIsWanted'
    BY <1>1, <1>3, <2>1, <2>3, <2>4
    DEF CallIsWanted, BoxOf
  <2>8. OutputIsOfCall'
    BY <1>1, <2>3, NothingWritten DEF PluginsInv, OutputIsOfCall
  <2>9. FailuresPoison' /\ NoAnswerAfterFailure'
    BY <2>1, <2>3 DEF PluginsInv, BoxesInv, FailuresPoison, NoAnswerAfterFailure
  <2> QED
    BY <2>2, <2>6, <2>7, <2>8, <2>9 DEF PluginsInv, BoxesInv
<1> QED
  BY <1>2, <1>3

(* Whatever a worker writes is an answer to the call being waited for.     *)
LEMMA WorkKeeps ==
  ASSUME PluginsInv, Work
  PROVE  PluginsInv'
<1> DEFINE b == call.box
<1>1. call # NoCall /\ b \in Boxes /\ call.id \in Nat \ {0} /\ call.kind \in Calls
  BY DEF Work, PluginsInv, BoxesInv, BoxesTyped
<1>2. PICK a \in Answers : box' = [box EXCEPT ![b].out = <<a>>]
  BY DEF Work
<1>3. a \in Answer /\ (a.id = call.id /\ a.ok /\ call.kind = "validate" => Loads(Validators))
  <2> DEFINE Well == call.kind \in {"validate", "pii_construct"} => Loads(Group(call.kind))
  <2>1. Well \in BOOLEAN /\ (Well /\ call.kind = "validate" => Loads(Validators))
    BY DEF Group
  <2>2. Honest = [id |-> call.id, ok |-> Well]
    BY DEF Honest
  <2>3. a \in {[id |-> call.id, ok |-> Well], [id |-> call.id, ok |-> FALSE], [id |-> 0, ok |-> Well]}
    BY <1>2, <2>2 DEF Answers
  <2> HIDE DEF Well
  <2>4. CASE a = [id |-> call.id, ok |-> Well]
    BY <1>1, <2>1, <2>4, Zenon DEF Answer
  <2>5. CASE a = [id |-> call.id, ok |-> FALSE]
    BY <1>1, <2>5, Zenon DEF Answer
  <2>6. CASE a = [id |-> 0, ok |-> Well]
    <3>1. a \in Answer /\ a.id = 0
      BY <2>1, <2>6 DEF Answer
    <3> QED
      BY <1>1, <3>1
  <2> QED
    BY <2>3, <2>4, <2>5, <2>6
<1>4. /\ box'[b].out = <<a>> /\ box'[b].poisoned = box[b].poisoned
      /\ \A d \in Boxes \ {b} : box'[d] = box[d]
      /\ box' \in [Boxes -> BoxType]
  <2>1. box[b] \in BoxType /\ box \in [Boxes -> BoxType]
    BY <1>1 DEF PluginsInv, BoxesInv, BoxesTyped
  <2> DEFINE y == [box[b] EXCEPT !.out = <<a>>]
  <2>2. <<a>> \in Seq(Answer)
    BY <1>3
  <2>3. y \in BoxType /\ y.poisoned = box[b].poisoned /\ y.out = <<a>>
    BY <2>1, <2>2, BoxChanges
  <2>4. box' = [box EXCEPT ![b] = y]
    BY <1>2, Zenon
  <2> HIDE DEF b, y
  <2> QED
    BY <1>1, <2>1, <2>3, <2>4
<1>5. UNCHANGED <<setup, call, phase, at, verdict, text, counted, failures, trusted>>
  BY DEF Work
<1>6. Wanted' = Wanted
  BY <1>5 DEF Wanted
<1>7. RowsInv'
  BY <1>5, RowsUntouched DEF PluginsInv, RowVars
<1>8. OutputIsOfCall'
  <2>1. \A d \in Boxes \ {b} : box'[d].out = <<>>
    BY <1>4 DEF PluginsInv, BoxesInv, OutputIsOfCall
  <2>2. Len(box'[b].out) = 1 /\ Head(box'[b].out) = a
    BY <1>3, <1>4
  <2>3. Loads(Validators)' <=> Loads(Validators)
    BY <1>5 DEF Loads
  <2> QED
    BY <1>1, <1>3, <1>5, <2>1, <2>2, <2>3 DEF OutputIsOfCall
<1>9. BoxesTyped' /\ CallIsWanted' /\ FailuresPoison' /\ NoAnswerAfterFailure'
  BY <1>1, <1>4, <1>5, <1>6 DEF PluginsInv, BoxesInv, BoxesTyped, CallIsWanted, FailuresPoison, NoAnswerAfterFailure
<1> QED
  BY <1>7, <1>8, <1>9 DEF PluginsInv, BoxesInv

(* What is received is accepted from a sandbox that has not failed.        *)
LEMMA ReceiveKeeps ==
  ASSUME PluginsInv, Receive
  PROVE  PluginsInv'
<1> DEFINE b == call.box
           a == Head(box[b].out)
<1>1. /\ call # NoCall /\ b \in Boxes /\ call.kind \in Calls /\ call.kind = Wanted
      /\ call' = NoCall /\ UNCHANGED setup
  BY DEF Receive, PluginsInv, BoxesInv, BoxesTyped, CallIsWanted
<1>2. CASE a.id # call.id
  <2>1. /\ box' = [box EXCEPT ![b] = Poison(@)] /\ failures' = failures \cup {b}
        /\ Failed(call.kind) /\ UNCHANGED trusted
    BY <1>2 DEF Receive
  <2> QED
    BY <1>1, <2>1, PoisonKeeps, FailedIsRowStep, RowsKept DEF PluginsInv
<1>3. CASE a.id = call.id
  <2>1. /\ box' = [box EXCEPT ![b].out = Tail(@)]
        /\ IF a.ok THEN Succeeded(call.kind) ELSE Failed(call.kind)
        /\ trusted' = (IF b \in failures THEN trusted \cup {b} ELSE trusted)
        /\ UNCHANGED failures
    BY <1>3 DEF Receive
  <2>2. RowStep
    <3>1. a.ok /\ call.kind = "validate" => Loads(Validators)
      BY <1>1, <1>3 DEF Receive, PluginsInv, BoxesInv, OutputIsOfCall
    <3> QED
      BY <1>1, <2>1, <3>1, FailedIsRowStep, SucceededIsRowStep DEF PluginsInv
  <2>3. RowsInv'
    BY <1>1, <2>2, RowsKept DEF PluginsInv
  <2>4. /\ box[b] \in BoxType /\ box \in [Boxes -> BoxType]
        /\ box[b].out \in Seq(Answer) /\ box[b].out # <<>> /\ Len(box[b].out) = 1
    BY <1>1 DEF Receive, PluginsInv, BoxesInv, BoxesTyped, BoxType, OutputIsOfCall
  <2>5. Tail(box[b].out) = <<>>
    <3>1. \A s \in Seq(Answer) : Len(s) = 1 => Len(Tail(s)) = 0 /\ Tail(s) \in Seq(Answer)
      OBVIOUS
    <3>2. \A s \in Seq(Answer) : Len(s) = 0 => s = <<>>
      BY EmptySeq
    <3> QED
      BY <2>4, <3>1, <3>2
  <2>6. /\ box' \in [Boxes -> BoxType]
        /\ \A d \in Boxes : box'[d].poisoned = box[d].poisoned /\ box'[d].out = <<>>
    <3> DEFINE y == [box[b] EXCEPT !.out = <<>>]
    <3>1. y \in BoxType /\ y.poisoned = box[b].poisoned /\ y.out = <<>>
      BY <2>4, BoxChanges, EmptySeq
    <3>2. \A d \in Boxes \ {b} : box[d].out = <<>>
      BY <1>1 DEF PluginsInv, BoxesInv, OutputIsOfCall
    <3>3. box' = [box EXCEPT ![b] = y]
      BY <1>1, <2>1, <2>4, <2>5
    <3> HIDE DEF b, y
    <3> QED
      BY <1>1, <2>4, <3>1, <3>2, <3>3
  <2>7. b \notin failures
    BY <1>1 DEF PluginsInv, BoxesInv, CallIsWanted, FailuresPoison
  <2>8. BoxesInv'
    BY <1>1, <2>1, <2>6, <2>7
    DEF PluginsInv, BoxesInv, BoxesTyped, CallIsWanted, OutputIsOfCall, FailuresPoison, NoAnswerAfterFailure
  <2> QED
    BY <2>3, <2>8 DEF PluginsInv
<1> QED
  BY <1>2, <1>3

(* A call that times out poisons its sandbox.                              *)
LEMMA GiveUpKeeps ==
  ASSUME PluginsInv, GiveUp
  PROVE  PluginsInv'
<1>1. /\ call # NoCall /\ call.box \in Boxes /\ call.kind \in Calls /\ call.kind = Wanted
  BY DEF GiveUp, PluginsInv, BoxesInv, BoxesTyped, CallIsWanted
<1>2. BoxesInv'
  BY <1>1, PoisonKeeps DEF GiveUp
<1>3. RowsInv'
  BY <1>1, FailedIsRowStep, RowsKept DEF GiveUp, PluginsInv
<1> QED
  BY <1>2, <1>3 DEF PluginsInv

(* A worker that exits between two calls leaves its sandbox as it is.      *)
LEMMA ExitKeeps ==
  ASSUME PluginsInv, NEW b \in Boxes, Exit(b)
  PROVE  PluginsInv'
<1>1. /\ box' \in [Boxes -> BoxType]
      /\ \A d \in Boxes : box'[d].poisoned = box[d].poisoned /\ box'[d].out = box[d].out
  <2> DEFINE y == [box[b] EXCEPT !.process = "exited"]
  <2>1. box \in [Boxes -> BoxType] /\ box' = [box EXCEPT ![b] = y]
    BY DEF Exit, PluginsInv, BoxesInv, BoxesTyped
  <2>2. y \in BoxType /\ y.poisoned = box[b].poisoned /\ y.out = box[b].out
    BY <2>1, BoxChanges
  <2> HIDE DEF y
  <2> QED
    BY <2>1, <2>2
<1>2. UNCHANGED <<setup, call, phase, at, verdict, text, counted, failures, trusted>> /\ call = NoCall
  BY DEF Exit
<1>3. BoxesInv'
  BY <1>1, <1>2
  DEF PluginsInv, BoxesInv, BoxesTyped, CallIsWanted, OutputIsOfCall, FailuresPoison, NoAnswerAfterFailure
<1> QED
  BY <1>2, <1>3, RowsUntouched DEF PluginsInv, RowVars

(* Every step of the plugin stages preserves what they keep.               *)
LEMMA PluginsStep ==
  ASSUME PluginsInv, PluginStep \/ UNCHANGED pluginVars
  PROVE  PluginsInv'
<1>1. CASE UNCHANGED pluginVars
  BY <1>1 DEF pluginVars, PluginsInv, BoxesInv, BoxesTyped, CallIsWanted, Wanted, OutputIsOfCall, FailuresPoison,
     NoAnswerAfterFailure, RowsInv, RowsTyped, RowsInOrder, VerdictsNeedValidators, CountsMatchText, Loads
<1> QED
  BY <1>1, InProcessKeeps, CallKeeps, WorkKeeps, ReceiveKeeps, GiveUpKeeps, ExitKeeps DEF PluginStep

-----------------------------------------------------------------------------
(* What is proved of the provider stage.                                   *)

(* The intervals from one on.                                              *)
LEMMA FirstNaturals ==
  ASSUME NEW m \in Int
  PROVE  IsFiniteSet(1 .. m) /\ (m \in Nat => Cardinality(1 .. m) = m)
<1>1. 1 \in Int
  OBVIOUS
<1>2. IsFiniteSet(1 .. m) /\ Cardinality(1 .. m) = IF 1 > m THEN 0 ELSE m - 1 + 1
  BY <1>1, FS_Interval, Zenon
<1>3. m \in Nat => (IF 1 > m THEN 0 ELSE m - 1 + 1) = m
  OBVIOUS
<1> QED
  BY <1>2, <1>3

(* There are finitely many chunks, and none is the null value.             *)
LEMMA ChunksFinite == IsFiniteSet(AllChunks) /\ AllChunks \subseteq Nat /\ None \notin AllChunks
<1>1. (Rows + ChunkSize - 1) \div ChunkSize \in Int
  BY CallsAssumption
<1>2. IsFiniteSet(AllChunks)
  BY <1>1, FirstNaturals, Zenon DEF AllChunks
<1>3. AllChunks \subseteq Nat
  BY <1>1 DEF AllChunks
<1>4. None \notin Nat
  BY CallsAssumption
<1> QED
  BY <1>2, <1>3, <1>4

(* Every row that is sent is in one of the chunks.                         *)
LEMMA ChunkExists ==
  ASSUME NEW r \in Remote, own \subseteq RowSet
  PROVE  ChunkOf(r) \in AllChunks
<1> USE CallsAssumption
<1>1. r \in Nat /\ 1 <= r /\ r <= Rows
  BY DEF Remote, RowSet
<1>2. Position(r) \in 0 .. (Rows - 1)
  <2>1. CASE kind = "audit"
    <3> DEFINE Before == {s \in Remote : s < r}
    <3>1. Before \subseteq 1 .. (r - 1)
      BY <1>1 DEF Remote, RowSet
    <3>2. IsFiniteSet(1 .. (r - 1)) /\ Cardinality(1 .. (r - 1)) = r - 1
      <4>1. \A m \in Nat : IsFiniteSet(1 .. m) /\ Cardinality(1 .. m) = m
        BY FirstNaturals
      <4>2. r - 1 \in Nat
        BY <1>1
      <4> QED
        BY <4>1, <4>2
    <3>3. Cardinality(Before) \in Nat /\ Cardinality(Before) <= r - 1
      <4> HIDE DEF Before
      <4>1. IsFiniteSet(Before) /\ Cardinality(Before) <= Cardinality(1 .. (r - 1))
        BY <3>1, <3>2, FS_Subset
      <4> QED
        BY <3>2, <4>1, FS_CardinalityType
    <3>4. Position(r) = Cardinality(Before)
      BY <2>1 DEF Position
    <3> HIDE DEF Before
    <3> QED
      BY <1>1, <3>3, <3>4
  <2>2. CASE kind # "audit"
    BY <1>1, <2>2 DEF Position
  <2> QED
    BY <2>1, <2>2
<1> DEFINE n == Position(r)
           q == n \div ChunkSize
           Q == (Rows + ChunkSize - 1) \div ChunkSize
<1>3. \A a \in Nat, b \in Nat \ {0} :
        /\ a \div b \in Nat
        /\ b * (a \div b) <= a /\ a < b * (a \div b) + b
  OBVIOUS
<1>4. q \in Nat /\ ChunkSize * q <= n /\ n <= Rows - 1
  BY <1>2, <1>3
<1>5. Q \in Nat /\ Rows + ChunkSize - 1 < ChunkSize * Q + ChunkSize
  <2>1. Rows + ChunkSize - 1 \in Nat /\ ChunkSize \in Nat \ {0}
    OBVIOUS
  <2> QED
    BY <1>3, <2>1
<1> HIDE DEF q, Q, n
<1>6. ChunkSize * q < ChunkSize * Q
  <2>1. ChunkSize * q \in Int /\ ChunkSize * Q \in Int /\ n \in Int
    BY <1>2, <1>4, <1>5 DEF n
  <2> QED
    BY <1>4, <1>5, <2>1
<1>7. q < Q
  <2>1. \A a, x, y \in Nat : x >= y => a * x >= a * y
    OBVIOUS
  <2> QED
    BY <1>4, <1>5, <1>6, <2>1
<1> QED
  BY <1>4, <1>5, <1>7 DEF q, Q, n, ChunkOf, AllChunks

(* The chunks are those of the stage's setup.                              *)
LEMMA SetupDecidesChunks ==
  ASSUME UNCHANGED setupVars
  PROVE  /\ Remote' = Remote /\ Chunks' = Chunks /\ conf' = conf /\ kind' = kind /\ own' = own
         /\ client' = client
         /\ \A c \in AllChunks : RowsOf(c)' = RowsOf(c)
BY DEF setupVars, Chunks, RowsOf, ChunkOf, Position, Remote

(* How many chunks are in the states G when one of them moves.             *)
LEMMA OneChunkMoves ==
  ASSUME NEW G, NEW c \in AllChunks, NEW s, pc \in [AllChunks -> States], pc' = [pc EXCEPT ![c] = s]
  PROVE  LET Before == {d \in AllChunks : pc[d] \in G}
             After == {d \in AllChunks : pc'[d] \in G}
         IN  /\ Cardinality(Before) \in Nat /\ Cardinality(After) \in Nat
             /\ (pc[c] \in G <=> s \in G) => Cardinality(After) = Cardinality(Before)
             /\ pc[c] \notin G /\ s \in G => Cardinality(After) = Cardinality(Before) + 1
             /\ pc[c] \in G /\ s \notin G => Cardinality(After) = Cardinality(Before) - 1
<1> DEFINE Before == {d \in AllChunks : pc[d] \in G}
           After == {d \in AllChunks : pc'[d] \in G}
<1>1. IsFiniteSet(Before) /\ IsFiniteSet(After)
  BY ChunksFinite, FS_Subset
<1>2. /\ (pc[c] \in G <=> s \in G) => After = Before
      /\ pc[c] \notin G /\ s \in G => After = Before \cup {c}
      /\ pc[c] \in G /\ s \notin G => After = Before \ {c}
  OBVIOUS
<1>3. c \in Before <=> pc[c] \in G
  OBVIOUS
<1> HIDE DEF Before, After
<1>4. Cardinality(Before) \in Nat /\ Cardinality(After) \in Nat
  BY <1>1, FS_CardinalityType
<1>5. c \notin Before => Cardinality(Before \cup {c}) = Cardinality(Before) + 1
  BY <1>1, FS_AddElement
<1>6. c \in Before => Cardinality(Before \ {c}) = Cardinality(Before) - 1
  BY <1>1, FS_RemoveElement
<1>7. /\ (pc[c] \in G <=> s \in G) => Cardinality(After) = Cardinality(Before)
      /\ pc[c] \notin G /\ s \in G => Cardinality(After) = Cardinality(Before) + 1
      /\ pc[c] \in G /\ s \notin G => Cardinality(After) = Cardinality(Before) - 1
  BY <1>2, <1>3, <1>5, <1>6
<1> QED
  BY <1>4, <1>7 DEF Before, After
(* The slots when one chunk moves: those it takes or gives back are those  *)
(* that the limiter counts, and a request starts with a slot held.         *)
LEMMA SlotsMove ==
  ASSUME CallsInv, NEW c \in AllChunks, NEW s, pc' = [pc EXCEPT ![c] = s],
         UNCHANGED stage, stage # "new", free' \in Nat,
         s \in InThread /\ pc[c] \notin InThread => stage = "running",
         stage = "running" =>
           /\ (pc[c] \in Holding <=> s \in Holding) => free' = free
           /\ pc[c] \notin Holding /\ s \in Holding => free' = free - 1
           /\ pc[c] \in Holding /\ s \notin Holding => free' = free + 1
  PROVE  SlotsCounted'
<1>1. pc \in [AllChunks -> States] /\ free \in Nat /\ Slots \in Nat
  BY CallsAssumption DEF CallsInv, CallsTyped
<1>2. Holders = {d \in AllChunks : pc[d] \in Holding} /\ Holders' = {d \in AllChunks : pc'[d] \in Holding}
  BY DEF Holders, Holding
<1>3. stage = "running" => free' + Cardinality(Holders') = Slots
  <2>1. /\ Cardinality(Holders) \in Nat /\ Cardinality(Holders') \in Nat
        /\ (pc[c] \in Holding <=> s \in Holding) => Cardinality(Holders') = Cardinality(Holders)
        /\ pc[c] \notin Holding /\ s \in Holding => Cardinality(Holders') = Cardinality(Holders) + 1
        /\ pc[c] \in Holding /\ s \notin Holding => Cardinality(Holders') = Cardinality(Holders) - 1
    BY <1>1, <1>2, OneChunkMoves, Zenon
  <2>2. stage = "running" => free + Cardinality(Holders) = Slots
    BY DEF CallsInv, SlotsCounted
  <2> QED
    BY <1>1, <2>1, <2>2
<1>4. Cardinality(InFlight') <= Slots
  <2>1. CASE s \in InThread /\ pc[c] \notin InThread
    <3>1. Cardinality(InFlight') <= Cardinality(Holders') /\ {Cardinality(InFlight'), Cardinality(Holders')} \subseteq Nat
      <4>1. IsFiniteSet(Holders') /\ InFlight' \in SUBSET Holders'
        BY ChunksFinite, FS_Subset DEF Holders, InFlight
      <4> QED
        BY <4>1, FS_Subset, FS_CardinalityType
    <3> QED
      BY <1>1, <1>3, <2>1, <3>1
  <2>2. CASE ~(s \in InThread /\ pc[c] \notin InThread)
    <3>1. InFlight' \in SUBSET InFlight /\ IsFiniteSet(InFlight)
      BY <1>1, <2>2, ChunksFinite, FS_Subset DEF InFlight
    <3>2. Cardinality(InFlight') <= Cardinality(InFlight) /\ Cardinality(InFlight) <= Slots
      BY <3>1, FS_Subset DEF CallsInv, SlotsCounted
    <3>3. {Cardinality(InFlight'), Cardinality(InFlight)} \subseteq Nat
      BY <3>1, FS_Subset, FS_CardinalityType
    <3> QED
      BY <1>1, <3>2, <3>3
  <2> QED
    BY <2>1, <2>2
<1> QED
  BY <1>3, <1>4 DEF SlotsCounted

(* The usage when a chunk moves that is not recording.                     *)
LEMMA UsageKept ==
  ASSUME CallsInv, NEW c \in AllChunks, NEW s, pc' = [pc EXCEPT ![c] = s],
         {pc[c], s} \cap {"recording", "writing"} = {}, UNCHANGED usageVars
  PROVE  UsageCounted'
<1>1. pc \in [AllChunks -> States]
  BY DEF CallsInv, CallsTyped
<1>2. Unrecorded' = Unrecorded
  BY <1>1 DEF Unrecorded
<1>3. \A d \in AllChunks : pc'[d] = "writing" <=> pc[d] = "writing"
  BY <1>1
<1> QED
  BY <1>2, <1>3 DEF CallsInv, UsageCounted, usageVars

(* The chunks when one of them moves, and its rows get nothing.            *)
LEMMA ChunkMoves ==
  ASSUME CallsInv, NEW c \in AllChunks, NEW s \in States, pc' = [pc EXCEPT ![c] = s],
         pc[c] \notin {"none", "done"}, s \notin {"none", "done"}, stage # "running" => s \in Settled,
         UNCHANGED <<setupVars, stage, got, error>>,
         \A d \in AllChunks \ {c} : reply'[d] = reply[d],
         s \in {"recording", "writing", "returned"} => reply'[c] \in Replies
  PROVE  ChunksSettle' /\ DoneChunksAccounted' /\ stage # "new" /\ stage # "done"
<1>1. pc \in [AllChunks -> States] /\ c \in Chunks /\ stage # "new" /\ stage # "done"
  BY DEF CallsInv, CallsTyped, ChunksSettle
<1>2. /\ Chunks' = Chunks /\ kind' = kind /\ own' = own /\ client' = client
      /\ \A d \in AllChunks : RowsOf(d)' = RowsOf(d)
  BY SetupDecidesChunks
<1>3. ChunksSettle'
  BY <1>1, <1>2 DEF CallsInv, ChunksSettle
<1>4. DoneChunksAccounted'
  BY <1>1, <1>2 DEF CallsInv, DoneChunksAccounted, Accounted
<1> QED
  BY <1>1, <1>3, <1>4
(* What is kept of the timestamps is a suffix: whatever was dropped from   *)
(* its front is not younger.                                               *)
LEMMA YoungerIsSuffix ==
  ASSUME NEW t \in Seq(Ages), NEW age \in Nat
  PROVE  \E n \in 0 .. Len(t) :
           /\ Younger(t, age) \in Seq(Ages)
           /\ Len(Younger(t, age)) = Len(t) - n
           /\ \A i \in 1 .. Len(t) - n : Younger(t, age)[i] = t[n + i]
           /\ \A i \in 1 .. n : t[i] >= age
<1> DEFINE young == {i \in DOMAIN t : t[i] < age}
<1>1. Len(t) \in Nat /\ DOMAIN t = 1 .. Len(t) /\ \A i \in 1 .. Len(t) : t[i] \in Ages
  BY LenProperties, ElementOfSeq
<1>2. Ages \subseteq Nat
  BY CallsAssumption DEF Ages
<1>5. young \in SUBSET Nat /\ \A i \in 1 .. Len(t) : i \notin young => t[i] >= age
  <2>0. \A i \in 1 .. Len(t) : t[i] \in Nat
    BY <1>1, <1>2, Zenon
  <2>1. \A i \in 1 .. Len(t) : i \in Nat /\ t[i] \in Nat
    BY <1>1, <2>0
  <2>2. young \in SUBSET Nat
    BY <1>1, <2>1
  <2>3. ASSUME NEW i \in 1 .. Len(t), i \notin young
        PROVE  t[i] >= age
    <3>1. ~(t[i] < age) /\ t[i] \in Nat
      BY <1>1, <2>1, <2>3
    <3> QED
      BY <3>1
  <2> QED
    BY <2>2, <2>3
<1>3. CASE young = {}
  <2>1. Younger(t, age) = <<>>
    BY <1>3 DEF Younger
  <2>2. \A i \in 1 .. Len(t) : t[i] >= age
    BY <1>3, <1>5
  <2> WITNESS Len(t) \in 0 .. Len(t)
  <2> QED
    BY <1>1, <2>1, <2>2, EmptySeq
<1>4. CASE young # {}
  <2> DEFINE m == CHOOSE i \in young : \A j \in young : i <= j
  <2>1. m \in young /\ \A j \in young : m <= j
    <3> HIDE DEF young
    <3> QED
      BY <1>4, <1>5, LeastExists
  <2>2. Younger(t, age) = SubSeq(t, m, Len(t))
    BY <1>4 DEF Younger
  <2> HIDE DEF m
  <2>3. m \in 1 .. Len(t) /\ \A i \in m .. Len(t) : t[i] \in Ages
    BY <1>1, <2>1
  <2>4. /\ SubSeq(t, m, Len(t)) \in Seq(Ages)
        /\ Len(SubSeq(t, m, Len(t))) = Len(t) - (m - 1)
        /\ \A i \in 1 .. Len(t) - (m - 1) : SubSeq(t, m, Len(t))[i] = t[(m - 1) + i]
    <3>1. \A i \in 1 .. Len(t) - m + 1 : SubSeq(t, m, Len(t))[i] = t[m + i - 1]
      BY <1>1, <2>3, SubSeqProperties
    <3>2. SubSeq(t, m, Len(t)) \in Seq(Ages) /\ Len(SubSeq(t, m, Len(t))) = Len(t) - m + 1
      BY <1>1, <2>3, SubSeqProperties
    <3> QED
      BY <1>1, <2>3, <3>1, <3>2
  <2>5. \A i \in 1 .. m - 1 : t[i] >= age
    <3>1. \A i \in 1 .. m - 1 : i \in 1 .. Len(t) /\ ~(m <= i)
      BY <1>1, <2>3
    <3> HIDE DEF young
    <3> QED
      BY <1>5, <2>1, <3>1
  <2>6. m - 1 \in 0 .. Len(t)
    BY <1>1, <2>3
  <2> WITNESS m - 1 \in 0 .. Len(t)
  <2> QED
    BY <2>2, <2>4, <2>5
<1> QED
  BY <1>3, <1>4

(* Where the ages are in order, what is kept is exactly what is younger.   *)
LEMMA YoungerIsFilter ==
  ASSUME NEW t \in Seq(Ages), NEW age \in Nat, \A i, j \in 1 .. Len(t) : i <= j => t[i] >= t[j]
  PROVE  \A i \in 1 .. Len(Younger(t, age)) : Younger(t, age)[i] < age
<1> DEFINE young == {i \in DOMAIN t : t[i] < age}
<1>1. Len(t) \in Nat /\ DOMAIN t = 1 .. Len(t) /\ \A i \in 1 .. Len(t) : t[i] \in Int
  <2>1. Ages \subseteq Int
    BY CallsAssumption DEF Ages
  <2> QED
    BY <2>1, LenProperties, ElementOfSeq
<1>2. CASE young = {}
  BY <1>2, EmptySeq DEF Younger
<1>3. CASE young # {}
  <2> DEFINE m == CHOOSE i \in young : \A j \in young : i <= j
  <2>1. m \in young
    <3>1. young \in SUBSET Nat
      BY <1>1
    <3> HIDE DEF young
    <3> QED
      BY <1>3, <3>1, LeastExists
  <2>2. Younger(t, age) = SubSeq(t, m, Len(t))
    BY <1>3 DEF Younger
  <2> HIDE DEF m
  <2>3. m \in 1 .. Len(t) /\ t[m] < age
    BY <1>1, <2>1
  <2>4. /\ Len(SubSeq(t, m, Len(t))) = Len(t) - m + 1
        /\ \A i \in 1 .. Len(t) - m + 1 : SubSeq(t, m, Len(t))[i] = t[m + i - 1]
    BY <1>1, <2>3, SubSeqProperties
  <2>5. \A k \in m .. Len(t) : t[k] < age
    BY <1>1, <2>3
  <2> QED
    BY <1>1, <2>2, <2>3, <2>4, <2>5
<1> QED
  BY <1>2, <1>3

(* What time does to the ages.                                             *)
LEMMA OlderTyped ==
  ASSUME NEW t \in Seq(Ages)
  PROVE  /\ Older(t) \in Seq(Ages) /\ Len(Older(t)) = Len(t)
         /\ \A i \in 1 .. Len(t) : Older(t)[i] = Least(t[i] + 1, Window)
<1>1. Len(t) \in Nat /\ DOMAIN t = 1 .. Len(t) /\ \A i \in 1 .. Len(t) : t[i] \in Ages
  BY LenProperties, ElementOfSeq
<1>2. Older(t) = [i \in 1 .. Len(t) |-> Least(t[i] + 1, Window)]
  BY <1>1 DEF Older
<1>3. \A i \in 1 .. Len(t) : Least(t[i] + 1, Window) \in Ages
  BY <1>1, CallsAssumption DEF Ages, Least
<1>4. Older(t) \in [1 .. Len(t) -> Ages]
  BY <1>2, <1>3
<1>5. Older(t) \in Seq(Ages)
  BY <1>1, <1>4, SeqDef
<1> QED
  BY <1>1, <1>2, <1>4, <1>5, LenProperties
(* Pruning the timestamps keeps them the last of the recent admissions.    *)
LEMMA KeptFits ==
  ASSUME NEW t, NEW r, Fits(t, r)
  PROVE  Fits(Kept(t), r)
<1>1. Window \in Nat /\ MaxRpm \in Nat /\ t \in Seq(Ages) /\ r \in Seq(Ages)
  BY CallsAssumption DEF Fits
<1>2. PICK n \in 0 .. Len(t) :
        /\ Kept(t) \in Seq(Ages)
        /\ Len(Kept(t)) = Len(t) - n
        /\ \A i \in 1 .. Len(t) - n : Kept(t)[i] = t[n + i]
        /\ \A i \in 1 .. n : t[i] >= Window
  BY <1>1, YoungerIsSuffix DEF Kept
<1> DEFINE k == Kept(t)
<1> HIDE DEF k
<1>3. /\ Len(t) \in Nat /\ Len(r) \in Nat /\ Len(k) \in Nat
      /\ \A i \in 1 .. Len(t) : t[i] \in 0 .. Window
  BY <1>1, <1>2, LenProperties, ElementOfSeq DEF Ages, k
<1>4. \A i \in 1 .. n : t[i] = Window
  BY <1>1, <1>2, <1>3
<1>5. \A i \in 1 .. Len(k) : k[i] = r[Len(r) - Len(k) + i]
  BY <1>2, <1>3 DEF Fits, k
<1>6. \A i \in 1 .. Len(r) - Len(k) : r[i] = Window
  <2>1. ASSUME NEW i \in 1 .. Len(r) - Len(k), i > Len(r) - Len(t)
        PROVE  r[i] = Window
    <3>1. i - (Len(r) - Len(t)) \in 1 .. n
      BY <1>2, <1>3, <2>1 DEF k
    <3> DEFINE j == i - (Len(r) - Len(t))
    <3>2. j \in 1 .. Len(t) /\ Len(r) - Len(t) + j = i
      BY <1>2, <1>3, <2>1, <3>1
    <3>3. t[j] = r[i]
      BY <3>2 DEF Fits
    <3> QED
      BY <1>4, <3>1, <3>3
  <2> QED
    BY <1>3, <2>1 DEF Fits
<1> QED
  BY <1>1, <1>2, <1>3, <1>5, <1>6 DEF Fits, k

(* One more admission: the recent ones lose their first when there are too *)
(* many of them.                                                           *)
LEMMA AdmissionFits ==
  ASSUME NEW t, NEW r, Fits(t, r), Len(t) < MaxRpm
  PROVE  LET last == Append(r, 0)
         IN  Fits(Append(t, 0), IF Len(last) > MaxRpm + 1 THEN Tail(last) ELSE last)
<1>1. Window \in Nat \ {0} /\ MaxRpm \in Nat \ {0} /\ t \in Seq(Ages) /\ r \in Seq(Ages) /\ 0 \in Ages
  BY CallsAssumption DEF Fits, Ages
<1>2. /\ Len(t) \in Nat /\ Len(r) \in Nat
      /\ \A i \in 1 .. Len(r) : r[i] \in 0 .. Window
  BY <1>1, LenProperties, ElementOfSeq DEF Ages
<1> DEFINE u == Append(t, 0)
           l == Append(r, 0)
<1>3. /\ u \in Seq(Ages) /\ Len(u) = Len(t) + 1 /\ u[Len(t) + 1] = 0
      /\ \A i \in 1 .. Len(t) : u[i] = t[i]
  BY <1>1, AppendProperties
<1>4. /\ l \in Seq(Ages) /\ Len(l) = Len(r) + 1 /\ l[Len(r) + 1] = 0
      /\ \A i \in 1 .. Len(r) : l[i] = r[i]
  BY <1>1, AppendProperties
<1> HIDE DEF u, l
<1>5. /\ \A i \in 1 .. Len(u) : u[i] = l[Len(l) - Len(u) + i]
      /\ \A i \in 1 .. Len(l) - Len(u) : l[i] = Window
      /\ \A i, j \in 1 .. Len(l) : i <= j => l[i] >= l[j]
  <2>1. ASSUME NEW i \in 1 .. Len(u)
        PROVE  u[i] = l[Len(l) - Len(u) + i]
    <3>1. Len(l) - Len(u) + i = Len(r) - Len(t) + i
      BY <1>2, <1>3, <1>4
    <3>2. CASE i = Len(t) + 1
      BY <1>2, <1>3, <1>4, <3>1, <3>2
    <3>3. CASE i # Len(t) + 1
      <4>1. i \in 1 .. Len(t) /\ Len(r) - Len(t) + i \in 1 .. Len(r)
        BY <1>2, <1>3, <3>3 DEF Fits
      <4> QED
        BY <1>3, <1>4, <3>1, <4>1 DEF Fits
    <3> QED
      BY <3>2, <3>3
  <2>2. \A i \in 1 .. Len(l) - Len(u) : l[i] = Window
    BY <1>2, <1>3, <1>4 DEF Fits
  <2>3. ASSUME NEW i \in 1 .. Len(l), NEW j \in 1 .. Len(l), i <= j
        PROVE  l[i] >= l[j]
    <3>1. CASE j = Len(r) + 1
      <4>1. l[j] = 0
        BY <1>4, <3>1
      <4>2. l[i] \in Nat
        <5>1. CASE i = Len(r) + 1
          BY <1>4, <5>1
        <5>2. CASE i # Len(r) + 1
          <6>1. i \in 1 .. Len(r)
            BY <1>2, <1>4, <5>2
          <6> QED
            BY <1>2, <1>4, <6>1
        <5> QED
          BY <5>1, <5>2
      <4> QED
        BY <4>1, <4>2
    <3>2. CASE j # Len(r) + 1
      <4>1. i \in 1 .. Len(r) /\ j \in 1 .. Len(r)
        BY <1>2, <1>4, <2>3, <3>2
      <4>2. r[i] >= r[j]
        BY <2>3, <4>1 DEF Fits
      <4> QED
        BY <1>4, <4>1, <4>2
    <3> QED
      BY <3>1, <3>2
  <2> QED
    BY <2>1, <2>2, <2>3
<1>6. CASE Len(l) <= MaxRpm + 1
  <2>1. Fits(u, l)
    BY <1>1, <1>2, <1>3, <1>4, <1>5, <1>6 DEF Fits
  <2> QED
    BY <1>1, <1>2, <1>4, <1>6, <2>1 DEF u, l
<1>7. CASE Len(l) > MaxRpm + 1
  <2>1. l # <<>>
    BY <1>2, <1>4, EmptySeq
  <2> DEFINE m == Tail(l)
  <2>2. m \in Seq(Ages) /\ Len(m) = Len(l) - 1 /\ \A i \in 1 .. Len(m) : m[i] = l[i + 1]
    BY <1>4, <2>1, HeadTailProperties
  <2> HIDE DEF m
  <2>3. Len(l) = MaxRpm + 2 /\ Len(m) = MaxRpm + 1
    BY <1>1, <1>2, <1>4, <1>7, <2>2 DEF Fits
  <2>4. ASSUME NEW i \in 1 .. Len(u)
        PROVE  u[i] = m[Len(m) - Len(u) + i]
    <3> DEFINE k == Len(m) - Len(u) + i
    <3>1. k \in 1 .. Len(m) /\ k + 1 = Len(l) - Len(u) + i
      BY <1>1, <1>2, <1>3, <2>3
    <3> HIDE DEF k
    <3>2. u[i] = l[k + 1] /\ m[k] = l[k + 1]
      BY <1>5, <2>2, <3>1
    <3> QED
      BY <3>2 DEF k
  <2>5. \A i \in 1 .. Len(m) - Len(u) : m[i] = Window
    BY <1>1, <1>2, <1>3, <1>5, <2>2, <2>3
  <2>6. \A i, j \in 1 .. Len(m) : i <= j => m[i] >= m[j]
    BY <1>1, <1>5, <2>2, <2>3
  <2>7. Fits(u, m)
    BY <1>1, <1>2, <1>3, <2>2, <2>3, <2>4, <2>5, <2>6 DEF Fits
  <2> QED
    BY <1>7, <2>7 DEF u, l, m
<1> QED
  BY <1>1, <1>2, <1>4, <1>6, <1>7

(* The passing of time keeps them so.                                      *)
LEMMA OlderFits ==
  ASSUME NEW t, NEW r, Fits(t, r)
  PROVE  Fits(Older(t), Older(r))
<1>1. Window \in Nat \ {0} /\ MaxRpm \in Nat \ {0} /\ t \in Seq(Ages) /\ r \in Seq(Ages)
  BY CallsAssumption DEF Fits
<1>2. /\ Len(t) \in Nat /\ Len(r) \in Nat
      /\ \A i \in 1 .. Len(r) : r[i] \in 0 .. Window
  BY <1>1, LenProperties, ElementOfSeq DEF Ages
<1> DEFINE u == Older(t)
           l == Older(r)
<1>3. /\ u \in Seq(Ages) /\ Len(u) = Len(t)
      /\ \A i \in 1 .. Len(t) : u[i] = Least(t[i] + 1, Window)
  BY <1>1, OlderTyped
<1>4. /\ l \in Seq(Ages) /\ Len(l) = Len(r)
      /\ \A i \in 1 .. Len(r) : l[i] = Least(r[i] + 1, Window)
  BY <1>1, OlderTyped
<1> HIDE DEF u, l
<1>5. ASSUME NEW i \in 1 .. Len(u)
      PROVE  u[i] = l[Len(l) - Len(u) + i]
  <2> DEFINE k == Len(r) - Len(t) + i
  <2>1. i \in 1 .. Len(t) /\ k \in 1 .. Len(r) /\ Len(l) - Len(u) + i = k
    BY <1>2, <1>3, <1>4 DEF Fits
  <2>2. t[i] = r[k]
    BY <2>1 DEF Fits
  <2> HIDE DEF k
  <2> QED
    BY <1>3, <1>4, <2>1, <2>2
<1>6. \A i \in 1 .. Len(l) - Len(u) : l[i] = Window
  BY <1>1, <1>2, <1>3, <1>4 DEF Fits, Least
<1>7. ASSUME NEW i \in 1 .. Len(l), NEW j \in 1 .. Len(l), i <= j
      PROVE  l[i] >= l[j]
  <2>1. i \in 1 .. Len(r) /\ j \in 1 .. Len(r)
    BY <1>4
  <2>2. r[i] >= r[j] /\ r[i] \in 0 .. Window /\ r[j] \in 0 .. Window
    BY <1>2, <1>7, <2>1 DEF Fits
  <2>3. l[i] = Least(r[i] + 1, Window) /\ l[j] = Least(r[j] + 1, Window)
    BY <1>4, <2>1
  <2> QED
    BY <1>1, <2>2, <2>3 DEF Least
<1> QED
  BY <1>1, <1>2, <1>3, <1>4, <1>5, <1>6, <1>7 DEF Fits, u, l
-----------------------------------------------------------------------------
(* Every step of the provider stage preserves what it keeps.               *)

(* The chunks of a stage that starts are queued, and it has its client.    *)
LEMMA StartKeeps ==
  ASSUME CallsInv, Start
  PROVE  CallsInv'
<1>1. /\ stage = "new" /\ \A c \in AllChunks : pc[c] = "none" /\ attempts[c] = 0
      /\ conf' \in ConfType /\ kind' \in StageKinds /\ own' \subseteq RowSet
      /\ client' = CreateClient(conf')
      /\ UNCHANGED <<attempts, reply, free, timestamps, recent, usage, holder, seen, responses>>
  <2>1. Confs \subseteq ConfType /\ Kinds \subseteq StageKinds /\ \A S \in Own : S \subseteq RowSet
    BY CallsAssumption DEF RowSet
  <2>2. conf' \in Confs /\ kind' \in Kinds /\ (own' = {} \/ own' \in Own)
    BY DEF Start
  <2>3. \A c \in AllChunks : attempts[c] = 0
    <3>1. \A c \in AllChunks : attempts[c] \in Nat /\ ~(attempts[c] > 0)
      BY DEF Start, CallsInv, CallsTyped, ClientDecides
    <3> QED
      BY <3>1
  <2> QED
    BY <2>1, <2>2, <2>3 DEF Start, CallsInv, ChunksSettle, usageVars
<1>2. CASE client' = None
  <2>1. stage' = "raised" /\ UNCHANGED <<pc, got, error>>
    BY <1>2 DEF Start
  <2>2. UNCHANGED <<Holders, InFlight, Unrecorded>>
    BY <2>1 DEF Holders, InFlight, Unrecorded
  <2>3. CallsTyped' /\ ClientDecides' /\ SlotsCounted' /\ WindowKept' /\ UsageCounted'
    BY <1>1, <1>2, <2>1, <2>2
    DEF CallsInv, CallsTyped, ClientDecides, SlotsCounted, WindowKept, UsageCounted
  <2>4. ChunksSettle'
    BY <1>1, <2>1 DEF CallsInv, ChunksSettle, Settled
  <2>5. DoneChunksAccounted'
    BY <1>2 DEF DoneChunksAccounted
  <2> QED
    BY <2>3, <2>4, <2>5 DEF CallsInv
<1>3. CASE client' # None
  <2>1. /\ stage' = "running"
        /\ pc' = [c \in AllChunks |-> IF c \in Chunks' THEN "queued" ELSE "none"]
        /\ got' = [r \in RowSet |-> IF kind' = "audit" /\ r \in own' THEN "score" ELSE "nothing"]
        /\ error' = IF kind' = "classify" THEN own' ELSE {}
    BY <1>3 DEF Start
  <2>2. \A c \in AllChunks : pc'[c] = (IF c \in Chunks' THEN "queued" ELSE "none")
    BY <2>1
  <2>3. Holders' = {} /\ InFlight' = {} /\ Unrecorded' = {} /\ Unrecorded = {}
    BY <1>1, <2>2 DEF Holders, InFlight, Unrecorded, InThread
  <2>4. CallsTyped'
    BY <1>1, <2>1 DEF CallsInv, CallsTyped, States, Gains
  <2>5. SlotsCounted' /\ UsageCounted'
    <3>1. Cardinality({}) = 0 /\ Slots \in Nat
      BY FS_EmptySet, CallsAssumption
    <3>2. SlotsCounted'
      BY <1>1, <2>1, <2>3, <3>1 DEF CallsInv, SlotsCounted
    <3>3. UsageCounted'
      BY <1>1, <2>2, <2>3 DEF CallsInv, UsageCounted
    <3> QED
      BY <3>2, <3>3
  <2>6. ChunksSettle' /\ ClientDecides' /\ WindowKept'
    BY <1>1, <1>3, <2>1, <2>2 DEF CallsInv, ChunksSettle, ClientDecides, WindowKept
  <2>7. DoneChunksAccounted'
    <3>1. own' = {} \/ kind' \in {"audit", "classify", "augment"}
      BY <1>1 DEF Start, StageKinds
    <3>2. \A r \in own' : kind' # "augment" => Accounted(r)'
      BY <1>1, <2>1, <3>1 DEF Accounted
    <3>3. \A c \in AllChunks : pc'[c] # "done"
      BY <2>2
    <3> QED
      BY <3>2, <3>3 DEF DoneChunksAccounted
  <2> QED
    BY <2>4, <2>5, <2>6, <2>7 DEF CallsInv
<1> QED
  BY <1>2, <1>3

(* A chunk enters with a slot.                                             *)
LEMMA EnterKeeps ==
  ASSUME CallsInv, NEW c \in AllChunks, Enter(c)
  PROVE  CallsInv'
<1>1. /\ pc[c] = "queued" /\ pc' = [pc EXCEPT ![c] = "pacing"] /\ stage = "running"
      /\ free' = free - 1 /\ free > 0
      /\ UNCHANGED <<setupVars, stage, attempts, reply, timestamps, recent, got, error, usageVars>>
  BY DEF Enter
<1>2. CallsTyped' /\ ClientDecides' /\ WindowKept'
  BY <1>1 DEF CallsInv, CallsTyped, States, ClientDecides, WindowKept, setupVars, usageVars
<1>3. SlotsCounted'
  BY <1>1, <1>2, SlotsMove DEF Holding, InThread, CallsTyped
<1>4. UsageCounted'
  BY <1>1, UsageKept
<1>5. ChunksSettle' /\ DoneChunksAccounted'
  BY <1>1, ChunkMoves DEF States
<1> QED
  BY <1>2, <1>3, <1>4, <1>5 DEF CallsInv

(* A chunk is admitted, or sleeps, with the slot it holds.                 *)
LEMMA PaceKeeps ==
  ASSUME CallsInv, NEW c \in AllChunks, Pace(c)
  PROVE  CallsInv'
<1>1. /\ pc[c] = "pacing" /\ stage = "running"
      /\ UNCHANGED <<setupVars, stage, attempts, reply, free, got, error, usageVars>>
  BY DEF Pace
<1>2. PICK s \in {"admitted", "sleeping"} : pc' = [pc EXCEPT ![c] = s]
  BY DEF Pace
<1>3. WindowKept'
  <2>1. Fits(Kept(timestamps), recent)
    BY KeptFits DEF CallsInv, WindowKept
  <2> DEFINE kept == Kept(timestamps)
             last == Append(recent, 0)
  <2>2. CASE Len(kept) < MaxRpm
    <3>1. timestamps' = Append(kept, 0) /\ recent' = IF Len(last) > MaxRpm + 1 THEN Tail(last) ELSE last
      BY <2>2 DEF Pace
    <3> QED
      BY <2>1, <2>2, <3>1, AdmissionFits DEF WindowKept
  <2>3. CASE ~(Len(kept) < MaxRpm)
    BY <2>1, <2>3 DEF Pace, WindowKept
  <2> QED
    BY <2>2, <2>3
<1>4. CallsTyped' /\ ClientDecides'
  BY <1>1, <1>2 DEF CallsInv, CallsTyped, States, ClientDecides, setupVars, usageVars
<1>5. SlotsCounted'
  BY <1>1, <1>2, <1>4, SlotsMove DEF Holding, InThread, CallsTyped
<1>6. UsageCounted'
  BY <1>1, <1>2, UsageKept
<1>7. ChunksSettle' /\ DoneChunksAccounted'
  BY <1>1, <1>2, ChunkMoves DEF States
<1> QED
  BY <1>3, <1>4, <1>5, <1>6, <1>7 DEF CallsInv

(* A chunk that slept looks at the window again.                           *)
LEMMA WakeKeeps ==
  ASSUME CallsInv, NEW c \in AllChunks, Wake(c)
  PROVE  CallsInv'
<1>1. /\ pc[c] = "sleeping" /\ pc' = [pc EXCEPT ![c] = "pacing"] /\ stage = "running"
      /\ UNCHANGED <<setupVars, stage, attempts, reply, free, timestamps, recent, got, error, usageVars>>
  BY DEF Wake, limiterVars
<1>2. CallsTyped' /\ ClientDecides' /\ WindowKept'
  BY <1>1 DEF CallsInv, CallsTyped, States, ClientDecides, WindowKept, setupVars, usageVars
<1>3. SlotsCounted'
  BY <1>1, <1>2, SlotsMove DEF Holding, InThread, CallsTyped
<1>4. UsageCounted'
  BY <1>1, UsageKept
<1>5. ChunksSettle' /\ DoneChunksAccounted'
  BY <1>1, ChunkMoves DEF States
<1> QED
  BY <1>2, <1>3, <1>4, <1>5 DEF CallsInv

(* Time passes for the admissions only.                                    *)
LEMMA TickKeeps ==
  ASSUME CallsInv, Tick
  PROVE  CallsInv'
<1>1. UNCHANGED <<setupVars, stage, pc, attempts, reply, queue, free, got, error, usageVars>>
  BY DEF Tick
<1>2. WindowKept'
  BY OlderFits DEF Tick, CallsInv, WindowKept
<1>3. UNCHANGED <<Holders, InFlight, Unrecorded>>
  BY <1>1 DEF Holders, InFlight, Unrecorded
<1>4. CallsTyped' /\ ClientDecides' /\ SlotsCounted' /\ UsageCounted'
  BY <1>1, <1>3 DEF CallsInv, CallsTyped, ClientDecides, SlotsCounted, UsageCounted, setupVars, usageVars
<1>5. ChunksSettle' /\ DoneChunksAccounted'
  BY <1>1, SetupDecidesChunks DEF CallsInv, ChunksSettle, DoneChunksAccounted, Accounted
<1> QED
  BY <1>2, <1>4, <1>5 DEF CallsInv
(* A provider error: every chunk outside a thread is cancelled.            *)
LEMMA RaiseKeeps ==
  ASSUME CallsInv, NEW c \in AllChunks, RaiseFrom(c), pc[c] \in {"admitted", "returned"},
         UNCHANGED <<setupVars, attempts, reply, free, timestamps, recent, got, error, usageVars>>
  PROVE  CallsInv'
<1>1. pc \in [AllChunks -> States] /\ c \in Chunks /\ stage # "new"
  BY DEF CallsInv, CallsTyped, ChunksSettle
<1>2. /\ stage' = "raised" /\ pc'[c] = "failed"
      /\ \A d \in AllChunks \ {c} :
           pc'[d] = (IF pc[d] \in InThread \cup {"none", "done"} THEN pc[d] ELSE "cancelled")
  BY DEF RaiseFrom, Cancelled
<1>3. pc' \in [AllChunks -> States] /\ \A d \in AllChunks : pc'[d] \in Settled
  <2>1. pc' = [d \in AllChunks |-> IF d = c THEN "failed" ELSE Cancelled(pc[d])]
    BY DEF RaiseFrom
  <2>2. \A d \in AllChunks : pc'[d] \in Settled
    BY <1>2 DEF Settled
  <2>3. Settled \subseteq States
    BY DEF Settled, States
  <2> QED
    BY <2>1, <2>2, <2>3
<1>4. /\ Unrecorded' = Unrecorded /\ InFlight' = InFlight
      /\ \A d \in AllChunks : /\ pc'[d] = "writing" <=> pc[d] = "writing"
                              /\ pc'[d] = "done" <=> pc[d] = "done"
                              /\ pc'[d] = "none" <=> pc[d] = "none"
                              /\ pc'[d] \in {"recording", "writing", "returned"} => pc'[d] = pc[d]
  <2>1. \A d \in AllChunks :
          /\ pc'[d] \in InThread <=> pc[d] \in InThread
          /\ pc'[d] \in {"recording", "writing"} <=> pc[d] \in {"recording", "writing"}
          /\ pc'[d] = "writing" <=> pc[d] = "writing"
          /\ pc'[d] = "done" <=> pc[d] = "done"
          /\ pc'[d] = "none" <=> pc[d] = "none"
          /\ pc'[d] \in {"recording", "writing", "returned"} => pc'[d] = pc[d]
    <3>1. ASSUME NEW d \in AllChunks, d # c
          PROVE  pc'[d] = (IF pc[d] \in InThread \cup {"none", "done"} THEN pc[d] ELSE "cancelled")
      BY <1>2, <3>1
    <3> QED
      BY <1>2, <3>1 DEF InThread
  <2> QED
    BY <2>1 DEF Unrecorded, InFlight
<1>5. CallsTyped' /\ ClientDecides' /\ WindowKept'
  BY <1>1, <1>2, <1>3 DEF CallsInv, CallsTyped, ClientDecides, WindowKept, setupVars, usageVars
<1>6. SlotsCounted' /\ UsageCounted'
  BY <1>2, <1>4 DEF CallsInv, SlotsCounted, UsageCounted, usageVars
<1>7. ChunksSettle' /\ DoneChunksAccounted'
  BY <1>1, <1>2, <1>3, <1>4, SetupDecidesChunks
  DEF CallsInv, ChunksSettle, DoneChunksAccounted, Accounted
<1> QED
  BY <1>5, <1>6, <1>7 DEF CallsInv

(* A request is sent by a client that the configuration allows, from a     *)
(* stage that still runs.                                                  *)
LEMMA SendKeeps ==
  ASSUME CallsInv, NEW c \in AllChunks, Send(c)
  PROVE  CallsInv' /\ stage = "running"
<1>1. /\ pc[c] = "admitted"
      /\ UNCHANGED <<setupVars, reply, free, timestamps, recent, got, error, usageVars>>
  BY DEF Send, limiterVars
<1>2. stage = "running" /\ client # None
  BY <1>1 DEF CallsInv, ChunksSettle, ClientDecides, Settled, InThread
<1>3. CASE client.sends
  <2>1. /\ pc' = [pc EXCEPT ![c] = "sent"] /\ UNCHANGED stage
        /\ attempts' = [attempts EXCEPT ![c] = @ + 1]
    BY <1>3 DEF Send
  <2>2. CallsTyped' /\ WindowKept'
    BY <1>1, <2>1 DEF CallsInv, CallsTyped, States, InThread, WindowKept, setupVars, usageVars
  <2>3. ClientDecides'
    BY <1>1, <1>2, <1>3, <2>1 DEF CallsInv, ClientDecides, setupVars
  <2>4. SlotsCounted'
    BY <1>1, <1>2, <2>1, <2>2, SlotsMove DEF Holding, InThread, CallsTyped
  <2>5. UsageCounted'
    BY <1>1, <2>1, UsageKept
  <2>6. ChunksSettle' /\ DoneChunksAccounted'
    BY <1>1, <1>2, <2>1, ChunkMoves DEF States, InThread
  <2> QED
    BY <1>2, <2>2, <2>3, <2>4, <2>5, <2>6 DEF CallsInv
<1>4. CASE ~client.sends
  BY <1>1, <1>2, <1>4, RaiseKeeps DEF Send
<1> QED
  BY <1>3, <1>4

(* A request without a response.                                           *)
LEMMA FailKeeps ==
  ASSUME CallsInv, NEW c \in AllChunks, Fail(c)
  PROVE  CallsInv'
<1>1. /\ pc[c] = "sent" /\ pc' = [pc EXCEPT ![c] = "returned"]
      /\ reply' = [reply EXCEPT ![c] = [kind |-> "lost", rows |-> {}]]
      /\ UNCHANGED <<setupVars, stage, attempts, free, timestamps, recent, got, error, usageVars>>
  BY DEF Fail, limiterVars
<1>2. [kind |-> "lost", rows |-> {}] \in Replies /\ reply \in [AllChunks -> Replies \cup {None}]
  BY DEF Replies, CallsInv, CallsTyped
<1>3. reply' \in [AllChunks -> Replies \cup {None}] /\ reply'[c] \in Replies
      /\ \A d \in AllChunks \ {c} : reply'[d] = reply[d]
  BY <1>1, <1>2
<1>4. CallsTyped' /\ ClientDecides' /\ WindowKept'
  BY <1>1, <1>3 DEF CallsInv, CallsTyped, States, ClientDecides, WindowKept, setupVars, usageVars
<1>5. ChunksSettle' /\ DoneChunksAccounted' /\ stage # "new"
  BY <1>1, <1>3, ChunkMoves DEF States, Settled
<1>6. SlotsCounted'
  BY <1>1, <1>4, <1>5, SlotsMove DEF Holding, InThread, CallsTyped
<1>7. UsageCounted'
  BY <1>1, UsageKept
<1> QED
  BY <1>4, <1>5, <1>6, <1>7 DEF CallsInv

(* A response is counted before its usage is recorded.                     *)
LEMMA RespondKeeps ==
  ASSUME CallsInv, NEW c \in AllChunks, Respond(c)
  PROVE  CallsInv'
<1>1. /\ pc[c] = "sent" /\ pc' = [pc EXCEPT ![c] = "recording"] /\ responses' = responses + 1
      /\ UNCHANGED <<setupVars, stage, attempts, free, timestamps, recent, got, error, usage, holder, seen>>
  BY DEF Respond, limiterVars
<1>2. PICK a \in {[kind |-> "unparsed", rows |-> {}]} \cup [kind : {"answer"}, rows : SUBSET RowsOf(c)] :
        reply' = [reply EXCEPT ![c] = a]
  BY DEF Respond
<1>3. a \in Replies /\ reply \in [AllChunks -> Replies \cup {None}]
  <2>1. RowsOf(c) \subseteq RowSet
    BY DEF RowsOf, Remote
  <2> QED
    BY <2>1 DEF Replies, CallsInv, CallsTyped
<1>4. reply' \in [AllChunks -> Replies \cup {None}] /\ reply'[c] \in Replies
      /\ \A d \in AllChunks \ {c} : reply'[d] = reply[d]
  <2>1. reply' = [reply EXCEPT ![c] = a]
    BY <1>2
  <2> QED
    BY <1>3, <2>1
<1>5. CallsTyped' /\ ClientDecides' /\ WindowKept'
  <2>1. {usage', responses', seen'} \subseteq Nat
    BY <1>1 DEF CallsInv, CallsTyped
  <2>2. pc' \in [AllChunks -> States]
    BY <1>1 DEF CallsInv, CallsTyped, States, InThread
  <2> QED
    BY <1>1, <1>4, <2>1, <2>2 DEF CallsInv, CallsTyped, ClientDecides, WindowKept, setupVars
<1>6. ChunksSettle' /\ DoneChunksAccounted' /\ stage # "new"
  BY <1>1, <1>4, ChunkMoves DEF States, Settled, InThread
<1>7. SlotsCounted'
  BY <1>1, <1>5, <1>6, SlotsMove DEF Holding, InThread, CallsTyped
<1>8. UsageCounted'
  <2>1. pc \in [AllChunks -> States] /\ usage \in Nat /\ responses \in Nat
    BY DEF CallsInv, CallsTyped
  <2>2. Cardinality(Unrecorded') = Cardinality(Unrecorded) + 1 /\ Cardinality(Unrecorded) \in Nat
    BY <1>1, <2>1, OneChunkMoves DEF Unrecorded
  <2>3. \A d \in AllChunks : pc'[d] = "writing" <=> pc[d] = "writing"
    BY <1>1, <2>1
  <2> QED
    BY <1>1, <2>1, <2>2, <2>3 DEF CallsInv, UsageCounted
<1> QED
  BY <1>5, <1>6, <1>7, <1>8 DEF CallsInv

(* The lock goes to one chunk, and nobody held it.                         *)
LEMMA ReadUsageKeeps ==
  ASSUME CallsInv, NEW c \in AllChunks, ReadUsage(c)
  PROVE  CallsInv'
<1>1. /\ pc[c] = "recording" /\ pc' = [pc EXCEPT ![c] = "writing"]
      /\ holder = None /\ holder' = c /\ seen' = usage
      /\ UNCHANGED <<setupVars, stage, attempts, reply, free, timestamps, recent, got, error, usage, responses>>
  BY DEF ReadUsage, LockFree, limiterVars
<1>2. CallsTyped' /\ ClientDecides' /\ WindowKept'
  <2>1. pc' \in [AllChunks -> States]
    BY <1>1 DEF CallsInv, CallsTyped, States, InThread
  <2>2. CallsTyped'
    BY <1>1, <2>1 DEF CallsInv, CallsTyped, setupVars
  <2>3. ClientDecides' /\ WindowKept'
    BY <1>1 DEF CallsInv, ClientDecides, WindowKept, setupVars
  <2> QED
    BY <2>2, <2>3
<1>3. reply[c] \in Replies
  BY <1>1 DEF CallsInv, ChunksSettle
<1>4. ChunksSettle' /\ DoneChunksAccounted' /\ stage # "new"
  BY <1>1, <1>3, ChunkMoves DEF States, Settled, InThread
<1>5. SlotsCounted'
  BY <1>1, <1>2, <1>4, SlotsMove DEF Holding, InThread, CallsTyped
<1>6. UsageCounted'
  <2>1. pc \in [AllChunks -> States] /\ None \notin AllChunks
    BY ChunksFinite DEF CallsInv, CallsTyped
  <2>2. Unrecorded' = Unrecorded
    BY <1>1, <2>1 DEF Unrecorded
  <2>3. \A d \in AllChunks : (pc'[d] = "writing") <=> (holder' = d)
    BY <1>1, <2>1 DEF CallsInv, UsageCounted
  <2> QED
    BY <1>1, <2>2, <2>3 DEF CallsInv, UsageCounted
<1> QED
  BY <1>2, <1>4, <1>5, <1>6 DEF CallsInv

(* What the holder of the lock has read is still the usage.                *)
LEMMA WriteUsageKeeps ==
  ASSUME CallsInv, NEW c \in AllChunks, WriteUsage(c)
  PROVE  CallsInv'
<1>1. /\ pc[c] = "writing" /\ pc' = [pc EXCEPT ![c] = "returned"]
      /\ usage' = seen + 1 /\ holder' = None /\ seen' = 0
      /\ UNCHANGED <<setupVars, stage, attempts, reply, free, timestamps, recent, got, error, responses>>
  BY DEF WriteUsage, limiterVars
<1>2. CallsTyped' /\ ClientDecides' /\ WindowKept'
  <2>1. pc' \in [AllChunks -> States]
    BY <1>1 DEF CallsInv, CallsTyped, States
  <2>2. usage' \in Nat /\ seen' \in Nat
    BY <1>1 DEF CallsInv, CallsTyped
  <2>3. CallsTyped'
    BY <1>1, <2>1, <2>2 DEF CallsInv, CallsTyped, setupVars
  <2>4. ClientDecides' /\ WindowKept'
    BY <1>1 DEF CallsInv, ClientDecides, WindowKept, setupVars
  <2> QED
    BY <2>3, <2>4
<1>3. reply[c] \in Replies
  BY <1>1 DEF CallsInv, ChunksSettle
<1>4. ChunksSettle' /\ DoneChunksAccounted' /\ stage # "new"
  BY <1>1, <1>3, ChunkMoves DEF States, Settled, InThread
<1>5. SlotsCounted'
  BY <1>1, <1>2, <1>4, SlotsMove DEF Holding, InThread, CallsTyped
<1>6. UsageCounted'
  <2>1. pc \in [AllChunks -> States] /\ None \notin AllChunks /\ usage \in Nat /\ responses \in Nat
    BY ChunksFinite DEF CallsInv, CallsTyped
  <2>2. Cardinality(Unrecorded') = Cardinality(Unrecorded) - 1 /\ Cardinality(Unrecorded) \in Nat
    <3> DEFINE G == {"recording", "writing"}
    <3>1. pc[c] \in G /\ "returned" \notin G
      BY <1>1
    <3>2. Unrecorded = {d \in AllChunks : pc[d] \in G} /\ Unrecorded' = {d \in AllChunks : pc'[d] \in G}
      BY DEF Unrecorded
    <3> HIDE DEF G
    <3> QED
      BY <1>1, <2>1, <3>1, <3>2, OneChunkMoves
  <2>3. holder = c /\ seen = usage
    BY <1>1, <2>1 DEF CallsInv, UsageCounted
  <2>4. \A d \in AllChunks : (pc'[d] = "writing") <=> (holder' = d)
    BY <1>1, <2>1, <2>3 DEF CallsInv, UsageCounted
  <2> QED
    BY <1>1, <2>1, <2>2, <2>3, <2>4 DEF CallsInv, UsageCounted
<1> QED
  BY <1>2, <1>4, <1>5, <1>6 DEF CallsInv
(* What a row has got is never taken from it.                              *)
LEMMA AppliedKeeps ==
  ASSUME CallsInv, NEW c \in AllChunks, stage # "new"
  PROVE  /\ Applied(c) \in [RowSet -> Gains]
         /\ \A r \in RowSet : got[r] # "nothing" => Applied(c)[r] # "nothing"
         /\ \A r \in RowsOf(c) : Satisfied(c) /\ kind # "augment" =>
              r \in Missed(c) \/ Applied(c)[r] # "nothing"
<1>1. kind \in StageKinds /\ got \in [RowSet -> Gains]
  BY DEF CallsInv, CallsTyped
<1>2. RowsOf(c) \subseteq RowSet
  BY DEF RowsOf, Remote
<1>3. ASSUME NEW R, NEW what \in Gains \ {"nothing"}
      PROVE  /\ Got(R, what) \in [RowSet -> Gains]
             /\ \A r \in RowSet : got[r] # "nothing" \/ r \in R => Got(R, what)[r] # "nothing"
  BY <1>1 DEF Got
<1>4. {"score", "edit", "evolved item", "preference pair", "label", "variations"} \subseteq Gains \ {"nothing"}
  BY DEF Gains
<1>5. CASE kind \in {"audit", "refine", "evolve", "dpo", "augment"}
  <2>1. PICK what \in Gains \ {"nothing"} : Applied(c) = Got(reply[c].rows, what)
    BY <1>4, <1>5 DEF Applied, Scored, Refined, Evolved, Paired, Augmented
  <2>2. kind # "augment" => Missed(c) = RowsOf(c) \ reply[c].rows
    BY <1>5 DEF Missed
  <2> QED
    BY <1>2, <1>3, <2>1, <2>2
<1>6. CASE kind = "classify"
  <2> DEFINE R == {r \in RowsOf(c) : \A s \in RowsOf(c) : s <= r => s \in reply[c].rows}
  <2>1. Applied(c) = Got(R, "label")
    BY <1>6 DEF Applied, Labelled
  <2>2. Satisfied(c) => R = RowsOf(c)
    BY <1>6 DEF Satisfied
  <2> HIDE DEF R
  <2> QED
    BY <1>2, <1>3, <1>4, <2>1, <2>2
<1> QED
  BY <1>1, <1>5, <1>6 DEF StageKinds

(* A chunk that is done has an answer or an error for each of its rows.    *)
LEMMA ReturnKeeps ==
  ASSUME CallsInv, NEW c \in AllChunks, Return(c)
  PROVE  CallsInv'
<1>1. /\ pc[c] = "returned" /\ stage = "running" /\ free' = free + 1 /\ got' = Applied(c)
      /\ reply' = [reply EXCEPT ![c] = None]
      /\ UNCHANGED <<setupVars, stage, attempts, timestamps, recent, usageVars>>
  BY DEF Return, Released
<1>2. PICK s \in {"done", "backoff"} :
        /\ pc' = [pc EXCEPT ![c] = s]
        /\ error \subseteq error'
        /\ error' \subseteq RowSet
        /\ s = "done" => \/ Satisfied(c) /\ error' = error \cup Missed(c)
                         \/ error' = error \cup Flagged(c)
  <2>1. error \subseteq RowSet /\ Missed(c) \subseteq RowSet /\ Flagged(c) \subseteq RowSet
    BY DEF CallsInv, CallsTyped, Missed, Flagged, RowsOf, Remote
  <2> QED
    BY <2>1 DEF Return
<1>3. c \in Chunks /\ pc \in [AllChunks -> States] /\ reply \in [AllChunks -> Replies \cup {None}]
  BY <1>1 DEF CallsInv, CallsTyped, ChunksSettle
<1>4. CallsTyped' /\ ClientDecides' /\ WindowKept'
  <2>1. got' \in [RowSet -> Gains]
    BY <1>1, AppliedKeeps
  <2>2. pc' \in [AllChunks -> States] /\ reply' \in [AllChunks -> Replies \cup {None}]
    BY <1>1, <1>2, <1>3 DEF States
  <2> QED
    BY <1>1, <1>2, <2>1, <2>2
    DEF CallsInv, CallsTyped, ClientDecides, WindowKept, setupVars, usageVars
<1>5. SlotsCounted'
  BY <1>1, <1>2, <1>4, SlotsMove DEF Holding, InThread, CallsTyped
<1>6. UsageCounted'
  BY <1>1, <1>2, UsageKept
<1>7. /\ Chunks' = Chunks /\ kind' = kind /\ own' = own /\ client' = client
      /\ \A d \in AllChunks : RowsOf(d)' = RowsOf(d)
  BY <1>1, SetupDecidesChunks
<1>8. ChunksSettle'
  BY <1>1, <1>2, <1>3, <1>7 DEF CallsInv, ChunksSettle, Settled
<1>9. DoneChunksAccounted'
  <2>1. \A r \in RowSet : Accounted(r) => Accounted(r)'
    BY <1>1, <1>2, AppliedKeeps DEF Accounted
  <2>2. own \subseteq RowSet /\ \A d \in AllChunks : RowsOf(d) \subseteq RowSet
    BY <1>1 DEF CallsInv, CallsTyped, RowsOf, Remote
  <2>3. ASSUME pc'[c] = "done", kind # "augment", NEW r \in RowsOf(c)
        PROVE  Accounted(r)'
    <3>1. Flagged(c) = RowsOf(c)
      BY <2>3 DEF Flagged, RowsOf
    <3>2. pc'[c] = s
      BY <1>2, <1>3
    <3> QED
      BY <1>1, <1>2, <2>3, <3>1, <3>2, AppliedKeeps DEF Accounted
  <2>4. \A d \in AllChunks \ {c} : pc'[d] = pc[d]
    BY <1>2, <1>3
  <2> QED
    BY <1>1, <1>7, <2>1, <2>2, <2>3, <2>4 DEF CallsInv, DoneChunksAccounted
<1> QED
  BY <1>4, <1>5, <1>6, <1>8, <1>9 DEF CallsInv

(* An answer that is a provider error ends the stage.                      *)
LEMMA ReturnErrorKeeps ==
  ASSUME CallsInv, NEW c \in AllChunks, ReturnError(c)
  PROVE  CallsInv'
BY RaiseKeeps DEF ReturnError, limiterVars

(* A chunk queues again after its backoff.                                 *)
LEMMA RetryKeeps ==
  ASSUME CallsInv, NEW c \in AllChunks, Retry(c)
  PROVE  CallsInv'
<1>1. /\ pc[c] = "backoff" /\ pc' = [pc EXCEPT ![c] = "queued"] /\ stage = "running"
      /\ UNCHANGED <<setupVars, stage, attempts, reply, free, timestamps, recent, got, error, usageVars>>
  BY DEF Retry
<1>2. CallsTyped' /\ ClientDecides' /\ WindowKept'
  BY <1>1 DEF CallsInv, CallsTyped, States, ClientDecides, WindowKept, setupVars, usageVars
<1>3. SlotsCounted'
  BY <1>1, <1>2, SlotsMove DEF Holding, InThread, CallsTyped
<1>4. UsageCounted'
  BY <1>1, UsageKept
<1>5. ChunksSettle' /\ DoneChunksAccounted'
  BY <1>1, ChunkMoves DEF States
<1> QED
  BY <1>2, <1>3, <1>4, <1>5 DEF CallsInv

(* A stage is done when each of its chunks is.                             *)
LEMMA FinishKeeps ==
  ASSUME CallsInv, Finish
  PROVE  CallsInv'
<1>1. /\ stage = "running" /\ stage' = "done" /\ \A c \in Chunks : pc[c] = "done"
      /\ UNCHANGED <<setupVars, pc, attempts, reply, free, timestamps, recent, got, error, usageVars>>
  BY DEF Finish, limiterVars
<1>2. UNCHANGED <<Holders, InFlight, Unrecorded>>
  BY <1>1 DEF Holders, InFlight, Unrecorded
<1>3. CallsTyped' /\ ClientDecides' /\ WindowKept' /\ SlotsCounted' /\ UsageCounted'
  BY <1>1, <1>2
  DEF CallsInv, CallsTyped, ClientDecides, WindowKept, SlotsCounted, UsageCounted, setupVars, usageVars
<1>4. ChunksSettle' /\ DoneChunksAccounted'
  BY <1>1, SetupDecidesChunks DEF CallsInv, ChunksSettle, DoneChunksAccounted, Accounted, Settled
<1> QED
  BY <1>3, <1>4 DEF CallsInv

(* The plugin stages leave the provider stage alone.                       *)
LEMMA CallsUntouched ==
  ASSUME CallsInv, UNCHANGED callVars
  PROVE  CallsInv'
<1>1. UNCHANGED <<setupVars, stage, pc, attempts, reply, free, timestamps, recent, got, error, usageVars>>
  BY DEF callVars, limiterVars
<1>2. UNCHANGED <<Holders, InFlight, Unrecorded>>
  BY <1>1 DEF Holders, InFlight, Unrecorded
<1>3. CallsTyped' /\ ClientDecides' /\ WindowKept' /\ SlotsCounted' /\ UsageCounted'
  BY <1>1, <1>2
  DEF CallsInv, CallsTyped, ClientDecides, WindowKept, SlotsCounted, UsageCounted, setupVars, usageVars
<1>4. ChunksSettle' /\ DoneChunksAccounted'
  BY <1>1, SetupDecidesChunks DEF CallsInv, ChunksSettle, DoneChunksAccounted, Accounted
<1> QED
  BY <1>3, <1>4 DEF CallsInv

(* Every step of a chunk.                                                  *)
LEMMA ChunkKeeps ==
  ASSUME CallsInv, NEW c \in AllChunks, ChunkStep(c)
  PROVE  CallsInv'
BY EnterKeeps, PaceKeeps, WakeKeeps, SendKeeps, FailKeeps, RespondKeeps, ReadUsageKeeps, WriteUsageKeeps,
   ReturnKeeps, ReturnErrorKeeps, RetryKeeps DEF ChunkStep
-----------------------------------------------------------------------------
(* Both together.                                                          *)

(* The invariant holds at first, in every installation.                    *)
LEMMA InitKeeps == Init => Inv
<1> SUFFICES ASSUME Init PROVE Inv
  OBVIOUS
<1>1. PluginsInv
  <2>1. RowsInv
    BY PluginAssumption
    DEF Init, PluginsInit, RowsInv, RowsTyped, RowsInOrder, VerdictsNeedValidators, CountsMatchText, RowIds
  <2>2. BoxesTyped
    <3>1. [process |-> "none", poisoned |-> FALSE, id |-> 0, out |-> <<>>] \in BoxType
      BY EmptySeq DEF BoxType
    <3> QED
      BY <3>1, PluginAssumption DEF Init, PluginsInit, BoxesTyped
  <2> QED
    BY <2>1, <2>2
    DEF Init, PluginsInit, PluginsInv, BoxesInv, CallIsWanted, OutputIsOfCall, FailuresPoison, NoAnswerAfterFailure
<1>2. CallsInv
  <2>1. /\ stage = "new" /\ client = None /\ own = {}
        /\ \A c \in AllChunks : pc[c] = "none" /\ attempts[c] = 0
        /\ free = Slots /\ usage = 0 /\ responses = 0 /\ seen = 0 /\ holder = None
    BY DEF Init, CallsInit
  <2>2. CallsTyped
    BY CallsAssumption DEF Init, CallsInit, CallsTyped, States, Gains
  <2>3. InFlight = {} /\ Unrecorded = {}
    BY <2>1 DEF InFlight, Unrecorded, InThread
  <2>4. SlotsCounted /\ UsageCounted
    BY <2>1, <2>3, FS_EmptySet, ChunksFinite, CallsAssumption DEF SlotsCounted, UsageCounted
  <2>5. WindowKept
    BY EmptySeq, CallsAssumption DEF Init, CallsInit, WindowKept, Fits
  <2>6. ChunksSettle /\ ClientDecides /\ DoneChunksAccounted
    BY <2>1 DEF ChunksSettle, ClientDecides, DoneChunksAccounted, Settled
  <2> QED
    BY <2>2, <2>4, <2>5, <2>6 DEF CallsInv
<1> QED
  BY <1>1, <1>2 DEF Init, CallsInit, Inv, StageComesLast

(* Once the provider stage has begun the plugin stages are over.           *)
LEMMA PluginsStayOver ==
  ASSUME PluginsInv, phase = "over", PluginStep
  PROVE  phase' = "over"
<1>1. Wanted = "none"
  BY DEF Wanted
<1>2. call = NoCall
  BY <1>1 DEF PluginsInv, BoxesInv, BoxesTyped, CallIsWanted, Calls
<1> QED
  BY <1>1, <1>2 DEF PluginStep, InProcess, Call, Work, Receive, GiveUp, Exit

(* The invariant is inductive: the two parts meet where the stage starts.  *)
LEMMA NextKeeps == Inv /\ [Next]_vars => Inv'
<1> SUFFICES ASSUME Inv, [Next]_vars PROVE Inv'
  OBVIOUS
<1>0. PluginsInv /\ CallsInv /\ StageComesLast
  BY DEF Inv
<1>1. CASE PluginStep /\ UNCHANGED callVars
  <2>1. PluginsInv' /\ CallsInv'
    BY <1>0, <1>1, PluginsStep, CallsUntouched
  <2>2. UNCHANGED stage
    BY <1>1 DEF callVars
  <2>3. StageComesLast'
    BY <1>0, <1>1, <2>2, PluginsStayOver DEF StageComesLast
  <2> QED
    BY <2>1, <2>3 DEF Inv
<1>2. CASE StartStage /\ UNCHANGED pluginVars
  <2>1. PluginsInv' /\ CallsInv'
    BY <1>0, <1>2, PluginsStep, StartKeeps DEF StartStage
  <2> QED
    BY <1>2, <2>1 DEF Inv, StageComesLast, StartStage, pluginVars
<1>3. ASSUME NEW c \in AllChunks, StageStep(c)
      PROVE  Inv'
  <2>1. PluginsInv' /\ CallsInv' /\ UNCHANGED phase
    BY <1>0, <1>3, PluginsStep, ChunkKeeps DEF StageStep, pluginVars
  <2>2. stage # "new"
    BY <1>0, <1>3 DEF StageStep, ChunkStep, Enter, Pace, Wake, Send, Fail, Respond, ReadUsage, WriteUsage, Return,
       ReturnError, Retry, CallsInv, ChunksSettle
  <2> QED
    BY <1>0, <2>1, <2>2 DEF Inv, StageComesLast
<1>4. CASE (Tick \/ Finish) /\ UNCHANGED pluginVars
  <2>1. PluginsInv' /\ CallsInv'
    BY <1>0, <1>4, PluginsStep, TickKeeps, FinishKeeps
  <2> QED
    BY <1>0, <1>4, <2>1 DEF Inv, StageComesLast, Tick, Finish, pluginVars
<1>5. CASE UNCHANGED vars
  <2>1. UNCHANGED pluginVars /\ UNCHANGED callVars
    BY <1>5 DEF vars
  <2>2. PluginsInv' /\ CallsInv'
    BY <1>0, <2>1, PluginsStep, CallsUntouched
  <2> QED
    BY <1>0, <2>1, <2>2 DEF Inv, StageComesLast, pluginVars, callVars
<1> QED
  BY <1>1, <1>2, <1>3, <1>4, <1>5 DEF Next

(* The inductive invariant of the plugin stages and the provider stage.    *)
THEOREM StagesInvariant == Spec => []Inv
BY InitKeeps, NextKeeps, PTL DEF Spec

(* A sandbox that timed out, exited or answered out of step never has      *)
(* another answer accepted, whatever its process still writes.             *)
THEOREM FailedSandboxesStaySilent == Spec => []NoAnswerAfterFailure
<1>1. Inv => NoAnswerAfterFailure
  BY DEF Inv, PluginsInv, BoxesInv
<1> QED
  BY <1>1, StagesInvariant, PTL

(* The counts of what the scrubber found and the texts never disagree.     *)
THEOREM CountsAlwaysMatch == Spec => []CountsMatchText
<1>1. Inv => CountsMatchText
  BY DEF Inv, PluginsInv, RowsInv
<1> QED
  BY <1>1, StagesInvariant, PTL

(* No row reaches the provider stage before every row has its verdict from *)
(* all the validators, nor an accepted one that was not scrubbed.          *)
THEOREM ValidatorsComeFirst == Spec => []NothingSentUnvalidated
<1>1. Inv => NothingSentUnvalidated
  <2> SUFFICES ASSUME Inv, stage # "new" PROVE NothingSentUnvalidated
    BY DEF NothingSentUnvalidated
  <2>1. phase = "over"
    BY DEF Inv, StageComesLast
  <2>2. Loads(Validators)
    BY <2>1 DEF Inv, PluginsInv, RowsInv, VerdictsNeedValidators
  <2> QED
    BY <2>1, <2>2 DEF Inv, PluginsInv, RowsInv, RowsInOrder, Loads, NothingSentUnvalidated
<1> QED
  BY <1>1, StagesInvariant, PTL

(* No request leaves under the strict policy or from a client that is not  *)
(* ready, and under the local policy it goes to a private host.            *)
THEOREM PolicyIsObeyed == Spec => []RequestsObeyPolicy
<1>1. Inv => RequestsObeyPolicy
  <2> SUFFICES ASSUME Inv, NEW c \in AllChunks, attempts[c] > 0 PROVE RequestsObeyPolicy
    BY DEF RequestsObeyPolicy
  <2>1. client = CreateClient(conf) /\ client # None /\ client.sends /\ conf \in ConfType
    BY DEF Inv, CallsInv, CallsTyped, ClientDecides
  <2>2. conf.policy # "strict" /\ ~Refused(conf)
    BY <2>1 DEF CreateClient, NetworkForbidden
  <2>3. /\ client.sends = Ready(conf)
        /\ client.host = (IF conf.provider \in Routed THEN Url(conf) ELSE "public")
    BY <2>1, <2>2 DEF CreateClient
  <2>4. conf.policy = "local" => client.host = "private"
    BY <2>2, <2>3 DEF Refused, LocalAllowed
  <2>5. Ready(conf) /\ client.host # None
    BY <2>1, <2>3, CallsAssumption DEF Ready, RoutedReady
  <2> QED
    BY <2>2, <2>4, <2>5 DEF RequestsObeyPolicy
<1> QED
  BY <1>1, StagesInvariant, PTL

(* No more requests are in flight than there are slots, nor admitted in a  *)
(* window than the limiter allows, and no slot is lost.                    *)
THEOREM LimitsHold == Spec => []CallsWithinLimits
<1>1. Inv => CallsWithinLimits
  <2> SUFFICES ASSUME Inv PROVE CallsWithinLimits
    OBVIOUS
  <2>1. Cardinality(InFlight) <= Slots /\ (stage = "running" => free + Cardinality(Holders) = Slots)
    BY DEF Inv, CallsInv, SlotsCounted
  <2>2. ASSUME Len(recent) = MaxRpm + 1
        PROVE  Head(recent) = Window
    <3>1. /\ recent \in Seq(Ages) /\ Len(timestamps) <= MaxRpm /\ MaxRpm \in Nat /\ Len(timestamps) \in Nat
          /\ \A i \in 1 .. Len(recent) - Len(timestamps) : recent[i] = Window
      BY CallsAssumption, LenProperties DEF Inv, CallsInv, WindowKept, Fits
    <3>2. 1 \in 1 .. Len(recent) - Len(timestamps)
      BY <2>2, <3>1
    <3> QED
      BY <2>2, <3>1, <3>2
  <2> QED
    BY <2>1, <2>2 DEF CallsWithinLimits
<1> QED
  BY <1>1, StagesInvariant, PTL

(* A stage that is done leaves no row without an answer or an error, and   *)
(* the usage is that of all responses.                                     *)
THEOREM EveryRowIsAccounted == Spec => []RowsAndUsageAccounted
<1>1. Inv => RowsAndUsageAccounted
  <2> SUFFICES ASSUME Inv, stage = "done" PROVE RowsAndUsageAccounted
    BY DEF RowsAndUsageAccounted
  <2>1. client # None /\ own \subseteq RowSet /\ \A c \in Chunks : pc[c] = "done"
    BY DEF Inv, CallsInv, CallsTyped, ChunksSettle, ClientDecides, Chunks
  <2>2. ASSUME kind # "augment", NEW r \in RowSet \ error
        PROVE  got[r] # "nothing"
    <3>1. CASE r \in own
      BY <2>1, <2>2, <3>1 DEF Inv, CallsInv, DoneChunksAccounted, Accounted
    <3>2. CASE r \notin own
      <4>1. r \in Remote
        BY <3>2 DEF Remote
      <4>2. ChunkOf(r) \in AllChunks
        BY <2>1, <4>1, ChunkExists
      <4>3. r \in RowsOf(ChunkOf(r)) /\ ChunkOf(r) \in Chunks
        BY <4>1, <4>2 DEF RowsOf, Chunks
      <4> QED
        BY <2>1, <2>2, <4>2, <4>3 DEF Inv, CallsInv, DoneChunksAccounted, Accounted
    <3> QED
      BY <3>1, <3>2
  <2>3. usage = responses
    <3>1. \A c \in AllChunks : pc[c] \notin {"recording", "writing"}
      BY <2>1 DEF Inv, CallsInv, ChunksSettle
    <3>2. Unrecorded = {} /\ usage \in Nat /\ responses \in Nat
      BY <3>1 DEF Unrecorded, Inv, CallsInv, CallsTyped
    <3> QED
      BY <3>2, FS_EmptySet DEF Inv, CallsInv, UsageCounted
  <2> QED
    BY <2>2, <2>3 DEF RowsAndUsageAccounted
<1> QED
  BY <1>1, StagesInvariant, PTL

(* Once a stage has failed no chunk sends another request.                 *)
THEOREM FailureStopsRequests == Spec => NothingSentAfterFailure
<1>1. Inv /\ [Next]_vars => [stage = "raised" => UNCHANGED attempts]_callVars
  <2> SUFFICES ASSUME Inv, Next, stage = "raised" PROVE UNCHANGED attempts
    BY DEF vars
  <2>1. ASSUME NEW c \in AllChunks, StageStep(c)
        PROVE  UNCHANGED attempts
    <3>1. ~Send(c)
      BY SendKeeps DEF Inv
    <3> QED
      BY <2>1, <3>1 DEF StageStep, ChunkStep, Enter, Pace, Wake, Fail, Respond, ReadUsage, WriteUsage, Return,
         ReturnError, Retry
  <2> QED
    BY <2>1 DEF Next, StartStage, Start, Tick, Finish, callVars
<1> QED
  BY <1>1, StagesInvariant, PTL DEF Spec, NothingSentAfterFailure
=============================================================================
