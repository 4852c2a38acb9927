---------------------------- MODULE PluginSandbox ----------------------------
(***************************************************************************)
(* Approved plugins in a process of their own (buffdata/security/          *)
(* sandbox.py and sandbox_worker.py, buffdata/plugins.py), as the first    *)
(* two stages of the pipeline use them: every row is validated, then, in   *)
(* the accepted rows, what the recognizers find is redacted (buffdata/     *)
(* optimizers/scrubber.py), by an anonymizer that may have a sandbox too.  *)
(*                                                                         *)
(* The caller is one thread.  The worker of a sandbox may answer, answer   *)
(* with an error, print over its answers, hang or exit at any time.        *)
(***************************************************************************)
EXTENDS Integers, Sequences

CONSTANTS
  Records,       \* the number of rows
  Validators,    \* entry points of the group buffdata.validators
  Recognizers,   \* entry points of the group buffdata.pii_recognizers
  Setups         \* the installations the run may find, see SetupType

Boxes == {"plugins", "anonymizer"}
Plugins == Validators \cup Recognizers
SetupType ==
  [approved : SUBSET Plugins,    \* approved_plugins() of the process
   installed : SUBSET Plugins,   \* entry_points()
   broken : SUBSET Plugins,      \* those that fail to load or initialize
   presidio : BOOLEAN,           \* presidio_analyzer can be imported
   anonymizer : {"local", "boxed", "absent"}]

ASSUME PluginAssumption ==
  /\ Records \in Nat \ {0}
  /\ Setups \subseteq SetupType
  /\ Validators \cap Recognizers = {}

NoCall == [box |-> "none", id |-> 0, kind |-> "none"]

VARIABLES
  setup,
  box,        \* PluginSandbox: process, poisoned, id (_next_id), out (its stdout)
  call,       \* the request being waited for: box, id and kind; NoCall if there is none
  phase,      \* the stage of the pipeline
  at,         \* the row it has reached
  verdict,    \* validate: what became of each row
  analyzer,   \* PIIScrubber.analyzer is not None
  text,       \* what has been done to the text of each row
  counted,    \* the rows with detections in metadata["pii"]["entity_counts"]
  failures,   \* auxiliary: the sandboxes a call of which has failed
  trusted     \* auxiliary: calls answered by a sandbox that had failed before

pluginVars == <<setup, box, call, phase, at, verdict, analyzer, text, counted, failures, trusted>>

RowIds == 1..Records
Group(kind) == IF kind = "validate" THEN Validators ELSE Recognizers

(* _group_needs_sandbox and _load_group.                                   *)
NeedsSandbox(kind) == setup.approved \cap Group(kind) # {}
ExtrasAllowed(G) == /\ G \cap setup.approved \subseteq setup.installed
                    /\ G \cap setup.broken \cap setup.installed = {}
Loads(G) == /\ G \cap setup.approved = G \cap setup.installed
            /\ G \cap setup.broken \cap setup.installed = {}

PluginsInit ==
  /\ setup \in Setups
  /\ box = [b \in Boxes |-> [process |-> "none", poisoned |-> FALSE, id |-> 0, out |-> <<>>]]
  /\ call = NoCall
  /\ phase = "validate"
  /\ at = 1
  /\ verdict = [r \in RowIds |-> "pending"]
  /\ analyzer = FALSE
  /\ text = [r \in RowIds |-> "raw"]
  /\ counted = {}
  /\ failures = {}
  /\ trusted = {}

-----------------------------------------------------------------------------
(* Where the caller goes on: the next row, or the next stage.              *)
Remaining == {r \in RowIds : r > at /\ (phase = "scrub" => verdict[r] = "valid")}
First(R) == CHOOSE r \in R : \A s \in R : r <= s
NextRow == IF Remaining = {} THEN at ELSE First(Remaining)
Leave(p) == IF Remaining # {} THEN phase ELSE p

(* validate_item of one row: its own checks and the validators' errors.    *)
Validated(v) ==
  /\ verdict' = [verdict EXCEPT ![at] = v]
  /\ phase' = Leave("construct")
  /\ at' = NextRow
  /\ UNCHANGED <<analyzer, text, counted>>

(* PIIScrubber.__init__: any exception leaves it without an analyzer, and  *)
(* so does the lack of an anonymizer.                                      *)
Constructed(ok) ==
  /\ phase = "construct"
  /\ analyzer' = (ok /\ setup.anonymizer # "absent")
  /\ phase' = IF \E r \in RowIds : verdict[r] = "valid" THEN "scrub" ELSE "over"
  /\ at' = IF phase' = "scrub" THEN First({r \in RowIds : verdict[r] = "valid"}) ELSE at
  /\ UNCHANGED <<verdict, text, counted>>

(* scrub_item: what the analyzer found is counted once it is redacted; the *)
(* fixed patterns follow in any case.                                      *)
CountsBeforeRedaction(ok) == text[at] = "detected"
Counts(ok) == ok /\ text[at] = "detected"
Scrubbed(ok) ==
  /\ text' = [text EXCEPT ![at] = IF ok THEN "redacted" ELSE "patterns"]
  /\ counted' = IF Counts(ok) THEN counted \cup {at} ELSE counted
  /\ phase' = Leave("over")
  /\ at' = NextRow
  /\ UNCHANGED <<verdict, analyzer>>

(* The anonymizer redacts what the recognizers detected.                   *)
Analyzed ==
  /\ text' = [text EXCEPT ![at] = "detected"]
  /\ UNCHANGED <<phase, at, verdict, analyzer, counted>>

Raise ==
  /\ phase' = "raised"
  /\ UNCHANGED <<at, verdict, analyzer, text, counted>>

(* A call raises: validation fails the run, the scrubber catches it.       *)
Failed(kind) ==
  CASE kind = "validate" -> Raise
    [] kind = "pii_construct" -> Constructed(FALSE)
    [] OTHER -> Scrubbed(FALSE)

Succeeded(kind) ==
  CASE kind = "validate" -> \E v \in {"valid", "rejected"} : Validated(v)
    [] kind = "pii_construct" -> Constructed(TRUE)
    [] kind = "pii_analyze" -> Analyzed
    [] kind = "anonymize" -> Scrubbed(TRUE)

(* What the pipeline needs next, and from whom.                            *)
Wanted ==
  CASE phase = "validate" -> "validate"
    [] phase = "construct" -> "pii_construct"
    [] phase = "scrub" -> IF text[at] = "raw" THEN "pii_analyze" ELSE "anonymize"
    [] OTHER -> "none"

BoxOf(kind) == IF kind = "anonymize" THEN "anonymizer" ELSE "plugins"
UsesBox(kind) ==
  CASE kind = "anonymize" -> setup.anonymizer = "boxed"
    [] kind = "validate" -> NeedsSandbox(kind)
    [] kind = "pii_construct" -> setup.presidio /\ NeedsSandbox(kind)
    [] OTHER -> analyzer /\ NeedsSandbox(kind)

(* Without a sandbox the work is done in process.                          *)
InProcess ==
  /\ call = NoCall
  /\ Wanted # "none"
  /\ ~UsesBox(Wanted)
  /\ CASE Wanted = "validate" ->
            IF Loads(Validators) THEN \E v \in {"valid", "rejected"} : Validated(v) ELSE Raise
       [] Wanted = "pii_construct" -> Constructed(setup.presidio /\ Loads(Recognizers))
       [] Wanted = "pii_analyze" -> IF analyzer THEN Analyzed ELSE Scrubbed(FALSE)
       [] OTHER -> Scrubbed(TRUE)
  /\ UNCHANGED <<setup, box, call, failures, trusted>>

-----------------------------------------------------------------------------
(* PluginSandbox.call.                                                     *)
PoisonWithoutFlag(x) == [x EXCEPT !.process = "none", !.out = <<>>]
Poison(x) == [x EXCEPT !.process = "none", !.poisoned = TRUE, !.out = <<>>]

Call ==
  /\ call = NoCall
  /\ Wanted # "none"
  /\ UsesBox(Wanted)
  /\ LET b == BoxOf(Wanted)
         down == box[b].poisoned \/ box[b].process = "exited"
     IN  IF down
         THEN /\ box' = [box EXCEPT ![b] = Poison(@)]
              /\ failures' = failures \cup {b}
              /\ Failed(Wanted)
              /\ UNCHANGED call
         ELSE /\ box' = [box EXCEPT ![b].process = "up", ![b].id = @ + 1]
              /\ call' = [box |-> b, id |-> box[b].id + 1, kind |-> Wanted]
              /\ UNCHANGED <<phase, at, verdict, analyzer, text, counted, failures>>
  /\ UNCHANGED <<setup, trusted>>

(* The worker's answer to the request it has read: a result, an error of   *)
(* the handler (what fails to load raises in it), or what a plugin prints. *)
Honest == [id |-> call.id,
           ok |-> call.kind \in {"validate", "pii_construct"} => Loads(Group(call.kind))]
Answers == {Honest, [Honest EXCEPT !.ok = FALSE], [Honest EXCEPT !.id = 0]}

Work ==
  /\ call # NoCall
  /\ box[call.box].process = "up"
  /\ box[call.box].out = <<>>
  /\ \E a \in Answers : box' = [box EXCEPT ![call.box].out = <<a>>]
  /\ UNCHANGED <<setup, call, phase, at, verdict, analyzer, text, counted, failures, trusted>>

Receive ==
  /\ call # NoCall
  /\ box[call.box].out # <<>>
  /\ LET b == call.box
         a == Head(box[b].out)
     IN  IF a.id # call.id
         THEN /\ box' = [box EXCEPT ![b] = Poison(@)]
              /\ failures' = failures \cup {b}
              /\ Failed(call.kind)
              /\ UNCHANGED trusted
         ELSE /\ box' = [box EXCEPT ![b].out = Tail(@)]
              /\ IF a.ok THEN Succeeded(call.kind) ELSE Failed(call.kind)
              /\ trusted' = IF b \in failures THEN trusted \cup {b} ELSE trusted
              /\ UNCHANGED failures
  /\ call' = NoCall
  /\ UNCHANGED setup

(* subprocess_seconds pass, or the stream ends: the worker is killed.      *)
GiveUp ==
  /\ call # NoCall
  /\ box' = [box EXCEPT ![call.box] = Poison(@)]
  /\ failures' = failures \cup {call.box}
  /\ Failed(call.kind)
  /\ call' = NoCall
  /\ UNCHANGED <<setup, trusted>>

(* A worker exits between two calls.                                       *)
Exit(b) ==
  /\ call = NoCall
  /\ box[b].process = "up"
  /\ phase \notin {"over", "raised"}
  /\ box' = [box EXCEPT ![b].process = "exited"]
  /\ UNCHANGED <<setup, call, phase, at, verdict, analyzer, text, counted, failures, trusted>>

-----------------------------------------------------------------------------
PluginsTypeOK ==
  /\ setup \in Setups
  /\ \A b \in Boxes :
        /\ box[b].process \in {"none", "up", "exited"}
        /\ box[b].poisoned \in BOOLEAN
        /\ box[b].id \in 0..(2 * Records + 1)
        /\ Len(box[b].out) <= 1
  /\ call # NoCall => /\ call.box \in Boxes
                    /\ call.id = box[call.box].id
                    /\ call.kind \in {"validate", "pii_construct", "pii_analyze", "anonymize"}
  /\ phase \in {"validate", "construct", "scrub", "over", "raised"}
  /\ at \in RowIds
  /\ verdict \in [RowIds -> {"pending", "valid", "rejected"}]
  /\ analyzer \in BOOLEAN
  /\ text \in [RowIds -> {"raw", "detected", "redacted", "patterns"}]
  /\ counted \subseteq RowIds
  /\ failures \subseteq Boxes /\ trusted \subseteq Boxes

(* A sandbox that failed once (timed out, exited, answered out of step)    *)
(* never has another answer accepted, whatever its process still writes:   *)
(* sandbox.py:5-7, "never auto-respawned after a failure".                 *)
NoAnswerAfterFailure == trusted = {}

(* scrubber.py:135-136: the counts of a row and its redacted text never    *)
(* disagree about what was removed, whichever of the two calls failed.     *)
CountsMatchText == counted = {r \in RowIds : text[r] = "redacted"}

(* docs/run-management.md:122-123: "Missing, broken, or raising approved   *)
(* plugins fail closed; they are never silently skipped."                  *)
RecognizersNeverSkipped ==
  phase = "over" /\ NeedsSandbox("pii_construct") =>
    \A r \in RowIds : verdict[r] = "valid" => text[r] = "redacted"
=============================================================================
