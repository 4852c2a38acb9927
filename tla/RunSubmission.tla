--------------------------- MODULE RunSubmission ---------------------------
(***************************************************************************)
(* What users do to a project besides executing its runs: the methods      *)
(* register, submit and resume of runs/service.py, RunService, and the     *)
(* dataset deletion handler of server/app.py.  Each of them is several     *)
(* store transactions and file operations long, and any number of clients  *)
(* (request threads, CLI processes) are in the middle of one at a time.    *)
(*                                                                         *)
(* The implementation identity of runtime_identity is a digest of the      *)
(* sources, the dependencies, the provider environment and the policy; the *)
(* policy stands for all of it, since each is read and changed alike.      *)
(***************************************************************************)
EXTENDS Integers

CONSTANTS
  Projects, Runs, Datasets, Leases, Keys, Specs, Policies, InitialPolicy,
  StaleAfter, MaxTime, None,
  Clients,    \* request threads and CLI processes
  Parents,    \* bound: the runs a submission may name as its parent
  Altering    \* bound: whether snapshots are altered on disk

ASSUME SubmissionAssumption == Parents \subseteq Runs /\ Altering \in BOOLEAN

(* What RunStore assumes of its parameters.                                *)
ASSUME SubmissionStoreAssumption ==
  /\ Specs \subseteq [project : Projects, dataset : Datasets,
                      validation : Datasets \cup {None}, options : Nat]
  /\ None \notin Specs
  /\ None \notin Projects \cup Runs \cup Datasets \cup Leases \cup Keys
  /\ None \notin Policies
  /\ None \notin Int \cup {"manifest"}
  /\ Keys \cap Runs = {}
  /\ None \notin Projects \X (Keys \cup Runs)
  /\ InitialPolicy \in Policies
  /\ StaleAfter \in Nat \ {0} /\ MaxTime \in Nat

VARIABLES
  policy, activeRun, dsProject, dsDeleted, status, spec, body, idem, created, lease,
  heartbeat, cancelRequested, manifest, events, issued, now,
  file,      \* each dataset's snapshot on disk
  op,        \* the operation each client is in the middle of
  answers,   \* <<spec, key, run>> for each submission answered with a run
  resumed    \* <<run, attempt>> for each resume answered with a new attempt

Contents == {"intact", "altered"}

Provenance ==
  [implementation : Policies,
   inputs : UNION {[D -> Contents] : D \in SUBSET Datasets},
   parent : Runs \cup {None}]

ASSUME ProvenanceAssumption == None \notin Provenance

Store == INSTANCE RunStore WITH Bodies <- Provenance, Manifests <- {"manifest"}

storeVars == <<policy, activeRun, dsProject, dsDeleted, status, spec, body, idem, created,
               lease, heartbeat, cancelRequested, manifest, events, issued, now>>
vars == <<storeVars, file, op, answers, resumed>>

(* What a client remembers between two of its steps; resume is the run it  *)
(* resumes, parent the one its submission names.                           *)
Idle == [at |-> "idle", project |-> None, dataset |-> None, resume |-> None, lease |-> None,
         spec |-> None, key |-> None, parent |-> None, implementation |-> None, inputs |-> None]

Init ==
  /\ Store!Init
  /\ file = [d \in Datasets |-> "absent"]
  /\ op = [c \in Clients |-> Idle]
  /\ answers = {}
  /\ resumed = {}

At(c, s) == op[c].at = s
Goto(c, s) == op' = [op EXCEPT ![c].at = s]
Leave(c) == op' = [op EXCEPT ![c] = Idle]     \* return, or raise

-----------------------------------------------------------------------------
(* register: copy_snapshot before add_dataset.  A content that is          *)
(* registered already is answered with its dataset and changes nothing.    *)
CopySnapshot(c, p, d) ==
  /\ At(c, "idle")
  /\ dsProject[d] = None /\ file[d] = "absent"
  /\ file' = [file EXCEPT ![d] = "intact"]
  /\ op' = [op EXCEPT ![c] = [Idle EXCEPT !.at = "add", !.project = p, !.dataset = d]]
  /\ UNCHANGED <<storeVars, answers, resumed>>

AddDataset(c) ==
  /\ At(c, "add")
  /\ Store!AddDataset(op[c].project, op[c].dataset)
  /\ Leave(c)
  /\ UNCHANGED <<file, answers, resumed>>

(* dataset_path raises unless the row is live and the file hashes to it.   *)
DatasetPath(p, d) == Store!Live(p, d) /\ file[d] = "intact"

-----------------------------------------------------------------------------
(* DELETE /api/v1/datasets/{id}: look, commit, unlink.                     *)
BeginDelete(c, p, d) ==
  /\ At(c, "idle")
  /\ Store!DeletionAllowed(p, d)
  /\ DatasetPath(p, d)
  /\ op' = [op EXCEPT ![c] = [Idle EXCEPT !.at = "delete", !.project = p, !.dataset = d]]
  /\ UNCHANGED <<storeVars, file, answers, resumed>>

DeleteDatasetUnlinkAnyway(c) ==
  /\ At(c, "delete")
  /\ Goto(c, "unlink")
  /\ \/ Store!DeleteDataset(op[c].project, op[c].dataset)
     \/ ~ Store!DeletionAllowed(op[c].project, op[c].dataset) /\ UNCHANGED storeVars
  /\ UNCHANGED <<file, answers, resumed>>

DeleteDataset(c) ==
  /\ At(c, "delete")
  /\ \/ Store!DeleteDataset(op[c].project, op[c].dataset) /\ Goto(c, "unlink")
     \/ /\ ~ Store!DeletionAllowed(op[c].project, op[c].dataset)
        /\ Leave(c)
        /\ UNCHANGED storeVars
  /\ UNCHANGED <<file, answers, resumed>>

(* Of two deletions that both committed, the second finds no file.         *)
Unlink(c) ==
  /\ At(c, "unlink")
  /\ file' = [file EXCEPT ![op[c].dataset] = "absent"]
  /\ Leave(c)
  /\ UNCHANGED <<storeVars, answers, resumed>>

-----------------------------------------------------------------------------
(* submit: the policy and its identity are read first.                     *)
ReadPolicy(c, s, k, parent) ==
  /\ op' = [op EXCEPT ![c] = [Idle EXCEPT !.at = "check", !.project = s.project, !.spec = s,
                                 !.key = k, !.parent = parent, !.resume = op[c].resume,
                                 !.implementation = policy[s.project]]]
  /\ UNCHANGED <<storeVars, file, answers, resumed>>

(* parent_run_id, if given, must name a run of the project.                *)
BeginSubmit(c, s, k, parent) ==
  /\ At(c, "idle")
  /\ parent # None => Store!Exists(parent) /\ Store!ProjectOf(parent) = s.project
  /\ ReadPolicy(c, s, k, parent)

(* Each dataset passes dataset_path ...                                    *)
CheckInputs(c) ==
  /\ At(c, "check")
  /\ IF \A d \in Store!DatasetsOf(op[c].spec) : DatasetPath(op[c].project, d)
       THEN Goto(c, "hash")
       ELSE Leave(c)
  /\ UNCHANGED <<storeVars, file, answers, resumed>>

(* ... and is then hashed once more, into the run's inputs.                *)
HashInputs(c) ==
  /\ At(c, "hash")
  /\ LET D == Store!DatasetsOf(op[c].spec)
     IN  IF \E d \in D : file[d] = "absent"
           THEN Leave(c)
           ELSE op' = [op EXCEPT ![c].at = "insert", ![c].inputs = [d \in D |-> file[d]]]
  /\ UNCHANGED <<storeVars, file, answers, resumed>>

(* submit answers with run r; resume goes on to compare its inputs.        *)
Answer(c, r) ==
  IF op[c].resume = None
    THEN /\ answers' = answers \cup {[spec |-> op[c].spec, key |-> op[c].key, run |-> r]}
         /\ Leave(c)
    ELSE /\ op' = [op EXCEPT ![c].at = "compare", ![c].parent = r]
         /\ UNCHANGED answers

Insert(c) ==
  /\ At(c, "insert")
  /\ \E r \in Runs :
       /\ Store!Submit(op[c].spec, op[c].key, r,
            [implementation |-> op[c].implementation, inputs |-> op[c].inputs,
             parent |-> op[c].parent])
       /\ Answer(c, r)
  /\ UNCHANGED <<file, resumed>>

(* The key names run q already: q is the answer if it is the same request. *)
HoldsKey(c, q) ==
  /\ Store!Exists(q)
  /\ op[c].key # None
  /\ idem[q] = Store!IdemKey(op[c].spec, op[c].key, q)

SameRequestUnchecked(c, q) == TRUE
SameRequest(c, q) == spec[q] = op[c].spec

InsertRepeated(c) ==
  /\ At(c, "insert")
  /\ \E q \in Runs :
       /\ HoldsKey(c, q)
       /\ IF SameRequest(c, q) THEN Answer(c, q) ELSE Leave(c) /\ UNCHANGED answers
  /\ UNCHANGED <<storeVars, file, resumed>>

InsertRefused(c) ==
  /\ At(c, "insert")
  /\ \A q \in Runs : ~ HoldsKey(c, q)
  /\ ~ Store!DatasetsLive(op[c].spec)
  /\ Leave(c)
  /\ UNCHANGED <<storeVars, file, answers, resumed>>

-----------------------------------------------------------------------------
(* resume: a running run is first interrupted, if it is stale.             *)
Resumable == {"failed", "cancelled", "interrupted"}

BeginResume(c, r) ==
  /\ At(c, "idle")
  /\ status[r] \in Resumable \cup {"running"}
  /\ op' = [op EXCEPT ![c] = [Idle EXCEPT !.at = IF status[r] = "running" THEN "look" ELSE "match",
                                 !.project = Store!ProjectOf(r), !.resume = r]]
  /\ UNCHANGED <<storeVars, file, answers, resumed>>

LookForStale(c) ==
  /\ At(c, "look")
  /\ IF Store!LooksStale(op[c].resume)
       THEN op' = [op EXCEPT ![c].at = "fence", ![c].lease = lease[op[c].resume]]
       ELSE Leave(c)
  /\ UNCHANGED <<storeVars, file, answers, resumed>>

InterruptStale(c) ==
  /\ At(c, "fence")
  /\ Store!Interrupt(op[c].project, op[c].resume, op[c].lease, now - StaleAfter)
  /\ Goto(c, "match")
  /\ UNCHANGED <<file, answers, resumed>>

InterruptRefused(c) ==
  /\ At(c, "fence")
  /\ ~ (/\ Store!LeaseValid(op[c].project, op[c].resume, op[c].lease)
        /\ Store!NotRenewed(op[c].resume, now - StaleAfter))
  /\ Leave(c)
  /\ UNCHANGED <<storeVars, file, answers, resumed>>

(* The identity of today's policy must be the one of the resumed run ...   *)
MatchIdentity(c) ==
  /\ At(c, "match")
  /\ IF policy[op[c].project] = body[op[c].resume].implementation
       THEN Goto(c, "resubmit")
       ELSE Leave(c)
  /\ UNCHANGED <<storeVars, file, answers, resumed>>

(* ... but submit reads the policy again, for the attempt's identity.      *)
Resubmit(c) ==
  /\ At(c, "resubmit")
  /\ ReadPolicy(c, spec[op[c].resume], None, op[c].resume)

(* An attempt whose inputs differ from the resumed run's is cancelled.     *)
CompareInputsUnchecked(c) ==
  /\ At(c, "compare")
  /\ resumed' = resumed \cup {<<op[c].resume, op[c].parent>>}
  /\ UNCHANGED <<storeVars, file, answers>>
  /\ Leave(c)

CompareInputs(c) ==
  /\ At(c, "compare")
  /\ IF op[c].inputs = body[op[c].resume].inputs
       THEN /\ resumed' = resumed \cup {<<op[c].resume, op[c].parent>>}
            /\ UNCHANGED storeVars
       ELSE /\ \/ Store!Cancel(op[c].project, op[c].parent)
               \/ status[op[c].parent] \in Store!Terminal /\ UNCHANGED storeVars
            /\ UNCHANGED resumed
  /\ Leave(c)
  /\ UNCHANGED <<file, answers>>

-----------------------------------------------------------------------------
(* A client process dies, whatever it was doing.                           *)
Crash(c) ==
  /\ ~ At(c, "idle")
  /\ Leave(c)
  /\ UNCHANGED <<storeVars, file, answers, resumed>>

(* Policy updates, cancellations, and the workers: RunWorkers has them in  *)
(* detail.                                                                 *)
UpdatePolicy ==
  /\ \E p \in Projects, b \in Policies : b # policy[p] /\ Store!UpdateProject(p, b)
  /\ UNCHANGED <<file, op, answers, resumed>>

CancelRun ==
  /\ \E p \in Projects, r \in Runs : r \notin cancelRequested /\ Store!Cancel(p, r)
  /\ UNCHANGED <<file, op, answers, resumed>>

Work ==
  /\ \E p \in Projects, r \in Runs, l \in Leases :
       \/ Store!Claim(p, r, l)
       \/ Store!Heartbeat(p, r, l)
       \/ Store!Finish(p, r, l, "succeeded", "manifest", None)
       \/ Store!Finish(p, r, l, "failed", None, None)
  /\ UNCHANGED <<file, op, answers, resumed>>

(* A snapshot is altered on disk.                                          *)
Alter(d) ==
  /\ Altering
  /\ file[d] = "intact" /\ dsProject[d] # None
  /\ file' = [file EXCEPT ![d] = "altered"]
  /\ UNCHANGED <<storeVars, op, answers, resumed>>

Tick ==
  /\ Store!Tick
  /\ UNCHANGED <<file, op, answers, resumed>>

Next ==
  \/ \E c \in Clients :
       \/ \E p \in Projects, d \in Datasets : CopySnapshot(c, p, d) \/ BeginDelete(c, p, d)
       \/ AddDataset(c) \/ DeleteDataset(c) \/ Unlink(c)
       \/ \E s \in Specs, k \in Keys \cup {None}, parent \in Parents \cup {None} :
            BeginSubmit(c, s, k, parent)
       \/ CheckInputs(c) \/ HashInputs(c)
       \/ Insert(c) \/ InsertRepeated(c) \/ InsertRefused(c)
       \/ \E r \in Runs : BeginResume(c, r)
       \/ LookForStale(c) \/ InterruptStale(c) \/ InterruptRefused(c)
       \/ MatchIdentity(c) \/ Resubmit(c) \/ CompareInputs(c)
       \/ Crash(c)
  \/ UpdatePolicy \/ CancelRun \/ Work
  \/ \E d \in Datasets : Alter(d)
  \/ Tick

Spec == Init /\ [][Next]_vars

-----------------------------------------------------------------------------
Steps == {"idle", "add", "delete", "unlink", "check", "hash", "insert", "look", "fence",
          "match", "resubmit", "compare"}

Hashes == UNION {[D -> Contents] : D \in SUBSET Datasets}

TypeOK ==
  /\ Store!TypeOK
  /\ file \in [Datasets -> Contents \cup {"absent"}]
  /\ \A c \in Clients :
       /\ op[c].at \in Steps
       /\ op[c].spec \in Specs \cup {None}
       /\ op[c].resume \in Runs \cup {None}
       /\ op[c].inputs = None \/ op[c].inputs \in Hashes
  /\ answers \subseteq [spec : Specs, key : Keys \cup {None}, run : Runs]
  /\ resumed \subseteq Runs \X Runs

(* A dataset that is registered and not deleted, and therefore every       *)
(* dataset a run references, has its snapshot on disk: a file comes before *)
(* its row and goes after it, also when a client dies in between or two    *)
(* clients delete while a third submits.                                   *)
SnapshotsPresent ==
  /\ \A p \in Projects, d \in Datasets : Store!Live(p, d) => file[d] # "absent"
  /\ \A r \in Runs, d \in Datasets : Store!References(r, d) => file[d] # "absent"

(* Two submissions that carry one key are never answered with different    *)
(* runs, and no submission with a run of another specification.            *)
AnswersMatchRequests ==
  /\ \A a \in answers : spec[a.run] = a.spec
  /\ \A a, b \in answers :
       a.key = b.key /\ a.key # None /\ a.spec.project = b.spec.project => a.run = b.run

(* A resume answers with an attempt that has the resumed run's             *)
(* specification and inputs, and only when that run ended without success: *)
(* nothing that happens meanwhile lets the original publish as well.       *)
ResumedRunsStayEnded ==
  \A r, attempt \in Runs : <<r, attempt>> \in resumed =>
     /\ status[r] \in Store!Terminal \ {"succeeded"}
     /\ spec[attempt] = spec[r] /\ body[attempt].inputs = body[r].inputs
     /\ body[attempt].parent = r

=============================================================================
