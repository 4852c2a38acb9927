------------------------------ MODULE RunStore ------------------------------
(***************************************************************************)
(* The metadata store of managed runs (buffdata/runs/store.py, RunStore):  *)
(* projects, datasets, runs and run events.  Every public method is one    *)
(* database transaction that locks the project row (or, for heartbeat, the *)
(* run row), so a method is one atomic action.  A method that raises rolls *)
(* back: it changes nothing and is no action here.                         *)
(*                                                                         *)
(* A definition named like another with a suffix (SlotIgnored beside       *)
(* SlotFree) is a mutated form of it, a bug this code could have; no       *)
(* specification uses it, it shows that the properties would notice.       *)
(*                                                                         *)
(* There is one variable per column; a row of managed_runs exists when its *)
(* status is not "absent".  The specification lets any client call any     *)
(* method with any argument it can know, at any time: the modules that     *)
(* model the clients (workers, runners, operators) constrain the calls.    *)
(***************************************************************************)
EXTENDS Integers

CONSTANTS
  Projects,       \* project identifiers
  Runs,           \* run identifiers (fresh uuids)
  Datasets,       \* dataset identifiers (fresh uuids)
  Leases,         \* lease tokens, secrets.token_hex(32)
  Keys,           \* idempotency keys, each with the actor that sends it
  Specs,          \* run specifications a client may submit
  Bodies,         \* what else a run row's body holds (provenance)
  Policies,       \* project bodies: the policy and the membership
  Manifests,      \* run manifests
  InitialPolicy,  \* the body every project is created with
  StaleAfter,     \* the 120 seconds of interrupt_stale
  MaxTime,        \* bound: the clock stops there
  None            \* SQL NULL

ASSUME SpecsAssumption ==
  /\ Specs \subseteq [project : Projects, dataset : Datasets,
                      validation : Datasets \cup {None}, options : Nat]
  /\ None \notin Specs

ASSUME NamesAssumption ==
  /\ None \notin Projects \cup Runs \cup Datasets \cup Leases
  /\ None \notin Bodies \cup Manifests
  /\ None \notin Int
  /\ Keys \cap Runs = {}
  /\ None \notin Projects \X (Keys \cup Runs)
  /\ InitialPolicy \in Policies

ASSUME TimeAssumption == StaleAfter \in Nat \ {0} /\ MaxTime \in Nat

VARIABLES
  policy,           \* managed_projects.body
  activeRun,        \* managed_projects.active_run
  dsProject,        \* managed_datasets.project, None before registration
  dsDeleted,        \* the datasets with managed_datasets.deleted set
  status,           \* managed_runs.status
  spec,             \* the spec in managed_runs.body (and request_hash, its digest)
  body,             \* the provenance in managed_runs.body
  idem,             \* managed_runs.idempotency
  created,          \* managed_runs.created
  lease,            \* managed_runs.lease
  heartbeat,        \* managed_runs.heartbeat (NULL reads as 0)
  cancelRequested,  \* the runs with managed_runs.cancel_requested set
  manifest,         \* the manifest in managed_runs.body
  events,           \* managed_events: the kinds recorded for each run
  issued,           \* lease tokens drawn so far
  now               \* time.time()

projectVars == <<policy, activeRun>>
datasetVars == <<dsProject, dsDeleted>>
submittedVars == <<spec, body, idem, created>>
vars == <<policy, activeRun, dsProject, dsDeleted, status, spec, body, idem,
          created, lease, heartbeat, cancelRequested, manifest, events,
          issued, now>>

Terminal == {"succeeded", "failed", "cancelled", "interrupted"}
Status == {"absent", "queued", "running"} \cup Terminal
(* Event kinds without their "run." prefix; finish records its status.     *)
EventKinds == {"queued", "started", "cancel_requested"} \cup Terminal

Exists(r) == status[r] # "absent"
ProjectOf(r) == spec[r].project
DatasetsOf(s) == {s.dataset, s.validation} \ {None}
References(r, d) == Exists(r) /\ d \in DatasetsOf(spec[r])
Live(p, d) == dsProject[d] = p /\ d \notin dsDeleted

(* idempotency = digest([project, actor, key]); the digest is taken to be  *)
(* injective.  A submission without a key draws a fresh uuid, for which    *)
(* the run's own fresh identifier stands.                                  *)
IdemKeyWithoutFresh(s, k, r) == <<s.project, k>>
IdemKey(s, k, r) == <<s.project, IF k = None THEN r ELSE k>>

Init ==
  /\ policy = [p \in Projects |-> InitialPolicy]
  /\ activeRun = [p \in Projects |-> None]
  /\ dsProject = [d \in Datasets |-> None]
  /\ dsDeleted = {}
  /\ status = [r \in Runs |-> "absent"]
  /\ spec = [r \in Runs |-> None]
  /\ body = [r \in Runs |-> None]
  /\ idem = [r \in Runs |-> None]
  /\ created = [r \in Runs |-> 0]
  /\ lease = [r \in Runs |-> None]
  /\ heartbeat = [r \in Runs |-> 0]
  /\ cancelRequested = {}
  /\ manifest = [r \in Runs |-> None]
  /\ events = [r \in Runs |-> {}]
  /\ issued = {}
  /\ now = 0

-----------------------------------------------------------------------------
(* update_project writes the whole body the caller assembled.              *)
UpdateProject(p, b) ==
  /\ policy' = [policy EXCEPT ![p] = b]
  /\ UNCHANGED <<activeRun, datasetVars, status, submittedVars, lease,
                 heartbeat, cancelRequested, manifest, events, issued, now>>

(* add_dataset: the identifier is a fresh uuid.                            *)
AddDataset(p, d) ==
  /\ dsProject[d] = None
  /\ dsProject' = [dsProject EXCEPT ![d] = p]
  /\ UNCHANGED <<projectVars, dsDeleted, status, submittedVars, lease,
                 heartbeat, cancelRequested, manifest, events, issued, now>>

(* delete_dataset refuses while any run of the project, whatever its       *)
(* status, references the dataset.                                         *)
DeletionAllowedWhenEnded(p, d) ==
  ~ \E r \in Runs : /\ status[r] \in {"queued", "running"}
                   /\ References(r, d) /\ ProjectOf(r) = p

DeletionAllowed(p, d) ==
  ~ \E r \in Runs : References(r, d) /\ ProjectOf(r) = p

DeleteDataset(p, d) ==
  /\ dsProject[d] = p
  /\ DeletionAllowed(p, d)
  /\ dsDeleted' = dsDeleted \cup {d}
  /\ UNCHANGED <<projectVars, dsProject, status, submittedVars, lease,
                 heartbeat, cancelRequested, manifest, events, issued, now>>

(* The row an idempotency key already names, if any: submit returns that   *)
(* run, or raises when its request_hash differs, and inserts nothing.      *)
KeyUsedWhileActive(s, k, r) ==
  \E q \in Runs : status[q] \in {"queued", "running"} /\ idem[q] = IdemKey(s, k, r)
KeyUsed(s, k, r) == \E q \in Runs : Exists(q) /\ idem[q] = IdemKey(s, k, r)

DatasetsLive(s) == \A d \in DatasetsOf(s) : Live(s.project, d)

Submit(s, k, r, b) ==
  /\ ~ Exists(r)
  /\ ~ KeyUsed(s, k, r)
  /\ DatasetsLive(s)
  /\ status' = [status EXCEPT ![r] = "queued"]
  /\ spec' = [spec EXCEPT ![r] = s]
  /\ body' = [body EXCEPT ![r] = b]
  /\ idem' = [idem EXCEPT ![r] = IdemKey(s, k, r)]
  /\ created' = [created EXCEPT ![r] = now]
  /\ events' = [events EXCEPT ![r] = @ \cup {"queued"}]
  /\ UNCHANGED <<projectVars, datasetVars, lease, heartbeat, cancelRequested,
                 manifest, issued, now>>

(* claim: the oldest queued run of an idle project, or the one asked for.  *)
(* Runs created at the same instant come in either order.                  *)
Queued(p) == {r \in Runs : status[r] = "queued" /\ ProjectOf(r) = p}
SlotIgnored(p) == TRUE
SlotFree(p) == activeRun[p] = None
Oldest(R) == {r \in R : \A q \in R : created[r] <= created[q]}
Claimable(p) == Oldest(Queued(p))

StartRun(p, r, l) ==
  /\ SlotFree(p)
  /\ l \notin issued
  /\ issued' = issued \cup {l}
  /\ status' = [status EXCEPT ![r] = "running"]
  /\ lease' = [lease EXCEPT ![r] = l]
  /\ heartbeat' = [heartbeat EXCEPT ![r] = now]
  /\ activeRun' = [activeRun EXCEPT ![p] = r]
  /\ events' = [events EXCEPT ![r] = @ \cup {"started"}]
  /\ UNCHANGED <<policy, datasetVars, submittedVars, cancelRequested,
                 manifest, now>>

Claim(p, r, l) == r \in Claimable(p) /\ StartRun(p, r, l)
ClaimRun(p, r, l) == r \in Queued(p) /\ StartRun(p, r, l)

(* The WHERE clause of heartbeat and finish.                               *)
LeaseValidAnyStatus(p, r, l) == Exists(r) /\ ProjectOf(r) = p /\ lease[r] = l
LeaseValid(p, r, l) ==
  /\ status[r] = "running"
  /\ ProjectOf(r) = p
  /\ lease[r] = l

Heartbeat(p, r, l) ==
  /\ LeaseValid(p, r, l)
  /\ heartbeat' = [heartbeat EXCEPT ![r] = now]
  /\ UNCHANGED <<projectVars, datasetVars, status, submittedVars, lease,
                 cancelRequested, manifest, events, issued, now>>

(* finish: a pending cancellation overrides the reported status.           *)
FinalStatusAsReported(r, st) == st
FinalStatus(r, st) == IF r \in cancelRequested THEN "cancelled" ELSE st

NotRenewedUnchecked(r, staleBefore) == TRUE
NotRenewed(r, staleBefore) == staleBefore # None => heartbeat[r] < staleBefore

(* The manifest is stored with a success only, and the event names the     *)
(* status that was stored.                                                 *)
Published(final, m) == IF final = "succeeded" THEN m ELSE None
EndEventAsReported(r, st) == st
EndEvent(r, st) == FinalStatus(r, st)

Finish(p, r, l, st, m, staleBefore) ==
  /\ LeaseValid(p, r, l)
  /\ NotRenewed(r, staleBefore)
  /\ status' = [status EXCEPT ![r] = FinalStatus(r, st)]
  /\ manifest' = [manifest EXCEPT ![r] = Published(FinalStatus(r, st), m)]
  /\ events' = [events EXCEPT ![r] = @ \cup {EndEvent(r, st)}]
  /\ lease' = [lease EXCEPT ![r] = None]
  /\ activeRun' = [activeRun EXCEPT ![p] = None]
  /\ UNCHANGED <<policy, datasetVars, submittedVars, heartbeat,
                 cancelRequested, issued, now>>

(* cancel: a queued run ends at once, a running one is only flagged.       *)
CancelledStatusAlways(r) == "cancelled"
CancelledStatus(r) == IF status[r] = "queued" THEN "cancelled" ELSE "running"

Cancel(p, r) ==
  /\ status[r] \in {"queued", "running"}
  /\ ProjectOf(r) = p
  /\ cancelRequested' = cancelRequested \cup {r}
  /\ status' = [status EXCEPT ![r] = CancelledStatus(r)]
  /\ events' = [events EXCEPT ![r] = @ \cup {"cancel_requested"}]
  /\ UNCHANGED <<projectVars, datasetVars, submittedVars, lease, heartbeat,
                 manifest, issued, now>>

(* interrupt_stale reads the row outside any transaction ...               *)
LooksStale(r) == status[r] = "running" /\ now - heartbeat[r] >= StaleAfter

(* ... and then calls finish with the lease it read and the instant        *)
(* staleBefore it computed in between.                                     *)
Interrupt(p, r, l, staleBefore) ==
  Finish(p, r, l, "interrupted", None, staleBefore)

Tick ==
  /\ now < MaxTime
  /\ now' = now + 1
  /\ UNCHANGED <<projectVars, datasetVars, status, submittedVars, lease,
                 heartbeat, cancelRequested, manifest, events, issued>>

-----------------------------------------------------------------------------
(* A client that holds, or once held, a lease reports how its run ended.   *)
Reported == {"succeeded", "failed", "cancelled"}
Known == issued \cup {None}

Admin ==
  \/ \E p \in Projects, b \in Policies : UpdateProject(p, b)
  \/ \E p \in Projects, d \in Datasets : AddDataset(p, d)
  \/ \E p \in Projects, d \in Datasets : DeleteDataset(p, d)

Submission ==
  \E s \in Specs, k \in Keys \cup {None}, r \in Runs, b \in Bodies : Submit(s, k, r, b)

Claiming ==
  \E p \in Projects, r \in Runs, l \in Leases : Claim(p, r, l) \/ ClaimRun(p, r, l)

Beating ==
  \E p \in Projects, r \in Runs, l \in Known : Heartbeat(p, r, l)

(* A report of success comes with a manifest, any other report without.    *)
Reporting ==
  \E p \in Projects, r \in Runs, l \in Known, st \in Reported,
     m \in Manifests \cup {None} :
        /\ (st = "succeeded") <=> (m # None)
        /\ Finish(p, r, l, st, m, None)

(* The recovery's staleBefore may lag behind the clock, never run ahead.   *)
Recovering ==
  \E p \in Projects, r \in Runs, l \in Known, t \in 0 .. now :
     Interrupt(p, r, l, t - StaleAfter)

Cancelling == \E p \in Projects, r \in Runs : Cancel(p, r)

Next ==
  \/ Admin
  \/ Submission
  \/ Claiming
  \/ Beating
  \/ Reporting
  \/ Recovering
  \/ Cancelling
  \/ Tick

Spec == Init /\ [][Next]_vars

-----------------------------------------------------------------------------
TypeOK ==
  /\ policy \in [Projects -> Policies]
  /\ activeRun \in [Projects -> Runs \cup {None}]
  /\ dsProject \in [Datasets -> Projects \cup {None}]
  /\ dsDeleted \subseteq Datasets
  /\ status \in [Runs -> Status]
  /\ spec \in [Runs -> Specs \cup {None}]
  /\ body \in [Runs -> Bodies \cup {None}]
  /\ idem \in [Runs -> (Projects \X (Keys \cup Runs)) \cup {None}]
  /\ created \in [Runs -> Nat]
  /\ lease \in [Runs -> Leases \cup {None}]
  /\ heartbeat \in [Runs -> Nat]
  /\ cancelRequested \subseteq Runs
  /\ manifest \in [Runs -> Manifests \cup {None}]
  /\ events \in [Runs -> SUBSET EventKinds]
  /\ issued \subseteq Leases
  /\ now \in Nat
  /\ \A r \in Runs : Exists(r) => spec[r] \in Specs

(* active_run, the column claim tests, names exactly the running run of    *)
(* its project: claims, finishes, cancels and recoveries in any order      *)
(* leave neither two running runs in a project nor a slot taken for ever.  *)
SlotMatchesRun ==
  /\ \A p \in Projects : activeRun[p] # None =>
        status[activeRun[p]] = "running" /\ ProjectOf(activeRun[p]) = p
  /\ \A r \in Runs : status[r] = "running" => activeRun[ProjectOf(r)] = r

(* Only a running run holds a lease, it always holds one, and no two runs  *)
(* hold the same: the lease test of heartbeat and finish shuts out every   *)
(* former holder, and a NULL lease never passes it.                        *)
LeaseFencing ==
  /\ \A r \in Runs : lease[r] # None <=> status[r] = "running"
  /\ \A r \in Runs : lease[r] # None => lease[r] \in issued
  /\ \A q, r \in Runs : lease[q] = lease[r] /\ lease[q] # None => q = r

(* "Cancellation wins over a racing completion": once cancel has been      *)
(* accepted the run can only end cancelled, without a manifest, whichever  *)
(* of success, failure and stale recovery reaches finish.                  *)
CancellationWins ==
  \A r \in cancelRequested :
     status[r] \in {"running", "cancelled"} /\ manifest[r] = None

(* A manifest is published exactly by success.                             *)
PublishedBySuccess ==
  \A r \in Runs : manifest[r] # None <=> status[r] = "succeeded"

(* The project, actor and key of a submission name at most one run,        *)
(* however submissions race and repeat.                                    *)
OneRunPerKey ==
  \A q, r \in Runs : Exists(q) /\ Exists(r) /\ idem[q] = idem[r] => q = r

(* A dataset that a run references, whatever the run's status, stays       *)
(* registered in the run's project and undeleted: submit and               *)
(* delete_dataset cannot both succeed on it.                               *)
DatasetsRetained ==
  \A r \in Runs, d \in Datasets : References(r, d) => Live(ProjectOf(r), d)

(* Recovery never interrupts a worker that beat within the stale window,   *)
(* even when it renewed its heartbeat after the recovery looked.           *)
InterruptedWasStale ==
  \A r \in Runs : status[r] = "interrupted" => now - heartbeat[r] > StaleAfter

(* The append-only events tell how a run came to its status: one terminal  *)
(* event at most, of that status, after a start; only a run cancelled      *)
(* while queued ends without one.                                          *)
EventsExplainStatus ==
  \A r \in Runs :
     /\ events[r] \cap Terminal \subseteq {status[r]}
     /\ "started" \in events[r] <=>
           status[r] = "running" \/ events[r] \cap Terminal # {}
     /\ status[r] \in Terminal /\ "started" \notin events[r] =>
           status[r] = "cancelled" /\ "cancel_requested" \in events[r]

(* A run that has ended is history: no later call, not even one with its   *)
(* old lease, changes its row, and no run returns to an earlier status.    *)
EndedStays(r) ==
  /\ status[r] \in Terminal =>
       /\ UNCHANGED <<status[r], manifest[r], heartbeat[r], lease[r]>>
       /\ UNCHANGED <<events[r], spec[r], body[r]>>
  /\ status[r] = "running" => status'[r] \in {"running"} \cup Terminal
  /\ status[r] = "queued" => status'[r] \in {"queued", "running", "cancelled"}

HistoryIsFinal == [][\A r \in Runs : EndedStays(r)]_vars

-----------------------------------------------------------------------------
(* The promise of RunLifecycle, with the rows of managed_runs for the runs *)
(* and their phases.  Leases, slots, heartbeats and events are hidden.     *)
Lifecycle == INSTANCE RunLifecycle WITH
  phase <- status,
  home <- [r \in Runs |-> IF Exists(r) THEN ProjectOf(r) ELSE None],
  cancelling <- cancelRequested

(* Every transaction of the store is a step of the promised life of one    *)
(* run, or leaves all of them where they are.                              *)
ImplementsLifecycle == Lifecycle!Spec

=============================================================================
