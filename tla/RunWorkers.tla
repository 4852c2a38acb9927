----------------------------- MODULE RunWorkers -----------------------------
(***************************************************************************)
(* Executing managed runs: HTTP workers (server/worker.py and the claim,   *)
(* heartbeat and finish handlers of server/app.py), local runners          *)
(* (runs/runner.py run_local), the supervised executor process, stale      *)
(* recovery by an operator, and the webhooks that announce how a run       *)
(* ended.  All of them act on the RunStore through its transactions.       *)
(*                                                                         *)
(* A worker waits while a handler of the server works for it, so pc[w]     *)
(* also tells where that handler is.  Between any two of its steps another *)
(* worker, an operator, the clock or a fault may come in.                  *)
(***************************************************************************)
EXTENDS Integers

CONSTANTS
  Projects, Runs, Datasets, Leases, Specs, Policies, InitialPolicy,
  StaleAfter, MaxTime, None,
  HttpWorkers,    \* worker processes that claim over HTTP
  LocalRunners,   \* processes that run_local
  Outcomes,       \* how an executor may exit: subset of Exits
  MaxFaults,      \* bound: crashes, lost messages and failing file writes
  Recoveries,     \* whether operators recover stale runs
  Misconfigured   \* projects whose entry of the workers' secret file is invalid

Exits == {"good", "bad", "failed"}

ASSUME WorkersAssumption ==
  /\ HttpWorkers \cap LocalRunners = {}
  /\ None \notin HttpWorkers \cup LocalRunners
  /\ Outcomes \subseteq Exits
  /\ MaxFaults \in Nat
  /\ Recoveries \in BOOLEAN
  /\ Misconfigured \subseteq Projects

(* What RunStore assumes of its parameters.                                *)
ASSUME WorkersStoreAssumption ==
  /\ Specs \subseteq [project : Projects, dataset : Datasets,
                      validation : Datasets \cup {None}, options : Nat]
  /\ None \notin Specs
  /\ None \notin Projects \cup Runs \cup Datasets \cup Leases
  /\ None \notin Policies
  /\ None \notin Int \cup {"manifest"}
  /\ None \notin Projects \X Runs
  /\ InitialPolicy \in Policies
  /\ StaleAfter \in Nat \ {0} /\ MaxTime \in Nat

VARIABLES
  policy, activeRun, dsProject, status, spec, body, idem, created, lease, heartbeat,
  cancelRequested, manifest, events, issued, now,
  pc,          \* where each worker, or the handler serving it, is
  job,         \* the run it claimed
  token,       \* the lease it was given
  report,      \* the status supervise returned
  executor,    \* each run's executor process: not started, running, or its exit
  background,  \* announcements queued as background tasks of the server
  announced,   \* <<run, status>> pairs handed to the webhooks
  recovery,    \* what a recovery read before its transaction
  faults       \* faults so far

(* No dataset is deleted here: those races are between submission and      *)
(* deletion.                                                               *)
Store == INSTANCE RunStore WITH
  Keys <- {}, Bodies <- Policies, Manifests <- {"manifest"}, dsDeleted <- {}

storeVars == <<policy, activeRun, dsProject, status, spec, body, idem,
               created, lease, heartbeat, cancelRequested, manifest, events, issued, now>>
workerVars == <<pc, job, token, report>>
vars == <<storeVars, workerVars, executor, background, announced, recovery, faults>>

Workers == HttpWorkers \cup LocalRunners
Terminal == Store!Terminal
HandlerSteps == {"preparing", "responding", "verifying", "committing", "publishing"}
Steps == HandlerSteps \cup {"idle", "supervising", "stopping", "reporting",
                            "announcing", "aborting", "announcingFailure"}

Home(r) == Store!ProjectOf(r)
HoldsLease(w) == Store!LeaseValid(Home(job[w]), job[w], token[w])

Init ==
  /\ Store!Init
  /\ pc = [w \in Workers |-> "idle"]
  /\ job = [w \in Workers |-> None]
  /\ token = [w \in Workers |-> None]
  /\ report = [w \in Workers |-> None]
  /\ executor = [r \in Runs |-> "none"]
  /\ background = {}
  /\ announced = {}
  /\ recovery = None
  /\ faults = 0

-----------------------------------------------------------------------------
(* How a worker's control moves.                                           *)
Goto(w, s) ==
  /\ pc' = [pc EXCEPT ![w] = s]
  /\ UNCHANGED <<job, token, report>>

Return(w) ==
  /\ pc' = [pc EXCEPT ![w] = "idle"]
  /\ job' = [job EXCEPT ![w] = None]
  /\ token' = [token EXCEPT ![w] = None]
  /\ report' = [report EXCEPT ![w] = None]

(* An exception: run_local and the claim handler report the run as failed, *)
(* any other handler or the worker loop just gives up.                     *)
RaiseSilently(w) == Return(w)
Raise(w) ==
  IF w \in LocalRunners \/ pc[w] = "preparing"
    THEN Goto(w, "aborting")
    ELSE Return(w)

Fault == faults < MaxFaults /\ faults' = faults + 1

-----------------------------------------------------------------------------
(* The users: upload, submit, cancel and policy updates.                   *)
RegisterDataset ==
  /\ \E p \in Projects, d \in Datasets : Store!AddDataset(p, d)
  /\ UNCHANGED <<workerVars, executor, background, announced, recovery, faults>>

SubmitRun ==
  /\ \E s \in Specs, r \in Runs : Store!Submit(s, None, r, policy[s.project])
  /\ UNCHANGED <<workerVars, executor, background, announced, recovery, faults>>

CancelRun ==
  /\ \E r \in Runs, p \in Projects : r \notin cancelRequested /\ Store!Cancel(p, r)
  /\ UNCHANGED <<workerVars, executor, background, announced, recovery, faults>>

UpdatePolicy ==
  /\ \E p \in Projects, b \in Policies : b # policy[p] /\ Store!UpdateProject(p, b)
  /\ UNCHANGED <<workerVars, executor, background, announced, recovery, faults>>

-----------------------------------------------------------------------------
(* Claiming and preparing a run.                                           *)
Take(w, r, l) ==
  /\ pc' = [pc EXCEPT ![w] = "preparing"]
  /\ job' = [job EXCEPT ![w] = r]
  /\ token' = [token EXCEPT ![w] = l]
  /\ UNCHANGED <<report, executor, background, announced, recovery, faults>>

(* POST /internal/worker/claim: the projects are tried in a random order.  *)
ClaimNext(w) ==
  /\ w \in HttpWorkers /\ pc[w] = "idle"
  /\ \E p \in Projects, r \in Runs, l \in Leases :
        Store!Claim(p, r, l) /\ Take(w, r, l)

(* run_local(project, run_id).                                             *)
ClaimGiven(w) ==
  /\ w \in LocalRunners /\ pc[w] = "idle"
  /\ \E p \in Projects, r \in Runs, l \in Leases :
        Store!ClaimRun(p, r, l) /\ Take(w, r, l)

StartExecutor(w) ==
  /\ executor' = [executor EXCEPT ![job[w]] = "running"]
  /\ Goto(w, "supervising")

(* prepare: the implementation must still be the submitted one.            *)
Prepare(w) ==
  /\ pc[w] = "preparing"
  /\ policy[Home(job[w])] = body[job[w]]
  /\ IF w \in LocalRunners
       THEN StartExecutor(w)
       ELSE Goto(w, "responding") /\ UNCHANGED executor
  /\ UNCHANGED <<storeVars, background, announced, recovery, faults>>

(* prepare raises: a changed policy, or a snapshot that fails to copy.     *)
PrepareRaises(w) ==
  /\ pc[w] = "preparing"
  /\ \/ policy[Home(job[w])] # body[job[w]] /\ UNCHANGED faults
     \/ policy[Home(job[w])] = body[job[w]] /\ Fault
  /\ Raise(w)
  /\ UNCHANGED <<storeVars, executor, background, announced, recovery>>

(* The claim response reaches the worker, which takes the credentials of   *)
(* the run's project and starts the executor.                              *)
SecretsValid(w) == Home(job[w]) \notin Misconfigured

ReceiveClaim(w) ==
  /\ pc[w] = "responding"
  /\ SecretsValid(w)
  /\ StartExecutor(w)
  /\ UNCHANGED <<storeVars, background, announced, recovery, faults>>

(* An exception between the claim and the executor: the entry of the       *)
(* secret file is invalid, for as long as the worker lives; or policy()    *)
(* in the handler, contained_path or Popen fails once.  The worker sleeps  *)
(* and claims again, and tells nobody.                                     *)
ClaimRaises(w) ==
  /\ pc[w] = "responding"
  /\ \/ ~ SecretsValid(w) /\ UNCHANGED faults
     \/ SecretsValid(w) /\ Fault
  /\ RaiseSilently(w)
  /\ UNCHANGED <<storeVars, executor, background, announced, recovery>>

-----------------------------------------------------------------------------
(* Supervising the executor.                                               *)
ExecutorExits(r) ==
  /\ executor[r] = "running"
  /\ \E e \in Outcomes : executor' = [executor EXCEPT ![r] = e]
  /\ UNCHANGED <<storeVars, workerVars, background, announced, recovery, faults>>

(* The executor still runs: the worker beats and learns of a cancellation. *)
BeatIgnoringCancel(w) ==
  /\ pc[w] = "supervising" /\ executor[job[w]] = "running"
  /\ Store!Heartbeat(Home(job[w]), job[w], token[w])
  /\ UNCHANGED <<workerVars, executor, background, announced, recovery, faults>>

Beat(w) ==
  /\ pc[w] = "supervising" /\ executor[job[w]] = "running"
  /\ Store!Heartbeat(Home(job[w]), job[w], token[w])
  /\ IF job[w] \in cancelRequested
       THEN /\ pc' = [pc EXCEPT ![w] = "stopping"]
            /\ report' = [report EXCEPT ![w] = "cancelled"]
            /\ UNCHANGED <<job, token>>
       ELSE UNCHANGED workerVars
  /\ UNCHANGED <<executor, background, announced, recovery, faults>>

(* The lease is gone: the exception kills the executor.                    *)
BeatRefused(w) ==
  /\ pc[w] = "supervising" /\ executor[job[w]] = "running"
  /\ ~ HoldsLease(w)
  /\ executor' = [executor EXCEPT ![job[w]] = "failed"]
  /\ Raise(w)
  /\ UNCHANGED <<storeVars, background, announced, recovery, faults>>

DeadlineForgotten(w) == FALSE
DeadlinePasses(w) ==
  /\ pc[w] = "supervising" /\ executor[job[w]] = "running"
  /\ pc' = [pc EXCEPT ![w] = "stopping"]
  /\ report' = [report EXCEPT ![w] = "failed"]
  /\ UNCHANGED <<storeVars, job, token, executor, background, announced, recovery, faults>>

(* Where a supervised run goes next: run_local verifies a manifest at      *)
(* once, a worker posts to the finish handler.                             *)
AfterSupervise(w, st) ==
  CASE w \in HttpWorkers -> "reporting"
    [] w \in LocalRunners /\ st = "succeeded" -> "verifying"
    [] w \in LocalRunners /\ st # "succeeded" -> "committing"

Poll(w) ==
  /\ pc[w] = "supervising" /\ executor[job[w]] \notin {"none", "running"}
  /\ LET st == IF executor[job[w]] = "failed" THEN "failed" ELSE "succeeded"
     IN  /\ report' = [report EXCEPT ![w] = st]
         /\ pc' = [pc EXCEPT ![w] = AfterSupervise(w, st)]
  /\ UNCHANGED <<storeVars, job, token, executor, background, announced, recovery, faults>>

(* SIGTERM, then SIGKILL: afterwards no executor is left.                  *)
KillForgotten(r) == UNCHANGED executor
Kill(r) == executor' = [executor EXCEPT ![r] = IF @ = "running" THEN "failed" ELSE @]

Stop(w) ==
  /\ pc[w] = "stopping"
  /\ Kill(job[w])
  /\ Goto(w, AfterSupervise(w, report[w]))
  /\ UNCHANGED <<storeVars, background, announced, recovery, faults>>

-----------------------------------------------------------------------------
(* Finishing a run.                                                        *)
(* POST .../finish: the handler renews the heartbeat before anything else. *)
ReceiveFinish(w) ==
  /\ pc[w] = "reporting"
  /\ Store!Heartbeat(Home(job[w]), job[w], token[w])
  /\ Goto(w, IF report[w] = "succeeded" THEN "verifying" ELSE "committing")
  /\ UNCHANGED <<executor, background, announced, recovery, faults>>

FinishRefused(w) ==
  /\ pc[w] = "reporting"
  /\ ~ HoldsLease(w)
  /\ Raise(w)
  /\ UNCHANGED <<storeVars, executor, background, announced, recovery, faults>>

(* verify_manifest compares provenance and artifact hashes.                *)
ManifestTrusted(r) == TRUE
ManifestVerifies(r) == executor[r] = "good"

VerifyManifest(w) ==
  /\ pc[w] = "verifying"
  /\ IF ManifestVerifies(job[w]) THEN Goto(w, "committing") ELSE Raise(w)
  /\ UNCHANGED <<storeVars, executor, background, announced, recovery, faults>>

(* The status finish returns: that of the row, not the one reported.       *)
FinishedAs(w) == status'[job[w]]

Commit(w) ==
  /\ pc[w] = "committing"
  /\ Store!Finish(Home(job[w]), job[w], token[w], report[w],
                  IF report[w] = "succeeded" THEN "manifest" ELSE None, None)
  /\ pc' = [pc EXCEPT ![w] = "publishing"]
  /\ report' = [report EXCEPT ![w] = FinishedAs(w)]
  /\ UNCHANGED <<job, token, executor, background, announced, recovery, faults>>

CommitRefused(w) ==
  /\ pc[w] = "committing"
  /\ ~ HoldsLease(w)
  /\ Raise(w)
  /\ UNCHANGED <<storeVars, executor, background, announced, recovery, faults>>

(* manifest.json is on disk; the handler leaves the announcement to a      *)
(* background task, run_local announces itself.                            *)
Publish(w) ==
  /\ pc[w] = "publishing"
  /\ \/ /\ w \in HttpWorkers
        /\ background' = background \cup {<<job[w], report[w]>>}
        /\ Return(w)
     \/ /\ w \in LocalRunners
        /\ Goto(w, "announcing")
        /\ UNCHANGED background
  /\ UNCHANGED <<storeVars, executor, announced, recovery, faults>>

(* Writing manifest.json fails after the run has succeeded.                *)
PublishRaises(w) ==
  /\ pc[w] = "publishing" /\ report[w] = "succeeded"
  /\ Fault
  /\ Raise(w)
  /\ UNCHANGED <<storeVars, executor, background, announced, recovery>>

(* dispatch_webhooks(project, run_id, status).                             *)
DispatchWebhooks(r, st) == announced' = announced \cup {<<r, st>>}

RunBackground ==
  /\ \E a \in background : /\ DispatchWebhooks(a[1], a[2])
                           /\ background' = background \ {a}
  /\ UNCHANGED <<storeVars, workerVars, executor, recovery, faults>>

Announce(w) ==
  /\ pc[w] = "announcing"
  /\ DispatchWebhooks(job[w], report[w])
  /\ Return(w)
  /\ UNCHANGED <<storeVars, executor, background, recovery, faults>>

-----------------------------------------------------------------------------
(* The except blocks of run_local and of the claim handler.                *)
Abort(w) ==
  /\ pc[w] = "aborting"
  /\ Store!Finish(Home(job[w]), job[w], token[w], "failed", None, None)
  /\ Goto(w, "announcingFailure")
  /\ UNCHANGED <<executor, background, announced, recovery, faults>>

(* finish raises in the except block: nothing is announced.                *)
AbortRefused(w) ==
  /\ pc[w] = "aborting"
  /\ ~ HoldsLease(w)
  /\ Return(w)
  /\ UNCHANGED <<storeVars, executor, background, announced, recovery, faults>>

AnnounceFailure(w) ==
  /\ pc[w] = "announcingFailure"
  /\ DispatchWebhooks(job[w], "failed")
  /\ Return(w)
  /\ UNCHANGED <<storeVars, executor, background, recovery, faults>>

-----------------------------------------------------------------------------
(* Recovery: interrupt_stale looks at the row, then fences it.             *)
LookForStale ==
  /\ Recoveries
  /\ recovery = None
  /\ \E r \in Runs :
        /\ Store!LooksStale(r)
        /\ recovery' = [run |-> r, lease |-> lease[r], at |-> now]
  /\ UNCHANGED <<storeVars, workerVars, executor, background, announced, faults>>

InterruptStale ==
  /\ recovery # None
  /\ \E t \in recovery.at .. now :
        Store!Interrupt(Home(recovery.run), recovery.run, recovery.lease, t - StaleAfter)
  /\ recovery' = None
  /\ UNCHANGED <<workerVars, executor, background, announced, faults>>

(* finish raises: the lease is gone or the heartbeat was renewed.          *)
RecoveryRefused ==
  /\ recovery # None
  /\ \E t \in recovery.at .. now :
        ~ (/\ Store!LeaseValid(Home(recovery.run), recovery.run, recovery.lease)
           /\ Store!NotRenewed(recovery.run, t - StaleAfter))
  /\ recovery' = None
  /\ UNCHANGED <<storeVars, workerVars, executor, background, announced, faults>>

-----------------------------------------------------------------------------
(* Faults.                                                                 *)
(* The claim response or the finish request of an HTTP worker is lost.     *)
LoseMessage(w) ==
  /\ pc[w] \in {"responding", "reporting"}
  /\ Fault
  /\ Return(w)
  /\ UNCHANGED <<storeVars, executor, background, announced, recovery>>

(* A heartbeat is lost or times out, or Ctrl-C ends a local run: the       *)
(* exception kills the supervised executor.                                *)
SupervisionRaises(w) ==
  /\ pc[w] = "supervising"
  /\ Fault
  /\ Kill(job[w])
  /\ Raise(w)
  /\ UNCHANGED <<storeVars, background, announced, recovery>>

(* A worker process dies: its executor, in a session of its own, lives on. *)
CrashWorker(w) ==
  /\ \/ w \in LocalRunners /\ pc[w] # "idle"
     \/ w \in HttpWorkers /\ pc[w] \in {"supervising", "stopping", "reporting"}
  /\ Fault
  /\ Return(w)
  /\ UNCHANGED <<storeVars, executor, background, announced, recovery>>

(* The server dies with its handlers, its background tasks and a recovery. *)
CrashServer ==
  /\ Fault
  /\ LET cut == {w \in HttpWorkers :
                   pc[w] \in HandlerSteps \cup {"aborting", "announcingFailure"}}
     IN  /\ pc' = [w \in Workers |-> IF w \in cut THEN "idle" ELSE pc[w]]
         /\ job' = [w \in Workers |-> IF w \in cut THEN None ELSE job[w]]
         /\ token' = [w \in Workers |-> IF w \in cut THEN None ELSE token[w]]
         /\ report' = [w \in Workers |-> IF w \in cut THEN None ELSE report[w]]
  /\ background' = {}
  /\ recovery' = None
  /\ UNCHANGED <<storeVars, executor, announced>>

Tick ==
  /\ Store!Tick
  /\ UNCHANGED <<workerVars, executor, background, announced, recovery, faults>>

-----------------------------------------------------------------------------
(* What a worker does by itself, in the order of its code.                 *)
Work(w) ==
  \/ Prepare(w) \/ PrepareRaises(w) \/ ReceiveClaim(w) \/ ClaimRaises(w)
  \/ BeatRefused(w) \/ Poll(w) \/ Stop(w)
  \/ ReceiveFinish(w) \/ FinishRefused(w) \/ VerifyManifest(w)
  \/ Commit(w) \/ CommitRefused(w)
  \/ Publish(w) \/ PublishRaises(w) \/ Announce(w)
  \/ Abort(w) \/ AbortRefused(w) \/ AnnounceFailure(w)

Next ==
  \/ RegisterDataset \/ SubmitRun \/ CancelRun \/ UpdatePolicy
  \/ \E w \in Workers : \/ ClaimNext(w) \/ ClaimGiven(w)
                        \/ Work(w) \/ Beat(w) \/ DeadlinePasses(w)
                        \/ LoseMessage(w) \/ SupervisionRaises(w) \/ CrashWorker(w)
  \/ \E r \in Runs : ExecutorExits(r)
  \/ RunBackground
  \/ LookForStale \/ InterruptStale \/ RecoveryRefused
  \/ CrashServer
  \/ Tick

Spec == Init /\ [][Next]_vars

(* A worker goes on working and background tasks run.  Nothing obliges an  *)
(* executor to exit or a user to act.                                      *)
Fairness ==
  /\ \A w \in Workers : WF_vars(Work(w))
  /\ WF_vars(RunBackground)

FairSpec == Spec /\ Fairness

-----------------------------------------------------------------------------
Unattended(r) == \A w \in Workers : job[w] # r
CredentialsRefused(r) == executor[r] = "none" /\ Home(r) \in Misconfigured

TypeOK ==
  /\ Store!TypeOK
  /\ pc \in [Workers -> Steps]
  /\ job \in [Workers -> Runs \cup {None}]
  /\ token \in [Workers -> Leases \cup {None}]
  /\ report \in [Workers -> Terminal \cup {None}]
  /\ executor \in [Runs -> {"none", "running"} \cup Exits]
  /\ background \subseteq Runs \X Terminal
  /\ announced \subseteq Runs \X Terminal
  /\ recovery \in [run : Runs, lease : Leases, at : Nat] \cup {None}
  /\ faults \in 0 .. MaxFaults

(* A project has two executors at work only when an operator recovered one *)
(* of their runs, which is then interrupted or, if cancelled before,       *)
(* cancelled: no crash or lost message lets a second run start beside an   *)
(* executor that is still at work.                                         *)
OneExecutorPerProject ==
  \A q, r \in Runs :
     /\ executor[q] = "running" /\ executor[r] = "running"
     /\ Home(q) = Home(r) /\ q # r
     => Recoveries /\ {status[q], status[r]} \cap {"interrupted", "cancelled"} # {}

(* A run is left running without a worker only by a fault, by a manifest   *)
(* that failed to verify in the finish handler, or because the worker that *)
(* claimed it found its project's credentials invalid, and then nothing of *)
(* it was executed: every other way out of the workers' code ends the run. *)
AttendedUntilEnd ==
  \A r \in Runs :
     status[r] = "running" /\ Unattended(r) =>
        \/ faults > 0
        \/ executor[r] = "bad"
        \/ CredentialsRefused(r)

(* Webhooks are told only of runs that have ended, and of success only     *)
(* when it was published, also when a cancellation overtook the report.    *)
AnnouncedAfterEnd ==
  \A a \in announced \cup background :
     /\ status[a[1]] \in Terminal
     /\ a[2] = "succeeded" => status[a[1]] = "succeeded"

(* A published run, and one announced as a success, is one whose own       *)
(* executor exited with a manifest that verified: no crash, recovery, late *)
(* report or cancellation publishes or announces anything else.            *)
PublishedWasVerified ==
  /\ \A r \in Runs : status[r] = "succeeded" => executor[r] = "good"
  /\ AnnouncedAfterEnd

(* A claimed run ends, unless its worker is gone: when deadlines pass, an  *)
(* executor that hangs is stopped and the reports that follow cannot block. *)
ClaimedRunsEnd ==
  (\A w \in Workers : WF_vars(DeadlinePasses(w))) =>
     \A r \in Runs : status[r] = "running" ~> status[r] \in Terminal \/ Unattended(r)

(* A worker that beats stops the executor of a cancelled run, whether or   *)
(* not the deadline ever passes.                                           *)
CancellationStopsExecutor ==
  (\A w \in Workers : WF_vars(Beat(w))) =>
     \A r \in Runs : r \in cancelRequested ~> executor[r] # "running" \/ Unattended(r)

=============================================================================
