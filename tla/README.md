# Verification of buffdata's managed runs and pipeline

TLA+ models of the parts of buffdata in which order, failure and concurrency
decide what happens: the store of managed runs, the service and workers around
it, the checkpointed pipeline they execute, its calls to plugins and to model
providers, signing in, the keys of artifacts, and the commands over whole
datasets. TLC checks each model on small instances; TLAPS proves most of the
safety properties for every instance. Paths below are relative to
`src/buffdata/`.

    tlc -workers 2 -config MCRunStore.cfg MCRunStore      # one run
    tlapm RunStoreProofs.tla                              # the proofs about the store

`PROJECT.json` lists the runs, which lines each definition models (`map`), a
mutated form of the code that violates each property (`mutants`), the known
hazards of the code and where the code and its documentation disagree
(`findings`).

## The system

| Part | State | Operations | Interacts with |
|---|---|---|---|
| Run store (`runs/store.py`) | rows of projects, datasets, runs, events, webhooks, sessions, data keys | one transaction per method: `add_dataset`, `delete_dataset`, `submit`, `claim`, `heartbeat`, `finish`, `cancel`, `interrupt_stale`, `update_project` | everything below, through one database |
| Run service (`runs/service.py`) | snapshots and run directories on disk | `register`, `submit`, `prepare`, `resume`, `verify_manifest`, `dispatch_webhooks` | store, file system, webhooks |
| Run API (`server/app.py`) | background tasks | users: datasets, runs, projects; workers: claim, heartbeat, finish | service, store |
| Workers (`server/worker.py`, `rust-worker/`, `runs/runner.py`) | the claimed run, its lease, the executor process | claim, supervise, report | API over HTTP (remote) or service directly (`run_local`) |
| Executor (`runs/executor.py`) | one process per attempt | runs the pipeline, writes a candidate manifest | run directory, provider |
| Pipeline (`engine/pipeline.py`) | accepted and rejected rows, checkpoint, four output files | seven stages, checkpoint after each, resume by fingerprint | optimizers, provider, file system |
| Optimizers (`optimizers/`) | none between calls | score, refine, evolve, dpo, classify, augment, dedup, scrub | provider through the limiter; plugins through the sandbox |
| Rate limiter, clients (`engine/limiter.py`, `engine/client.py`) | semaphore, window of timestamps, usage counters | acquire, release, retry, one request in a thread | provider SDKs |
| Plugin sandbox (`security/sandbox.py`, `plugins.py`) | child process, poisoned flag | start, call, time out, poison | plugin code in a child process |
| OIDC and sessions (`governance/oidc.py`, `server/app.py`) | JWKS cache and cooldown, session rows, cookies | verify, login, callback, logout | identity provider, store |
| Data keys (`runs/store.py`, `runs/executor.py`) | one wrapped key per project, encrypted files | create or read, encrypt, list, read back | store, run directory |
| Sharding, Ray (`integrations/`) | partition files, merged files | shard, one command per partition, merge | the commands of the CLI, an orchestrator |
| Gated commands (`cli/main.py`, `optimizers/gated_generator.py`, `evaluation/`) | rounds, best pool, output, report | measure, decide, write | pipeline, augmenter, trainer |
| Governance, reports, formats | none that outlives a call | | |

What is hard in it:

* **Concurrency.** Transactions of users, workers and operators interleave, and
  handlers read in one transaction and write in another.
* **Failure.** A worker, a server or an executor dies between any two steps;
  answers are lost; a manifest may not verify; executors outlive their worker.
* **Time.** Leases are recovered after 120 seconds without a heartbeat;
  executors are killed at a deadline; the limiter admits a number of requests
  per minute; plugin calls time out; logins, sessions, tokens and cached keys
  expire.
* **Persistence.** A pipeline resumes from a checkpoint, its own or that of the
  attempt it continues, and writes its outputs one file after another. So do
  the dataset commands, which write over what an earlier one left.

What makes each part correct:

* store: at most one running run per project, exactly the one its slot names;
  an old lease never acts; a cancellation beats a success; a key names one run;
  a referenced dataset stays; recovery spares live workers; an ended run never
  changes;
* service: every live or referenced dataset has its snapshot; answers match
  requests; a resume continues only what has ended, with its inputs and policy;
* workers: nothing is published unverified or announced before its end; a run
  is left alone only by a fault or by credentials that its worker refuses; an
  attended run ends; a cancellation stops the executor;
* attempts: no executor continues foreign work; a resume goes on from the
  checkpoint of the attempt it names;
* pipeline: no row is lost, doubled or edited twice by a crash; results belong
  to their fingerprint; outputs of two runs never stay beside each other; only
  redacted text leaves, blank labels excepted; the strict contract keeps
  labelled rows;
* provider calls: limits hold whatever fails or sleeps; every row is decided or
  marked; usage is complete; a network policy is obeyed; a failed stage sends
  nothing more; every stage ends;
* plugins: a sandbox that failed is never believed again; nothing goes out
  unvalidated; counts and text agree;
* sign-in: a login is used once; accepted keys are fresh; good tokens are
  refused for a short time at most;
* data keys: every artifact can be read;
* dataset commands: rows go once through shard, command and merge, but for those
  a command is there to drop; a dropped duplicate is represented; a gate's
  output and report claim what was measured.

## The modules

    RunLifecycle        abstract: the life of a run in its project
      ^ implemented by
    RunStore            the store, one action per transaction      RunStoreProofs
      ^ INSTANCE                                                     ^ INSTANCE
    RunWorkers          claim, supervise, finish, recover, announce  RunWorkersProofs
    RunSubmission       register, delete, submit, resume             RunSubmissionProofs
    RunAttempts         parents and checkpoints, over RunLifecycle   RunAttemptsProofs
    Pipeline            stages, checkpoint, outputs                  PipelineProofs
    RunStages           EXTENDS PluginSandbox, ProviderCalls:        RunStagesProofs
                        one run's plugin stages, then a provider
                        stage over the rows they left
    ServerAccess        EXTENDS SignIn, DataKeys: two tables         ServerAccessProofs
    DatasetCommands     EXTENDS ShardedRuns and GatedCommands        DatasetCommandsProofs
                        (over AccuracyGate)

Each `MC*` module gives one of them small sets; a `.cfg` names the bounds.

**RunLifecycle.** A run is absent, queued, running or ended in one of four
ways; a project has at most one running run; an ended run stays as it is; a run
whose cancellation was accepted while it ran ends cancelled.

**RunStore.** One variable per column of the tables, one action per method.
Each method is one transaction that locks the project row first (`FOR UPDATE`;
on SQLite, `BEGIN IMMEDIATE`), hence atomic; `interrupt_stale` is split in its
clients because it reads outside its transaction. A method that raises changes
nothing. `NULL` is `None`, and a guard that compares a lease with it is false
(`LeaseValid`), as in SQL. `now` is the clock in units of which `StaleAfter`
make the 120 seconds. `issued`, the leases handed out, stands for the
uniqueness of random tokens. The module lets any client call any method with
any argument it can know.

**RunWorkers.** HTTP workers and local runners by their program counters; a
handler that works for a waiting worker shares its counter. `executor` holds the
state of each run's process: it may exit with a manifest that verifies (`good`),
one that does not (`bad`), or fail. `supervise` is `Beat`, `Poll`,
`DeadlinePasses` and `Stop`, in the order of its loop. Faults: lost claim and
finish messages, an exception between a claim and its executor (`ClaimRaises`:
`policy()` in the handler, `contained_path`, `Popen`), a heartbeat that raises,
a failing write, and crashes of a worker (its executor lives on) and of the
server (with its handlers, background tasks and a recovery in progress). The
Rust worker takes the same steps in the same order
(`rust-worker/src/main.rs:138-193`, `supervise.rs:35-100`), so an HTTP worker
stands for it as well. `Misconfigured` are the projects whose entry of the
workers' secret file is invalid. That is no fault of a moment: the file is read
when the worker starts, so every claim of such a project raises
(`server/worker.py:59`), and the worker sleeps and polls again with the run left
running.

**RunSubmission.** Clients of one project, each in the middle of one operation:
registering (copy, then row), deleting (row, then unlink), submitting (read the
policy, check, hash, insert) and resuming (look, recover if running, compare the
identity, submit, compare the inputs, cancel if they differ). A client dies
anywhere. `file` is the disk. Workers are reduced to what the store sees.

**RunAttempts.** Which checkpoint an attempt starts from: `prepare` copies the
parent's, the pipeline refuses one of another fingerprint, executors are killed
at any point or outlive their run. The copy is not atomic: `CopyStops` leaves a
`Truncated` file under the name of the checkpoint, which every pipeline refuses
and every resume of that attempt copies again. `left` remembers how far an
attempt was when it ended. The lives of the runs are RunLifecycle, which the
store implements. A run with `require_positive_gain` keeps no checkpoint
(`runs/executor.py`) and is outside this module.

**Pipeline.** Rows are labelled, blank (a label is there, but only white space
or an empty list), unlabelled or invalid, and carry which stage rejected them,
the edits made to them in order, and whose label they have. The decisions of
models (which duplicates, which scores, which rewrites) are choices; which rows
they may touch, under which configuration, and when the checkpoint is written
are the code's. A blank label counts where the code asks whether `labels` is
`None` (`StrictLabelled`, `PiiMode`) and does not where the profiler looks for
the names of classes (`NamesNoClass`). A process stops between any two steps,
the input may be edited between runs, and a finished output is optimized again.

**PluginSandbox.** The installation (what is approved, installed, broken; how
the anonymizer runs) is chosen at the start. `box` is a worker process with the
frames it has read and written; it answers, errs, prints over its answers,
hangs or exits at any time. `call` is the one request the caller waits for:
`Receive` takes the next frame and poisons the sandbox if its id is another,
`GiveUp` is the timeout. Validation is row by row, then each accepted row has
its two calls (detect, anonymize) and the fixed patterns. `trusted` collects
sandboxes from which an answer was accepted after they had failed.

**ProviderCalls.** `conf` holds the arguments of `create_llm_client` and the
policy; `Ready` and the choice of client are its branches. Each chunk is a
coroutine: queued at the semaphore, pacing, sleeping for the window, admitted,
in its thread, retrying after a back-off, returned. `recent` holds the ages of
the last admissions, so time needs no bound. A reply may miss rows, be invalid
or fail in the ways the stages tell apart; what each stage makes of it
(`Missed`, fallbacks, errors marked on rows) is in one disjunct per stage. A
stage that raises cancels its coroutines; requests in threads finish.

**SignIn.** A handler is a thread of the server: a transaction, a critical
section of the cache or the end of a call is one step, and `holder` keeps the
cache's lock over a fetch. The provider rotates its keys; a fetch answers with
a key published at some moment since it began. Rows of `managed_sessions` hold
logins and sessions alike, as in the store.

**DataKeys.** `rowLock` is the `FOR UPDATE` of the project's row; the insert
becomes visible at commit; a crash rolls back. `under` says what each of the
three files is encrypted with, `listed` what the manifest hashed.

**ShardedRuns.** A file is the sequence of its rows' numbers, `None` if absent;
0 is a row of an earlier dataset and the negative of a row its variation. Files
opened for writing are emptied first, as `open(.., "wb")` does; `optimize`
replaces its three files. A process stops between any two steps and is started
again; a Ray task's failure fails them all. `Given` are the partitions for which
the commands are started: those that `partition_dataset` returned, whatever
`partition-*.jsonl` names, leftovers of a larger earlier split included, or the
numbers up to the one that was asked for, where a partition may not exist
(`CommandRaises`). `similar` is the likeness that dedup meets, and for augment
that of equal texts; `blank` are the rows without a word. augment adds
variations and drops originals that are blank or repeat an earlier text, and
raises where a row has no scalar label.

**AccuracyGate, GatedCommands.** Accuracies are chosen per seed; the decision on
the mean and on each seed is the code's, in whole parts. A sum over the seeds is
counted (`Total`: the parts that were reached), so that it can be reasoned about
without induction. `pool` has the labels of the rows that `generate` augments; a
round may drop a label with the rows that repeat other texts. The failing report
has the best round's accuracy, the first round's `baseline` and the last round's
`gain`. A file holds the attempt and the round it was written by.

Definitions beside another of a like name that no specification uses
(`SlotIgnored` beside `SlotFree`, `NoLock` beside `RowFree`) are mutated forms;
replaying them shows that each property notices the bug it is there for.

## What is checked

| Run | Question | Result |
|---|---|---|
| `run_store` | all orders of transactions on two runs, a key, a deletable dataset, clients with old and NULL leases; is every transaction a step of RunLifecycle? | ten properties hold, `ImplementsLifecycle` among them |
| `run_workers` | an HTTP worker, a local runner, an operator, the clock and one fault anywhere, with valid and with invalid credentials; without faults, changing policies | `PublishedWasVerified`, `AttendedUntilEnd` hold |
| `live_workers` | one fault anywhere, executors that hang, nobody recovers: do claimed runs end, do cancellations arrive, is there one executor per project? | `ClaimedRunsEnd`, `CancellationStopsExecutor` hold under `Fairness`, `OneExecutorPerProject` without exception |
| `run_submission` | two clients register, delete, submit and resume and die anywhere, against workers, recoveries, altered snapshots and changing policies | `SnapshotsPresent`, `AnswersMatchRequests`, `ResumedRunsStayEnded` hold |
| `attempts` | chains of three attempts, parents named by callers too, copies that stop half-way, executors killed or orphaned | `NoForeignWork`, `ResumeKeepsProgress` hold |
| `pipeline` | every combination of contract, scrubbing, quality and classification over every mixture of rows, stopped and resumed anywhere; two configurations and an edited input on one output path again and again | five properties hold |
| `strict_rows` | the strict contract for a labelled row beside an unlabelled one | violated, see below |
| `run_stages` | plugins that hang, exit, err or print; then chunks of a stage that share slots and a window, fail and retry, for every client configuration | six invariants and `NothingSentAfterFailure` hold, `StageEnds` under fairness |
| `silent_recognizer` | approved recognizers are never skipped | violated, see below |
| `access` | logins repeated and handed on; tokens against rotating keys and failing fetches; first runs of a project at once | `LoginStatesUsedOnce`, `AcceptedKeysAreFresh`, `GoodTokensRefusedBriefly`, `ArtifactsOpen` hold |
| `commands` | shard, every command, merge, with stops, old files and leftover or missing partitions; augment over repeated, blank and unlabelled rows; dedup over every likeness; the gated commands | `RowsOnceThroughShards`, `DuplicatesRepresented`, `GatesHonest` hold |
| `documented_merge` | the documented merge keeps rejected rows out of the accepted ones | violated, see below |

**Bounds.** Two runs of one project are enough for every race about a slot, a
lease, a key or a reference, since each of those relates two runs of a project;
that projects are not confused is proved. Two leases let an old one meet a new
one. Time runs to `MaxTime` (4 with `StaleAfter` 2), so a heartbeat can be
fresh, exactly at the limit and stale; `live_workers` needs no clock since
nothing recovers there. One fault per behaviour (`MaxFaults`) reaches every
single point of failure; two faults at once are not covered. Three attempts let
a checkpoint pass over a middle attempt. Two rows cover a mixed dataset, since
every rule of the pipeline looks at one row or at "all rows".

In `run_stages`, two chunks of two and one rows meet two slots and one request
per window of two ticks, so a chunk can queue, sleep with a slot, fail beside
another and retry twice; three rows let a plugin's late answer meet the next
row's call and the one after it. In `access` two browsers and two states
suffice for every exchange of a cookie or an address, two keys and three
requests for a rotation during a fetch, and the clock (4 with `Ttl` 3 and
`Refresh` 2) passes every limit; three runs let one die holding the row lock
while another waits and a third comes after. In `commands` four rows in two
classes and up to three partitions meet uneven and empty partitions, two
failures a merge that is stopped twice; two seeds and accuracies of 0 to 2
halves meet every order of mean and seeds, two rounds a best round that is not
the last.

Some runs have a state constraint that trades dimensions against each other,
and each names it:

* `run_workers`, `UpdatesWhereTheDataIs`: only the policy of the project that
  has the dataset is updated. The two projects differ in their credentials; an
  invalid entry is wholly invalid, since any part that is makes the worker
  raise.
* `run_workers`, `UpdatesWithoutFaults`: an updated policy makes `prepare`
  raise, which is explored where no fault and no recovery happens.
* `run_submission`, `Limited`: at most one of four complications in one
  behaviour (requests that differ, name a parent or have a key; the clock, which
  moves once a run was claimed; altered snapshots; an updated policy with one
  client at a time). With `StaleAfter` 1 and `MaxTime` 2 a look finds a run
  stale and the recovery succeeds or is refused.
* `pipeline`, `ReuseWithDefaults`: several inputs or configurations on one
  output path, or a finished path used again, only for one strict (every row
  scored) and one balanced (a sample scored) configuration; every other
  configuration and mixture of rows is stopped and resumed with itself.
* `run_stages`, `MCExplored`: every installation is followed through the plugin
  stages, the provider stage after the plain one; every configuration up to its
  first request, and beyond it one for each way a client retries and reports
  (a preset under the local policy, gemini, a cloud client), evolve and dpo
  with gemini only. `StageEnds` speaks of those.
* `access`, `MCExplored`: bearer requests while keys rotate, logins while they
  do not and up to one tick after the first of them expires, data keys from the
  initial state. Sign-in and data keys share no variable.
* `commands`, `MCExplored`: every split of no, one or four rows, up to the names
  of classes; the commands over one dataset; the gated commands from the start,
  since they share no variable with the shards; a second attempt only where the
  first left an output, since without one it is like the first.

Symmetry is used for runs, leases, clients, rows, handlers, browsers and ids,
never in a run with a liveness property. Deadlock checking is off where the
system may rest: when all runs, a stage, a merge or a command have ended, or the
clock stands at its bound. It is on for `pipeline`.

**Fairness.** `Fairness` says that a worker process goes on with its own code
and that the server runs its background tasks: the loops of `supervise` and
`worker.main` poll every half second and HTTP calls have timeouts, so nothing in
them waits for ever. Nothing obliges an executor to exit, a user to act or the
clock to advance. Each liveness property names the one thing more it needs:
`ClaimedRunsEnd` that deadlines pass (`execution_seconds` is finite and
`supervise` compares it with a monotonic clock), `CancellationStopsExecutor`
that workers beat, and no deadline. A run without a live worker is not obliged
to end: the code leaves it to an operator's `interrupt_stale`
("Explicit operator recovery only", `runs/store.py:252`); how it came to be
without one is the subject of `AttendedUntilEnd`. `StageEnds` assumes
that the event loop and the threads run every chunk's next step and that time
passes (`CallsFairness`); a request in a thread returns, since every SDK client
is given `DEFAULT_REQUEST_TIMEOUT_SECONDS` (`engine/client.py`).

## What is proved

Each `*Proofs` module extends the module it is about, states an inductive
invariant and proves three things of it: the initial states have it, every
action keeps it (a lemma for each action or group of actions, one step for each
conjunct it can disturb), and it implies the properties that the runs check.
The constants are any sets and numbers that satisfy the module's `ASSUME`s: any
number of projects, runs, clients, workers, rows, chunks or seeds, any bound on
the clock, on faults or on restarts. Each invariant was checked by TLC on the
instance of its run before it was proved (`ShardInv` on one split for each
command).

The assumptions say no more than that identifiers, NULL (`None`, `Nothing`) and
generated keys are distinct, that NULL is no record of the kind it stands
beside, that specifications, inputs and configurations are well typed, that
there are at least one stage, row, chunk, slot, seed and request where the code
divides or indexes by them, and that lifetimes are natural numbers, positive
where the code makes them so.

**RunStoreProofs.** `StoreInv`, the conjunction of the store's safety
properties with `TypeOK`, is inductive as it stands (`StoreInvariant`). Its
parts need each other: a lease fences only if the slot is exact, since otherwise
two running runs of a project could share the outcome; an interrupted run was
stale only if its heartbeat is not later than the clock; events explain a status
only if a queued run has no end event yet. From it come `SlotIsExact`,
`LeasesFence`, `CancelBeatsFinish`, `SubmitIsIdempotent`,
`HistoryKeepsDatasets`, `RecoverySparesLiveWorkers`, `EventsAreComplete` and the
action property `EndedRunsAreFinal`. `StoreImplementsLifecycle`: every
transaction is a step or a stutter of RunLifecycle under the mapping in
RunStore; `SlotFreeMeansIdle` is where the slot's invariant is needed. For the
modules above it, `StoreStep`, `RowsStay` and `DatasetsStay` say what any
transaction leaves alone: an ended run, a submitted row, a registered dataset.

**RunWorkersProofs** (`PublishedIsVerified`, `RunsAreAttended`,
`ExecutorsDoNotOverlap`, `WorkersUseTheStore`, `WorkersImplementLifecycle`).
Every step of a worker, a handler or a background task is shown to be a
transaction of the store or to leave its rows alone, so the store's invariant is
not proved again but taken from `RunStoreProofs`, which this module
instantiates. The rest relates program counters to it: while a worker prepares,
supervises or reports, its run is running under its own token unless an operator
recovered it (`ClaimOK`), and a run that nobody attends was left by a fault, a
bad manifest or refused credentials; what its code believes of the executor is
true (`ExecutorOK`); a success is reported only of a verified manifest
(`ReportOK`); no two workers hold one run. `ExecutorsDoNotOverlap` then follows
from the store's slot: two executors mean two running runs, or a recovered one.
`WorkersUseTheStore` is the other direction: a behaviour of this system is a
behaviour of the store, so that all of `RunStoreProofs` holds of it and, through
`StoreImplementsLifecycle`, it implements RunLifecycle.

**RunSubmissionProofs** (`SnapshotsAreThere`, `AnswersAreConsistent`,
`ResumedRunsAreOver`, `SubmissionsUseTheStore`,
`SubmissionsImplementLifecycle`), over the store in the same way. The invariant
is about clients in the middle of an operation: the copy is on disk while its
row is still to be added, and what is about to be unlinked has been deleted
(`FilesOK`); what will be inserted for a resume repeats the resumed run
(`SubmitOK`); from the identity check on that run has ended without success,
which the store never takes back (`ResumeOK`); and an answer holds because rows
keep their specification and key.

**RunAttemptsProofs** (`NoForeignWorkEver`, `ResumesKeepProgress`). What a
resume starts from is a fact about it and the attempt it names
(`StartsWhereItStopped`), whoever else names that attempt: its checkpoint only
grows, also under an executor that outlives the run, until that executor comes
to its end. `ChainsGrow` follows for prepared attempts and `EndedWorkStays` says
that nothing a resume does takes work from the attempt it resumes. That no
resume is refused (`NoResumeRefused`) is a statement about chains: it holds in
every set of runs that is closed under parents, in which only resumes have one
and in which no copy stopped half-way. A resume that is cancelled in the queue
has no checkpoint, so its own resume starts from nothing; the work is still that
of the earlier attempt, which can be resumed once more.

**PipelineProofs** (`RowsAreConserved`, `OutputsAlwaysAgree`,
`OnlyRedactedTextLeaves`, `LabelledDatasetsSurvive`, and the action property
`CheckpointsAreKept`). `Sound` relates work to the input and configuration it is
of, and holds of the work in memory and in all four files, so that a resume
starts from sound work; `FilesFollow` says what each file holds at each point of
the process. Redaction needs `RedactedOrProtected`: rows that were not redacted
are those of a strict dataset all of whose rows have labels. From these every
stage but one stays away; the profile does so only if one of the labels is not
blank, which is the exception that `OnlyRedactedRowsAreSent` states.

**RunStagesProofs** (`FailedSandboxesStaySilent`, `CountsAlwaysMatch`,
`ValidatorsComeFirst`, `PolicyIsObeyed`, `LimitsHold`, `EveryRowIsAccounted`,
`FailureStopsRequests`). For the plugins: a sandbox that is waited for never
failed, and its pipe holds at most one answer, to that very call, which is why
the identifier check suffices. For the provider calls: free slots and holders
add up (`SlotsCounted`); the limiter's timestamps are the newest of the
admissions within the window, and whatever it has dropped has left the window
(`WindowKept`), from which the limit holds in *every* window; the usage is short
of the responses by exactly the requests that are between their answer and its
record (`UsageCounted`), which fails without the lock.

**ServerAccessProofs** (`ArtifactsStayOpen`, `LoginsAreUsedOnce`,
`AcceptedKeysStayFresh`, `GoodTokensAreRefusedBriefly`). A key that is not
committed is that of the one transaction that holds the row and found none, so
every key ever returned is the stored one (`KeysAgree`). A login's row is there
until its one exchange begins (`LoginsOnce`). The cached keys are dated no later
than the last attempt to fetch them, and what a lookup returned was published
when it began or fetched shortly before (`CacheIsDated`, `LookedUp`); freshness
and the bound on refusals are two consequences.

**DatasetCommandsProofs**, of the accuracy gate (`GatesAreHonest`). Nothing is
written before the decision and everything written is of the attempt that
writes; the best round is the best of all, and only the last, which ends them,
may have been accepted; so the report has the accuracy and the verdict of the
file that was returned. Its gain is the last round's: that it fits the accuracy
and the baseline is shown for one round only (`GainsFit`). That an accepted
candidate is better on every seed is arithmetic over the gate's two criteria
(`AcceptedIsAbove`, `AcceptedIsAboveInPart`).

Of sharded runs (`PartitionsHold`, `DuplicatesStayRepresented`, `RowsGoOnce`).
Three walks over the rows of a file have to be reasoned about to their end:
dealing rows out (`Dealing`: after each row, the parts differ by at most one row
of a class), keeping a subset (`OnlyKeeps`) and dropping duplicates
(`DedupKeeps`). The induction theorems of the library take an operator and
cannot be instantiated, so `Counting` gets induction from the least element of
the set of numbers where a claim fails, and `WalksExist` from it that such a
recursive function is defined. `ShardInv` then says that an opened partition has
exactly the rows placed in it so far, in their order (`PartitionsOK`); that a
command's output, rejected rows and count fit its partition once it has come
that far (`CommandsOK`); and that a row is in merge's memory once if its
partition was read and not at all before (`MergeOK`), which needs what one path
adds (`OutputAdds`). What augment writes is a subset of the partition's rows, in
their order, with variations after them (`AugmentedFrom`, `AugmentKeeps`), and a
row that is missing is blank or repeats one. A command ends only over a
partition that exists (`GivenIsReady`), and a leftover one holds only rows of an
earlier dataset (`GivenStays`). `RowsGoOnce` assumes that the files to merge are
named: with a pattern, `documented_merge` below is the counterexample.

Only model-checked:

* `ClaimedRunsEnd`, `CancellationStopsExecutor`, `StageEnds`: liveness under
  fairness is outside the prover's reach;
* what the three runs with a violation show, which is a counterexample.

## Where the code and its documents disagree

Three runs show it (`findings` quotes the lines):

* `strict_rows`: one unlabelled row switches the strict contract off for the
  whole dataset (`engine/pipeline.py:163-168`).
* `silent_recognizer`: a recognizer that fails is skipped and the run goes on
  (`optimizers/scrubber.py:140`), where the documentation says that approved
  plugins are never silently skipped.
* `documented_merge`: `buffdata merge out/*.jsonl` also names the partitions'
  `.rejected.jsonl` files and merges them as accepted rows
  (`integrations/sharding.py:127`).

Met while modelling, in the definitions but without a run of their own:

* the failure paths announce `failed` for a run that ends cancelled
  (`server/app.py:395`, `runs/runner.py:77`), and a run cancelled while queued
  or interrupted by recovery is never announced (`runs/store.py:246`, `258`);
* `resume` compares one reading of the policy and submits under another
  (`runs/service.py:209-211`);
* `prepare` copies the checkpoint of a parent that an ordinary submission
  names, so its pipeline refuses that run (`runs/service.py:189-193`);
* a worker that raises between a claim and its executor sleeps and polls again
  and leaves the run running, holding its project's slot, until an operator
  recovers it (`server/worker.py:53-73`; the Rust worker says so of itself,
  `rust-worker/src/main.rs:135-137`). With an invalid entry in the secret file
  every run of that project ends this way. Since the run is then unattended,
  `ClaimedRunsEnd` excuses it and `AttendedUntilEnd` says why it is so;
* a dataset under the strict contract whose labels are all blank is labelled for
  the strict contract and the PII mode (`engine/pipeline.py:163-168`, `202-207`)
  and unlabelled for the profiler (`engine/profiler.py:35-40`, `68-71`), which
  sends a sample of it as it is, under a prompt that calls it "PII-redacted"
  (line 122), where `README.md:288`, `docs/architecture.md:24` and
  `docs/configuration.md:55` (of the repository) promise redaction before any
  content reaches a provider;
* a plugin that fails to load or raises is "logged and skipped"
  (`plugins.py:14-15`), and a validator that raises "must not fail the item (or
  the run)" (`plugins.py:143-145`); the code raises `SecurityError` in each of
  these cases (`plugins.py:83-86`, `135-136`, `155-158`), as does the sandbox,
  and the run ends, which is what `docs/run-management.md:122-123` says and
  `NothingSentUnvalidated` relies on. For recognizers it is the other way round,
  see `silent_recognizer`;
* `copy_snapshot` writes the inherited checkpoint under its final name
  (`runs/service.py:95-97`, `189-194`). If it stops half-way, the run that
  resumes that attempt, and every later one of that line, is refused its
  checkpoint and fails (`tests/test_run_management.py:172-181` has the refusal).
  The attempt before it can still be resumed;
* a resume that was cancelled while queued has no directory, so the next resume
  of it starts the work anew;
* the report of `generate` without a passing round pairs the best round's
  accuracy with the last round's relative gain and the first round's baseline
  (`optimizers/gated_generator.py:230-239`), and the command prints the three as
  its "Best result" (`cli/main.py:1000-1004`); data of a single label makes it
  raise in the diagnosis, without a report;
* `shard` removes no file (`integrations/sharding.py:65-94`), so that after a
  larger earlier split `parts/partition-*.jsonl` (`docs/cli-reference.md:103`)
  also names partitions of that one, whose rows then are in the merged dataset;
  and the indices up to the number asked for, as in the Airflow and Dagster
  examples, name files of the earlier split, or no file, when there are fewer
  rows than partitions;
* `augment` drops originals whose normalized text is empty or repeats an earlier
  one (`optimizers/augmenter.py:177-185`), where each chunk begins with "Keep
  originals" (line 103), and raises for the whole partition if one row has no
  scalar label (line 166);
* a merge without rejected rows leaves an older `.rejected.jsonl` beside its
  output (`integrations/sharding.py:154`), and a command that writes no
  companions leaves those of an earlier `optimize` beside a partition's output,
  where merge counts them. `RowsOnceThroughShards` therefore reads the final
  rejected file only where the report counts rejected rows, and starts from
  empty output directories of the partitions; the directories of the partitions
  and of the merged file may hold an earlier dataset's.

## The plan

Done: the store with its abstract lifecycle and proofs, then workers,
submission, attempts and pipeline, then plugins and provider calls, sign-in and
data keys, and the dataset commands, in the order of how much of the system
rests on each.

Done as proofs: the invariants of the store and its refinement, then of
attempts, sign-in and data keys, plugins and provider calls, the pipeline,
workers, submission, the accuracy gate and sharded runs.

If the model is to grow: webhooks and lineage as further clients of the store,
the managed accuracy gate inside the executor.

## Not modelled

Signatures, encryption and hashes are assumed to be what they are called.
Detection of personal data, scoring, training and embedding are choices: what
they compute is floating-point or a model's answer; prompts, templates and the
weak labels that steer them are text. The mock modes of clients and of the
server are test doubles. Roles, the CSRF comparison, nonces, a static JWKS and
the checks of algorithm and issuer are predicates of one request, as is the
access policy of one command. Token usage
is followed to the client's counters, not into reports and merges. The audit
store, SBOM and contracts, the network guard, reports, the synthesizer, imports
and exports, cloud paths, charts and benchmarks have no state of their own that
interleaves. The reasons for each part are in `PROJECT.json`, `components`.
