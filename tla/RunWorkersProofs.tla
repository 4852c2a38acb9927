--------------------------- MODULE RunWorkersProofs ---------------------------
(***************************************************************************)
(* What holds of managed runs while any number of workers and local        *)
(* runners execute them, users and operators interfere, and processes and  *)
(* messages are lost.  All of it rests on the store: every step here is a  *)
(* transaction of RunStore or leaves its rows alone, so what is proved of  *)
(* the store holds of this system.                                         *)
(***************************************************************************)
EXTENDS RunWorkers, TLAPS

Proofs == INSTANCE RunStoreProofs WITH
  Keys <- {}, Bodies <- Policies, Manifests <- {"manifest"}, dsDeleted <- {}

StoreInv == Proofs!StoreInv

(* The parameters are ones the store's theorems are about.                 *)
LEMMA StoreAssumptions ==
  Proofs!SpecsAssumption /\ Proofs!NamesAssumption /\ Proofs!TimeAssumption
BY WorkersStoreAssumption
DEF Proofs!SpecsAssumption, Proofs!NamesAssumption, Proofs!TimeAssumption

(* The types of the columns that tell a run's state.                       *)
LEMMA Columns ==
  ASSUME StoreInv
  PROVE  /\ status \in [Runs -> {"absent", "queued", "running"} \cup Terminal]
         /\ lease \in [Runs -> Leases \cup {None}]
         /\ issued \subseteq Leases /\ cancelRequested \subseteq Runs
         /\ spec \in [Runs -> Specs \cup {None}] /\ policy \in [Projects -> Policies]
         /\ now \in Nat
         /\ \A r \in Runs : status[r] # "absent" => Home(r) \in Projects
         /\ \A r \in Runs : lease[r] # None <=> status[r] = "running"
         /\ \A r \in Runs : lease[r] # None => lease[r] \in issued
BY WorkersStoreAssumption
DEF StoreInv, Proofs!StoreInv, Proofs!TypeOK, Proofs!LeaseFencing, Proofs!Status, Proofs!Terminal,
    Proofs!Exists, Terminal, Store!Terminal, Home, Store!ProjectOf

-----------------------------------------------------------------------------
(* The transactions are the store's.                                       *)

(* Transactions that no run's status notices are the store's.              *)
LEMMA QuietTransactions ==
  /\ \A p \in Projects, d \in Datasets : Store!AddDataset(p, d) => Proofs!Next
  /\ \A p \in Projects, b \in Policies : Store!UpdateProject(p, b) => Proofs!Next
  /\ \A p \in Projects, r \in Runs, l \in issued : Store!Heartbeat(p, r, l) => Proofs!Next
  /\ Store!Tick => Proofs!Next
<1> USE DEF Store!projectVars, Store!datasetVars, Store!submittedVars,
            Proofs!projectVars, Proofs!datasetVars, Proofs!submittedVars
<1>1. ASSUME NEW p \in Projects, NEW d \in Datasets, Store!AddDataset(p, d)
      PROVE  Proofs!Next
  BY <1>1 DEF Store!AddDataset, Proofs!AddDataset, Proofs!Admin, Proofs!Next
<1>2. ASSUME NEW p \in Projects, NEW b \in Policies, Store!UpdateProject(p, b)
      PROVE  Proofs!Next
  BY <1>2 DEF Store!UpdateProject, Proofs!UpdateProject, Proofs!Admin, Proofs!Next
<1>3. ASSUME NEW p \in Projects, NEW r \in Runs, NEW l \in issued, Store!Heartbeat(p, r, l)
      PROVE  Proofs!Next
  <2>1. Proofs!Heartbeat(p, r, l)
    BY <1>3 DEF Store!Heartbeat, Store!LeaseValid, Store!ProjectOf,
                Proofs!Heartbeat, Proofs!LeaseValid, Proofs!ProjectOf
  <2> QED
    BY <2>1 DEF Proofs!Known, Proofs!Beating, Proofs!Next
<1>4. ASSUME Store!Tick PROVE Proofs!Next
  BY <1>4 DEF Store!Tick, Proofs!Tick, Proofs!Next
<1> QED
  BY <1>1, <1>2, <1>3, <1>4

(* A submission without a key is a submission of the store.                *)
LEMMA SubmitTransaction ==
  ASSUME NEW s \in Specs, NEW r \in Runs, NEW b \in Policies, Store!Submit(s, None, r, b)
  PROVE  Proofs!Next
<1>1. Proofs!Submit(s, None, r, b)
  BY DEF Store!Submit, Store!Exists, Store!KeyUsed, Store!IdemKey, Store!DatasetsLive, Store!DatasetsOf,
         Store!Live, Store!projectVars, Store!datasetVars,
         Proofs!Submit, Proofs!Exists, Proofs!KeyUsed, Proofs!IdemKey, Proofs!DatasetsLive,
         Proofs!DatasetsOf, Proofs!Live, Proofs!projectVars, Proofs!datasetVars
<1> QED
  BY <1>1 DEF Proofs!Submission, Proofs!Next

(* A cancellation is one of the store.                                     *)
LEMMA CancelTransaction ==
  ASSUME NEW p \in Projects, NEW r \in Runs, Store!Cancel(p, r)
  PROVE  Proofs!Next
<1>1. Proofs!Cancel(p, r)
  BY DEF Store!Cancel, Store!CancelledStatus, Store!ProjectOf,
         Store!projectVars, Store!datasetVars, Store!submittedVars,
         Proofs!Cancel, Proofs!CancelledStatus, Proofs!ProjectOf,
         Proofs!projectVars, Proofs!datasetVars, Proofs!submittedVars
<1> QED
  BY <1>1 DEF Proofs!Cancelling, Proofs!Next

(* A claim of the oldest run, or of one run, is one of the store.          *)
LEMMA ClaimTransaction ==
  ASSUME NEW p \in Projects, NEW r \in Runs, NEW l \in Leases,
         Store!Claim(p, r, l) \/ Store!ClaimRun(p, r, l)
  PROVE  Proofs!Next
<1> USE DEF Store!datasetVars, Store!submittedVars, Proofs!datasetVars, Proofs!submittedVars
<1>1. Store!StartRun(p, r, l) => Proofs!StartRun(p, r, l)
  BY DEF Store!StartRun, Store!SlotFree, Proofs!StartRun, Proofs!SlotFree
<1>2. Store!Queued(p) = Proofs!Queued(p)
  BY DEF Store!Queued, Proofs!Queued, Store!ProjectOf, Proofs!ProjectOf
<1>3. Store!Claimable(p) = Proofs!Claimable(p)
  BY <1>2 DEF Store!Claimable, Proofs!Claimable, Store!Oldest, Proofs!Oldest
<1>4. Proofs!Claim(p, r, l) \/ Proofs!ClaimRun(p, r, l)
  BY <1>1, <1>2, <1>3 DEF Store!Claim, Store!ClaimRun, Proofs!Claim, Proofs!ClaimRun
<1> QED
  BY <1>4 DEF Proofs!Claiming, Proofs!Next

(* Finishing a run here is finishing it there, whoever asks.               *)
LEMMA SameFinish ==
  ASSUME NEW p, NEW r, NEW l, NEW st, NEW m, NEW sb, Store!Finish(p, r, l, st, m, sb)
  PROVE  Proofs!Finish(p, r, l, st, m, sb)
BY DEF Store!Finish, Store!LeaseValid, Store!ProjectOf, Store!NotRenewed, Store!FinalStatus,
       Store!Published, Store!EndEvent, Store!datasetVars, Store!submittedVars,
       Proofs!Finish, Proofs!LeaseValid, Proofs!ProjectOf, Proofs!NotRenewed, Proofs!FinalStatus,
       Proofs!Published, Proofs!EndEvent, Proofs!datasetVars, Proofs!submittedVars

(* A report with the manifest of a success is one of the store.            *)
LEMMA ReportTransaction ==
  ASSUME NEW p \in Projects, NEW r \in Runs, NEW l \in issued,
         NEW st \in {"succeeded", "failed", "cancelled"},
         Store!Finish(p, r, l, st, IF st = "succeeded" THEN "manifest" ELSE None, None)
  PROVE  Proofs!Next
<1> DEFINE m == IF st = "succeeded" THEN "manifest" ELSE None
<1>1. Proofs!Finish(p, r, l, st, m, None)
  BY SameFinish
<1>2. m \in {"manifest"} \cup {None} /\ ((st = "succeeded") <=> (m # None))
  BY WorkersStoreAssumption
<1> HIDE DEF m
<1>3. Proofs!Reporting
  BY <1>1, <1>2 DEF Proofs!Reporting, Proofs!Known, Proofs!Reported
<1> QED
  BY <1>3 DEF Proofs!Next

(* So is the interruption of a stale run, by the lease that was read.      *)
LEMMA InterruptTransaction ==
  ASSUME NEW p \in Projects, NEW r \in Runs, NEW l \in issued, NEW t \in 0 .. now,
         Store!Interrupt(p, r, l, t - StaleAfter)
  PROVE  Proofs!Next
<1>1. Proofs!Interrupt(p, r, l, t - StaleAfter)
  BY SameFinish DEF Store!Interrupt, Proofs!Interrupt
<1> QED
  BY <1>1 DEF Proofs!Recovering, Proofs!Known, Proofs!Next
-----------------------------------------------------------------------------
(* The inductive invariant.                                                *)

Recovered(r) == Recoveries /\ status[r] \in {"interrupted", "cancelled"}

Types ==
  /\ pc \in [Workers -> Steps]
  /\ job \in [Workers -> Runs \cup {None}]
  /\ token \in [Workers -> Leases \cup {None}]
  /\ report \in [Workers -> Terminal \cup {None}]
  /\ executor \in [Runs -> {"none", "running"} \cup Exits]
  /\ background \subseteq Runs \X Terminal
  /\ announced \subseteq Runs \X Terminal
  /\ faults \in Nat

(* A worker's claim: while the run is running its lease is the worker's,   *)
(* and until it reports, only a recovery ends it.                          *)
ClaimOK(w) ==
  /\ job[w] \in Runs /\ token[w] \in issued
  /\ status[job[w]] \in {"running"} \cup Terminal
  /\ status[job[w]] = "running" => lease[job[w]] = token[w]
  /\ pc[w] \in {"preparing", "responding", "supervising", "stopping",
                "reporting", "verifying", "committing"}
       => status[job[w]] = "running" \/ Recovered(job[w])

(* What its executor does, as its code believes.                           *)
ExecutorOK(w) ==
  /\ pc[w] \in {"preparing", "responding"} => executor[job[w]] = "none"
  /\ pc[w] \in {"supervising", "stopping"} => executor[job[w]] # "none"
  /\ pc[w] \in {"reporting", "verifying", "committing"} => executor[job[w]] \in Exits
  /\ pc[w] = "aborting" => executor[job[w]] # "running"

(* What it reports is what happened.                                       *)
ReportOK(w) ==
  /\ pc[w] = "stopping" => report[w] \in {"cancelled", "failed"}
  /\ pc[w] \in {"reporting", "committing"} => report[w] \in {"succeeded", "failed", "cancelled"}
  /\ pc[w] = "verifying" => report[w] = "succeeded"
  /\ pc[w] \in {"reporting", "verifying"} /\ report[w] = "succeeded" => executor[job[w]] # "failed"
  /\ pc[w] = "committing" /\ report[w] = "succeeded" => executor[job[w]] = "good"
  /\ pc[w] \in {"publishing", "announcing"} => report[w] = status[job[w]] /\ report[w] \in Terminal
  /\ pc[w] = "announcingFailure" => status[job[w]] \in Terminal

WorkerOK(w) ==
  \/ pc[w] = "idle" /\ job[w] = None
  \/ pc[w] # "idle" /\ ClaimOK(w) /\ ExecutorOK(w) /\ ReportOK(w)

OneWorkerPerRun == \A v, w \in Workers : job[v] = job[w] /\ job[v] # None => v = w

RunOK(r) ==
  /\ status[r] \in {"absent", "queued"} => executor[r] = "none"
  /\ executor[r] = "running" => status[r] = "running" \/ Recovered(r)
  /\ status[r] = "succeeded" => executor[r] = "good"
  /\ status[r] = "running" /\ Unattended(r) =>
        faults > 0 \/ executor[r] = "bad" \/ CredentialsRefused(r)

RecoveryOK ==
  recovery # None => /\ Recoveries /\ recovery.run \in Runs
                     /\ recovery.lease \in issued /\ recovery.at \in Nat

AnnouncementOK(a) ==
  status[a[1]] \in Terminal /\ (a[2] = "succeeded" => status[a[1]] = "succeeded")

Inv ==
  /\ StoreInv /\ Types
  /\ \A w \in Workers : WorkerOK(w)
  /\ OneWorkerPerRun
  /\ \A r \in Runs : RunOK(r)
  /\ RecoveryOK
  /\ \A a \in announced \cup background : AnnouncementOK(a)
-----------------------------------------------------------------------------
(* Steps that concern one run and one worker at most.                      *)

LocalSame(v) == UNCHANGED <<pc[v], job[v], token[v], report[v]>>
RunSame(r) ==
  status'[r] = status[r] /\ lease'[r] = lease[r] /\ executor'[r] = executor[r] /\ spec'[r] = spec[r]

(* Nothing outside the workers W and the run r changes.                    *)
Concerns(W, r) ==
  /\ \A v \in Workers \ W : LocalSame(v) /\ job[v] # r
  /\ \A v, w \in W : v = w
  /\ \A v \in W : job[v] \in {r, None} /\ job'[v] \in {r, None}
  /\ \A q \in Runs \ {r} : RunSame(q)
  /\ status[r] \in Terminal => status'[r] = status[r]
  /\ issued \subseteq issued' /\ faults' >= faults

(* No worker is confused by steps that concern others.                     *)
LEMMA OthersStay ==
  ASSUME NEW v \in Workers, WorkerOK(v), LocalSame(v), issued \subseteq issued',
         job[v] \in Runs => RunSame(job[v])
  PROVE  WorkerOK(v)'
<1>1. CASE pc[v] = "idle"
  BY <1>1 DEF WorkerOK, LocalSame
<1>2. CASE pc[v] # "idle"
  <2>1. job[v] \in Runs /\ job'[v] = job[v] /\ RunSame(job[v])
    BY <1>2 DEF WorkerOK, ClaimOK, LocalSame
  <2>2. ClaimOK(v)'
    BY <1>2, <2>1 DEF WorkerOK, ClaimOK, LocalSame, RunSame, Recovered
  <2>3. ExecutorOK(v)' /\ ReportOK(v)'
    BY <1>2, <2>1 DEF WorkerOK, ExecutorOK, ReportOK, LocalSame, RunSame
  <2> QED
    BY <1>2, <2>2, <2>3 DEF WorkerOK, LocalSame
<1> QED
  BY <1>1, <1>2

(* A step about the workers W, of which there is one at most, and about    *)
(* run r keeps the invariant if it keeps it for them.                      *)
LEMMA LocalStep ==
  ASSUME Inv, StoreInv', Types', RecoveryOK',
         NEW W \in SUBSET Workers, NEW r \in Runs, Concerns(W, r),
         \A w \in W : WorkerOK(w)',
         RunOK(r)',
         \A a \in announced' \cup background' :
            a \in announced \cup background \/ AnnouncementOK(a)'
  PROVE  Inv'
<1>1. \A v \in Workers : WorkerOK(v)'
  <2>1. ASSUME NEW v \in Workers \ W PROVE WorkerOK(v)'
    BY OthersStay DEF Inv, Concerns
  <2> QED
    BY <2>1
<1>2. OneWorkerPerRun'
  <2>1. SUFFICES ASSUME NEW v \in Workers, NEW w \in Workers, job'[v] = job'[w], job'[v] # None
                 PROVE  v = w
    BY DEF OneWorkerPerRun
  <2>2. CASE v \in W /\ w \in W
    BY <2>2 DEF Concerns
  <2>3. CASE v \notin W /\ w \notin W
    BY <2>1, <2>3 DEF Concerns, LocalSame, Inv, OneWorkerPerRun
  <2>4. CASE v \in W /\ w \notin W
    BY <2>1, <2>4 DEF Concerns, LocalSame
  <2>5. CASE v \notin W /\ w \in W
    BY <2>1, <2>5 DEF Concerns, LocalSame
  <2> QED
    BY <2>2, <2>3, <2>4, <2>5
<1>3. \A q \in Runs : RunOK(q)'
  <2>1. SUFFICES ASSUME NEW q \in Runs \ {r} PROVE RunOK(q)'
    OBVIOUS
  <2>2. RunSame(q) /\ RunOK(q)
    BY DEF Concerns, Inv
  <2>3. Unattended(q)' => Unattended(q)
    <3>1. \A v \in Workers : job[v] = q => job'[v] = q
      BY WorkersStoreAssumption DEF Concerns, LocalSame
    <3> QED
      BY <3>1 DEF Unattended
  <2>4. faults > 0 => faults' > 0
    BY DEF Concerns, Inv, Types
  <2> QED
    BY <2>2, <2>3, <2>4 DEF RunOK, RunSame, Recovered, CredentialsRefused, Home, Store!ProjectOf
<1>4. ASSUME NEW a \in announced' \cup background' PROVE AnnouncementOK(a)'
  <2>1. CASE a \in announced \cup background
    <3>1. AnnouncementOK(a) /\ a[1] \in Runs
      BY <2>1 DEF Inv, Types
    <3>2. status'[a[1]] = status[a[1]]
      BY <3>1 DEF Concerns, RunSame, AnnouncementOK
    <3> QED
      BY <3>1, <3>2 DEF AnnouncementOK
  <2> QED
    BY <2>1
<1> QED
  BY <1>1, <1>2, <1>3, <1>4 DEF Inv

(* Steps that no worker and no run notices.                                *)
LEMMA QuietStep ==
  ASSUME Inv, StoreInv', Types', RecoveryOK', UNCHANGED <<pc, job, token, report>>,
         UNCHANGED <<status, lease, executor, issued, faults, spec>>,
         announced' \cup background' \subseteq announced \cup background
  PROVE  Inv'
<1>1. ASSUME NEW v \in Workers PROVE WorkerOK(v)'
  BY OthersStay DEF Inv, LocalSame, RunSame
<1>2. OneWorkerPerRun'
  BY DEF Inv, OneWorkerPerRun
<1>3. ASSUME NEW r \in Runs PROVE RunOK(r)'
  BY DEF Inv, RunOK, Recovered, Unattended, CredentialsRefused, Home, Store!ProjectOf
<1>4. \A a \in announced' \cup background' : AnnouncementOK(a)'
  BY DEF Inv, AnnouncementOK
<1> QED
  BY <1>1, <1>2, <1>3, <1>4 DEF Inv

-----------------------------------------------------------------------------
(* What users and the clock do.                                            *)

(* A transaction of the store leaves its invariant.                        *)
LEMMA StoreKept ==
  ASSUME StoreInv, Proofs!Next \/ UNCHANGED storeVars
  PROVE  StoreInv'
<1>1. UNCHANGED storeVars => UNCHANGED Proofs!vars
  BY DEF storeVars, Proofs!vars
<1> QED
  BY <1>1, StoreAssumptions, Proofs!StoreStep DEF StoreInv

(* Registrations, policy updates and the clock disturb no worker.          *)
LEMMA UsersKeep ==
  ASSUME Inv, RegisterDataset \/ UpdatePolicy \/ Tick
  PROVE  Inv'
<1>1. StoreInv'
  BY QuietTransactions, StoreKept DEF Inv, RegisterDataset, UpdatePolicy, Tick
<1>2. /\ UNCHANGED <<pc, job, token, report, executor, background, announced, recovery, faults>>
      /\ UNCHANGED <<status, lease, issued, spec>>
  BY DEF RegisterDataset, UpdatePolicy, Tick, workerVars, Store!AddDataset, Store!UpdateProject, Store!Tick,
         Store!projectVars, Store!datasetVars, Store!submittedVars
<1>3. Types' /\ RecoveryOK'
  BY <1>2 DEF Inv, Types, RecoveryOK
<1> QED
  BY <1>1, <1>2, <1>3, QuietStep

(* A submitted run has no executor and no worker.                          *)
LEMMA SubmitKeeps ==
  ASSUME Inv, SubmitRun
  PROVE  Inv'
<1>1. PICK s \in Specs, r \in Runs : Store!Submit(s, None, r, policy[s.project])
  BY DEF SubmitRun
<1>2. policy[s.project] \in Policies
  BY Columns, WorkersStoreAssumption DEF Inv
<1>3. StoreInv'
  BY <1>1, <1>2, SubmitTransaction, StoreKept DEF Inv
<1>4. /\ UNCHANGED <<pc, job, token, report, executor, background, announced, recovery, faults>>
      /\ UNCHANGED <<lease, issued>> /\ spec' = [spec EXCEPT ![r] = s]
      /\ status[r] = "absent" /\ status' = [status EXCEPT ![r] = "queued"]
  BY <1>1 DEF SubmitRun, workerVars, Store!Submit, Store!Exists
<1>5. Types' /\ RecoveryOK'
  BY <1>4 DEF Inv, Types, RecoveryOK
<1>6. /\ status \in [Runs -> {"absent", "queued", "running"} \cup Terminal]
      /\ spec \in [Runs -> Specs \cup {None}]
  BY Columns DEF Inv
<1>7. \A v \in Workers : job[v] # r
  BY <1>4, WorkersStoreAssumption DEF Inv, WorkerOK, ClaimOK, Terminal, Store!Terminal
<1>8. Concerns({}, r)
  BY <1>4, <1>6, <1>7 DEF Concerns, LocalSame, RunSame, Inv, Types, Terminal, Store!Terminal
<1>9. RunOK(r)'
  BY <1>4, <1>6 DEF Inv, RunOK, Terminal, Store!Terminal
<1> QED
  BY <1>3, <1>4, <1>5, <1>8, <1>9, LocalStep

(* A cancellation ends queued runs only, and those have no executor.       *)
LEMMA CancelKeeps ==
  ASSUME Inv, CancelRun
  PROVE  Inv'
<1>1. PICK r \in Runs, p \in Projects : Store!Cancel(p, r)
  BY DEF CancelRun
<1>2. StoreInv'
  BY <1>1, CancelTransaction, StoreKept DEF Inv
<1>3. /\ UNCHANGED <<pc, job, token, report, executor, background, announced, recovery, faults>>
      /\ UNCHANGED <<lease, issued, spec>>
      /\ status[r] \in {"queued", "running"}
      /\ status' = [status EXCEPT ![r] = IF status[r] = "queued" THEN "cancelled" ELSE "running"]
  BY <1>1 DEF CancelRun, workerVars, Store!Cancel, Store!CancelledStatus, Store!submittedVars
<1>4. Types' /\ RecoveryOK'
  BY <1>3 DEF Inv, Types, RecoveryOK
<1>5. status \in [Runs -> {"absent", "queued", "running"} \cup Terminal]
  BY Columns DEF Inv
<1>6. CASE status[r] = "running"
  <2>1. status' = status
    BY <1>3, <1>5, <1>6
  <2> QED
    BY <1>2, <1>3, <1>4, <2>1, QuietStep
<1>7. CASE status[r] = "queued"
  <2>1. \A v \in Workers : job[v] # r
    BY <1>7, WorkersStoreAssumption DEF Inv, WorkerOK, ClaimOK, Terminal, Store!Terminal
  <2>2. Concerns({}, r)
    BY <1>3, <1>5, <1>7, <2>1 DEF Concerns, LocalSame, RunSame, Inv, Types, Terminal, Store!Terminal
  <2>3. RunOK(r)'
    BY <1>3, <1>5, <1>7 DEF Inv, RunOK, Terminal, Store!Terminal
  <2> QED
    BY <1>2, <1>3, <1>4, <2>2, <2>3, LocalStep
<1> QED
  BY <1>3, <1>6, <1>7
-----------------------------------------------------------------------------
(* Executors, recoveries and background tasks.                             *)

(* A run's worker, if any, is the one concerned by what happens to it.     *)
LEMMA WorkerOf ==
  ASSUME Inv, NEW r \in Runs, UNCHANGED <<pc, job, token, report>>,
         \A q \in Runs \ {r} : RunSame(q), status[r] \in Terminal => status'[r] = status[r],
         issued \subseteq issued', UNCHANGED faults
  PROVE  Concerns({v \in Workers : job[v] = r}, r)
<1>1. \A v, w \in {v \in Workers : job[v] = r} : v = w
  BY WorkersStoreAssumption DEF Inv, OneWorkerPerRun
<1> QED
  BY <1>1 DEF Concerns, LocalSame, Inv, Types

(* An executor that exits does so in a run that is attended or lost.       *)
LEMMA ExecutorExitsKeeps ==
  ASSUME Inv, NEW r \in Runs, ExecutorExits(r)
  PROVE  Inv'
<1>1. PICK e \in Exits : executor' = [executor EXCEPT ![r] = e]
  BY WorkersAssumption DEF ExecutorExits
<1>2. /\ executor[r] = "running"
      /\ UNCHANGED <<pc, job, token, report, background, announced, recovery, faults>>
      /\ UNCHANGED storeVars
  BY DEF ExecutorExits, workerVars
<1>3. StoreInv' /\ UNCHANGED <<status, lease, issued, spec>>
  BY <1>2, StoreKept DEF Inv, storeVars
<1>4. Types' /\ RecoveryOK'
  BY <1>1, <1>2, <1>3 DEF Inv, Types, RecoveryOK
<1>5. executor'[r] = e /\ \A q \in Runs \ {r} : executor'[q] = executor[q]
  BY <1>1 DEF Inv, Types
<1> DEFINE W == {v \in Workers : job[v] = r}
<1>6. Concerns(W, r)
  <2>1. \A q \in Runs \ {r} : RunSame(q)
    BY <1>3, <1>5 DEF RunSame
  <2> QED
    BY <1>2, <1>3, <2>1, WorkerOf
<1>7. ASSUME NEW v \in W PROVE WorkerOK(v)'
  <2>1. pc[v] # "idle" /\ ClaimOK(v) /\ ExecutorOK(v) /\ ReportOK(v) /\ job[v] = r
    BY WorkersStoreAssumption DEF Inv, WorkerOK
  <2>2. pc[v] \notin {"preparing", "responding", "reporting", "verifying", "committing", "aborting"}
    BY <1>2, <2>1 DEF ExecutorOK, Exits
  <2>3. ClaimOK(v)'
    BY <1>2, <1>3, <2>1 DEF ClaimOK, Recovered
  <2>4. ExecutorOK(v)' /\ ReportOK(v)'
    BY <1>2, <1>3, <1>5, <2>1, <2>2 DEF ExecutorOK, ReportOK, Exits
  <2> QED
    BY <1>2, <2>1, <2>3, <2>4 DEF WorkerOK
<1>8. RunOK(r)'
  BY <1>2, <1>3, <1>5 DEF Inv, RunOK, Recovered, Unattended, CredentialsRefused, Exits
<1> HIDE DEF W
<1>9. W \in SUBSET Workers
  BY DEF W
<1> QED
  BY <1>2, <1>3, <1>4, <1>6, <1>7, <1>8, <1>9, LocalStep

(* The recovery remembers a lease that was issued.                         *)
LEMMA LookKeeps ==
  ASSUME Inv, LookForStale
  PROVE  Inv'
<1>1. PICK r \in Runs : Store!LooksStale(r) /\ recovery' = [run |-> r, lease |-> lease[r], at |-> now]
  BY DEF LookForStale
<1>2. /\ Recoveries /\ UNCHANGED <<pc, job, token, report, executor, background, announced, faults>>
      /\ UNCHANGED storeVars
  BY DEF LookForStale, workerVars
<1>3. StoreInv' /\ UNCHANGED <<status, lease, issued, spec>>
  BY <1>2, StoreKept DEF Inv, storeVars
<1>4. lease[r] \in issued /\ now \in Nat
  BY <1>1, Columns DEF Inv, Store!LooksStale
<1>5. Types' /\ RecoveryOK'
  BY <1>1, <1>2, <1>3, <1>4 DEF Inv, Types, RecoveryOK
<1> QED
  BY <1>2, <1>3, <1>5, QuietStep

(* A refused recovery changes nothing.                                     *)
LEMMA RecoveryRefusedKeeps ==
  ASSUME Inv, RecoveryRefused
  PROVE  Inv'
<1>1. /\ recovery' = None /\ UNCHANGED <<pc, job, token, report, executor, background, announced, faults>>
      /\ UNCHANGED storeVars
  BY DEF RecoveryRefused, workerVars
<1>2. StoreInv' /\ UNCHANGED <<status, lease, issued, spec>>
  BY <1>1, StoreKept DEF Inv, storeVars
<1>3. Types' /\ RecoveryOK'
  BY <1>1, <1>2 DEF Inv, Types, RecoveryOK
<1> QED
  BY <1>1, <1>2, <1>3, QuietStep

(* A background task announces the end it was queued for.                  *)
LEMMA RunBackgroundKeeps ==
  ASSUME Inv, RunBackground
  PROVE  Inv'
<1>1. PICK a \in background : DispatchWebhooks(a[1], a[2]) /\ background' = background \ {a}
  BY DEF RunBackground
<1>2. UNCHANGED <<pc, job, token, report, executor, recovery, faults>> /\ UNCHANGED storeVars
  BY DEF RunBackground, workerVars
<1>3. StoreInv' /\ UNCHANGED <<status, lease, issued, spec>>
  BY <1>2, StoreKept DEF Inv, storeVars
<1>4. announced' = announced \cup {a}
  BY <1>1 DEF Inv, Types, DispatchWebhooks
<1>5. Types' /\ RecoveryOK'
  BY <1>1, <1>2, <1>3, <1>4 DEF Inv, Types, RecoveryOK
<1> QED
  BY <1>1, <1>2, <1>3, <1>4, <1>5, QuietStep

(* How finish changes the row it is called for.                            *)
LEMMA FinishRow ==
  ASSUME StoreInv, NEW r \in Runs, NEW p, NEW l, NEW st, NEW m, NEW sb, Store!Finish(p, r, l, st, m, sb)
  PROVE  /\ status[r] = "running" /\ lease[r] = l /\ UNCHANGED <<issued, spec>>
         /\ status'[r] = IF r \in cancelRequested THEN "cancelled" ELSE st
         /\ \A q \in Runs \ {r} : status'[q] = status[q] /\ lease'[q] = lease[q]
BY Columns DEF Store!Finish, Store!LeaseValid, Store!FinalStatus, Store!submittedVars

(* A recovered run ends while its worker may still supervise it.           *)
LEMMA InterruptKeeps ==
  ASSUME Inv, InterruptStale
  PROVE  Inv'
<1>0. PICK r \in Runs : r = recovery.run
  BY DEF Inv, RecoveryOK, InterruptStale
<1> DEFINE W == {v \in Workers : job[v] = r}
<1>1. PICK t \in recovery.at .. now : Store!Interrupt(Home(r), r, recovery.lease, t - StaleAfter)
  BY <1>0 DEF InterruptStale
<1>2. /\ recovery # None /\ recovery' = None
      /\ UNCHANGED <<pc, job, token, report, executor, background, announced, faults>>
  BY DEF InterruptStale, workerVars
<1>3. /\ Recoveries /\ r \in Runs /\ recovery.lease \in issued /\ t \in 0 .. now
  BY <1>1, <1>2, Columns DEF Inv, RecoveryOK
<1>4. /\ status[r] = "running" /\ UNCHANGED <<issued, spec>>
      /\ status'[r] \in {"cancelled", "interrupted"}
      /\ \A q \in Runs \ {r} : status'[q] = status[q] /\ lease'[q] = lease[q]
  BY <1>1, <1>3, FinishRow DEF Inv, Store!Interrupt
<1>5. Home(r) \in Projects
  BY <1>3, <1>4, Columns DEF Inv
<1>6. StoreInv'
  BY <1>1, <1>3, <1>5, InterruptTransaction, StoreKept DEF Inv
<1>7. Types' /\ RecoveryOK'
  BY <1>2 DEF Inv, Types, RecoveryOK
<1>8. Concerns(W, r)
  <2>1. \A q \in Runs \ {r} : RunSame(q)
    BY <1>2, <1>4 DEF RunSame
  <2>2. status[r] \notin Terminal
    BY <1>4 DEF Terminal, Store!Terminal
  <2> QED
    BY <1>2, <1>3, <1>4, <2>1, <2>2, WorkerOf
<1>9. ASSUME NEW v \in W PROVE WorkerOK(v)'
  <2>1. pc[v] # "idle" /\ ClaimOK(v) /\ ExecutorOK(v) /\ ReportOK(v) /\ job[v] = r
    BY <1>3, WorkersStoreAssumption DEF Inv, WorkerOK
  <2>2. pc[v] \notin {"publishing", "announcing", "announcingFailure"}
    BY <1>4, <2>1 DEF ReportOK, Terminal, Store!Terminal
  <2>3. ClaimOK(v)'
    BY <1>2, <1>3, <1>4, <2>1 DEF ClaimOK, Recovered, Terminal, Store!Terminal
  <2>4. ExecutorOK(v)' /\ ReportOK(v)'
    BY <1>2, <1>4, <2>1, <2>2 DEF ExecutorOK, ReportOK
  <2> QED
    BY <1>2, <2>1, <2>3, <2>4 DEF WorkerOK
<1>10. RunOK(r)'
  BY <1>2, <1>3, <1>4 DEF Inv, RunOK, Recovered
<1> HIDE DEF W
<1>11. W \in SUBSET Workers
  BY DEF W
<1> QED
  BY <1>2, <1>3, <1>6, <1>7, <1>8, <1>9, <1>10, <1>11, LocalStep

(* A crash of the server idles the workers it served, and counts as a      *)
(* fault.                                                                  *)
LEMMA CrashServerKeeps ==
  ASSUME Inv, CrashServer
  PROVE  Inv'
<1>1. /\ \A w \in Workers : \/ /\ pc'[w] = "idle" /\ job'[w] = None /\ token'[w] = None /\ report'[w] = None
                            \/ LocalSame(w)
      /\ pc' \in [Workers -> Steps] /\ job' \in [Workers -> Runs \cup {None}]
      /\ token' \in [Workers -> Leases \cup {None}] /\ report' \in [Workers -> Terminal \cup {None}]
  BY DEF CrashServer, LocalSame, Inv, Types, Steps
<1>2. /\ background' = {} /\ recovery' = None /\ faults' = faults + 1
      /\ UNCHANGED <<executor, announced>> /\ UNCHANGED storeVars
  BY DEF CrashServer, Fault
<1>3. StoreInv' /\ UNCHANGED <<status, lease, issued, spec>>
  BY <1>2, StoreKept DEF Inv, storeVars
<1>4. Types' /\ RecoveryOK'
  BY <1>1, <1>2 DEF Inv, Types, RecoveryOK
<1>5. ASSUME NEW w \in Workers PROVE WorkerOK(w)'
  <2>1. CASE LocalSame(w)
    BY <1>2, <1>3, <2>1, OthersStay DEF Inv, RunSame
  <2>2. CASE pc'[w] = "idle" /\ job'[w] = None
    BY <2>2 DEF WorkerOK
  <2> QED
    BY <1>1, <2>1, <2>2
<1>6. OneWorkerPerRun'
  BY <1>1 DEF Inv, OneWorkerPerRun, LocalSame
<1>7. ASSUME NEW r \in Runs PROVE RunOK(r)'
  <2>1. faults' > 0
    BY <1>2 DEF Inv, Types
  <2> QED
    BY <1>2, <1>3, <2>1 DEF Inv, RunOK, Recovered
<1>8. \A a \in announced' \cup background' : AnnouncementOK(a)'
  BY <1>2, <1>3 DEF Inv, AnnouncementOK
<1> QED
  BY <1>3, <1>4, <1>5, <1>6, <1>7, <1>8 DEF Inv
-----------------------------------------------------------------------------
(* How the steps of a worker move its own control.                         *)

(* Goto changes the step of one worker and nothing else.                   *)
LEMMA GotoRow ==
  ASSUME Types, NEW w \in Workers, NEW s \in Steps, Goto(w, s)
  PROVE  /\ pc'[w] = s /\ UNCHANGED <<job, token, report>>
         /\ pc' \in [Workers -> Steps] /\ \A v \in Workers \ {w} : LocalSame(v)
BY DEF Types, Goto, LocalSame

(* A worker that returns gives its run up.                                 *)
LEMMA ReturnRow ==
  ASSUME Types, NEW w \in Workers, Return(w)
  PROVE  /\ pc'[w] = "idle" /\ job'[w] = None
         /\ \A v \in Workers \ {w} : LocalSame(v)
         /\ pc' \in [Workers -> Steps] /\ job' \in [Workers -> Runs \cup {None}]
         /\ token' \in [Workers -> Leases \cup {None}] /\ report' \in [Workers -> Terminal \cup {None}]
BY DEF Types, Return, LocalSame, Steps

(* Steps of a worker on the run it claimed.                                *)
LEMMA OwnStep ==
  ASSUME Inv, StoreInv', Types', NEW w \in Workers, NEW r \in Runs, job[w] = r, job'[w] \in {r, None},
         \A v \in Workers \ {w} : LocalSame(v), \A q \in Runs \ {r} : RunSame(q),
         status[r] \in Terminal => status'[r] = status[r],
         UNCHANGED <<issued, recovery>>, faults' >= faults,
         WorkerOK(w)', RunOK(r)',
         \A a \in announced' \cup background' : a \in announced \cup background \/ AnnouncementOK(a)'
  PROVE  Inv'
<1>1. \A v \in Workers \ {w} : job[v] # r
  BY WorkersStoreAssumption DEF Inv, OneWorkerPerRun
<1>2. Concerns({w}, r)
  BY <1>1 DEF Concerns
<1>3. RecoveryOK'
  BY DEF Inv, RecoveryOK
<1> QED
  BY <1>2, <1>3, LocalStep

(* The executor is left alone, or killed.                                  *)
Spared(r) ==
  /\ executor' \in [Runs -> {"none", "running"} \cup Exits]
  /\ \A q \in Runs \ {r} : executor'[q] = executor[q]
  /\ executor'[r] = executor[r] \/ (executor[r] = "running" /\ executor'[r] = "failed")

(* A worker's run stays in order if it has ended, keeps its worker, or     *)
(* loses it by a fault.                                                    *)
LEMMA SparedRun ==
  ASSUME Inv, NEW w \in Workers, pc[w] # "idle", NEW r \in Runs, job[w] = r, Spared(r),
         UNCHANGED status, faults' >= faults,
         \/ Unattended(r)' => \/ status[r] # "running" \/ faults' > 0 \/ executor'[r] = "bad"
                              \/ CredentialsRefused(r)'
         \/ job'[w] = r
  PROVE  RunOK(r)'
<1>1. RunOK(r) /\ status[r] \in {"running"} \cup Terminal
  BY DEF Inv, WorkerOK, ClaimOK
<1>2. job'[w] = r => ~ Unattended(r)'
  BY DEF Unattended
<1> QED
  BY <1>1, <1>2 DEF RunOK, Recovered, Spared, Exits, Terminal, Store!Terminal

(* What a step of a worker leaves alone when it commits nothing.           *)
Uncommitted == UNCHANGED storeVars /\ UNCHANGED recovery /\ faults' \in Nat /\ faults' >= faults

(* Steps outside the store leave its invariant.                            *)
LEMMA StoreSame ==
  ASSUME Inv, Uncommitted
  PROVE  StoreInv' /\ UNCHANGED <<status, lease, issued, spec>>
BY StoreKept DEF Inv, Uncommitted, storeVars

(* A worker goes on.                                                       *)
LEMMA GotoKeeps ==
  ASSUME Inv, NEW w \in Workers, pc[w] # "idle", NEW s \in Steps, Goto(w, s), Uncommitted,
         NEW r \in Runs, job[w] = r, Spared(r), UNCHANGED <<background, announced>>, WorkerOK(w)'
  PROVE  Inv'
<1>1. StoreInv' /\ UNCHANGED <<status, lease, issued, spec>>
  BY StoreSame
<1>2. /\ UNCHANGED <<job, token, report>>
      /\ pc' \in [Workers -> Steps] /\ \A v \in Workers \ {w} : LocalSame(v)
  BY GotoRow DEF Inv
<1>3. Types'
  BY <1>2 DEF Inv, Types, Uncommitted, Spared
<1>4. RunOK(r)'
  BY <1>1, <1>2, SparedRun DEF Uncommitted
<1>5. \A q \in Runs \ {r} : RunSame(q)
  BY <1>1 DEF RunSame, Spared
<1> QED
  BY <1>1, <1>2, <1>3, <1>4, <1>5, OwnStep DEF Uncommitted

(* A worker gives its run up, which is over, or lost to a fault, or of a   *)
(* bad manifest, or without valid credentials.                             *)
LEMMA ReturnKeeps ==
  ASSUME Inv, NEW w \in Workers, pc[w] # "idle", Return(w), Uncommitted,
         NEW r \in Runs, job[w] = r, Spared(r),
         status[r] # "running" \/ faults' > 0 \/ executor'[r] = "bad" \/ CredentialsRefused(r)',
         background' \subseteq Runs \X Terminal, announced' \subseteq Runs \X Terminal,
         \A a \in announced' \cup background' : a \in announced \cup background \/ AnnouncementOK(a)'
  PROVE  Inv'
<1>1. StoreInv' /\ UNCHANGED <<status, lease, issued, spec>>
  BY StoreSame
<1>2. /\ pc'[w] = "idle" /\ job'[w] = None /\ \A v \in Workers \ {w} : LocalSame(v)
      /\ pc' \in [Workers -> Steps] /\ job' \in [Workers -> Runs \cup {None}]
      /\ token' \in [Workers -> Leases \cup {None}] /\ report' \in [Workers -> Terminal \cup {None}]
  BY ReturnRow DEF Inv
<1>3. Types'
  BY <1>2 DEF Types, Uncommitted, Spared
<1>4. WorkerOK(w)'
  BY <1>2 DEF WorkerOK
<1>5. RunOK(r)'
  BY <1>1, SparedRun DEF Uncommitted
<1>6. \A q \in Runs \ {r} : RunSame(q)
  BY <1>1 DEF RunSame, Spared
<1> QED
  BY <1>1, <1>2, <1>3, <1>4, <1>5, <1>6, OwnStep DEF Uncommitted

(* An exception in a worker.                                               *)
LEMMA RaiseKeeps ==
  ASSUME Inv, NEW w \in Workers, pc[w] # "idle", Raise(w), Uncommitted,
         NEW r \in Runs, job[w] = r, Spared(r), executor'[r] # "running",
         \/ w \in LocalRunners \/ pc[w] = "preparing"
         \/ status[r] # "running" \/ faults' > 0 \/ executor'[r] = "bad",
         UNCHANGED <<background, announced>>
  PROVE  Inv'
<1>1. CASE w \in LocalRunners \/ pc[w] = "preparing"
  <2>1. Goto(w, "aborting") /\ "aborting" \in Steps
    BY <1>1 DEF Raise, Steps
  <2>2. pc'[w] = "aborting" /\ UNCHANGED <<job, token, report>>
    BY <2>1, GotoRow DEF Inv
  <2>3. UNCHANGED <<status, lease, issued, spec>>
    BY StoreSame
  <2>4. ClaimOK(w)'
    BY <2>2, <2>3 DEF Inv, WorkerOK, ClaimOK
  <2>5. ExecutorOK(w)' /\ ReportOK(w)'
    BY <2>2 DEF ExecutorOK, ReportOK
  <2>6. WorkerOK(w)'
    BY <2>2, <2>4, <2>5 DEF WorkerOK
  <2> QED
    BY <2>1, <2>6, GotoKeeps
<1>2. CASE ~ (w \in LocalRunners \/ pc[w] = "preparing")
  <2>1. Return(w)
    BY <1>2 DEF Raise
  <2>2. background' \subseteq Runs \X Terminal /\ announced' \subseteq Runs \X Terminal
    BY DEF Inv, Types
  <2> QED
    BY <1>2, <2>1, <2>2, ReturnKeeps
<1> QED
  BY <1>1, <1>2

(* A worker whose lease is refused has lost its run.                       *)
LEMMA RefusedMeansOver ==
  ASSUME Inv, NEW w \in Workers, pc[w] # "idle", ~ HoldsLease(w)
  PROVE  status[job[w]] # "running"
BY DEF Inv, WorkerOK, ClaimOK, HoldsLease, Store!LeaseValid, Home

(* A busy worker's run.                                                    *)
LEMMA JobRun ==
  ASSUME Inv, NEW w \in Workers, pc[w] # "idle"
  PROVE  /\ job[w] \in Runs /\ Home(job[w]) \in Projects /\ token[w] \in issued
         /\ ClaimOK(w) /\ ExecutorOK(w) /\ ReportOK(w) /\ RunOK(job[w])
         /\ executor[job[w]] \in {"none", "running"} \cup Exits
<1>1. ClaimOK(w) /\ ExecutorOK(w) /\ ReportOK(w) /\ job[w] \in Runs
  BY DEF Inv, WorkerOK, ClaimOK
<1>2. Home(job[w]) \in Projects
  BY <1>1, Columns DEF Inv, ClaimOK, Terminal, Store!Terminal
<1> QED
  BY <1>1, <1>2 DEF Inv, Types, ClaimOK
-----------------------------------------------------------------------------
(* Claiming and preparing.                                                 *)

(* A claim gives a queued run, which has no executor, to one idle worker.  *)
LEMMA ClaimKeeps ==
  ASSUME Inv, NEW w \in Workers, ClaimNext(w) \/ ClaimGiven(w)
  PROVE  Inv'
<1>1. PICK p \in Projects, r \in Runs, l \in Leases :
         (Store!Claim(p, r, l) \/ Store!ClaimRun(p, r, l)) /\ Take(w, r, l)
  BY DEF ClaimNext, ClaimGiven
<1>2. StoreInv'
  BY <1>1, ClaimTransaction, StoreKept DEF Inv
<1>3. /\ status[r] = "queued" /\ status' = [status EXCEPT ![r] = "running"]
      /\ lease' = [lease EXCEPT ![r] = l] /\ issued' = issued \cup {l} /\ UNCHANGED spec
  BY <1>1 DEF Store!submittedVars, Store!Claim, Store!ClaimRun, Store!Claimable, Store!Oldest, Store!Queued, Store!StartRun
<1>4. /\ pc[w] = "idle" /\ pc' = [pc EXCEPT ![w] = "preparing"]
      /\ job' = [job EXCEPT ![w] = r] /\ token' = [token EXCEPT ![w] = l]
      /\ UNCHANGED <<report, executor, background, announced, recovery, faults>>
  BY <1>1 DEF Take, ClaimNext, ClaimGiven
<1>5. Types' /\ RecoveryOK'
  BY <1>3, <1>4 DEF Inv, Types, RecoveryOK, Steps, HandlerSteps
<1>6. /\ status \in [Runs -> {"absent", "queued", "running"} \cup Terminal]
      /\ lease \in [Runs -> Leases \cup {None}]
  BY Columns DEF Inv
<1>7. \A v \in Workers : job[v] # r
  BY <1>3, WorkersStoreAssumption DEF Inv, WorkerOK, ClaimOK, Terminal, Store!Terminal
<1>8. job[w] = None /\ executor[r] = "none"
  BY <1>3, <1>4 DEF Inv, WorkerOK, RunOK
<1>9. pc'[w] = "preparing" /\ job'[w] = r /\ token'[w] = l /\ status'[r] = "running" /\ lease'[r] = l
  BY <1>3, <1>4, <1>6 DEF Inv, Types
<1>10. Concerns({w}, r)
  <2>1. \A v \in Workers \ {w} : LocalSame(v)
    BY <1>4 DEF Inv, Types, LocalSame
  <2>2. \A q \in Runs \ {r} : RunSame(q)
    BY <1>3, <1>4, <1>6 DEF RunSame
  <2>3. status[r] \notin Terminal
    BY <1>3 DEF Terminal, Store!Terminal
  <2> QED
    BY <1>3, <1>4, <1>7, <1>8, <1>9, <2>1, <2>2, <2>3 DEF Concerns, Inv, Types
<1>11. WorkerOK(w)'
  <2>1. ClaimOK(w)'
    BY <1>3, <1>9 DEF ClaimOK
  <2>2. ExecutorOK(w)' /\ ReportOK(w)'
    BY <1>4, <1>8, <1>9 DEF ExecutorOK, ReportOK
  <2> QED
    BY <1>9, <2>1, <2>2 DEF WorkerOK
<1>12. RunOK(r)'
  <2>1. ~ Unattended(r)'
    BY <1>9 DEF Unattended
  <2> QED
    BY <1>4, <1>8, <1>9, <2>1 DEF RunOK
<1> QED
  BY <1>2, <1>4, <1>5, <1>10, <1>11, <1>12, LocalStep

(* The executor is started for a run that nobody has started.              *)
LEMMA StartExecutorKeeps ==
  ASSUME Inv, NEW w \in Workers, pc[w] \in {"preparing", "responding"}, StartExecutor(w),
         UNCHANGED storeVars, UNCHANGED <<background, announced, recovery, faults>>
  PROVE  Inv'
<1>1. PICK r \in Runs : r = job[w]
  BY JobRun
<1>2. ClaimOK(w) /\ RunOK(r)
  BY <1>1, JobRun
<1>3. executor' = [executor EXCEPT ![r] = "running"] /\ Goto(w, "supervising")
  BY <1>1 DEF StartExecutor
<1>4. /\ pc'[w] = "supervising" /\ UNCHANGED <<job, token, report>>
      /\ pc' \in [Workers -> Steps] /\ \A v \in Workers \ {w} : LocalSame(v)
  BY <1>3, GotoRow DEF Inv, Steps
<1>5. StoreInv' /\ UNCHANGED <<status, lease, issued, spec>>
  BY StoreKept DEF Inv, storeVars
<1>6. executor'[r] = "running" /\ \A q \in Runs \ {r} : executor'[q] = executor[q]
  BY <1>3 DEF Inv, Types
<1>7. Types'
  BY <1>3, <1>4 DEF Inv, Types
<1>8. WorkerOK(w)'
  <2>1. ClaimOK(w)'
    BY <1>2, <1>4, <1>5 DEF ClaimOK, Recovered
  <2>2. ExecutorOK(w)' /\ ReportOK(w)'
    BY <1>1, <1>4, <1>6 DEF ExecutorOK, ReportOK
  <2> QED
    BY <1>4, <2>1, <2>2 DEF WorkerOK
<1>9. RunOK(r)'
  <2>1. ~ Unattended(r)'
    BY <1>1, <1>4 DEF Unattended
  <2>2. status[r] = "running" \/ Recovered(r)
    BY <1>1, <1>2 DEF ClaimOK
  <2> QED
    BY <1>5, <2>1, <2>2 DEF RunOK, Recovered
<1>10. \A q \in Runs \ {r} : RunSame(q)
  BY <1>5, <1>6 DEF RunSame
<1> QED
  BY <1>1, <1>4, <1>5, <1>7, <1>8, <1>9, <1>10, OwnStep DEF Inv, Types

(* A prepared run gets its executor, or its worker gets the answer.        *)
LEMMA PrepareKeeps ==
  ASSUME Inv, NEW w \in Workers, Prepare(w)
  PROVE  Inv'
<1>1. pc[w] = "preparing" /\ UNCHANGED storeVars /\ UNCHANGED <<background, announced, recovery, faults>>
  BY DEF Prepare
<1>2. CASE StartExecutor(w)
  BY <1>1, <1>2, StartExecutorKeeps
<1>3. CASE Goto(w, "responding") /\ UNCHANGED executor
  <2>1. PICK r \in Runs : r = job[w]
    BY <1>1, JobRun
  <2>2. pc'[w] = "responding" /\ UNCHANGED <<job, token, report>> /\ "responding" \in Steps
    BY <1>3, GotoRow DEF Inv, Steps, HandlerSteps
  <2>3. Uncommitted /\ Spared(r)
    BY <1>1, <1>3 DEF Uncommitted, Spared, Inv, Types
  <2>4. UNCHANGED <<status, lease, issued, spec>>
    BY <2>3, StoreSame
  <2>5. ClaimOK(w)' /\ ExecutorOK(w)' /\ ReportOK(w)'
    BY <1>1, <1>3, <2>2, <2>4, JobRun DEF ClaimOK, Recovered, ExecutorOK, ReportOK
  <2>6. WorkerOK(w)'
    BY <2>2, <2>5 DEF WorkerOK
  <2> QED
    BY <1>1, <1>3, <2>1, <2>2, <2>3, <2>6, GotoKeeps
<1> QED
  BY <1>2, <1>3 DEF Prepare

(* A preparation that raises reports the failure of a run without an       *)
(* executor.                                                               *)
LEMMA PrepareRaisesKeeps ==
  ASSUME Inv, NEW w \in Workers, PrepareRaises(w)
  PROVE  Inv'
<1>1. /\ pc[w] = "preparing" /\ UNCHANGED storeVars /\ UNCHANGED <<background, announced, recovery, executor>>
      /\ faults' \in {faults, faults + 1} /\ Raise(w)
  BY DEF PrepareRaises, Fault
<1>2. PICK r \in Runs : r = job[w] /\ executor[r] = "none"
  BY <1>1, JobRun DEF ExecutorOK
<1>3. Uncommitted /\ Spared(r)
  BY <1>1 DEF Uncommitted, Spared, Inv, Types
<1> QED
  BY <1>1, <1>2, <1>3, RaiseKeeps

(* The answer to a claim starts the executor.                              *)
LEMMA ReceiveClaimKeeps ==
  ASSUME Inv, NEW w \in Workers, ReceiveClaim(w)
  PROVE  Inv'
BY StartExecutorKeeps DEF ReceiveClaim

(* A worker that raises before it has started the executor leaves the run  *)
(* by a fault, or refuses the credentials of its project.                  *)
LEMMA ClaimRaisesKeeps ==
  ASSUME Inv, NEW w \in Workers, ClaimRaises(w)
  PROVE  Inv'
<1>1. /\ pc[w] = "responding" /\ UNCHANGED storeVars /\ Return(w)
      /\ UNCHANGED <<executor, background, announced, recovery>>
      /\ \/ ~ SecretsValid(w) /\ UNCHANGED faults
         \/ faults' = faults + 1
  BY DEF ClaimRaises, RaiseSilently, Fault
<1>2. PICK r \in Runs : r = job[w] /\ executor[r] = "none"
  BY <1>1, JobRun DEF ExecutorOK
<1>3. Uncommitted /\ Spared(r)
  BY <1>1 DEF Uncommitted, Spared, Inv, Types
<1>4. faults' > 0 \/ CredentialsRefused(r)'
  <2>1. CASE ~ SecretsValid(w)
    BY <1>1, <1>2, <2>1 DEF SecretsValid, CredentialsRefused, Home, Store!ProjectOf, storeVars
  <2>2. CASE faults' = faults + 1
    BY <2>2 DEF Inv, Types
  <2> QED
    BY <1>1, <2>1, <2>2
<1> QED
  BY <1>1, <1>2, <1>3, <1>4, ReturnKeeps DEF Inv, Types
-----------------------------------------------------------------------------
(* Supervising.                                                            *)

(* A heartbeat changes nothing but its time.                               *)
LEMMA BeatKeeps ==
  ASSUME Inv, NEW w \in Workers, Beat(w)
  PROVE  Inv'
<1>1. PICK r \in Runs : r = job[w]
  BY JobRun DEF Beat
<1>2. /\ pc[w] = "supervising" /\ executor[r] = "running"
      /\ Store!Heartbeat(Home(r), r, token[w])
      /\ UNCHANGED <<executor, background, announced, recovery, faults>>
  BY <1>1 DEF Beat
<1>3. /\ Home(r) \in Projects /\ token[w] \in issued /\ ClaimOK(w) /\ ExecutorOK(w) /\ RunOK(r)
  BY <1>1, <1>2, JobRun
<1>4. StoreInv' /\ UNCHANGED <<status, lease, issued, spec>>
  <2>1. Proofs!Next
    BY <1>2, <1>3, QuietTransactions
  <2> QED
    BY <1>2, <2>1, StoreKept DEF Inv, Store!Heartbeat, Store!submittedVars
<1>5. CASE UNCHANGED workerVars
  <2>1. UNCHANGED <<pc, job, token, report>>
    BY <1>5 DEF workerVars
  <2>2. Types' /\ RecoveryOK'
    BY <1>2, <1>4, <2>1 DEF Inv, Types, RecoveryOK
  <2> QED
    BY <1>2, <1>4, <2>1, <2>2, QuietStep
<1>6. CASE /\ pc' = [pc EXCEPT ![w] = "stopping"]
           /\ report' = [report EXCEPT ![w] = "cancelled"]
           /\ UNCHANGED <<job, token>>
  <2>1. Types'
    BY <1>2, <1>6 DEF Inv, Types, Steps, Terminal, Store!Terminal
  <2>2. pc'[w] = "stopping" /\ report'[w] = "cancelled" /\ \A v \in Workers \ {w} : LocalSame(v)
    BY <1>6 DEF Inv, Types, LocalSame
  <2>3. ClaimOK(w)' /\ ExecutorOK(w)' /\ ReportOK(w)'
    BY <1>1, <1>2, <1>3, <1>4, <1>6, <2>2 DEF ClaimOK, Recovered, ExecutorOK, ReportOK
  <2>4. WorkerOK(w)'
    BY <2>2, <2>3 DEF WorkerOK
  <2>5. RunOK(r)'
    <3>1. ~ Unattended(r)'
      BY <1>1, <1>6 DEF Unattended
    <3> QED
      BY <1>2, <1>3, <1>4, <3>1 DEF RunOK, Recovered
  <2>6. \A q \in Runs \ {r} : RunSame(q)
    BY <1>2, <1>4 DEF RunSame
  <2> QED
    BY <1>1, <1>2, <1>4, <1>6, <2>1, <2>2, <2>4, <2>5, <2>6, OwnStep DEF Inv, Types
<1> QED
  BY <1>1, <1>5, <1>6 DEF Beat

(* A worker whose heartbeat is refused kills its executor and aborts.      *)
LEMMA BeatRefusedKeeps ==
  ASSUME Inv, NEW w \in Workers, BeatRefused(w)
  PROVE  Inv'
<1>1. PICK r \in Runs : r = job[w]
  BY JobRun DEF BeatRefused
<1>2. /\ pc[w] = "supervising" /\ executor[r] = "running" /\ ~ HoldsLease(w)
      /\ executor' = [executor EXCEPT ![r] = "failed"] /\ Raise(w)
      /\ UNCHANGED storeVars /\ UNCHANGED <<background, announced, recovery, faults>>
  BY <1>1 DEF BeatRefused
<1>3. status[r] # "running"
  BY <1>1, <1>2, RefusedMeansOver
<1>4. Uncommitted /\ Spared(r) /\ executor'[r] = "failed"
  BY <1>2 DEF Uncommitted, Spared, Inv, Types, Exits
<1> QED
  BY <1>1, <1>2, <1>3, <1>4, RaiseKeeps

(* What happens while an executor is supervised comes to a report.         *)
LEMMA ReportingKeeps ==
  ASSUME Inv, NEW w \in Workers, pc[w] # "idle", NEW s \in Steps, NEW st \in Terminal,
         pc' = [pc EXCEPT ![w] = s], report' = [report EXCEPT ![w] = st], UNCHANGED <<job, token, executor>>,
         UNCHANGED storeVars, UNCHANGED <<background, announced, recovery, faults>>, WorkerOK(w)'
  PROVE  Inv'
<1>1. PICK r \in Runs : r = job[w]
  BY JobRun
<1>2. Uncommitted /\ Spared(r)
  BY DEF Uncommitted, Spared, Inv, Types
<1>3. StoreInv' /\ UNCHANGED <<status, lease, issued, spec>>
  BY <1>2, StoreSame
<1>4. Types' /\ \A v \in Workers \ {w} : LocalSame(v)
  BY DEF Inv, Types, LocalSame
<1>5. RunOK(r)'
  BY <1>1, <1>2, <1>3, SparedRun DEF Uncommitted
<1>6. \A q \in Runs \ {r} : RunSame(q)
  BY <1>3 DEF RunSame
<1> QED
  BY <1>1, <1>3, <1>4, <1>5, <1>6, OwnStep DEF Inv, Types

(* A worker past its deadline stops its executor.                          *)
LEMMA DeadlineKeeps ==
  ASSUME Inv, NEW w \in Workers, DeadlinePasses(w)
  PROVE  Inv'
<1>1. /\ pc[w] = "supervising" /\ pc' = [pc EXCEPT ![w] = "stopping"]
      /\ report' = [report EXCEPT ![w] = "failed"]
      /\ UNCHANGED storeVars /\ UNCHANGED <<job, token, executor, background, announced, recovery, faults>>
  BY DEF DeadlinePasses
<1>2. "failed" \in Terminal /\ "stopping" \in Steps
  BY DEF Terminal, Store!Terminal, Steps
<1>3. pc'[w] = "stopping" /\ report'[w] = "failed"
  BY <1>1 DEF Inv, Types
<1>4. UNCHANGED <<status, lease, issued, spec>>
  BY <1>1 DEF storeVars
<1>5. ClaimOK(w)' /\ ExecutorOK(w)' /\ ReportOK(w)'
  BY <1>1, <1>3, <1>4, JobRun DEF ClaimOK, Recovered, ExecutorOK, ReportOK
<1>6. WorkerOK(w)'
  BY <1>3, <1>5 DEF WorkerOK
<1> QED
  BY <1>1, <1>2, <1>6, ReportingKeeps

(* A worker that finds its executor exited reports how it exited.          *)
LEMMA PollKeeps ==
  ASSUME Inv, NEW w \in Workers, Poll(w)
  PROVE  Inv'
<1> DEFINE st == IF executor[job[w]] = "failed" THEN "failed" ELSE "succeeded"
           s == AfterSupervise(w, st)
<1>1. /\ pc[w] = "supervising" /\ pc' = [pc EXCEPT ![w] = s]
      /\ report' = [report EXCEPT ![w] = st] /\ executor[job[w]] \notin {"none", "running"}
      /\ UNCHANGED storeVars /\ UNCHANGED <<job, token, executor, background, announced, recovery, faults>>
  BY DEF Poll
<1>2. /\ st \in Terminal /\ s \in {"reporting", "verifying", "committing"} /\ s \in Steps
      /\ s = "verifying" => st = "succeeded"
      /\ s = "committing" => st = "failed"
  BY DEF Terminal, Store!Terminal, Steps, HandlerSteps, AfterSupervise, Workers
<1>3. st \in {"succeeded", "failed"} /\ (st = "succeeded" => executor[job[w]] # "failed")
  OBVIOUS
<1> HIDE DEF st, s
<1>4. pc'[w] = s /\ report'[w] = st
  BY <1>1 DEF Inv, Types
<1>5. UNCHANGED <<status, lease, issued, spec>>
  BY <1>1 DEF storeVars
<1>6. ClaimOK(w)'
  BY <1>1, <1>5, JobRun DEF ClaimOK, Recovered
<1>7. ExecutorOK(w)' /\ ReportOK(w)'
  BY <1>1, <1>2, <1>3, <1>4, JobRun DEF ExecutorOK, ReportOK
<1>8. WorkerOK(w)'
  BY <1>2, <1>4, <1>6, <1>7 DEF WorkerOK
<1> QED
  BY <1>1, <1>2, <1>8, ReportingKeeps

(* A stopped executor has exited before its run is reported.               *)
LEMMA StopKeeps ==
  ASSUME Inv, NEW w \in Workers, Stop(w)
  PROVE  Inv'
<1> DEFINE s == AfterSupervise(w, report[w])
<1>1. PICK r \in Runs : r = job[w]
  BY JobRun DEF Stop
<1>2. /\ pc[w] = "stopping" /\ Kill(r) /\ Goto(w, s)
      /\ UNCHANGED storeVars /\ UNCHANGED <<background, announced, recovery, faults>>
  BY <1>1 DEF Stop
<1>3. report[w] \in {"cancelled", "failed"} /\ executor[r] \in {"running"} \cup Exits
  BY <1>1, <1>2, JobRun DEF ReportOK, ExecutorOK
<1>4. s \in {"reporting", "committing"} /\ s \in Steps
  BY <1>3 DEF AfterSupervise, Workers, Steps, HandlerSteps
<1> HIDE DEF s
<1>5. pc'[w] = s /\ UNCHANGED <<job, token, report>>
  BY <1>2, <1>4, GotoRow DEF Inv
<1>6. Uncommitted /\ Spared(r) /\ executor'[r] \in Exits
  BY <1>2, <1>3 DEF Uncommitted, Spared, Kill, Inv, Types, Exits
<1>7. UNCHANGED <<status, lease, issued, spec>>
  BY <1>6, StoreSame
<1>8. ClaimOK(w)'
  BY <1>2, <1>5, <1>7, JobRun DEF ClaimOK, Recovered
<1>9. ExecutorOK(w)' /\ ReportOK(w)'
  BY <1>1, <1>3, <1>4, <1>5, <1>6 DEF ExecutorOK, ReportOK, Exits
<1>10. WorkerOK(w)'
  BY <1>4, <1>5, <1>8, <1>9 DEF WorkerOK
<1> QED
  BY <1>1, <1>2, <1>4, <1>6, <1>10, GotoKeeps
-----------------------------------------------------------------------------
(* Finishing.                                                              *)

(* A report of success goes on to be verified, any other to be stored.     *)
LEMMA ReceiveFinishKeeps ==
  ASSUME Inv, NEW w \in Workers, ReceiveFinish(w)
  PROVE  Inv'
<1> DEFINE s == IF report[w] = "succeeded" THEN "verifying" ELSE "committing"
<1>1. PICK r \in Runs : r = job[w]
  BY JobRun DEF ReceiveFinish
<1>2. /\ pc[w] = "reporting" /\ Store!Heartbeat(Home(r), r, token[w]) /\ Goto(w, s)
      /\ UNCHANGED <<executor, background, announced, recovery, faults>>
  BY <1>1 DEF ReceiveFinish
<1>3. /\ Home(r) \in Projects /\ token[w] \in issued
      /\ ClaimOK(w) /\ ExecutorOK(w) /\ ReportOK(w) /\ RunOK(r)
  BY <1>1, <1>2, JobRun
<1>4. StoreInv' /\ UNCHANGED <<status, lease, issued, spec>>
  <2>1. Proofs!Next
    BY <1>2, <1>3, QuietTransactions
  <2> QED
    BY <1>2, <2>1, StoreKept DEF Inv, Store!Heartbeat, Store!submittedVars
<1>5. /\ s \in Steps /\ s \in {"verifying", "committing"}
      /\ s = "verifying" <=> report[w] = "succeeded"
  BY DEF Steps, HandlerSteps
<1> HIDE DEF s
<1>6. /\ pc'[w] = s /\ UNCHANGED <<job, token, report>>
      /\ pc' \in [Workers -> Steps] /\ \A v \in Workers \ {w} : LocalSame(v)
  BY <1>2, <1>5, GotoRow DEF Inv
<1>7. Types'
  BY <1>2, <1>6 DEF Inv, Types
<1>8. ClaimOK(w)'
  BY <1>2, <1>3, <1>4, <1>6 DEF ClaimOK, Recovered
<1>9. ExecutorOK(w)' /\ ReportOK(w)'
  BY <1>2, <1>3, <1>5, <1>6 DEF ExecutorOK, ReportOK
<1>10. WorkerOK(w)'
  BY <1>5, <1>6, <1>8, <1>9 DEF WorkerOK
<1>11. RunOK(r)'
  <2>1. ~ Unattended(r)'
    BY <1>1, <1>6 DEF Unattended
  <2> QED
    BY <1>2, <1>3, <1>4, <2>1 DEF RunOK, Recovered
<1>12. \A q \in Runs \ {r} : RunSame(q)
  BY <1>2, <1>4 DEF RunSame
<1> QED
  BY <1>1, <1>2, <1>4, <1>6, <1>7, <1>10, <1>11, <1>12, OwnStep DEF Inv, Types

(* A worker whose report is refused has a run that is over.                *)
LEMMA RefusedKeeps ==
  ASSUME Inv, NEW w \in Workers, FinishRefused(w) \/ CommitRefused(w)
  PROVE  Inv'
<1>1. /\ pc[w] \in {"reporting", "committing"} /\ ~ HoldsLease(w) /\ Raise(w)
      /\ UNCHANGED storeVars /\ UNCHANGED <<executor, background, announced, recovery, faults>>
  BY DEF FinishRefused, CommitRefused
<1>2. PICK r \in Runs : r = job[w] /\ executor[r] \in Exits
  BY <1>1, JobRun DEF ExecutorOK
<1>3. status[r] # "running"
  BY <1>1, <1>2, RefusedMeansOver
<1>4. Uncommitted /\ Spared(r) /\ executor'[r] # "running"
  BY <1>1, <1>2 DEF Uncommitted, Spared, Inv, Types, Exits
<1> QED
  BY <1>1, <1>2, <1>3, <1>4, RaiseKeeps

(* Only outputs that verify go on to be published.                         *)
LEMMA VerifyKeeps ==
  ASSUME Inv, NEW w \in Workers, VerifyManifest(w)
  PROVE  Inv'
<1>1. PICK r \in Runs : r = job[w]
  BY JobRun DEF VerifyManifest
<1>2. /\ pc[w] = "verifying" /\ UNCHANGED storeVars
      /\ UNCHANGED <<executor, background, announced, recovery, faults>>
  BY DEF VerifyManifest
<1>3. executor[r] \in {"good", "bad"} /\ report[w] = "succeeded"
  BY <1>1, <1>2, JobRun DEF ExecutorOK, ReportOK, Exits
<1>4. Uncommitted /\ Spared(r) /\ executor'[r] # "running"
  BY <1>2, <1>3 DEF Uncommitted, Spared, Inv, Types
<1>5. CASE executor[r] = "good"
  <2>1. Goto(w, "committing") /\ "committing" \in Steps
    BY <1>1, <1>5 DEF VerifyManifest, ManifestVerifies, Steps, HandlerSteps
  <2>2. pc'[w] = "committing" /\ UNCHANGED <<job, token, report>>
    BY <2>1, GotoRow DEF Inv
  <2>3. UNCHANGED <<status, lease, issued, spec>>
    BY <1>4, StoreSame
  <2>4. ClaimOK(w)' /\ ExecutorOK(w)' /\ ReportOK(w)'
    BY <1>1, <1>2, <1>3, <1>5, <2>2, <2>3, JobRun DEF ClaimOK, Recovered, ExecutorOK, ReportOK, Exits
  <2>5. WorkerOK(w)'
    BY <2>2, <2>4 DEF WorkerOK
  <2> QED
    BY <1>1, <1>2, <1>4, <2>1, <2>5, GotoKeeps
<1>6. CASE executor[r] = "bad"
  <2>1. Raise(w) /\ executor'[r] = "bad"
    BY <1>1, <1>2, <1>6 DEF VerifyManifest, ManifestVerifies
  <2> QED
    BY <1>1, <1>2, <1>4, <2>1, RaiseKeeps
<1> QED
  BY <1>3, <1>5, <1>6

(* Commit and Abort end a run whose executor is not at work.               *)
LEMMA EndingKeeps ==
  ASSUME Inv, NEW w \in Workers, pc[w] # "idle", NEW r \in Runs, job[w] = r,
         NEW st \in {"succeeded", "failed", "cancelled"},
         Store!Finish(Home(r), r, token[w], st, IF st = "succeeded" THEN "manifest" ELSE None, None),
         executor[r] # "running", st = "succeeded" => executor[r] = "good",
         UNCHANGED <<executor, background, announced, recovery, faults>>,
         Types', \A v \in Workers \ {w} : LocalSame(v), job'[w] = r, token'[w] = token[w],
         \/ pc'[w] = "publishing" /\ report'[w] = status'[r]
         \/ pc'[w] = "announcingFailure"
  PROVE  Inv'
<1>1. /\ Home(r) \in Projects /\ token[w] \in issued /\ ClaimOK(w) /\ RunOK(r)
  BY JobRun
<1>2. StoreInv'
  BY <1>1, ReportTransaction, StoreKept DEF Inv
<1>3. /\ status[r] = "running" /\ UNCHANGED <<issued, spec>>
      /\ status'[r] = IF r \in cancelRequested THEN "cancelled" ELSE st
      /\ \A q \in Runs \ {r} : status'[q] = status[q] /\ lease'[q] = lease[q]
  BY FinishRow DEF Inv
<1>4. status'[r] \in Terminal /\ status[r] \notin Terminal
  BY <1>3 DEF Terminal, Store!Terminal
<1>5. WorkerOK(w)'
  <2>1. ClaimOK(w)'
    BY <1>1, <1>3, <1>4 DEF ClaimOK, Terminal, Store!Terminal
  <2>2. ExecutorOK(w)' /\ ReportOK(w)'
    BY <1>4 DEF ExecutorOK, ReportOK
  <2> QED
    BY <2>1, <2>2 DEF WorkerOK
<1>6. RunOK(r)'
  BY <1>3, <1>4 DEF RunOK, Terminal, Store!Terminal
<1>7. \A q \in Runs \ {r} : RunSame(q)
  BY <1>3 DEF RunSame
<1> QED
  BY <1>2, <1>3, <1>4, <1>5, <1>6, <1>7, OwnStep DEF Inv, Types

(* The transaction that ends a run ends it as reported, or cancelled.      *)
LEMMA CommitKeeps ==
  ASSUME Inv, NEW w \in Workers, Commit(w)
  PROVE  Inv'
<1>1. PICK r \in Runs : r = job[w]
  BY JobRun DEF Commit
<1>2. /\ pc[w] = "committing"
      /\ Store!Finish(Home(r), r, token[w], report[w], IF report[w] = "succeeded" THEN "manifest" ELSE None, None)
      /\ pc' = [pc EXCEPT ![w] = "publishing"] /\ report' = [report EXCEPT ![w] = status'[r]]
      /\ UNCHANGED <<job, token, executor, background, announced, recovery, faults>>
  <2>1. FinishedAs(w) = status'[r]
    BY <1>1 DEF FinishedAs
  <2> QED
    BY <1>1, <2>1 DEF Commit
<1>3. /\ report[w] \in {"succeeded", "failed", "cancelled"} /\ executor[r] # "running"
      /\ report[w] = "succeeded" => executor[r] = "good"
  BY <1>1, <1>2, JobRun DEF ReportOK, ExecutorOK, Exits
<1>4. status'[r] \in Terminal
  <2>1. status'[r] = IF r \in cancelRequested THEN "cancelled" ELSE report[w]
    BY <1>2, FinishRow DEF Inv
  <2> QED
    BY <1>3, <2>1 DEF Terminal, Store!Terminal
<1>5. Types' /\ \A v \in Workers \ {w} : LocalSame(v)
  BY <1>2, <1>4 DEF Inv, Types, LocalSame, Steps, HandlerSteps
<1>6. pc'[w] = "publishing" /\ report'[w] = status'[r] /\ job'[w] = r /\ token'[w] = token[w]
  BY <1>1, <1>2 DEF Inv, Types
<1> QED
  BY <1>1, <1>2, <1>3, <1>5, <1>6, EndingKeeps

(* An aborted run fails, or is cancelled.                                  *)
LEMMA AbortKeeps ==
  ASSUME Inv, NEW w \in Workers, Abort(w)
  PROVE  Inv'
<1>1. PICK r \in Runs : r = job[w]
  BY JobRun DEF Abort
<1>2. /\ pc[w] = "aborting"
      /\ Store!Finish(Home(r), r, token[w], "failed", None, None)
      /\ Goto(w, "announcingFailure")
      /\ UNCHANGED <<executor, background, announced, recovery, faults>>
  BY <1>1 DEF Abort
<1>3. executor[r] # "running"
  BY <1>1, <1>2, JobRun DEF ExecutorOK
<1>4. /\ pc'[w] = "announcingFailure" /\ UNCHANGED <<job, token, report>>
      /\ pc' \in [Workers -> Steps] /\ \A v \in Workers \ {w} : LocalSame(v)
  BY <1>2, GotoRow DEF Inv, Steps
<1>5. Types'
  BY <1>2, <1>4 DEF Inv, Types
<1>6. Store!Finish(Home(r), r, token[w], "failed", IF "failed" = "succeeded" THEN "manifest" ELSE None, None)
  BY <1>2
<1> QED
  BY <1>1, <1>2, <1>3, <1>4, <1>5, <1>6, EndingKeeps

(* A run that a recovery ended first is left alone.                        *)
LEMMA AbortRefusedKeeps ==
  ASSUME Inv, NEW w \in Workers, AbortRefused(w)
  PROVE  Inv'
<1>1. /\ pc[w] = "aborting" /\ ~ HoldsLease(w) /\ Return(w) /\ UNCHANGED storeVars
      /\ UNCHANGED <<executor, background, announced, recovery, faults>>
  BY DEF AbortRefused
<1>2. PICK r \in Runs : r = job[w]
  BY <1>1, JobRun
<1>3. status[r] # "running"
  BY <1>1, <1>2, RefusedMeansOver
<1>4. Uncommitted /\ Spared(r)
  BY <1>1 DEF Uncommitted, Spared, Inv, Types
<1> QED
  BY <1>1, <1>2, <1>3, <1>4, ReturnKeeps DEF Inv, Types

(* What is announced is the status that was stored.                        *)
LEMMA PublishKeeps ==
  ASSUME Inv, NEW w \in Workers, Publish(w)
  PROVE  Inv'
<1>1. /\ pc[w] = "publishing" /\ UNCHANGED storeVars /\ UNCHANGED <<executor, announced, recovery, faults>>
  BY DEF Publish
<1>2. PICK r \in Runs : r = job[w]
  BY <1>1, JobRun
<1>3. report[w] = status[r] /\ report[w] \in Terminal /\ ClaimOK(w)
  BY <1>1, <1>2, JobRun DEF ReportOK
<1>4. Uncommitted /\ Spared(r) /\ UNCHANGED <<status, lease, issued, spec>>
  BY <1>1, StoreSame DEF Uncommitted, Spared, Inv, Types
<1>5. CASE background' = background \cup {<<job[w], report[w]>>} /\ Return(w)
  <2>1. PICK st \in Terminal : st = status[r] /\ background' = background \cup {<<r, st>>}
    BY <1>2, <1>3, <1>5
  <2>2. AnnouncementOK(<<r, st>>)'
    BY <1>4, <2>1 DEF AnnouncementOK
  <2>3. announced' \subseteq Runs \X Terminal /\ background' \subseteq Runs \X Terminal
    BY <1>1, <2>1 DEF Inv, Types
  <2>4. \A a \in announced' \cup background' : a \in announced \cup background \/ AnnouncementOK(a)'
    BY <1>1, <2>1, <2>2
  <2>5. status[r] # "running"
    BY <2>1 DEF Terminal, Store!Terminal
  <2> QED
    BY <1>1, <1>2, <1>4, <1>5, <2>3, <2>4, <2>5, ReturnKeeps
<1>6. CASE Goto(w, "announcing") /\ UNCHANGED background
  <2>1. pc'[w] = "announcing" /\ UNCHANGED <<job, token, report>> /\ "announcing" \in Steps
    BY <1>6, GotoRow DEF Inv, Steps
  <2>2. ClaimOK(w)' /\ ExecutorOK(w)' /\ ReportOK(w)'
    BY <1>1, <1>2, <1>3, <1>4, <2>1 DEF ClaimOK, ExecutorOK, ReportOK
  <2>3. WorkerOK(w)'
    BY <2>1, <2>2 DEF WorkerOK
  <2> QED
    BY <1>1, <1>2, <1>4, <1>6, <2>1, <2>3, GotoKeeps
<1> QED
  BY <1>5, <1>6 DEF Publish

(* An announcement that raises leaves the run ended.                       *)
LEMMA PublishRaisesKeeps ==
  ASSUME Inv, NEW w \in Workers, PublishRaises(w)
  PROVE  Inv'
<1>1. /\ pc[w] = "publishing" /\ report[w] = "succeeded" /\ faults' = faults + 1 /\ Raise(w)
      /\ UNCHANGED storeVars /\ UNCHANGED <<executor, background, announced, recovery>>
  BY DEF PublishRaises, Fault
<1>2. PICK r \in Runs : r = job[w]
  BY <1>1, JobRun
<1>3. status[r] = "succeeded" /\ executor[r] = "good"
  BY <1>1, <1>2, JobRun DEF ReportOK, RunOK
<1>4. Uncommitted /\ Spared(r) /\ executor'[r] # "running"
  BY <1>1, <1>3 DEF Uncommitted, Spared, Inv, Types
<1> QED
  BY <1>1, <1>2, <1>3, <1>4, RaiseKeeps

(* Announcing how a run ended, or that it failed.                          *)
LEMMA AnnouncingKeeps ==
  ASSUME Inv, NEW w \in Workers, Announce(w) \/ AnnounceFailure(w)
  PROVE  Inv'
<1>1. PICK st \in Terminal : /\ announced' = announced \cup {<<job[w], st>>}
                             /\ status[job[w]] \in Terminal
                             /\ st = "succeeded" => status[job[w]] = "succeeded"
  <2>1. CASE Announce(w)
    BY <2>1, JobRun DEF Announce, DispatchWebhooks, ReportOK
  <2>2. CASE AnnounceFailure(w)
    BY <2>2, JobRun DEF AnnounceFailure, DispatchWebhooks, ReportOK, Terminal, Store!Terminal
  <2> QED
    BY <2>1, <2>2
<1>2. /\ pc[w] # "idle" /\ Return(w) /\ UNCHANGED storeVars
      /\ UNCHANGED <<executor, background, recovery, faults>>
  BY DEF Announce, AnnounceFailure
<1>3. PICK r \in Runs : r = job[w]
  BY <1>2, JobRun
<1>4. Uncommitted /\ Spared(r) /\ UNCHANGED <<status, lease, issued, spec>>
  BY <1>2, StoreSame DEF Uncommitted, Spared, Inv, Types
<1>5. AnnouncementOK(<<r, st>>)'
  BY <1>1, <1>3, <1>4 DEF AnnouncementOK
<1>6. announced' \subseteq Runs \X Terminal /\ background' \subseteq Runs \X Terminal
  BY <1>1, <1>2, <1>3 DEF Inv, Types
<1>7. \A a \in announced' \cup background' : a \in announced \cup background \/ AnnouncementOK(a)'
  BY <1>1, <1>2, <1>3, <1>5
<1>8. status[r] # "running"
  BY <1>1, <1>3 DEF Terminal, Store!Terminal
<1> QED
  BY <1>2, <1>3, <1>4, <1>6, <1>7, <1>8, ReturnKeeps
-----------------------------------------------------------------------------
(* Faults.                                                                 *)

(* A worker that is lost leaves its run to the recovery, and counts as a   *)
(* fault.                                                                  *)
LEMMA LossKeeps ==
  ASSUME Inv, NEW w \in Workers, LoseMessage(w) \/ CrashWorker(w)
  PROVE  Inv'
<1>1. /\ pc[w] # "idle" /\ faults' = faults + 1 /\ Return(w)
      /\ UNCHANGED storeVars /\ UNCHANGED <<executor, background, announced, recovery>>
  BY DEF LoseMessage, CrashWorker, Fault
<1>2. PICK r \in Runs : r = job[w]
  BY <1>1, JobRun
<1>3. Uncommitted /\ Spared(r) /\ faults' > 0
  BY <1>1 DEF Uncommitted, Spared, Inv, Types
<1> QED
  BY <1>1, <1>2, <1>3, ReturnKeeps DEF Inv, Types

(* A supervision that raises kills its executor and aborts.                *)
LEMMA SupervisionRaisesKeeps ==
  ASSUME Inv, NEW w \in Workers, SupervisionRaises(w)
  PROVE  Inv'
<1>1. PICK r \in Runs : r = job[w]
  BY JobRun DEF SupervisionRaises
<1>2. /\ pc[w] = "supervising" /\ faults' = faults + 1 /\ Kill(r) /\ Raise(w)
      /\ UNCHANGED storeVars /\ UNCHANGED <<background, announced, recovery>>
  BY <1>1 DEF SupervisionRaises, Fault
<1>3. Uncommitted /\ Spared(r) /\ faults' > 0 /\ executor'[r] # "running"
  BY <1>2 DEF Uncommitted, Spared, Kill, Inv, Types, Exits
<1> QED
  BY <1>1, <1>2, <1>3, RaiseKeeps
-----------------------------------------------------------------------------
(* The invariant of the whole system.                                      *)

(* It holds when nothing has been uploaded yet.                            *)
LEMMA WorkersInit == Init => Inv
<1> SUFFICES ASSUME Init PROVE Inv
  OBVIOUS
<1>1. Proofs!Init
  BY DEF Init, Store!Init, Proofs!Init
<1>2. StoreInv
  BY <1>1, StoreAssumptions, Proofs!StoreInit DEF StoreInv
<1>3. status = [r \in Runs |-> "absent"]
  BY DEF Init, Store!Init
<1>4. Types
  BY DEF Init, Types, Steps, HandlerSteps
<1>5. /\ \A w \in Workers : WorkerOK(w)
      /\ OneWorkerPerRun /\ RecoveryOK
      /\ \A a \in announced \cup background : AnnouncementOK(a)
  BY DEF Init, WorkerOK, OneWorkerPerRun, RecoveryOK
<1>6. \A r \in Runs : RunOK(r)
  BY <1>3 DEF Init, RunOK
<1> QED
  BY <1>2, <1>4, <1>5, <1>6 DEF Inv

(* What a worker does by itself keeps it.                                  *)
LEMMA WorkKeeps ==
  ASSUME Inv, NEW w \in Workers, Work(w)
  PROVE  Inv'
<1>1. CASE Prepare(w) \/ PrepareRaises(w) \/ ReceiveClaim(w) \/ ClaimRaises(w)
  BY <1>1, PrepareKeeps, PrepareRaisesKeeps, ReceiveClaimKeeps, ClaimRaisesKeeps
<1>2. CASE BeatRefused(w) \/ Poll(w) \/ Stop(w)
  BY <1>2, BeatRefusedKeeps, PollKeeps, StopKeeps
<1>3. CASE ReceiveFinish(w) \/ FinishRefused(w) \/ VerifyManifest(w) \/ Commit(w) \/ CommitRefused(w)
  BY <1>3, ReceiveFinishKeeps, RefusedKeeps, VerifyKeeps, CommitKeeps
<1>4. CASE Publish(w) \/ PublishRaises(w) \/ Announce(w)
  BY <1>4, PublishKeeps, PublishRaisesKeeps, AnnouncingKeeps
<1>5. CASE Abort(w) \/ AbortRefused(w) \/ AnnounceFailure(w)
  BY <1>5, AbortKeeps, AbortRefusedKeeps, AnnouncingKeeps
<1> QED
  BY <1>1, <1>2, <1>3, <1>4, <1>5 DEF Work

(* So does everything that interferes.                                     *)
LEMMA NextKeeps ==
  ASSUME Inv, [Next]_vars
  PROVE  Inv'
<1>1. CASE RegisterDataset \/ SubmitRun \/ CancelRun \/ UpdatePolicy \/ Tick
  BY <1>1, UsersKeep, SubmitKeeps, CancelKeeps
<1>2. ASSUME NEW w \in Workers, ClaimNext(w) \/ ClaimGiven(w) \/ Work(w) \/ Beat(w) \/ DeadlinePasses(w)
      PROVE  Inv'
  BY <1>2, ClaimKeeps, WorkKeeps, BeatKeeps, DeadlineKeeps
<1>3. ASSUME NEW w \in Workers, LoseMessage(w) \/ SupervisionRaises(w) \/ CrashWorker(w)
      PROVE  Inv'
  BY <1>3, LossKeeps, SupervisionRaisesKeeps
<1>4. ASSUME NEW r \in Runs, ExecutorExits(r) PROVE Inv'
  BY <1>4, ExecutorExitsKeeps
<1>5. CASE RunBackground \/ LookForStale \/ InterruptStale \/ RecoveryRefused \/ CrashServer
  BY <1>5, RunBackgroundKeeps, LookKeeps, InterruptKeeps, RecoveryRefusedKeeps, CrashServerKeeps
<1>6. CASE UNCHANGED vars
  <2>1. /\ UNCHANGED <<pc, job, token, report, executor, background, announced, recovery, faults>>
        /\ UNCHANGED storeVars
    BY <1>6 DEF vars, workerVars
  <2>2. StoreInv' /\ UNCHANGED <<status, lease, issued, spec>>
    BY <2>1, StoreKept DEF Inv, storeVars
  <2>3. Types' /\ RecoveryOK'
    BY <2>1, <2>2 DEF Inv, Types, RecoveryOK
  <2> QED
    BY <2>1, <2>2, <2>3, QuietStep
<1> QED
  BY <1>1, <1>2, <1>3, <1>4, <1>5, <1>6 DEF Next

(* The inductive invariant holds in every reachable state, whatever the    *)
(* numbers of workers, runs, projects and faults.                          *)
THEOREM WorkersInvariant == Spec => []Inv
BY WorkersInit, NextKeeps, PTL DEF Spec

(* A run is published, or announced as a success, only when its own        *)
(* executor exited with a manifest that verified.                          *)
THEOREM PublishedIsVerified == Spec => []PublishedWasVerified
<1>1. Inv => PublishedWasVerified
  <2> SUFFICES ASSUME Inv PROVE PublishedWasVerified
    OBVIOUS
  <2>1. \A r \in Runs : status[r] = "succeeded" => executor[r] = "good"
    BY DEF Inv, RunOK
  <2>2. AnnouncedAfterEnd
    BY DEF Inv, AnnouncementOK, AnnouncedAfterEnd
  <2> QED
    BY <2>1, <2>2 DEF PublishedWasVerified
<1> QED
  BY <1>1, WorkersInvariant, PTL

(* Without a fault no running run is left alone, unless its manifest       *)
(* failed to verify in the finish handler, or its worker refused the       *)
(* credentials of its project and executed nothing of it.                  *)
THEOREM RunsAreAttended == Spec => []AttendedUntilEnd
<1>1. Inv => AttendedUntilEnd
  BY DEF Inv, RunOK, AttendedUntilEnd
<1> QED
  BY <1>1, WorkersInvariant, PTL

(* The executors of a project never overlap, but for those an operator     *)
(* gave up.                                                                *)
THEOREM ExecutorsDoNotOverlap == Spec => []OneExecutorPerProject
<1>1. Inv => OneExecutorPerProject
  <2> SUFFICES ASSUME Inv, NEW q \in Runs, NEW r \in Runs, executor[q] = "running",
                      executor[r] = "running", Home(q) = Home(r), q # r
               PROVE  Recoveries /\ {status[q], status[r]} \cap {"interrupted", "cancelled"} # {}
    BY DEF OneExecutorPerProject
  <2>1. /\ status[q] = "running" \/ Recovered(q)
        /\ status[r] = "running" \/ Recovered(r)
    BY DEF Inv, RunOK
  <2>2. ~ (status[q] = "running" /\ status[r] = "running")
    BY DEF Inv, StoreInv, Proofs!StoreInv, Proofs!SlotMatchesRun, Proofs!ProjectOf, Home, Store!ProjectOf
  <2> QED
    BY <2>1, <2>2 DEF Recovered
<1> QED
  BY <1>1, WorkersInvariant, PTL

-----------------------------------------------------------------------------
(* The system is one of the clients that the store is proved for.          *)

(* Every step of a worker, a handler, a background task or an operator is  *)
(* one transaction of the store or none.                                   *)
LEMMA StepIsTransaction ==
  ASSUME Inv, [Next]_vars
  PROVE  Proofs!Next \/ UNCHANGED storeVars
<1>1. CASE RegisterDataset \/ UpdatePolicy \/ Tick
  BY <1>1, QuietTransactions DEF RegisterDataset, UpdatePolicy, Tick
<1>2. CASE SubmitRun
  <2>1. PICK s \in Specs, r \in Runs : Store!Submit(s, None, r, policy[s.project])
    BY <1>2 DEF SubmitRun
  <2>2. policy[s.project] \in Policies
    BY Columns, WorkersStoreAssumption DEF Inv
  <2> QED
    BY <2>1, <2>2, SubmitTransaction
<1>3. CASE CancelRun
  BY <1>3, CancelTransaction DEF CancelRun
<1>4. ASSUME NEW w \in Workers, ClaimNext(w) \/ ClaimGiven(w)
      PROVE  Proofs!Next
  BY <1>4, ClaimTransaction DEF ClaimNext, ClaimGiven
<1>5. ASSUME NEW w \in Workers, Beat(w) \/ ReceiveFinish(w)
      PROVE  Proofs!Next
  <2>1. PICK r \in Runs : r = job[w]
    BY <1>5, JobRun DEF Beat, ReceiveFinish
  <2>2. pc[w] # "idle" /\ Store!Heartbeat(Home(r), r, token[w])
    BY <1>5, <2>1 DEF Beat, ReceiveFinish
  <2>3. Home(r) \in Projects /\ token[w] \in issued
    BY <2>1, <2>2, JobRun
  <2> QED
    BY <2>2, <2>3, QuietTransactions
<1>6. ASSUME NEW w \in Workers, Commit(w) \/ Abort(w)
      PROVE  Proofs!Next
  <2>1. PICK r \in Runs : r = job[w]
    BY <1>6, JobRun DEF Commit, Abort
  <2>2. pc[w] # "idle"
    BY <1>6 DEF Commit, Abort
  <2>3. Home(r) \in Projects /\ token[w] \in issued /\ ReportOK(w)
    BY <2>1, <2>2, JobRun
  <2>4. CASE Commit(w)
    <3>1. report[w] \in {"succeeded", "failed", "cancelled"}
      BY <2>3, <2>4 DEF ReportOK, Commit
    <3>2. Store!Finish(Home(r), r, token[w], report[w],
                       IF report[w] = "succeeded" THEN "manifest" ELSE None, None)
      BY <2>1, <2>4 DEF Commit
    <3> QED
      BY <2>3, <3>1, <3>2, ReportTransaction
  <2>5. CASE Abort(w)
    <3>1. Store!Finish(Home(r), r, token[w], "failed",
                       IF "failed" = "succeeded" THEN "manifest" ELSE None, None)
      BY <2>1, <2>5 DEF Abort
    <3> QED
      BY <2>3, <3>1, ReportTransaction
  <2> QED
    BY <1>6, <2>4, <2>5
<1>7. CASE InterruptStale
  <2>1. PICK r \in Runs : r = recovery.run
    BY <1>7 DEF Inv, RecoveryOK, InterruptStale
  <2>2. PICK t \in recovery.at .. now : Store!Interrupt(Home(r), r, recovery.lease, t - StaleAfter)
    BY <1>7, <2>1 DEF InterruptStale
  <2>3. recovery.lease \in issued /\ t \in 0 .. now
    BY <1>7, <2>2, Columns DEF Inv, RecoveryOK, InterruptStale
  <2>4. status[r] = "running"
    BY <2>2 DEF Store!Interrupt, Store!Finish, Store!LeaseValid
  <2>5. Home(r) \in Projects
    BY <2>4, Columns DEF Inv
  <2> QED
    BY <2>2, <2>3, <2>5, InterruptTransaction
<1>8. ASSUME NEW w \in Workers,
             \/ Prepare(w) \/ PrepareRaises(w) \/ ReceiveClaim(w) \/ ClaimRaises(w)
             \/ BeatRefused(w) \/ Poll(w) \/ Stop(w)
             \/ FinishRefused(w) \/ VerifyManifest(w) \/ CommitRefused(w)
             \/ Publish(w) \/ PublishRaises(w) \/ Announce(w) \/ AbortRefused(w) \/ AnnounceFailure(w)
             \/ DeadlinePasses(w) \/ LoseMessage(w) \/ SupervisionRaises(w) \/ CrashWorker(w)
      PROVE  UNCHANGED storeVars
  BY <1>8 DEF Prepare, PrepareRaises, ReceiveClaim, ClaimRaises, BeatRefused, Poll, Stop, FinishRefused, VerifyManifest,
              CommitRefused, Publish, PublishRaises, Announce, AbortRefused, AnnounceFailure,
              DeadlinePasses, LoseMessage, SupervisionRaises, CrashWorker
<1>9. CASE (\E r \in Runs : ExecutorExits(r)) \/ RunBackground \/ LookForStale \/ RecoveryRefused
           \/ CrashServer \/ UNCHANGED vars
  BY <1>9 DEF ExecutorExits, RunBackground, LookForStale, RecoveryRefused, CrashServer, vars
<1> QED
  BY <1>1, <1>2, <1>3, <1>4, <1>5, <1>6, <1>7, <1>8, <1>9 DEF Next, Work

(* Workers and runners use the store as it may be used, so all that is     *)
(* proved of every client of the store holds of this system.               *)
THEOREM WorkersUseTheStore == Spec => Proofs!Spec
<1>1. Init => Proofs!Init
  BY DEF Init, Store!Init, Proofs!Init
<1>2. Inv /\ [Next]_vars => [Proofs!Next]_(Proofs!vars)
  <2>1. UNCHANGED storeVars => UNCHANGED Proofs!vars
    BY DEF storeVars, Proofs!vars
  <2> QED
    BY <2>1, StepIsTransaction
<1> QED
  BY <1>1, <1>2, WorkersInvariant, PTL DEF Spec, Proofs!Spec

(* The runs that workers execute live as RunLifecycle promises: one at a   *)
(* time in a project, and never again once they ended.                     *)
THEOREM WorkersImplementLifecycle == Spec => Proofs!ImplementsLifecycle
BY WorkersUseTheStore, StoreAssumptions, Proofs!StoreImplementsLifecycle, PTL

=============================================================================
