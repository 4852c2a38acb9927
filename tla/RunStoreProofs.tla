--------------------------- MODULE RunStoreProofs ---------------------------
(***************************************************************************)
(* What RunStore guarantees for any number of projects, runs, datasets,    *)
(* leases and clients.                                                     *)
(***************************************************************************)
EXTENDS RunStore, TLAPS

USE SpecsAssumption, NamesAssumption, TimeAssumption

(* What a specification may name.                                          *)
LEMMA SpecFields ==
  ASSUME NEW s \in Specs
  PROVE  /\ s.project \in Projects
         /\ DatasetsOf(s) \subseteq Datasets
BY DEF DatasetsOf

(* A project's idempotency keys are typed.                                 *)
LEMMA IdemKeyType ==
  ASSUME NEW s \in Specs, NEW k \in Keys \cup {None}, NEW r \in Runs
  PROVE  IdemKey(s, k, r) \in Projects \X (Keys \cup Runs)
BY SpecFields DEF IdemKey

(* Whichever way a run is claimed, it was queued in an idle project.       *)
LEMMA ClaimStarts ==
  ASSUME Claiming
  PROVE  \E p \in Projects, r \in Runs, l \in Leases :
            status[r] = "queued" /\ ProjectOf(r) = p /\ StartRun(p, r, l)
BY DEF Claiming, Claim, ClaimRun, Claimable, Oldest, Queued

(* Whoever ends a run, a worker's report or a recovery, calls finish with  *)
(* a manifest exactly for success, and interrupts only with a staleBefore  *)
(* that the clock has left StaleAfter behind.                              *)
FinishCall(p, r, l, st, m, sb) ==
  /\ (st = "succeeded") <=> (m # None)
  /\ st = "interrupted" => sb \in Int /\ sb + StaleAfter <= now
  /\ Finish(p, r, l, st, m, sb)

(* Every call of finish comes from a worker that reports or from recovery. *)
LEMMA FinishCalls ==
  ASSUME Reporting \/ Recovering, TypeOK
  PROVE  \E p \in Projects, r \in Runs, l \in Leases \cup {None}, st \in Terminal,
               m \in Manifests \cup {None}, sb \in Int \cup {None} :
            FinishCall(p, r, l, st, m, sb)
<1>1. CASE Reporting
  <2>1. PICK p \in Projects, r \in Runs, l \in Known, st \in Reported, m \in Manifests \cup {None} :
               /\ (st = "succeeded") <=> (m # None)
               /\ Finish(p, r, l, st, m, None)
    BY <1>1 DEF Reporting
  <2>2. st \in Terminal /\ st # "interrupted"
    BY DEF Reported, Terminal
  <2>3. FinishCall(p, r, l, st, m, None)
    BY <2>1, <2>2 DEF FinishCall
  <2> QED
    BY <2>1, <2>2, <2>3 DEF Known, TypeOK
<1>2. CASE Recovering
  <2>1. PICK p \in Projects, r \in Runs, l \in Known, t \in 0 .. now :
               Finish(p, r, l, "interrupted", None, t - StaleAfter)
    BY <1>2 DEF Recovering, Interrupt
  <2>2. t - StaleAfter \in Int /\ (t - StaleAfter) + StaleAfter <= now
    BY <2>1 DEF TypeOK
  <2>3. FinishCall(p, r, l, "interrupted", None, t - StaleAfter)
    BY <2>1, <2>2 DEF FinishCall
  <2>4. "interrupted" \in Terminal
    BY DEF Terminal
  <2> QED
    BY <2>1, <2>2, <2>3, <2>4 DEF Known, TypeOK
<1> QED
  BY <1>1, <1>2

(* Every column keeps its type in every transaction.                       *)
LEMMA TypeStep ==
  ASSUME TypeOK, [Next]_vars
  PROVE  TypeOK'
<1> USE DEF projectVars, datasetVars, submittedVars
<1>1. CASE Admin
  BY <1>1 DEF TypeOK, Exists, Admin, UpdateProject, AddDataset, DeleteDataset
<1>2. CASE Submission
  <2>1. PICK s \in Specs, k \in Keys \cup {None}, r \in Runs, b \in Bodies : Submit(s, k, r, b)
    BY <1>2 DEF Submission
  <2>2. IdemKey(s, k, r) \in Projects \X (Keys \cup Runs)
    BY IdemKeyType
  <2> QED
    BY <2>1, <2>2 DEF TypeOK, Exists, Submit, Status, EventKinds
<1>3. CASE Claiming
  <2>1. PICK p \in Projects, r \in Runs, l \in Leases :
               status[r] = "queued" /\ StartRun(p, r, l)
    BY <1>3, ClaimStarts
  <2> QED
    BY <2>1 DEF TypeOK, Exists, StartRun, Status, EventKinds
<1>4. CASE Beating
  BY <1>4 DEF TypeOK, Exists, Beating, Heartbeat, LeaseValid
<1>5. CASE Reporting \/ Recovering
  <2>1. PICK p \in Projects, r \in Runs, l \in Leases \cup {None}, st \in Terminal,
               m \in Manifests \cup {None}, sb \in Int \cup {None} :
               FinishCall(p, r, l, st, m, sb)
    BY <1>5, FinishCalls
  <2>2. FinalStatus(r, st) \in Terminal
    BY DEF FinalStatus, Terminal
  <2> QED
    BY <2>1, <2>2 DEF TypeOK, Exists, FinishCall, Finish, LeaseValid, EndEvent, Published, Status, EventKinds
<1>6. CASE Cancelling
  BY <1>6 DEF TypeOK, Exists, Cancelling, Cancel, CancelledStatus, Status, Terminal, EventKinds
<1>7. CASE Tick
  BY <1>7 DEF TypeOK, Exists, Tick
<1>8. CASE UNCHANGED vars
  BY <1>8 DEF TypeOK, Exists, vars
<1> QED
  BY <1>1, <1>2, <1>3, <1>4, <1>5, <1>6, <1>7, <1>8 DEF Next

(* Every column always holds a value of its type, and a row always has a   *)
(* specification.                                                          *)
THEOREM TypeCorrect == Spec => []TypeOK
<1>1. Init => TypeOK
  BY DEF Init, TypeOK, Exists, Status
<1> QED
  BY <1>1, TypeStep, PTL DEF Spec

(* A claim takes a free slot for a queued run and only finish frees it.    *)
LEMMA SlotStep ==
  ASSUME TypeOK, SlotMatchesRun, [Next]_vars
  PROVE  SlotMatchesRun'
<1> USE DEF projectVars, datasetVars, submittedVars
<1>1. CASE Admin
  BY <1>1 DEF TypeOK, SlotMatchesRun, ProjectOf, Exists, Admin, UpdateProject, AddDataset, DeleteDataset
<1>2. CASE Submission
  <2>1. PICK s \in Specs, k \in Keys \cup {None}, r \in Runs, b \in Bodies : Submit(s, k, r, b)
    BY <1>2 DEF Submission
  <2> QED
    BY <2>1 DEF TypeOK, SlotMatchesRun, ProjectOf, Exists, Submit
<1>3. CASE Claiming
  <2>1. PICK p \in Projects, r \in Runs, l \in Leases :
               status[r] = "queued" /\ ProjectOf(r) = p /\ StartRun(p, r, l)
    BY <1>3, ClaimStarts
  <2> QED
    BY <2>1 DEF TypeOK, SlotMatchesRun, ProjectOf, Exists, StartRun, SlotFree
<1>4. CASE Beating
  BY <1>4 DEF TypeOK, SlotMatchesRun, ProjectOf, Exists, Beating, Heartbeat, LeaseValid
<1>5. CASE Reporting \/ Recovering
  <2>1. PICK p \in Projects, r \in Runs, l \in Leases \cup {None}, st \in Terminal,
               m \in Manifests \cup {None}, sb \in Int \cup {None} :
               FinishCall(p, r, l, st, m, sb)
    BY <1>5, FinishCalls
  <2>2. FinalStatus(r, st) \in Terminal
    BY DEF FinalStatus, Terminal
  <2> QED
    BY <2>1, <2>2 DEF TypeOK, SlotMatchesRun, ProjectOf, Exists, FinishCall, Finish, LeaseValid, EndEvent, Published, Terminal
<1>6. CASE Cancelling
  BY <1>6 DEF TypeOK, SlotMatchesRun, ProjectOf, Exists, Cancelling, Cancel, CancelledStatus
<1>7. CASE Tick
  BY <1>7 DEF TypeOK, SlotMatchesRun, ProjectOf, Exists, Tick
<1>8. CASE UNCHANGED vars
  BY <1>8 DEF TypeOK, SlotMatchesRun, ProjectOf, Exists, vars
<1> QED
  BY <1>1, <1>2, <1>3, <1>4, <1>5, <1>6, <1>7, <1>8 DEF Next

(* A claim draws an unused lease and finish clears it.                     *)
LEMMA LeaseStep ==
  ASSUME TypeOK, LeaseFencing, [Next]_vars
  PROVE  LeaseFencing'
<1> USE DEF projectVars, datasetVars, submittedVars
<1>1. CASE Admin
  BY <1>1 DEF TypeOK, LeaseFencing, Admin, UpdateProject, AddDataset, DeleteDataset
<1>2. CASE Submission
  <2>1. PICK s \in Specs, k \in Keys \cup {None}, r \in Runs, b \in Bodies : Submit(s, k, r, b)
    BY <1>2 DEF Submission
  <2> QED
    BY <2>1 DEF TypeOK, LeaseFencing, Submit, Exists
<1>3. CASE Claiming
  <2>1. PICK p \in Projects, r \in Runs, l \in Leases :
               status[r] = "queued" /\ ProjectOf(r) = p /\ StartRun(p, r, l)
    BY <1>3, ClaimStarts
  <2> QED
    BY <2>1 DEF TypeOK, LeaseFencing, StartRun
<1>4. CASE Beating
  BY <1>4 DEF TypeOK, LeaseFencing, Beating, Heartbeat, LeaseValid
<1>5. CASE Reporting \/ Recovering
  <2>1. PICK p \in Projects, r \in Runs, l \in Leases \cup {None}, st \in Terminal,
               m \in Manifests \cup {None}, sb \in Int \cup {None} :
               FinishCall(p, r, l, st, m, sb)
    BY <1>5, FinishCalls
  <2>2. FinalStatus(r, st) \in Terminal
    BY DEF FinalStatus, Terminal
  <2> QED
    BY <2>1, <2>2 DEF TypeOK, LeaseFencing, FinishCall, Finish, LeaseValid, EndEvent, Published, Terminal
<1>6. CASE Cancelling
  BY <1>6 DEF TypeOK, LeaseFencing, Cancelling, Cancel, CancelledStatus
<1>7. CASE Tick
  BY <1>7 DEF TypeOK, LeaseFencing, Tick
<1>8. CASE UNCHANGED vars
  BY <1>8 DEF TypeOK, LeaseFencing, vars
<1> QED
  BY <1>1, <1>2, <1>3, <1>4, <1>5, <1>6, <1>7, <1>8 DEF Next

(* Only finish writes a manifest, and it turns a cancelled success down.   *)
LEMMA PublishStep ==
  ASSUME TypeOK, PublishedBySuccess, CancellationWins, [Next]_vars
  PROVE  PublishedBySuccess' /\ CancellationWins'
<1> USE DEF projectVars, datasetVars, submittedVars
<1>1. CASE Admin
  BY <1>1 DEF TypeOK, PublishedBySuccess, CancellationWins, Admin, UpdateProject, AddDataset, DeleteDataset
<1>2. CASE Submission
  <2>1. PICK s \in Specs, k \in Keys \cup {None}, r \in Runs, b \in Bodies : Submit(s, k, r, b)
    BY <1>2 DEF Submission
  <2> QED
    BY <2>1 DEF TypeOK, PublishedBySuccess, CancellationWins, Submit, Exists
<1>3. CASE Claiming
  <2>1. PICK p \in Projects, r \in Runs, l \in Leases :
               status[r] = "queued" /\ ProjectOf(r) = p /\ StartRun(p, r, l)
    BY <1>3, ClaimStarts
  <2> QED
    BY <2>1 DEF TypeOK, PublishedBySuccess, CancellationWins, StartRun
<1>4. CASE Beating
  BY <1>4 DEF TypeOK, PublishedBySuccess, CancellationWins, Beating, Heartbeat, LeaseValid
<1>5. CASE Reporting \/ Recovering
  <2>1. PICK p \in Projects, r \in Runs, l \in Leases \cup {None}, st \in Terminal,
               m \in Manifests \cup {None}, sb \in Int \cup {None} :
               FinishCall(p, r, l, st, m, sb)
    BY <1>5, FinishCalls
  <2>2. FinalStatus(r, st) \in Terminal
    BY DEF FinalStatus, Terminal
  <2> QED
    BY <2>1, <2>2 DEF TypeOK, PublishedBySuccess, CancellationWins, FinishCall, Finish, LeaseValid, EndEvent, Published, FinalStatus, Terminal
<1>6. CASE Cancelling
  BY <1>6 DEF TypeOK, PublishedBySuccess, CancellationWins, Cancelling, Cancel, CancelledStatus, Status, Terminal
<1>7. CASE Tick
  BY <1>7 DEF TypeOK, PublishedBySuccess, CancellationWins, Tick
<1>8. CASE UNCHANGED vars
  BY <1>8 DEF TypeOK, PublishedBySuccess, CancellationWins, vars
<1> QED
  BY <1>1, <1>2, <1>3, <1>4, <1>5, <1>6, <1>7, <1>8 DEF Next

(* Only submit writes a key, and it looks for the key first.               *)
LEMMA KeyStep ==
  ASSUME TypeOK, OneRunPerKey, [Next]_vars
  PROVE  OneRunPerKey'
<1> USE DEF projectVars, datasetVars, submittedVars
<1>1. CASE Admin
  BY <1>1 DEF TypeOK, OneRunPerKey, Exists, Admin, UpdateProject, AddDataset, DeleteDataset
<1>2. CASE Submission
  <2>1. PICK s \in Specs, k \in Keys \cup {None}, r \in Runs, b \in Bodies : Submit(s, k, r, b)
    BY <1>2 DEF Submission
  <2> QED
    BY <2>1 DEF TypeOK, OneRunPerKey, Exists, Submit, KeyUsed
<1>3. CASE Claiming
  <2>1. PICK p \in Projects, r \in Runs, l \in Leases :
               status[r] = "queued" /\ ProjectOf(r) = p /\ StartRun(p, r, l)
    BY <1>3, ClaimStarts
  <2> QED
    BY <2>1 DEF TypeOK, OneRunPerKey, Exists, StartRun
<1>4. CASE Beating
  BY <1>4 DEF TypeOK, OneRunPerKey, Exists, Beating, Heartbeat, LeaseValid
<1>5. CASE Reporting \/ Recovering
  <2>1. PICK p \in Projects, r \in Runs, l \in Leases \cup {None}, st \in Terminal,
               m \in Manifests \cup {None}, sb \in Int \cup {None} :
               FinishCall(p, r, l, st, m, sb)
    BY <1>5, FinishCalls
  <2>2. FinalStatus(r, st) \in Terminal
    BY DEF FinalStatus, Terminal
  <2> QED
    BY <2>1, <2>2 DEF TypeOK, OneRunPerKey, Exists, FinishCall, Finish, LeaseValid, EndEvent, Published, Terminal
<1>6. CASE Cancelling
  BY <1>6 DEF TypeOK, OneRunPerKey, Exists, Cancelling, Cancel, CancelledStatus
<1>7. CASE Tick
  BY <1>7 DEF TypeOK, OneRunPerKey, Exists, Tick
<1>8. CASE UNCHANGED vars
  BY <1>8 DEF TypeOK, OneRunPerKey, Exists, vars
<1> QED
  BY <1>1, <1>2, <1>3, <1>4, <1>5, <1>6, <1>7, <1>8 DEF Next

(* Submit tests that its datasets live, delete_dataset that no run uses it. *)
LEMMA DatasetStep ==
  ASSUME TypeOK, DatasetsRetained, [Next]_vars
  PROVE  DatasetsRetained'
<1> USE DEF projectVars, datasetVars, submittedVars
<1>1. CASE Admin
  BY <1>1 DEF TypeOK, DatasetsRetained, References, Exists, ProjectOf, Live, DatasetsOf, Admin, UpdateProject, AddDataset, DeleteDataset, DeletionAllowed
<1>2. CASE Submission
  <2>1. PICK s \in Specs, k \in Keys \cup {None}, r \in Runs, b \in Bodies : Submit(s, k, r, b)
    BY <1>2 DEF Submission
  <2> QED
    BY <2>1 DEF TypeOK, DatasetsRetained, References, Exists, ProjectOf, Live, DatasetsOf, Submit, DatasetsLive
<1>3. CASE Claiming
  <2>1. PICK p \in Projects, r \in Runs, l \in Leases :
               status[r] = "queued" /\ ProjectOf(r) = p /\ StartRun(p, r, l)
    BY <1>3, ClaimStarts
  <2> QED
    BY <2>1 DEF TypeOK, DatasetsRetained, References, Exists, ProjectOf, Live, DatasetsOf, StartRun
<1>4. CASE Beating
  BY <1>4 DEF TypeOK, DatasetsRetained, References, Exists, ProjectOf, Live, DatasetsOf, Beating, Heartbeat, LeaseValid
<1>5. CASE Reporting \/ Recovering
  <2>1. PICK p \in Projects, r \in Runs, l \in Leases \cup {None}, st \in Terminal,
               m \in Manifests \cup {None}, sb \in Int \cup {None} :
               FinishCall(p, r, l, st, m, sb)
    BY <1>5, FinishCalls
  <2>2. FinalStatus(r, st) \in Terminal
    BY DEF FinalStatus, Terminal
  <2> QED
    BY <2>1, <2>2 DEF TypeOK, DatasetsRetained, References, Exists, ProjectOf, Live, DatasetsOf, FinishCall, Finish, LeaseValid, EndEvent, Published, Terminal
<1>6. CASE Cancelling
  BY <1>6 DEF TypeOK, DatasetsRetained, References, Exists, ProjectOf, Live, DatasetsOf, Cancelling, Cancel, CancelledStatus
<1>7. CASE Tick
  BY <1>7 DEF TypeOK, DatasetsRetained, References, Exists, ProjectOf, Live, DatasetsOf, Tick
<1>8. CASE UNCHANGED vars
  BY <1>8 DEF TypeOK, DatasetsRetained, References, Exists, ProjectOf, Live, DatasetsOf, vars
<1> QED
  BY <1>1, <1>2, <1>3, <1>4, <1>5, <1>6, <1>7, <1>8 DEF Next

(* finish interrupts only behind staleBefore, and no later step touches    *)
(* the heartbeat of a run that is not running.                             *)
LEMMA StaleStep ==
  ASSUME TypeOK, InterruptedWasStale, [Next]_vars
  PROVE  InterruptedWasStale'
<1> USE DEF projectVars, datasetVars, submittedVars
<1>1. CASE Admin
  BY <1>1 DEF TypeOK, InterruptedWasStale, Admin, UpdateProject, AddDataset, DeleteDataset
<1>2. CASE Submission
  <2>1. PICK s \in Specs, k \in Keys \cup {None}, r \in Runs, b \in Bodies : Submit(s, k, r, b)
    BY <1>2 DEF Submission
  <2> QED
    BY <2>1 DEF TypeOK, InterruptedWasStale, Submit, Exists
<1>3. CASE Claiming
  <2>1. PICK p \in Projects, r \in Runs, l \in Leases :
               status[r] = "queued" /\ ProjectOf(r) = p /\ StartRun(p, r, l)
    BY <1>3, ClaimStarts
  <2> QED
    BY <2>1 DEF TypeOK, InterruptedWasStale, StartRun
<1>4. CASE Beating
  BY <1>4 DEF TypeOK, InterruptedWasStale, Beating, Heartbeat, LeaseValid
<1>5. CASE Reporting \/ Recovering
  <2>1. PICK p \in Projects, r \in Runs, l \in Leases \cup {None}, st \in Terminal,
               m \in Manifests \cup {None}, sb \in Int \cup {None} :
               FinishCall(p, r, l, st, m, sb)
    BY <1>5, FinishCalls
  <2>2. FinalStatus(r, st) \in Terminal
    BY DEF FinalStatus, Terminal
  <2> QED
    BY <2>1, <2>2 DEF TypeOK, InterruptedWasStale, FinishCall, Finish, LeaseValid, EndEvent, Published, NotRenewed, FinalStatus, Terminal
<1>6. CASE Cancelling
  BY <1>6 DEF TypeOK, InterruptedWasStale, Cancelling, Cancel, CancelledStatus
<1>7. CASE Tick
  BY <1>7 DEF TypeOK, InterruptedWasStale, Tick
<1>8. CASE UNCHANGED vars
  BY <1>8 DEF TypeOK, InterruptedWasStale, vars
<1> QED
  BY <1>1, <1>2, <1>3, <1>4, <1>5, <1>6, <1>7, <1>8 DEF Next

(* Each status change records its event in the same transaction.           *)
LEMMA EventStep ==
  ASSUME TypeOK, EventsExplainStatus, [Next]_vars
  PROVE  EventsExplainStatus'
<1> USE DEF projectVars, datasetVars, submittedVars
<1>1. CASE Admin
  BY <1>1 DEF TypeOK, EventsExplainStatus, Terminal, Admin, UpdateProject, AddDataset, DeleteDataset
<1>2. CASE Submission
  <2>1. PICK s \in Specs, k \in Keys \cup {None}, r \in Runs, b \in Bodies : Submit(s, k, r, b)
    BY <1>2 DEF Submission
  <2> QED
    BY <2>1 DEF TypeOK, EventsExplainStatus, Terminal, Submit, Exists
<1>3. CASE Claiming
  <2>1. PICK p \in Projects, r \in Runs, l \in Leases :
               status[r] = "queued" /\ ProjectOf(r) = p /\ StartRun(p, r, l)
    BY <1>3, ClaimStarts
  <2> QED
    BY <2>1 DEF TypeOK, EventsExplainStatus, Terminal, StartRun
<1>4. CASE Beating
  BY <1>4 DEF TypeOK, EventsExplainStatus, Terminal, Beating, Heartbeat, LeaseValid
<1>5. CASE Reporting \/ Recovering
  <2>1. PICK p \in Projects, r \in Runs, l \in Leases \cup {None}, st \in Terminal,
               m \in Manifests \cup {None}, sb \in Int \cup {None} :
               FinishCall(p, r, l, st, m, sb)
    BY <1>5, FinishCalls
  <2>2. FinalStatus(r, st) \in Terminal
    BY DEF FinalStatus, Terminal
  <2>3. /\ status[r] = "running"
        /\ status' = [status EXCEPT ![r] = FinalStatus(r, st)]
        /\ events' = [events EXCEPT ![r] = events[r] \cup {FinalStatus(r, st)}]
    BY <2>1 DEF FinishCall, Finish, LeaseValid, EndEvent
  <2>4. PICK end \in Terminal : end = FinalStatus(r, st)
    BY <2>2
  <2>5. \A q \in Runs \ {r} : status'[q] = status[q] /\ events'[q] = events[q]
    BY <2>3 DEF TypeOK
  <2>6. status'[r] = end /\ events'[r] = events[r] \cup {end}
    BY <2>3, <2>4 DEF TypeOK
  <2>7. events[r] \cap Terminal = {} /\ "started" \in events[r]
    BY <2>3 DEF EventsExplainStatus, Terminal
  <2>8. /\ events'[r] \cap Terminal = {status'[r]}
        /\ "started" \in events'[r]
    BY <2>6, <2>7
  <2> QED
    BY <2>5, <2>8 DEF EventsExplainStatus
<1>6. CASE Cancelling
  BY <1>6 DEF TypeOK, EventsExplainStatus, Terminal, Cancelling, Cancel, CancelledStatus
<1>7. CASE Tick
  BY <1>7 DEF TypeOK, EventsExplainStatus, Terminal, Tick
<1>8. CASE UNCHANGED vars
  BY <1>8 DEF TypeOK, EventsExplainStatus, Terminal, vars
<1> QED
  BY <1>1, <1>2, <1>3, <1>4, <1>5, <1>6, <1>7, <1>8 DEF Next

(* Submit needs an absent row, a claim a queued one, heartbeat and finish  *)
(* a running one, cancel a queued or a running one.                        *)
LEMMA EndedStep ==
  ASSUME TypeOK, [Next]_vars
  PROVE  \A r \in Runs : EndedStays(r)
<1> USE DEF projectVars, datasetVars, submittedVars
<1>1. CASE Admin
  BY <1>1 DEF TypeOK, EndedStays, Terminal, Admin, UpdateProject, AddDataset, DeleteDataset
<1>2. CASE Submission
  <2>1. PICK s \in Specs, k \in Keys \cup {None}, r \in Runs, b \in Bodies : Submit(s, k, r, b)
    BY <1>2 DEF Submission
  <2> QED
    BY <2>1 DEF TypeOK, EndedStays, Terminal, Submit, Exists
<1>3. CASE Claiming
  <2>1. PICK p \in Projects, r \in Runs, l \in Leases :
               status[r] = "queued" /\ ProjectOf(r) = p /\ StartRun(p, r, l)
    BY <1>3, ClaimStarts
  <2> QED
    BY <2>1 DEF TypeOK, EndedStays, Terminal, StartRun
<1>4. CASE Beating
  BY <1>4 DEF TypeOK, EndedStays, Terminal, Beating, Heartbeat, LeaseValid
<1>5. CASE Reporting \/ Recovering
  <2>1. PICK p \in Projects, r \in Runs, l \in Leases \cup {None}, st \in Terminal,
               m \in Manifests \cup {None}, sb \in Int \cup {None} :
               FinishCall(p, r, l, st, m, sb)
    BY <1>5, FinishCalls
  <2>2. FinalStatus(r, st) \in Terminal
    BY DEF FinalStatus, Terminal
  <2> QED
    BY <2>1, <2>2 DEF TypeOK, EndedStays, Terminal, FinishCall, Finish, LeaseValid, EndEvent, Published
<1>6. CASE Cancelling
  BY <1>6 DEF TypeOK, EndedStays, Terminal, Cancelling, Cancel, CancelledStatus
<1>7. CASE Tick
  BY <1>7 DEF TypeOK, EndedStays, Terminal, Tick
<1>8. CASE UNCHANGED vars
  BY <1>8 DEF TypeOK, EndedStays, Terminal, vars
<1> QED
  BY <1>1, <1>2, <1>3, <1>4, <1>5, <1>6, <1>7, <1>8 DEF Next

(* A row that was inserted stays, with its specification, provenance and   *)
(* key; a dataset stays in its project and stays deleted; what has ended   *)
(* has ended.                                                              *)
RowStays(r) ==
  /\ Exists(r) => /\ status'[r] # "absent"
                  /\ spec'[r] = spec[r] /\ body'[r] = body[r] /\ idem'[r] = idem[r]
  /\ status[r] \in Terminal => status'[r] = status[r]

DatasetStays(d) ==
  /\ dsProject[d] # None => dsProject'[d] = dsProject[d]
  /\ d \in dsDeleted => d \in dsDeleted'

(* Only submit writes these columns, and it needs an absent row.           *)
LEMMA RowsStay ==
  ASSUME TypeOK, [Next]_vars
  PROVE  \A r \in Runs : RowStays(r)
<1> USE DEF projectVars, datasetVars, submittedVars, RowStays, Exists
<1>0. \A r \in Runs : status[r] \in Terminal => status'[r] = status[r]
  BY EndedStep DEF EndedStays
<1>1. CASE Admin
  BY <1>1 DEF TypeOK, Terminal, Admin, UpdateProject, AddDataset, DeleteDataset
<1>2. CASE Submission
  <2>1. PICK s \in Specs, k \in Keys \cup {None}, r \in Runs, b \in Bodies : Submit(s, k, r, b)
    BY <1>2 DEF Submission
  <2> QED
    BY <2>1, <1>0 DEF TypeOK, Submit
<1>3. CASE Claiming
  <2>1. PICK p \in Projects, r \in Runs, l \in Leases :
               status[r] = "queued" /\ ProjectOf(r) = p /\ StartRun(p, r, l)
    BY <1>3, ClaimStarts
  <2> QED
    BY <2>1, <1>0 DEF TypeOK, StartRun
<1>4. CASE Beating
  BY <1>4, <1>0 DEF TypeOK, Beating, Heartbeat
<1>5. CASE Reporting \/ Recovering
  <2>1. PICK p \in Projects, r \in Runs, l \in Leases \cup {None}, st \in Terminal,
               m \in Manifests \cup {None}, sb \in Int \cup {None} :
               FinishCall(p, r, l, st, m, sb)
    BY <1>5, FinishCalls
  <2>2. FinalStatus(r, st) # "absent"
    BY DEF FinalStatus, Terminal
  <2> QED
    BY <2>1, <2>2, <1>0 DEF TypeOK, FinishCall, Finish
<1>6. CASE Cancelling
  BY <1>6, <1>0 DEF TypeOK, Cancelling, Cancel, CancelledStatus
<1>7. CASE Tick
  BY <1>7 DEF Tick
<1>8. CASE UNCHANGED vars
  BY <1>8 DEF vars
<1> QED
  BY <1>1, <1>2, <1>3, <1>4, <1>5, <1>6, <1>7, <1>8 DEF Next

(* add_dataset draws a fresh identifier, delete_dataset only sets a mark.  *)
LEMMA DatasetsStay ==
  ASSUME TypeOK, [Next]_vars
  PROVE  \A d \in Datasets : DatasetStays(d)
<1> USE DEF projectVars, datasetVars, submittedVars, DatasetStays
<1>1. CASE Admin
  BY <1>1 DEF TypeOK, Admin, UpdateProject, AddDataset, DeleteDataset
<1>2. CASE Submission
  BY <1>2 DEF Submission, Submit
<1>3. CASE Claiming
  BY <1>3, ClaimStarts DEF StartRun
<1>4. CASE Beating \/ Cancelling \/ Tick
  BY <1>4 DEF Beating, Heartbeat, Cancelling, Cancel, Tick
<1>5. CASE Reporting \/ Recovering
  BY <1>5, FinishCalls DEF FinishCall, Finish
<1>6. CASE UNCHANGED vars
  BY <1>6 DEF vars
<1> QED
  BY <1>1, <1>2, <1>3, <1>4, <1>5, <1>6 DEF Next

(***************************************************************************)
(* The inductive invariant.  Apart from cancellation, which leans on       *)
(* publication, each conjunct is inductive together with the types.        *)
(***************************************************************************)
StoreInv ==
  /\ TypeOK
  /\ SlotMatchesRun
  /\ LeaseFencing
  /\ PublishedBySuccess
  /\ CancellationWins
  /\ OneRunPerKey
  /\ DatasetsRetained
  /\ InterruptedWasStale
  /\ EventsExplainStatus

(* The invariant holds in an empty store.                                  *)
LEMMA StoreInit == Init => StoreInv
<1> SUFFICES ASSUME Init PROVE StoreInv
  OBVIOUS
<1> USE DEF Init, Exists, Terminal
<1>1. TypeOK
  BY DEF TypeOK, Status
<1>2. SlotMatchesRun /\ LeaseFencing
  BY DEF SlotMatchesRun, LeaseFencing
<1>3. PublishedBySuccess /\ CancellationWins
  BY DEF PublishedBySuccess, CancellationWins
<1>4. OneRunPerKey /\ DatasetsRetained
  BY DEF OneRunPerKey, DatasetsRetained, References
<1>5. InterruptedWasStale /\ EventsExplainStatus
  BY DEF InterruptedWasStale, EventsExplainStatus
<1> QED
  BY <1>1, <1>2, <1>3, <1>4, <1>5 DEF StoreInv

(* Every transaction preserves it.                                         *)
LEMMA StoreStep ==
  ASSUME StoreInv, [Next]_vars
  PROVE  StoreInv'
BY TypeStep, SlotStep, LeaseStep, PublishStep, KeyStep, DatasetStep,
   StaleStep, EventStep DEF StoreInv

(* StoreInv holds in every reachable state.                                *)
THEOREM StoreInvariant == Spec => []StoreInv
<1>1. StoreInv /\ [Next]_vars => StoreInv'
  BY StoreStep
<1> QED
  BY <1>1, StoreInit, PTL DEF Spec

(* claim, finish, cancel and recovery keep active_run equal to the one     *)
(* running run of each project.                                            *)
THEOREM SlotIsExact == Spec => []SlotMatchesRun
BY StoreInvariant, PTL DEF StoreInv

(* The lease test of heartbeat and finish admits the current holder only.  *)
THEOREM LeasesFence == Spec => []LeaseFencing
BY StoreInvariant, PTL DEF StoreInv

(* finish never publishes, succeeds, fails or interrupts a run that cancel *)
(* has flagged.                                                            *)
THEOREM CancelBeatsFinish == Spec => []CancellationWins
BY StoreInvariant, PTL DEF StoreInv

(* submit creates one run per project, actor and key.                      *)
THEOREM SubmitIsIdempotent == Spec => []OneRunPerKey
BY StoreInvariant, PTL DEF StoreInv

(* submit and delete_dataset exclude each other on a dataset.              *)
THEOREM HistoryKeepsDatasets == Spec => []DatasetsRetained
BY StoreInvariant, PTL DEF StoreInv

(* interrupt_stale spares every worker that renewed its heartbeat in time. *)
THEOREM RecoverySparesLiveWorkers == Spec => []InterruptedWasStale
BY StoreInvariant, PTL DEF StoreInv

(* The event log determines how each run ended.                            *)
THEOREM EventsAreComplete == Spec => []EventsExplainStatus
BY StoreInvariant, PTL DEF StoreInv

(* No transaction changes the row of a run that has ended.                 *)
THEOREM EndedRunsAreFinal == Spec => HistoryIsFinal
BY TypeCorrect, EndedStep, PTL DEF Spec, HistoryIsFinal

-----------------------------------------------------------------------------
(* The refinement: each transaction is a step of RunLifecycle or a stutter *)
(* of it.                                                                  *)
Home == [r \in Runs |-> IF Exists(r) THEN ProjectOf(r) ELSE None]

(* A transaction that keeps statuses, specifications and cancellations.    *)
LEMMA QuietStep ==
  ASSUME UNCHANGED <<status, spec, cancelRequested>>
  PROVE  UNCHANGED Lifecycle!vars
BY DEF Lifecycle!vars, Exists, ProjectOf

(* A running run of a project blocks the slot that a claim needs free.     *)
LEMMA SlotFreeMeansIdle ==
  ASSUME TypeOK, SlotMatchesRun, NEW p \in Projects, SlotFree(p),
         NEW r \in Runs, ProjectOf(r) = p
  PROVE  \A q \in Runs : Home[q] = Home[r] /\ Exists(r) => status[q] # "running"
BY DEF TypeOK, SlotMatchesRun, SlotFree, Home, Exists, ProjectOf

(* Every step of the store is a step of the life of one run, or none.      *)
LEMMA LifecycleStep ==
  ASSUME StoreInv, [Next]_vars
  PROVE  [Lifecycle!Next]_(Lifecycle!vars)
<1> USE DEF projectVars, datasetVars, submittedVars
<1>0. TypeOK /\ SlotMatchesRun
  BY DEF StoreInv
<1>1. CASE Admin
  BY <1>1, QuietStep DEF Admin, UpdateProject, AddDataset, DeleteDataset
<1>2. CASE Submission
  <2>1. PICK s \in Specs, k \in Keys \cup {None}, r \in Runs, b \in Bodies : Submit(s, k, r, b)
    BY <1>2 DEF Submission
  <2>2. s.project \in Projects
    BY SpecFields
  <2>3. Lifecycle!Queue(r, s.project)
    BY <1>0, <2>1, <2>2 DEF Lifecycle!Queue, Submit, Exists, ProjectOf, TypeOK
  <2> QED
    BY <2>2, <2>3 DEF Lifecycle!Next
<1>3. CASE Claiming
  <2>1. PICK p \in Projects, r \in Runs, l \in Leases :
               status[r] = "queued" /\ ProjectOf(r) = p /\ StartRun(p, r, l)
    BY <1>3, ClaimStarts
  <2>2. \A q \in Runs : Home[q] = Home[r] => status[q] # "running"
    BY <1>0, <2>1, SlotFreeMeansIdle DEF StartRun, Exists
  <2>3. UNCHANGED <<Home, cancelRequested>>
    BY <1>0, <2>1 DEF StartRun, Home, Exists, ProjectOf, TypeOK
  <2>4. Lifecycle!Start(r)
    BY <1>0, <2>1, <2>2, <2>3 DEF Lifecycle!Start, StartRun, Home
  <2> QED
    BY <2>4 DEF Lifecycle!Next
<1>4. CASE Beating
  BY <1>4, QuietStep DEF Beating, Heartbeat
<1>5. CASE Reporting \/ Recovering
  <2>1. PICK p \in Projects, r \in Runs, l \in Leases \cup {None}, st \in Terminal,
               m \in Manifests \cup {None}, sb \in Int \cup {None} :
               FinishCall(p, r, l, st, m, sb)
    BY <1>0, <1>5, FinishCalls
  <2>2. FinalStatus(r, st) \in Terminal /\ (r \in cancelRequested => FinalStatus(r, st) = "cancelled")
    BY DEF FinalStatus, Terminal
  <2>3. UNCHANGED <<Home, cancelRequested>>
    BY <1>0, <2>1, <2>2 DEF FinishCall, Finish, LeaseValid, Home, Exists, ProjectOf, TypeOK, Terminal
  <2>4. Lifecycle!End(r, FinalStatus(r, st))
    BY <1>0, <2>1, <2>2, <2>3 DEF Lifecycle!End, FinishCall, Finish, LeaseValid, Home
  <2> QED
    BY <2>2, <2>4 DEF Lifecycle!Next, Lifecycle!Ended, Terminal
<1>6. CASE Cancelling
  <2>1. PICK p \in Projects, r \in Runs : Cancel(p, r)
    BY <1>6 DEF Cancelling
  <2>2. UNCHANGED Home
    BY <1>0, <2>1 DEF Cancel, CancelledStatus, Home, Exists, ProjectOf, TypeOK
  <2>3. Lifecycle!AcceptCancel(r)
    BY <1>0, <2>1, <2>2 DEF Lifecycle!AcceptCancel, Cancel, CancelledStatus, Home, TypeOK
  <2> QED
    BY <2>3 DEF Lifecycle!Next
<1>7. CASE Tick
  BY <1>7, QuietStep DEF Tick
<1>8. CASE UNCHANGED vars
  BY <1>8, QuietStep DEF vars
<1> QED
  BY <1>1, <1>2, <1>3, <1>4, <1>5, <1>6, <1>7, <1>8 DEF Next

(* The store keeps the promise of RunLifecycle for every client.           *)
THEOREM StoreImplementsLifecycle == Spec => ImplementsLifecycle
<1>1. Init => Lifecycle!Init
  BY DEF Init, Lifecycle!Init, Exists
<1>2. StoreInv /\ [Next]_vars => [Lifecycle!Next]_(Lifecycle!vars)
  BY LifecycleStep
<1> QED
  BY <1>1, <1>2, StoreInvariant, PTL DEF Spec, ImplementsLifecycle, Lifecycle!Spec


=============================================================================
