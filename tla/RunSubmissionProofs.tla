------------------------- MODULE RunSubmissionProofs -------------------------
(***************************************************************************)
(* What holds of datasets, submissions and resumes while any number of     *)
(* clients are in the middle of theirs, die in it, and meet workers,       *)
(* recoveries, policy updates and altered files.  The rows are RunStore's, *)
(* so what is proved of the store is used here, not proved again.          *)
(***************************************************************************)
EXTENDS RunSubmission, TLAPS

Proofs == INSTANCE RunStoreProofs WITH Bodies <- Provenance, Manifests <- {"manifest"}

StoreInv == Proofs!StoreInv

(* The parameters are ones the store's theorems are about.                 *)
LEMMA StoreAssumptions ==
  Proofs!SpecsAssumption /\ Proofs!NamesAssumption /\ Proofs!TimeAssumption
BY SubmissionStoreAssumption, ProvenanceAssumption
DEF Proofs!SpecsAssumption, Proofs!NamesAssumption, Proofs!TimeAssumption

-----------------------------------------------------------------------------
(* The inductive invariant.                                                *)

Terminal == Store!Terminal
Present(d) == file[d] # "absent"
EndedWithoutSuccess(r) == status[r] \in Terminal \ {"succeeded"}

Memory ==
  [at : Steps, project : Projects \cup {None}, dataset : Datasets \cup {None},
   resume : Runs \cup {None}, lease : Leases \cup {None}, spec : Specs \cup {None},
   key : Keys \cup {None}, parent : Runs \cup {None},
   implementation : Policies \cup {None}, inputs : Hashes \cup {None}]

Types ==
  /\ file \in [Datasets -> Contents \cup {"absent"}]
  /\ op \in [Clients -> Memory]
  /\ answers \subseteq [spec : Specs, key : Keys \cup {None}, run : Runs]
  /\ resumed \subseteq Runs \X Runs

(* A file is there before its row, and until after the row's deletion.     *)
DatasetOK(d) ==
  /\ d \in dsDeleted => dsProject[d] # None
  /\ dsProject[d] # None /\ d \notin dsDeleted => Present(d)

(* Registering and deleting: the copy waits for its row, and what is       *)
(* unlinked was deleted.                                                   *)
FilesOK(c) ==
  /\ op[c].at \in {"add", "delete", "unlink"} => op[c].dataset \in Datasets /\ op[c].project \in Projects
  /\ op[c].at = "add" => dsProject[op[c].dataset] # None \/ Present(op[c].dataset)
  /\ op[c].at = "unlink" => op[c].dataset \in dsDeleted

(* Submitting: what will be inserted is complete, and is an attempt at the *)
(* resumed run, without a key, if there is one.                            *)
SubmitOK(c) ==
  /\ op[c].at \in {"check", "hash", "insert"} =>
       op[c].spec \in Specs /\ op[c].implementation \in Policies
  /\ op[c].at = "insert" => op[c].inputs \in Hashes
  /\ op[c].at \in {"check", "hash", "insert"} /\ op[c].resume # None =>
       /\ op[c].parent = op[c].resume /\ op[c].key = None
       /\ op[c].spec = spec[op[c].resume]

(* Resuming: from the identity check on the resumed run has ended.         *)
ResumeOK(c) ==
  /\ op[c].at = "idle" => op[c].resume = None
  /\ op[c].at \in {"look", "fence", "match", "resubmit", "compare"} =>
       op[c].resume \in Runs /\ Store!Exists(op[c].resume)
  /\ op[c].at \in {"match", "resubmit", "check", "hash", "insert", "compare"} /\ op[c].resume # None =>
       EndedWithoutSuccess(op[c].resume)
  /\ op[c].at = "compare" =>
       /\ op[c].parent \in Runs /\ Store!Exists(op[c].parent)
       /\ spec[op[c].parent] = spec[op[c].resume]
       /\ body[op[c].parent].inputs = op[c].inputs
       /\ body[op[c].parent].parent = op[c].resume

ClientOK(c) == FilesOK(c) /\ SubmitOK(c) /\ ResumeOK(c)

(* An answer names a run of its specification, under its key.              *)
AnswerOK(a) ==
  /\ Store!Exists(a.run) /\ spec[a.run] = a.spec
  /\ a.key # None => idem[a.run] = <<a.spec.project, a.key>>

(* An attempt repeats a run that has ended without success.                *)
AttemptOK(r, attempt) ==
  /\ EndedWithoutSuccess(r) /\ Store!Exists(attempt)
  /\ spec[attempt] = spec[r] /\ body[attempt].inputs = body[r].inputs
  /\ body[attempt].parent = r

Inv ==
  /\ StoreInv /\ Types
  /\ \A d \in Datasets : DatasetOK(d)
  /\ \A c \in Clients : ClientOK(c)
  /\ \A a \in answers : AnswerOK(a)
  /\ \A e \in resumed : AttemptOK(e[1], e[2])

-----------------------------------------------------------------------------
(* A client's memory, field by field.                                      *)

(* Idle is a memory.                                                       *)
LEMMA IdleMemory == Idle \in Memory
BY DEF Idle, Memory, Steps

(* Goto changes the step of one client and nothing else.                   *)
LEMMA GotoRow ==
  ASSUME Types, NEW c \in Clients, NEW s \in Steps, Goto(c, s)
  PROVE  /\ op' \in [Clients -> Memory]
         /\ \A x \in Clients \ {c} : op'[x] = op[x]
         /\ op'[c].at = s /\ op'[c].project = op[c].project /\ op'[c].dataset = op[c].dataset
         /\ op'[c].resume = op[c].resume /\ op'[c].lease = op[c].lease /\ op'[c].spec = op[c].spec
         /\ op'[c].key = op[c].key /\ op'[c].parent = op[c].parent
         /\ op'[c].implementation = op[c].implementation /\ op'[c].inputs = op[c].inputs
<1>1. \A m \in Memory, t \in Steps : [m EXCEPT !.at = t] \in Memory
  BY Zenon DEF Memory
<1>2. op \in [Clients -> Memory] /\ op[c] \in Memory /\ [op[c] EXCEPT !.at = s] \in Memory
  BY <1>1 DEF Types
<1>3. op'[c] = [op[c] EXCEPT !.at = s]
  BY <1>2 DEF Goto
<1>4. op' \in [Clients -> Memory] /\ \A x \in Clients \ {c} : op'[x] = op[x]
  BY <1>2 DEF Goto
<1> QED
  BY <1>2, <1>3, <1>4 DEF Memory

(* A client that returns or raises remembers nothing.                      *)
LEMMA LeaveRow ==
  ASSUME Types, NEW c \in Clients, Leave(c)
  PROVE  /\ op' \in [Clients -> Memory] /\ op'[c] = Idle
         /\ \A x \in Clients \ {c} : op'[x] = op[x]
BY IdleMemory DEF Types, Leave

(* A client starts its operation with what it was asked for.               *)
LEMMA StartRow ==
  ASSUME Types, NEW c \in Clients, NEW m \in Memory, op' = [op EXCEPT ![c] = m]
  PROVE  /\ op' \in [Clients -> Memory] /\ op'[c] = m
         /\ \A x \in Clients \ {c} : op'[x] = op[x]
BY DEF Types

WithDataset(s, p, d) == [Idle EXCEPT !.at = s, !.project = p, !.dataset = d]
WithRun(s, p, r) == [Idle EXCEPT !.at = s, !.project = p, !.resume = r]

(* The memories that registering and deleting start with ...               *)
LEMMA DatasetMemory ==
  ASSUME NEW p \in Projects, NEW d \in Datasets, NEW s \in {"add", "delete"}
  PROVE  LET m == WithDataset(s, p, d)
         IN  m \in Memory /\ m.at = s /\ m.project = p /\ m.dataset = d /\ m.resume = None
<1>1. \A n \in Memory, t \in Steps, q \in Projects \cup {None}, e \in Datasets \cup {None} :
        [n EXCEPT !.at = t, !.project = q, !.dataset = e] \in Memory
  BY Zenon DEF Memory
<1>2. {"add", "delete"} \subseteq Steps
  BY DEF Steps
<1>3. WithDataset(s, p, d) \in Memory
  BY <1>1, <1>2, IdleMemory DEF WithDataset
<1> QED
  BY <1>3 DEF WithDataset, Idle

(* ... and the one that a resume starts with.                              *)
LEMMA ResumeMemory ==
  ASSUME NEW p \in Projects, NEW r \in Runs, NEW s \in {"look", "match"}
  PROVE  LET m == WithRun(s, p, r)
         IN  m \in Memory /\ m.at = s /\ m.project = p /\ m.resume = r
<1>1. \A n \in Memory, t \in Steps, q \in Projects \cup {None}, f \in Runs \cup {None} :
        [n EXCEPT !.at = t, !.project = q, !.resume = f] \in Memory
  BY Zenon DEF Memory
<1>2. {"look", "match"} \subseteq Steps
  BY DEF Steps
<1>3. WithRun(s, p, r) \in Memory
  BY <1>1, <1>2, IdleMemory DEF WithRun
<1> QED
  BY <1>3 DEF WithRun, Idle

(* A submission reads its policy.                                          *)
LEMMA ReadRow ==
  ASSUME Types, NEW c \in Clients, NEW s \in Specs, NEW k \in Keys \cup {None},
         NEW q \in Runs \cup {None}, ReadPolicy(c, s, k, q), policy \in [Projects -> Policies]
  PROVE  /\ op' \in [Clients -> Memory] /\ \A x \in Clients \ {c} : op'[x] = op[x]
         /\ op'[c].at = "check" /\ op'[c].spec = s /\ op'[c].key = k /\ op'[c].parent = q
         /\ op'[c].resume = op[c].resume /\ op'[c].implementation \in Policies
<1> DEFINE i == policy[s.project]
           e == op[c].resume
           m == [Idle EXCEPT !.at = "check", !.project = s.project, !.spec = s, !.key = k,
                             !.parent = q, !.resume = e, !.implementation = i]
<1>2. e \in Runs \cup {None} /\ "check" \in Steps
  BY DEF Types, Memory, Steps
<1>3. s.project \in Projects /\ i \in Policies
  BY SubmissionStoreAssumption
<1>4. m \in Memory
  <2> DEFINE n == [Idle EXCEPT !.at = "check", !.project = s.project, !.spec = s, !.key = k]
  <2>1. \A x \in Memory, t \in Steps, p \in Projects \cup {None}, u \in Specs \cup {None},
           l \in Keys \cup {None} :
          [x EXCEPT !.at = t, !.project = p, !.spec = u, !.key = l] \in Memory
    BY ZenonT(30) DEF Memory
  <2>2. n \in Memory
    BY <1>2, <1>3, <2>1, IdleMemory
  <2>3. \A x \in Memory, r \in Runs \cup {None}, f \in Runs \cup {None}, b \in Policies \cup {None} :
          [x EXCEPT !.parent = r, !.resume = f, !.implementation = b] \in Memory
    BY ZenonT(30) DEF Memory
  <2>4. [n EXCEPT !.parent = q, !.resume = e, !.implementation = i] \in Memory
    BY <1>2, <1>3, <2>2, <2>3
  <2>5. m = [n EXCEPT !.parent = q, !.resume = e, !.implementation = i]
    BY Zenon
  <2> QED
    BY <2>4, <2>5, Zenon
<1>5. op' = [op EXCEPT ![c] = m]
  BY DEF ReadPolicy
<1>6. m.at = "check" /\ m.spec = s /\ m.key = k /\ m.parent = q /\ m.resume = e /\ m.implementation = i
  BY DEF Idle
<1> HIDE DEF m, i
<1> QED
  BY <1>3, <1>4, <1>5, <1>6, StartRow

(* A submission takes the contents of its inputs.                          *)
LEMMA HashRow ==
  ASSUME Types, NEW c \in Clients, NEW h \in Hashes,
         op' = [op EXCEPT ![c].at = "insert", ![c].inputs = h]
  PROVE  /\ op' \in [Clients -> Memory] /\ \A x \in Clients \ {c} : op'[x] = op[x]
         /\ op'[c].at = "insert" /\ op'[c].inputs = h /\ op'[c].resume = op[c].resume
         /\ op'[c].spec = op[c].spec /\ op'[c].key = op[c].key /\ op'[c].parent = op[c].parent
         /\ op'[c].implementation = op[c].implementation
<1> DEFINE m == [op[c] EXCEPT !.at = "insert", !.inputs = h]
<1>1. \A n \in Memory, t \in Steps, g \in Hashes : [n EXCEPT !.at = t, !.inputs = g] \in Memory
  BY Zenon DEF Memory
<1>2. op \in [Clients -> Memory] /\ op[c] \in Memory /\ "insert" \in Steps
  BY DEF Types, Steps
<1>3. m \in Memory
  BY <1>1, <1>2
<1>4. op' = [op EXCEPT ![c] = m]
  BY <1>2 DEF Memory
<1>5. /\ m.at = "insert" /\ m.inputs = h /\ m.resume = op[c].resume /\ m.spec = op[c].spec
      /\ m.key = op[c].key /\ m.parent = op[c].parent /\ m.implementation = op[c].implementation
  BY <1>2 DEF Memory
<1> HIDE DEF m
<1> QED
  BY <1>3, <1>4, <1>5, StartRow

(* A resume takes the attempt that was inserted for it.                    *)
LEMMA AttemptRow ==
  ASSUME Types, NEW c \in Clients, NEW r \in Runs,
         op' = [op EXCEPT ![c].at = "compare", ![c].parent = r]
  PROVE  /\ op' \in [Clients -> Memory] /\ \A x \in Clients \ {c} : op'[x] = op[x]
         /\ op'[c].at = "compare" /\ op'[c].parent = r /\ op'[c].resume = op[c].resume
         /\ op'[c].inputs = op[c].inputs
<1> DEFINE m == [op[c] EXCEPT !.at = "compare", !.parent = r]
<1>1. \A n \in Memory, t \in Steps, q \in Runs : [n EXCEPT !.at = t, !.parent = q] \in Memory
  BY Zenon DEF Memory
<1>2. op \in [Clients -> Memory] /\ op[c] \in Memory /\ "compare" \in Steps
  BY DEF Types, Steps
<1>3. m \in Memory
  BY <1>1, <1>2
<1>4. op' = [op EXCEPT ![c] = m]
  BY <1>2 DEF Memory
<1>5. m.at = "compare" /\ m.parent = r /\ m.resume = op[c].resume /\ m.inputs = op[c].inputs
  BY <1>2 DEF Memory
<1> HIDE DEF m
<1> QED
  BY <1>3, <1>4, <1>5, StartRow

(* A recovery takes the lease of the run that looks stale.                 *)
LEMMA FenceRow ==
  ASSUME Types, NEW c \in Clients, NEW l \in Leases \cup {None},
         op' = [op EXCEPT ![c].at = "fence", ![c].lease = l]
  PROVE  /\ op' \in [Clients -> Memory] /\ \A x \in Clients \ {c} : op'[x] = op[x]
         /\ op'[c].at = "fence" /\ op'[c].resume = op[c].resume
<1> DEFINE m == [op[c] EXCEPT !.at = "fence", !.lease = l]
<1>1. \A n \in Memory, t \in Steps, k \in Leases \cup {None} : [n EXCEPT !.at = t, !.lease = k] \in Memory
  BY Zenon DEF Memory
<1>2. op \in [Clients -> Memory] /\ op[c] \in Memory /\ "fence" \in Steps
  BY DEF Types, Steps
<1>3. m \in Memory
  BY <1>1, <1>2
<1>4. op' = [op EXCEPT ![c] = m]
  BY <1>2 DEF Memory
<1>5. m.at = "fence" /\ m.resume = op[c].resume
  BY <1>2 DEF Memory
<1> HIDE DEF m
<1> QED
  BY <1>3, <1>4, <1>5, StartRow

-----------------------------------------------------------------------------
(* The transactions are the store's.                                       *)

(* Registering, deleting, updating a policy and the clock are its own.     *)
LEMMA QuietTransactions ==
  /\ \A p \in Projects, d \in Datasets : Store!AddDataset(p, d) => Proofs!Next
  /\ \A p \in Projects, d \in Datasets : Store!DeleteDataset(p, d) => Proofs!Next
  /\ \A p \in Projects, b \in Policies : Store!UpdateProject(p, b) => Proofs!Next
  /\ Store!Tick => Proofs!Next
<1> USE DEF Store!projectVars, Store!datasetVars, Store!submittedVars,
            Proofs!projectVars, Proofs!datasetVars, Proofs!submittedVars
<1>1. ASSUME NEW p \in Projects, NEW d \in Datasets, Store!AddDataset(p, d)
      PROVE  Proofs!Next
  BY <1>1 DEF Store!AddDataset, Proofs!AddDataset, Proofs!Admin, Proofs!Next
<1>2. ASSUME NEW p \in Projects, NEW d \in Datasets, Store!DeleteDataset(p, d)
      PROVE  Proofs!Next
  <2>1. Proofs!DeleteDataset(p, d)
    BY <1>2 DEF Store!DeleteDataset, Store!DeletionAllowed, Store!References, Store!Exists,
                Store!DatasetsOf, Store!ProjectOf, Proofs!DeleteDataset, Proofs!DeletionAllowed,
                Proofs!References, Proofs!Exists, Proofs!DatasetsOf, Proofs!ProjectOf
  <2> QED
    BY <2>1 DEF Proofs!Admin, Proofs!Next
<1>3. ASSUME NEW p \in Projects, NEW b \in Policies, Store!UpdateProject(p, b)
      PROVE  Proofs!Next
  BY <1>3 DEF Store!UpdateProject, Proofs!UpdateProject, Proofs!Admin, Proofs!Next
<1>4. ASSUME Store!Tick PROVE Proofs!Next
  BY <1>4 DEF Store!Tick, Proofs!Tick, Proofs!Next
<1> QED
  BY <1>1, <1>2, <1>3, <1>4

(* So is a submission, with a key or without.                              *)
LEMMA SubmitTransaction ==
  ASSUME NEW s \in Specs, NEW k \in Keys \cup {None}, NEW r \in Runs, NEW b \in Provenance,
         Store!Submit(s, k, r, b)
  PROVE  Proofs!Next
<1>1. Proofs!Submit(s, k, r, b)
  BY DEF Store!Submit, Store!Exists, Store!KeyUsed, Store!IdemKey, Store!DatasetsLive, Store!DatasetsOf,
         Store!Live, Store!projectVars, Store!datasetVars,
         Proofs!Submit, Proofs!Exists, Proofs!KeyUsed, Proofs!IdemKey, Proofs!DatasetsLive,
         Proofs!DatasetsOf, Proofs!Live, Proofs!projectVars, Proofs!datasetVars
<1> QED
  BY <1>1 DEF Proofs!Submission, Proofs!Next

(* So is a cancellation.                                                   *)
LEMMA CancelTransaction ==
  ASSUME NEW p \in Projects, NEW r \in Runs, Store!Cancel(p, r)
  PROVE  Proofs!Next
<1>1. Proofs!Cancel(p, r)
  BY DEF Store!Cancel, Store!CancelledStatus, Store!ProjectOf,
         Store!projectVars, Store!datasetVars, Store!submittedVars,
         Proofs!Cancel, Proofs!CancelledStatus, Proofs!ProjectOf,
         Proofs!projectVars, Proofs!datasetVars, Proofs!submittedVars
<1> QED
  BY <1>1 DEF Proofs!Cancelling, Proofs!Next

(* So is a claim.                                                          *)
LEMMA ClaimTransaction ==
  ASSUME NEW p \in Projects, NEW r \in Runs, NEW l \in Leases, Store!Claim(p, r, l)
  PROVE  Proofs!Next
<1> USE DEF Store!datasetVars, Store!submittedVars, Proofs!datasetVars, Proofs!submittedVars
<1>1. Store!StartRun(p, r, l) => Proofs!StartRun(p, r, l)
  BY DEF Store!StartRun, Store!SlotFree, Proofs!StartRun, Proofs!SlotFree
<1>2. Store!Queued(p) = Proofs!Queued(p)
  BY DEF Store!Queued, Proofs!Queued, Store!ProjectOf, Proofs!ProjectOf
<1>3. Store!Claimable(p) = Proofs!Claimable(p)
  BY <1>2 DEF Store!Claimable, Proofs!Claimable, Store!Oldest, Proofs!Oldest
<1>4. Proofs!Claim(p, r, l)
  BY <1>1, <1>3 DEF Store!Claim, Proofs!Claim
<1> QED
  BY <1>4 DEF Proofs!Claiming, Proofs!Next

(* Finishing a run here is finishing it there, whoever asks.               *)
LEMMA SameFinish ==
  ASSUME NEW p, NEW r, NEW l, NEW st, NEW m, NEW sb, Store!Finish(p, r, l, st, m, sb)
  PROVE  Proofs!Finish(p, r, l, st, m, sb)
BY DEF Store!Finish, Store!LeaseValid, Store!ProjectOf, Store!NotRenewed, Store!FinalStatus,
       Store!Published, Store!EndEvent, Store!datasetVars, Store!submittedVars,
       Proofs!Finish, Proofs!LeaseValid, Proofs!ProjectOf, Proofs!NotRenewed, Proofs!FinalStatus,
       Proofs!Published, Proofs!EndEvent, Proofs!datasetVars, Proofs!submittedVars

(* Only a lease that was issued is the lease of a running run.             *)
LEMMA HeldLease ==
  ASSUME StoreInv, NEW r \in Runs, NEW p, NEW l, Store!LeaseValid(p, r, l)
  PROVE  l \in issued
BY DEF StoreInv, Proofs!StoreInv, Proofs!LeaseFencing, Store!LeaseValid

(* What workers do are transactions of the store.                          *)
LEMMA WorkTransaction ==
  ASSUME StoreInv, Work
  PROVE  Proofs!Next
<1>1. PICK p \in Projects, r \in Runs, l \in Leases :
       \/ Store!Claim(p, r, l)
       \/ Store!Heartbeat(p, r, l)
       \/ Store!Finish(p, r, l, "succeeded", "manifest", None)
       \/ Store!Finish(p, r, l, "failed", None, None)
  BY DEF Work
<1>2. CASE Store!Claim(p, r, l)
  BY <1>2, ClaimTransaction
<1>3. CASE Store!Heartbeat(p, r, l)
  <2>1. Proofs!Heartbeat(p, r, l)
    BY <1>3 DEF Store!Heartbeat, Store!LeaseValid, Store!ProjectOf,
                Store!projectVars, Store!datasetVars, Store!submittedVars,
                Proofs!Heartbeat, Proofs!LeaseValid, Proofs!ProjectOf,
                Proofs!projectVars, Proofs!datasetVars, Proofs!submittedVars
  <2>2. l \in issued
    BY <1>3, HeldLease DEF Store!Heartbeat
  <2> QED
    BY <2>1, <2>2 DEF Proofs!Known, Proofs!Beating, Proofs!Next
<1>4. ASSUME NEW st \in {"succeeded", "failed"}, NEW m \in {"manifest", None},
             (st = "succeeded") <=> (m # None), Store!Finish(p, r, l, st, m, None)
      PROVE  Proofs!Next
  <2>1. Proofs!Finish(p, r, l, st, m, None)
    BY <1>4, SameFinish
  <2>2. l \in issued
    BY <1>4, HeldLease DEF Store!Finish
  <2>3. Proofs!Reporting
    BY <1>4, <2>1, <2>2 DEF Proofs!Reporting, Proofs!Known, Proofs!Reported
  <2> QED
    BY <2>3 DEF Proofs!Next
<1>5. "manifest" # None
  BY SubmissionStoreAssumption
<1> QED
  BY <1>1, <1>2, <1>3, <1>4, <1>5

(* So is the interruption of a stale run, by the lease that was read.      *)
LEMMA InterruptTransaction ==
  ASSUME StoreInv, NEW p \in Projects, NEW r \in Runs, NEW l,
         Store!Interrupt(p, r, l, now - StaleAfter)
  PROVE  Proofs!Next
<1>1. Proofs!Interrupt(p, r, l, now - StaleAfter)
  BY SameFinish DEF Store!Interrupt, Proofs!Interrupt
<1>2. l \in issued
  BY HeldLease DEF Store!Interrupt, Store!Finish
<1>3. now \in 0 .. now
  BY DEF StoreInv, Proofs!StoreInv, Proofs!TypeOK
<1> QED
  BY <1>1, <1>2, <1>3 DEF Proofs!Recovering, Proofs!Known, Proofs!Next

-----------------------------------------------------------------------------
(* What other clients and transactions leave alone.                        *)

(* The types of the columns.                                               *)
LEMMA Columns ==
  ASSUME StoreInv
  PROVE  /\ policy \in [Projects -> Policies]
         /\ dsProject \in [Datasets -> Projects \cup {None}] /\ dsDeleted \subseteq Datasets
         /\ status \in [Runs -> Store!Status] /\ lease \in [Runs -> Leases \cup {None}]
         /\ spec \in [Runs -> Specs \cup {None}] /\ body \in [Runs -> Provenance \cup {None}]
         /\ idem \in [Runs -> (Projects \X (Keys \cup Runs)) \cup {None}]
         /\ \A r \in Runs : Store!Exists(r) => spec[r] \in Specs /\ Store!ProjectOf(r) \in Projects
         /\ \A q, r \in Runs : Store!Exists(q) /\ Store!Exists(r) /\ idem[q] = idem[r] => q = r
         /\ \A r \in Runs, d \in Datasets :
               Store!References(r, d) => dsProject[d] = Store!ProjectOf(r) /\ d \notin dsDeleted
BY SubmissionStoreAssumption
DEF StoreInv, Proofs!StoreInv, Proofs!TypeOK, Proofs!OneRunPerKey, Proofs!DatasetsRetained,
    Proofs!Status, Store!Status, Proofs!Terminal, Store!Terminal, Proofs!Exists, Store!Exists,
    Proofs!References, Store!References, Proofs!DatasetsOf, Store!DatasetsOf, Proofs!Live,
    Proofs!ProjectOf, Store!ProjectOf

RowStays(r) ==
  /\ Store!Exists(r) => /\ status'[r] # "absent"
                        /\ spec'[r] = spec[r] /\ body'[r] = body[r] /\ idem'[r] = idem[r]
  /\ status[r] \in Terminal => status'[r] = status[r]

DatasetStays(d) ==
  /\ dsProject[d] # None => dsProject'[d] = dsProject[d]
  /\ d \in dsDeleted => d \in dsDeleted'

(* A transaction leaves the store's invariant, its rows and its datasets.  *)
LEMMA StoreKept ==
  ASSUME StoreInv, Proofs!Next \/ UNCHANGED storeVars
  PROVE  StoreInv' /\ (\A r \in Runs : RowStays(r)) /\ (\A d \in Datasets : DatasetStays(d))
<1>1. UNCHANGED storeVars => UNCHANGED Proofs!vars
  BY DEF storeVars, Proofs!vars
<1>2. StoreInv'
  BY <1>1, StoreAssumptions, Proofs!StoreStep DEF StoreInv
<1>3. Proofs!TypeOK
  BY DEF StoreInv, Proofs!StoreInv
<1>4. \A r \in Runs : Proofs!RowStays(r)
  BY <1>1, <1>3, StoreAssumptions, Proofs!RowsStay
<1>5. \A d \in Datasets : Proofs!DatasetStays(d)
  BY <1>1, <1>3, StoreAssumptions, Proofs!DatasetsStay
<1> QED
  BY <1>2, <1>4, <1>5 DEF RowStays, DatasetStays, Proofs!RowStays, Proofs!DatasetStays, Terminal,
                          Store!Terminal, Proofs!Terminal, Store!Exists, Proofs!Exists

(* A file goes only after its dataset was registered.                      *)
FileStays(d) == Present(d) => file'[d] # "absent" \/ dsProject'[d] # None

(* A run that has ended without success stays so.                          *)
LEMMA EndedStays ==
  ASSUME NEW r \in Runs, RowStays(r), EndedWithoutSuccess(r)
  PROVE  EndedWithoutSuccess(r)' /\ Store!Exists(r)
BY DEF RowStays, EndedWithoutSuccess, Terminal, Store!Terminal, Store!Exists

(* No client is confused by what others do.                                *)
LEMMA ClientStays ==
  ASSUME Types, NEW x \in Clients, ClientOK(x), op'[x] = op[x],
         \A r \in Runs : RowStays(r),
         \A d \in Datasets : DatasetStays(d) /\ FileStays(d)
  PROVE  ClientOK(x)'
<1>1. op[x] \in Memory
  BY DEF Types
<1>2. FilesOK(x)'
  BY DEF ClientOK, FilesOK, DatasetStays, FileStays, Present
<1>3. \A r \in Runs : EndedWithoutSuccess(r) => EndedWithoutSuccess(r)' /\ Store!Exists(r)
  BY EndedStays
<1>4. \A r \in Runs : Store!Exists(r) =>
         Store!Exists(r)' /\ spec'[r] = spec[r] /\ body'[r] = body[r]
  BY DEF RowStays, Store!Exists
<1>5. op[x].resume \in Runs \cup {None}
  BY <1>1 DEF Memory
<1>6. SubmitOK(x)'
  BY <1>3, <1>4, <1>5 DEF ClientOK, SubmitOK, ResumeOK
<1>7. ResumeOK(x)'
  BY <1>3, <1>4, <1>5 DEF ClientOK, ResumeOK
<1> QED
  BY <1>2, <1>6, <1>7 DEF ClientOK

(* A step of the clients in C keeps the invariant if it keeps it for them, *)
(* for the files, and for what it answers.                                 *)
LEMMA ClientStep ==
  ASSUME Inv, Types', Proofs!Next \/ UNCHANGED storeVars,
         \A d \in Datasets : DatasetOK(d)' /\ FileStays(d),
         NEW C \in SUBSET Clients, \A x \in Clients \ C : op'[x] = op[x], \A c \in C : ClientOK(c)',
         \A a \in answers' : a \in answers \/ AnswerOK(a)',
         \A e \in resumed' : e \in resumed \/ AttemptOK(e[1], e[2])'
  PROVE  Inv'
<1>1. StoreInv' /\ (\A r \in Runs : RowStays(r)) /\ (\A d \in Datasets : DatasetStays(d))
  BY StoreKept DEF Inv
<1>2. ASSUME NEW x \in Clients PROVE ClientOK(x)'
  <2>1. CASE x \in C
    BY <2>1
  <2>2. CASE x \notin C
    BY <1>1, <2>2, ClientStays DEF Inv
  <2> QED
    BY <2>1, <2>2
<1>3. ASSUME NEW a \in answers' PROVE AnswerOK(a)'
  <2>1. CASE a \in answers
    <3>1. AnswerOK(a) /\ a.run \in Runs /\ RowStays(a.run)
      BY <1>1, <2>1 DEF Inv, Types
    <3> QED
      BY <3>1 DEF AnswerOK, RowStays, Store!Exists
  <2> QED
    BY <2>1
<1>4. ASSUME NEW e \in resumed' PROVE AttemptOK(e[1], e[2])'
  <2>1. CASE e \in resumed
    <3>1. PICK q \in Runs, r \in Runs : q = e[1] /\ r = e[2]
      BY <2>1 DEF Inv, Types
    <3>2. AttemptOK(q, r) /\ RowStays(q) /\ RowStays(r)
      BY <1>1, <2>1, <3>1 DEF Inv
    <3>3. EndedWithoutSuccess(q)' /\ Store!Exists(q)
      BY <3>2, EndedStays DEF AttemptOK
    <3>4. AttemptOK(q, r)'
      BY <3>2, <3>3 DEF AttemptOK, RowStays, Store!Exists
    <3> QED
      BY <3>1, <3>4
  <2> QED
    BY <2>1
<1> QED
  BY <1>1, <1>2, <1>3, <1>4 DEF Inv

(* Most steps touch neither files nor datasets.                            *)
LEMMA PlainStep ==
  ASSUME Inv, Types', Proofs!Next \/ UNCHANGED storeVars, UNCHANGED <<dsProject, dsDeleted, file>>,
         NEW C \in SUBSET Clients, \A x \in Clients \ C : op'[x] = op[x], \A c \in C : ClientOK(c)',
         \A a \in answers' : a \in answers \/ AnswerOK(a)',
         \A e \in resumed' : e \in resumed \/ AttemptOK(e[1], e[2])'
  PROVE  Inv'
<1>1. \A d \in Datasets : DatasetOK(d)' /\ FileStays(d)
  BY DEF Inv, DatasetOK, Present, FileStays
<1> QED
  BY <1>1, ClientStep

(* A client that returned has nothing to keep.                             *)
LEMMA IdleOK ==
  ASSUME NEW c \in Clients, op'[c] = Idle
  PROVE  ClientOK(c)'
BY DEF Idle, ClientOK, FilesOK, SubmitOK, ResumeOK

(* A client that returns or raises, and changes nothing else.              *)
LEMMA LeaveKeeps ==
  ASSUME Inv, NEW c \in Clients, Leave(c), UNCHANGED <<storeVars, file, answers, resumed>>
  PROVE  Inv'
<1>1. op' \in [Clients -> Memory] /\ ClientOK(c)' /\ \A x \in Clients \ {c} : op'[x] = op[x]
  BY LeaveRow, IdleOK DEF Inv
<1>2. Types'
  BY <1>1 DEF Inv, Types
<1>3. UNCHANGED <<dsProject, dsDeleted, file>>
  BY DEF storeVars
<1>4. {c} \in SUBSET Clients /\ \A x \in {c} : ClientOK(x)'
  BY <1>1
<1>5. \A a \in answers' : a \in answers
  OBVIOUS
<1>6. \A e \in resumed' : e \in resumed
  OBVIOUS
<1> QED
  BY <1>1, <1>2, <1>3, <1>4, <1>5, <1>6, PlainStep

(* A client that moves on with its own memory, and answers nobody yet.     *)
LEMMA MoveKeeps ==
  ASSUME Inv, NEW c \in Clients, op' \in [Clients -> Memory], \A x \in Clients \ {c} : op'[x] = op[x],
         ClientOK(c)', Proofs!Next \/ UNCHANGED storeVars,
         UNCHANGED <<dsProject, dsDeleted, file, answers, resumed>>
  PROVE  Inv'
<1>1. Types'
  BY DEF Inv, Types
<1>2. {c} \in SUBSET Clients /\ \A x \in {c} : ClientOK(x)'
  OBVIOUS
<1>3. (\A a \in answers' : a \in answers) /\ (\A e \in resumed' : e \in resumed)
  OBVIOUS
<1> QED
  BY <1>1, <1>2, <1>3, PlainStep

(* What every store transaction here but two leaves alone.                 *)
LEMMA OtherTransactions ==
  /\ \A s, k, r, b : Store!Submit(s, k, r, b) => UNCHANGED <<dsProject, dsDeleted>>
  /\ \A p, r : Store!Cancel(p, r) => UNCHANGED <<dsProject, dsDeleted>>
  /\ \A p, r, l, st, m, sb : Store!Finish(p, r, l, st, m, sb) => UNCHANGED <<dsProject, dsDeleted>>
  /\ \A p, b : Store!UpdateProject(p, b) => UNCHANGED <<dsProject, dsDeleted>>
  /\ Work => UNCHANGED <<dsProject, dsDeleted>>
  /\ Store!Tick => UNCHANGED <<dsProject, dsDeleted>>
BY DEF Store!Submit, Store!Cancel, Store!Finish, Store!UpdateProject, Work, Store!Claim, Store!StartRun,
       Store!Heartbeat, Store!Tick, Store!datasetVars

-----------------------------------------------------------------------------
(* Registering and deleting datasets.                                      *)

(* The copy is there before the row.                                       *)
LEMMA CopySnapshotKeeps ==
  ASSUME Inv, NEW c \in Clients, NEW p \in Projects, NEW d \in Datasets, CopySnapshot(c, p, d)
  PROVE  Inv'
<1> DEFINE m == WithDataset("add", p, d)
<1>1. /\ op' = [op EXCEPT ![c] = m] /\ file' = [file EXCEPT ![d] = "intact"]
      /\ UNCHANGED <<storeVars, answers, resumed>>
  BY DEF CopySnapshot, WithDataset
<1>2. m \in Memory /\ m.at = "add" /\ m.project = p /\ m.dataset = d /\ m.resume = None
  BY DatasetMemory
<1> HIDE DEF m
<1>3. op' \in [Clients -> Memory] /\ op'[c] = m /\ \A x \in Clients \ {c} : op'[x] = op[x]
  BY <1>1, <1>2, StartRow DEF Inv
<1>4. file' \in [Datasets -> Contents \cup {"absent"}] /\ file'[d] = "intact"
  BY <1>1 DEF Inv, Types, Contents
<1>5. Types'
  BY <1>1, <1>3, <1>4 DEF Inv, Types
<1>6. ClientOK(c)'
  BY <1>2, <1>3, <1>4 DEF ClientOK, FilesOK, SubmitOK, ResumeOK, Present
<1>7. UNCHANGED <<dsProject, dsDeleted>>
  BY <1>1 DEF storeVars
<1>8. \A e \in Datasets : DatasetOK(e)' /\ FileStays(e)
  BY <1>1, <1>4, <1>7 DEF Inv, Types, DatasetOK, FileStays, Present
<1>9. /\ {c} \in SUBSET Clients /\ \A x \in {c} : ClientOK(x)'
      /\ \A a \in answers' : a \in answers
      /\ \A e \in resumed' : e \in resumed
  BY <1>1, <1>6
<1> QED
  BY <1>1, <1>3, <1>5, <1>8, <1>9, ClientStep

(* The row comes when its copy is there.                                   *)
LEMMA AddDatasetKeeps ==
  ASSUME Inv, NEW c \in Clients, AddDataset(c)
  PROVE  Inv'
<1>1. PICK p, d : p = op[c].project /\ d = op[c].dataset
  OBVIOUS
<1>2. op[c].at = "add" /\ Store!AddDataset(p, d) /\ Leave(c) /\ UNCHANGED <<file, answers, resumed>>
  BY <1>1 DEF AddDataset, At
<1>3. p \in Projects /\ d \in Datasets /\ (dsProject[d] # None \/ Present(d))
  BY <1>1, <1>2 DEF Inv, ClientOK, FilesOK
<1>4. Proofs!Next
  BY <1>2, <1>3, QuietTransactions
<1>5. dsProject[d] = None /\ dsProject' = [dsProject EXCEPT ![d] = p] /\ UNCHANGED dsDeleted
  BY <1>2 DEF Store!AddDataset
<1>6. op' \in [Clients -> Memory] /\ ClientOK(c)' /\ \A x \in Clients \ {c} : op'[x] = op[x]
  BY <1>2, LeaveRow, IdleOK DEF Inv
<1>7. Types'
  BY <1>2, <1>6 DEF Inv, Types
<1>8. \A e \in Datasets : DatasetOK(e)' /\ FileStays(e)
  <2>1. p # None /\ dsProject \in [Datasets -> Projects \cup {None}]
    BY <1>3, Columns, SubmissionStoreAssumption DEF Inv
  <2> QED
    BY <1>2, <1>3, <1>5, <2>1 DEF Inv, DatasetOK, FileStays, Present
<1>9. /\ {c} \in SUBSET Clients /\ \A x \in {c} : ClientOK(x)'
      /\ \A a \in answers' : a \in answers
      /\ \A e \in resumed' : e \in resumed
  BY <1>2, <1>6
<1> QED
  BY <1>4, <1>6, <1>7, <1>8, <1>9, ClientStep

(* A deletion begins with a look.                                          *)
LEMMA BeginDeleteKeeps ==
  ASSUME Inv, NEW c \in Clients, NEW p \in Projects, NEW d \in Datasets, BeginDelete(c, p, d)
  PROVE  Inv'
<1> DEFINE m == WithDataset("delete", p, d)
<1>1. op' = [op EXCEPT ![c] = m] /\ UNCHANGED <<storeVars, file, answers, resumed>>
  BY DEF BeginDelete, WithDataset
<1>2. m \in Memory /\ m.at = "delete" /\ m.project = p /\ m.dataset = d /\ m.resume = None
  BY DatasetMemory
<1> HIDE DEF m
<1>3. op' \in [Clients -> Memory] /\ op'[c] = m /\ \A x \in Clients \ {c} : op'[x] = op[x]
  BY <1>1, <1>2, StartRow DEF Inv
<1>4. ClientOK(c)'
  BY <1>2, <1>3 DEF ClientOK, FilesOK, SubmitOK, ResumeOK
<1>5. UNCHANGED <<dsProject, dsDeleted, file, answers, resumed>>
  BY <1>1 DEF storeVars
<1> QED
  BY <1>1, <1>3, <1>4, <1>5, MoveKeeps

(* The row is marked deleted before the file goes, or nothing is deleted.  *)
LEMMA DeleteDatasetKeeps ==
  ASSUME Inv, NEW c \in Clients, DeleteDataset(c)
  PROVE  Inv'
<1>1. CASE Leave(c) /\ UNCHANGED storeVars
  BY <1>1, LeaveKeeps DEF DeleteDataset
<1>2. CASE Store!DeleteDataset(op[c].project, op[c].dataset) /\ Goto(c, "unlink")
  <2>1. PICK p, d : p = op[c].project /\ d = op[c].dataset
    OBVIOUS
  <2>2. op[c].at = "delete" /\ UNCHANGED <<file, answers, resumed>>
    BY DEF DeleteDataset, At
  <2>3. p \in Projects /\ d \in Datasets
    BY <2>1, <2>2 DEF Inv, ClientOK, FilesOK
  <2>4. Proofs!Next
    BY <1>2, <2>1, <2>3, QuietTransactions
  <2>5. dsProject[d] = p /\ dsDeleted' = dsDeleted \cup {d} /\ UNCHANGED dsProject
    BY <1>2, <2>1 DEF Store!DeleteDataset
  <2>6. "unlink" \in Steps
    BY DEF Steps
  <2>7. /\ op' \in [Clients -> Memory] /\ \A x \in Clients \ {c} : op'[x] = op[x]
        /\ op'[c].at = "unlink" /\ op'[c].project = p /\ op'[c].dataset = d
    BY <1>2, <2>1, <2>6, GotoRow DEF Inv
  <2>8. ClientOK(c)'
    BY <2>3, <2>5, <2>7 DEF ClientOK, FilesOK, SubmitOK, ResumeOK
  <2>9. Types'
    BY <2>2, <2>7 DEF Inv, Types
  <2>10. \A e \in Datasets : DatasetOK(e)' /\ FileStays(e)
    <3>1. p # None
      BY <2>3, SubmissionStoreAssumption
    <3> QED
      BY <2>2, <2>5, <3>1 DEF Inv, DatasetOK, FileStays, Present
  <2>11. /\ {c} \in SUBSET Clients /\ \A x \in {c} : ClientOK(x)'
         /\ \A a \in answers' : a \in answers
         /\ \A e \in resumed' : e \in resumed
    BY <2>2, <2>8
  <2> QED
    BY <2>4, <2>7, <2>9, <2>10, <2>11, ClientStep
<1> QED
  BY <1>1, <1>2 DEF DeleteDataset

(* Only the file of a deleted dataset is unlinked.                         *)
LEMMA UnlinkKeeps ==
  ASSUME Inv, NEW c \in Clients, Unlink(c)
  PROVE  Inv'
<1>1. PICK d : d = op[c].dataset
  OBVIOUS
<1>2. /\ op[c].at = "unlink" /\ file' = [file EXCEPT ![d] = "absent"] /\ Leave(c)
      /\ UNCHANGED <<storeVars, answers, resumed>>
  BY <1>1 DEF Unlink, At
<1>3. d \in Datasets /\ d \in dsDeleted
  BY <1>1, <1>2 DEF Inv, ClientOK, FilesOK
<1>4. op' \in [Clients -> Memory] /\ ClientOK(c)' /\ \A x \in Clients \ {c} : op'[x] = op[x]
  BY <1>2, LeaveRow, IdleOK DEF Inv
<1>5. file' \in [Datasets -> Contents \cup {"absent"}]
  BY <1>2 DEF Inv, Types
<1>6. Types'
  BY <1>2, <1>4, <1>5 DEF Inv, Types
<1>7. UNCHANGED <<dsProject, dsDeleted>>
  BY <1>2 DEF storeVars
<1>8. \A e \in Datasets : DatasetOK(e)' /\ FileStays(e)
  BY <1>2, <1>3, <1>7 DEF Inv, Types, DatasetOK, FileStays, Present
<1>9. /\ {c} \in SUBSET Clients /\ \A x \in {c} : ClientOK(x)'
      /\ \A a \in answers' : a \in answers
      /\ \A e \in resumed' : e \in resumed
  BY <1>2, <1>4
<1> QED
  BY <1>2, <1>4, <1>6, <1>8, <1>9, ClientStep

-----------------------------------------------------------------------------
(* Submitting a run.                                                       *)

(* A step that reads and moves on.                                         *)
LEMMA GotoKeeps ==
  ASSUME Inv, NEW c \in Clients, NEW s \in Steps, Goto(c, s), ClientOK(c)',
         UNCHANGED <<storeVars, file, answers, resumed>>
  PROVE  Inv'
<1>1. op' \in [Clients -> Memory] /\ \A x \in Clients \ {c} : op'[x] = op[x]
  BY GotoRow DEF Inv
<1>2. UNCHANGED <<dsProject, dsDeleted, file, answers, resumed>>
  BY DEF storeVars
<1> QED
  BY <1>1, <1>2, MoveKeeps

(* A user's submission is an attempt at nothing.                           *)
LEMMA BeginSubmitKeeps ==
  ASSUME Inv, NEW c \in Clients, NEW s \in Specs, NEW k \in Keys \cup {None},
         NEW q \in Parents \cup {None}, BeginSubmit(c, s, k, q)
  PROVE  Inv'
<1>1. op[c].at = "idle" /\ ReadPolicy(c, s, k, q) /\ q \in Runs \cup {None}
  BY SubmissionAssumption DEF BeginSubmit, At
<1>2. op[c].resume = None
  BY <1>1 DEF Inv, ClientOK, ResumeOK
<1>3. /\ op' \in [Clients -> Memory] /\ \A x \in Clients \ {c} : op'[x] = op[x]
      /\ op'[c].at = "check" /\ op'[c].spec = s /\ op'[c].resume = None /\ op'[c].implementation \in Policies
  BY <1>1, <1>2, ReadRow, Columns DEF Inv
<1>4. ClientOK(c)'
  BY <1>3 DEF ClientOK, FilesOK, SubmitOK, ResumeOK
<1>5. UNCHANGED storeVars /\ UNCHANGED <<dsProject, dsDeleted, file, answers, resumed>>
  BY <1>1 DEF ReadPolicy, storeVars
<1> QED
  BY <1>3, <1>4, <1>5, MoveKeeps

(* A resume submits the specification of the run it resumes.               *)
LEMMA ResubmitKeeps ==
  ASSUME Inv, NEW c \in Clients, Resubmit(c)
  PROVE  Inv'
<1>1. PICK r : r = op[c].resume
  OBVIOUS
<1>2. op[c].at = "resubmit" /\ ReadPolicy(c, spec[r], None, r)
  BY <1>1 DEF Resubmit, At
<1>3. r \in Runs /\ Store!Exists(r) /\ EndedWithoutSuccess(r)
  <2>1. r \in Runs
    BY <1>1, <1>2 DEF Inv, ClientOK, ResumeOK
  <2>2. r # None
    BY <2>1, SubmissionStoreAssumption
  <2> QED
    BY <1>1, <1>2, <2>1, <2>2 DEF Inv, ClientOK, ResumeOK
<1>4. spec[r] \in Specs
  BY <1>3, Columns DEF Inv
<1>5. /\ op' \in [Clients -> Memory] /\ \A x \in Clients \ {c} : op'[x] = op[x]
      /\ op'[c].at = "check" /\ op'[c].spec = spec[r] /\ op'[c].key = None /\ op'[c].parent = r
      /\ op'[c].resume = r /\ op'[c].implementation \in Policies
  <2>1. PICK s \in Specs : s = spec[r]
    BY <1>4
  <2>2. Types /\ policy \in [Projects -> Policies] /\ ReadPolicy(c, s, None, r)
    BY <1>2, <2>1, Columns DEF Inv
  <2>3. None \in Keys \cup {None} /\ r \in Runs \cup {None}
    BY <1>3
  <2>4. /\ op' \in [Clients -> Memory] /\ \A x \in Clients \ {c} : op'[x] = op[x]
        /\ op'[c].at = "check" /\ op'[c].spec = s /\ op'[c].key = None /\ op'[c].parent = r
        /\ op'[c].resume = op[c].resume /\ op'[c].implementation \in Policies
    BY <2>2, <2>3, ReadRow
  <2> QED
    BY <1>1, <2>1, <2>4
<1>6. UNCHANGED storeVars /\ UNCHANGED <<dsProject, dsDeleted, file, answers, resumed>>
  BY <1>2 DEF ReadPolicy, storeVars
<1>7. ClientOK(c)'
  BY <1>3, <1>4, <1>5, <1>6 DEF ClientOK, FilesOK, SubmitOK, ResumeOK, EndedWithoutSuccess, storeVars
<1> QED
  BY <1>5, <1>6, <1>7, MoveKeeps

(* Inputs that pass are hashed next.                                       *)
LEMMA CheckInputsKeeps ==
  ASSUME Inv, NEW c \in Clients, CheckInputs(c)
  PROVE  Inv'
<1>1. op[c].at = "check" /\ UNCHANGED <<storeVars, file, answers, resumed>>
  BY DEF CheckInputs, At
<1>2. CASE Leave(c)
  BY <1>1, <1>2, LeaveKeeps
<1>3. CASE Goto(c, "hash")
  <2>1. "hash" \in Steps
    BY DEF Steps
  <2>2. /\ op'[c].at = "hash" /\ op'[c].resume = op[c].resume /\ op'[c].spec = op[c].spec
        /\ op'[c].key = op[c].key /\ op'[c].parent = op[c].parent /\ op'[c].implementation = op[c].implementation
    BY <1>3, <2>1, GotoRow DEF Inv
  <2>3. ClientOK(c)'
    BY <1>1, <2>2 DEF Inv, ClientOK, FilesOK, SubmitOK, ResumeOK, EndedWithoutSuccess, storeVars
  <2> QED
    BY <1>1, <1>3, <2>1, <2>3, GotoKeeps
<1> QED
  BY <1>2, <1>3 DEF CheckInputs

(* Files that are there have contents.                                     *)
LEMMA HashesType ==
  ASSUME Types, NEW s \in Specs, \A d \in Store!DatasetsOf(s) : Present(d)
  PROVE  [d \in Store!DatasetsOf(s) |-> file[d]] \in Hashes
<1>1. Store!DatasetsOf(s) \in SUBSET Datasets
  BY SubmissionStoreAssumption DEF Store!DatasetsOf
<1>2. \A d \in Store!DatasetsOf(s) : file[d] \in Contents
  BY <1>1 DEF Types, Present
<1>3. [d \in Store!DatasetsOf(s) |-> file[d]] \in [Store!DatasetsOf(s) -> Contents]
  BY <1>2
<1> QED
  BY <1>1, <1>3 DEF Hashes

(* The contents of the inputs are taken.                                   *)
LEMMA HashInputsKeeps ==
  ASSUME Inv, NEW c \in Clients, HashInputs(c)
  PROVE  Inv'
<1>1. op[c].at = "hash" /\ UNCHANGED <<storeVars, file, answers, resumed>>
  BY DEF HashInputs, At
<1>2. CASE Leave(c)
  BY <1>1, <1>2, LeaveKeeps
<1>3. CASE ~ Leave(c)
  <2>1. PICK s, h : s = op[c].spec /\ h = [d \in Store!DatasetsOf(s) |-> file[d]]
    OBVIOUS
  <2>2. /\ \A d \in Store!DatasetsOf(s) : Present(d)
        /\ op' = [op EXCEPT ![c].at = "insert", ![c].inputs = h]
    BY <1>3, <2>1 DEF HashInputs, Present
  <2>3. s \in Specs
    BY <1>1, <2>1 DEF Inv, ClientOK, SubmitOK
  <2>4. h \in Hashes
    BY <2>1, <2>2, <2>3, HashesType DEF Inv
  <2>5. /\ op' \in [Clients -> Memory] /\ \A x \in Clients \ {c} : op'[x] = op[x]
        /\ op'[c].at = "insert" /\ op'[c].inputs = h /\ op'[c].resume = op[c].resume
        /\ op'[c].spec = op[c].spec /\ op'[c].key = op[c].key /\ op'[c].parent = op[c].parent
        /\ op'[c].implementation = op[c].implementation
    BY <2>2, <2>4, HashRow DEF Inv
  <2>6. ClientOK(c)'
    BY <1>1, <2>4, <2>5 DEF Inv, ClientOK, FilesOK, SubmitOK, ResumeOK, EndedWithoutSuccess, storeVars
  <2>7. UNCHANGED <<dsProject, dsDeleted, file, answers, resumed>>
    BY <1>1 DEF storeVars
  <2> QED
    BY <1>1, <2>5, <2>6, <2>7, MoveKeeps
<1> QED
  BY <1>2, <1>3

(* A transaction that leaves datasets and files, and whose run answers a   *)
(* submission or goes on to be compared.                                   *)
LEMMA AnswerKeeps ==
  ASSUME Inv, NEW c \in Clients, op[c].at = "insert", NEW r \in Runs, Answer(c, r),
         Proofs!Next \/ UNCHANGED storeVars, UNCHANGED <<dsProject, dsDeleted, file, resumed>>,
         Store!Exists(r)', spec'[r] = op[c].spec,
         op[c].key # None => idem'[r] = <<op[c].spec.project, op[c].key>>,
         op[c].resume # None => /\ body'[r].inputs = op[c].inputs
                                /\ body'[r].parent = op[c].resume
  PROVE  Inv'
<1>1. op[c].spec \in Specs /\ op[c].key \in Keys \cup {None} /\ op[c].resume \in Runs \cup {None}
  BY DEF Inv, Types, ClientOK, SubmitOK, Memory
<1>2. CASE op[c].resume = None
  <2> DEFINE a == [spec |-> op[c].spec, key |-> op[c].key, run |-> r]
  <2>1. answers' = answers \cup {a} /\ Leave(c)
    BY <1>2 DEF Answer
  <2>2. op' \in [Clients -> Memory] /\ ClientOK(c)' /\ \A x \in Clients \ {c} : op'[x] = op[x]
    BY <2>1, LeaveRow, IdleOK DEF Inv
  <2>3. Types'
    BY <1>1, <2>1, <2>2 DEF Inv, Types
  <2>4. {c} \in SUBSET Clients /\ \A x \in {c} : ClientOK(x)'
    BY <2>2
  <2>5. ASSUME NEW b \in answers', b \notin answers PROVE AnswerOK(b)'
    <3>1. b.spec = op[c].spec /\ b.key = op[c].key /\ b.run = r
      BY <2>1, <2>5
    <3> QED
      BY <3>1 DEF AnswerOK
  <2>6. \A e \in resumed' : e \in resumed
    OBVIOUS
  <2> HIDE DEF a
  <2> QED
    BY <2>2, <2>3, <2>4, <2>5, <2>6, PlainStep
<1>3. CASE op[c].resume # None
  <2>1. UNCHANGED answers /\ op' = [op EXCEPT ![c].at = "compare", ![c].parent = r]
    BY <1>3 DEF Answer
  <2>2. /\ op' \in [Clients -> Memory] /\ \A x \in Clients \ {c} : op'[x] = op[x]
        /\ op'[c].at = "compare" /\ op'[c].parent = r /\ op'[c].resume = op[c].resume
        /\ op'[c].inputs = op[c].inputs
    BY <2>1, AttemptRow DEF Inv
  <2>3. PICK q \in Runs : q = op[c].resume
    BY <1>1, <1>3
  <2>4. EndedWithoutSuccess(q) /\ op[c].spec = spec[q] /\ RowStays(q)
    BY <1>3, <2>3, StoreKept DEF Inv, ClientOK, ResumeOK, SubmitOK
  <2>5. EndedWithoutSuccess(q)' /\ Store!Exists(q)
    BY <2>4, EndedStays
  <2>6. Store!Exists(q)' /\ spec'[q] = spec[q]
    BY <2>4, <2>5 DEF RowStays, Store!Exists
  <2>7. ClientOK(c)'
    BY <1>3, <2>2, <2>3, <2>4, <2>5, <2>6 DEF ClientOK, FilesOK, SubmitOK, ResumeOK
  <2> QED
    BY <2>1, <2>2, <2>7, MoveKeeps
<1> QED
  BY <1>2, <1>3

(* A new run is inserted.                                                  *)
LEMMA InsertKeeps ==
  ASSUME Inv, NEW c \in Clients, Insert(c)
  PROVE  Inv'
<1>1. op[c].at = "insert" /\ UNCHANGED <<file, resumed>>
  BY DEF Insert, At
<1>2. PICK s, k, q, i, h : s = op[c].spec /\ k = op[c].key /\ q = op[c].parent
                           /\ i = op[c].implementation /\ h = op[c].inputs
  OBVIOUS
<1>3. PICK r \in Runs : /\ Store!Submit(s, k, r, [implementation |-> i, inputs |-> h, parent |-> q])
                       /\ Answer(c, r)
  BY <1>2 DEF Insert
<1> DEFINE b == [implementation |-> i, inputs |-> h, parent |-> q]
<1>4. s \in Specs /\ i \in Policies /\ h \in Hashes /\ k \in Keys \cup {None} /\ q \in Runs \cup {None}
  BY <1>1, <1>2 DEF Inv, Types, ClientOK, SubmitOK, Memory
<1>5. b \in Provenance
  BY <1>4 DEF Provenance, Hashes
<1>6. Proofs!Next
  BY <1>3, <1>4, <1>5, SubmitTransaction
<1>7. UNCHANGED <<dsProject, dsDeleted>>
  BY <1>3, OtherTransactions
<1>8. status'[r] = "queued" /\ spec'[r] = s /\ body'[r] = b /\ idem'[r] = Store!IdemKey(s, k, r)
  <2>1. /\ status' = [status EXCEPT ![r] = "queued"] /\ spec' = [spec EXCEPT ![r] = s]
        /\ body' = [body EXCEPT ![r] = b] /\ idem' = [idem EXCEPT ![r] = Store!IdemKey(s, k, r)]
    BY <1>3 DEF Store!Submit
  <2> HIDE DEF b
  <2> QED
    BY <2>1, Columns DEF Inv
<1>9. b.inputs = h /\ b.parent = q
  OBVIOUS
<1>10. k # None => Store!IdemKey(s, k, r) = <<s.project, k>>
  BY DEF Store!IdemKey
<1>11. op[c].resume # None => q = op[c].resume
  BY <1>1, <1>2 DEF Inv, ClientOK, SubmitOK
<1> HIDE DEF b
<1>12. Store!Exists(r)'
  BY <1>8 DEF Store!Exists
<1> QED
  BY <1>1, <1>2, <1>3, <1>6, <1>7, <1>8, <1>9, <1>10, <1>11, <1>12, AnswerKeeps

(* A repeated key is answered with the run that holds it, if that has the  *)
(* same specification.  An attempt has no key.                             *)
LEMMA InsertRepeatedKeeps ==
  ASSUME Inv, NEW c \in Clients, InsertRepeated(c)
  PROVE  Inv'
<1>1. op[c].at = "insert" /\ UNCHANGED <<storeVars, file, resumed>>
  BY DEF InsertRepeated, At
<1>2. PICK q \in Runs : /\ HoldsKey(c, q)
                       /\ IF SameRequest(c, q) THEN Answer(c, q) ELSE Leave(c) /\ UNCHANGED answers
  BY DEF InsertRepeated
<1>3. CASE ~ SameRequest(c, q)
  BY <1>1, <1>2, <1>3, LeaveKeeps
<1>4. CASE SameRequest(c, q)
  <2>1. /\ Store!Exists(q) /\ op[c].key # None /\ spec[q] = op[c].spec
        /\ idem[q] = Store!IdemKey(op[c].spec, op[c].key, q)
    BY <1>2, <1>4 DEF HoldsKey, SameRequest
  <2>2. idem[q] = <<op[c].spec.project, op[c].key>>
    BY <2>1 DEF Store!IdemKey
  <2>3. op[c].resume = None
    BY <1>1, <2>1 DEF Inv, ClientOK, SubmitOK
  <2>4. /\ UNCHANGED <<dsProject, dsDeleted, file, resumed>>
        /\ Store!Exists(q)' /\ spec'[q] = op[c].spec /\ idem'[q] = idem[q]
    BY <1>1, <2>1 DEF storeVars, Store!Exists
  <2> QED
    BY <1>1, <1>2, <1>4, <2>2, <2>3, <2>4, AnswerKeeps
<1> QED
  BY <1>3, <1>4

-----------------------------------------------------------------------------
(* Resuming a run.                                                         *)

(* A run that can be resumed has ended without success, or still runs.     *)
LEMMA BeginResumeKeeps ==
  ASSUME Inv, NEW c \in Clients, NEW r \in Runs, BeginResume(c, r)
  PROVE  Inv'
<1>1. status[r] \in Resumable \cup {"running"} /\ UNCHANGED <<storeVars, file, answers, resumed>>
  BY DEF BeginResume
<1>2. Store!Exists(r) /\ Store!ProjectOf(r) \in Projects
  BY <1>1, Columns DEF Inv, Resumable, Store!Exists
<1>3. PICK p \in Projects, s \in {"look", "match"} :
         p = Store!ProjectOf(r) /\ s = IF status[r] = "running" THEN "look" ELSE "match"
  BY <1>2
<1> DEFINE m == WithRun(s, p, r)
<1>4. op' = [op EXCEPT ![c] = m] /\ (s = "match" => EndedWithoutSuccess(r))
  BY <1>1, <1>3 DEF BeginResume, WithRun, Resumable, EndedWithoutSuccess, Terminal, Store!Terminal
<1>5. m \in Memory /\ m.at = s /\ m.resume = r
  BY ResumeMemory
<1> HIDE DEF m
<1>6. op' \in [Clients -> Memory] /\ op'[c] = m /\ \A x \in Clients \ {c} : op'[x] = op[x]
  BY <1>4, <1>5, StartRow DEF Inv
<1>7. ClientOK(c)'
  BY <1>1, <1>2, <1>4, <1>5, <1>6
  DEF ClientOK, FilesOK, SubmitOK, ResumeOK, EndedWithoutSuccess, Store!Exists, storeVars
<1>8. UNCHANGED <<dsProject, dsDeleted, file, answers, resumed>>
  BY <1>1 DEF storeVars
<1> QED
  BY <1>1, <1>6, <1>7, <1>8, MoveKeeps

(* The recovery of a resume looks first.                                   *)
LEMMA LookForStaleKeeps ==
  ASSUME Inv, NEW c \in Clients, LookForStale(c)
  PROVE  Inv'
<1>1. op[c].at = "look" /\ UNCHANGED <<storeVars, file, answers, resumed>>
  BY DEF LookForStale, At
<1>2. CASE Leave(c)
  BY <1>1, <1>2, LeaveKeeps
<1>3. CASE op' = [op EXCEPT ![c].at = "fence", ![c].lease = lease[op[c].resume]]
  <2>1. op[c].resume \in Runs /\ Store!Exists(op[c].resume)
    BY <1>1 DEF Inv, ClientOK, ResumeOK
  <2>2. PICK l \in Leases \cup {None} : l = lease[op[c].resume]
    BY <2>1, Columns DEF Inv
  <2>3. /\ op' \in [Clients -> Memory] /\ \A x \in Clients \ {c} : op'[x] = op[x]
        /\ op'[c].at = "fence" /\ op'[c].resume = op[c].resume
    BY <1>3, <2>2, FenceRow DEF Inv
  <2>4. ClientOK(c)'
    BY <1>1, <2>1, <2>3 DEF ClientOK, FilesOK, SubmitOK, ResumeOK, Store!Exists, storeVars
  <2>5. UNCHANGED <<dsProject, dsDeleted, file, answers, resumed>>
    BY <1>1 DEF storeVars
  <2> QED
    BY <1>1, <2>3, <2>4, <2>5, MoveKeeps
<1> QED
  BY <1>2, <1>3 DEF LookForStale

(* An interrupted run has ended without success, also if it was cancelled. *)
LEMMA InterruptStaleKeeps ==
  ASSUME Inv, NEW c \in Clients, InterruptStale(c)
  PROVE  Inv'
<1>1. PICK r, p, l : r = op[c].resume /\ p = op[c].project /\ l = op[c].lease
  OBVIOUS
<1>2. /\ op[c].at = "fence" /\ Store!Interrupt(p, r, l, now - StaleAfter) /\ Goto(c, "match")
      /\ UNCHANGED <<file, answers, resumed>>
  BY <1>1 DEF InterruptStale, At
<1>3. r \in Runs /\ Store!Exists(r)
  BY <1>1, <1>2 DEF Inv, ClientOK, ResumeOK
<1>4. /\ p = Store!ProjectOf(r) /\ p \in Projects
      /\ status' = [status EXCEPT ![r] = Store!FinalStatus(r, "interrupted")]
      /\ UNCHANGED <<dsProject, dsDeleted>>
  BY <1>2, <1>3, Columns, OtherTransactions DEF Inv, Store!Interrupt, Store!Finish, Store!LeaseValid
<1>5. EndedWithoutSuccess(r)'
  <2>1. status'[r] \in {"cancelled", "interrupted"}
    BY <1>3, <1>4, Columns DEF Inv, Store!FinalStatus
  <2> QED
    BY <2>1 DEF EndedWithoutSuccess, Terminal, Store!Terminal
<1>6. Store!Exists(r)'
  BY <1>5 DEF EndedWithoutSuccess, Terminal, Store!Terminal, Store!Exists
<1>7. Proofs!Next
  BY <1>2, <1>3, <1>4, InterruptTransaction DEF Inv
<1>8. "match" \in Steps
  BY DEF Steps
<1>9. /\ op' \in [Clients -> Memory] /\ \A x \in Clients \ {c} : op'[x] = op[x]
      /\ op'[c].at = "match" /\ op'[c].resume = r
  BY <1>1, <1>2, <1>8, GotoRow DEF Inv
<1>10. ClientOK(c)'
  BY <1>3, <1>5, <1>6, <1>9 DEF ClientOK, FilesOK, SubmitOK, ResumeOK
<1> QED
  BY <1>2, <1>4, <1>7, <1>9, <1>10, MoveKeeps

(* The identities match, or the resume is refused.                         *)
LEMMA MatchIdentityKeeps ==
  ASSUME Inv, NEW c \in Clients, MatchIdentity(c)
  PROVE  Inv'
<1>1. op[c].at = "match" /\ UNCHANGED <<storeVars, file, answers, resumed>>
  BY DEF MatchIdentity, At
<1>2. CASE Leave(c)
  BY <1>1, <1>2, LeaveKeeps
<1>3. CASE Goto(c, "resubmit")
  <2>1. "resubmit" \in Steps
    BY DEF Steps
  <2>2. op'[c].at = "resubmit" /\ op'[c].resume = op[c].resume
    BY <1>3, <2>1, GotoRow DEF Inv
  <2>3. ClientOK(c)'
    BY <1>1, <2>2 DEF Inv, ClientOK, FilesOK, SubmitOK, ResumeOK, EndedWithoutSuccess, Store!Exists, storeVars
  <2> QED
    BY <1>1, <1>3, <2>1, <2>3, GotoKeeps
<1> QED
  BY <1>2, <1>3 DEF MatchIdentity

(* An attempt is answered only with the inputs of the run it resumes.      *)
LEMMA CompareInputsKeeps ==
  ASSUME Inv, NEW c \in Clients, CompareInputs(c)
  PROVE  Inv'
<1>1. PICK r, q, h : r = op[c].resume /\ q = op[c].parent /\ h = op[c].inputs
  OBVIOUS
<1>2. op[c].at = "compare" /\ Leave(c) /\ UNCHANGED <<file, answers>>
  BY DEF CompareInputs, At
<1>3. /\ r \in Runs /\ q \in Runs /\ Store!Exists(q) /\ spec[q] = spec[r]
      /\ body[q].inputs = h /\ body[q].parent = r
  BY <1>1, <1>2 DEF Inv, ClientOK, ResumeOK
<1>4. EndedWithoutSuccess(r)
  <2>1. r # None
    BY <1>3, SubmissionStoreAssumption
  <2> QED
    BY <1>1, <1>2, <2>1 DEF Inv, ClientOK, ResumeOK
<1>5. op' \in [Clients -> Memory] /\ ClientOK(c)' /\ \A x \in Clients \ {c} : op'[x] = op[x]
  BY <1>2, LeaveRow, IdleOK DEF Inv
<1>6. CASE UNCHANGED <<storeVars, resumed>>
  BY <1>2, <1>6, LeaveKeeps
<1>7. CASE h = body[r].inputs /\ resumed' = resumed \cup {<<r, q>>} /\ UNCHANGED storeVars
  <2>1. Types'
    BY <1>2, <1>3, <1>5, <1>7 DEF Inv, Types
  <2>2. AttemptOK(r, q)'
    BY <1>3, <1>4, <1>7 DEF AttemptOK, EndedWithoutSuccess, Store!Exists, storeVars
  <2>3. ASSUME NEW e \in resumed', e \notin resumed PROVE AttemptOK(e[1], e[2])'
    <3>1. e[1] = r /\ e[2] = q
      BY <1>7, <2>3
    <3> QED
      BY <2>2, <3>1
  <2>4. {c} \in SUBSET Clients /\ (\A x \in {c} : ClientOK(x)') /\ \A a \in answers' : a \in answers
    BY <1>2, <1>5
  <2>5. UNCHANGED <<dsProject, dsDeleted, file>>
    BY <1>2, <1>7 DEF storeVars
  <2> QED
    BY <1>5, <1>7, <2>1, <2>3, <2>4, <2>5, PlainStep
<1>8. CASE Store!Cancel(op[c].project, q) /\ UNCHANGED resumed
  <2>1. PICK p : p = op[c].project
    OBVIOUS
  <2>2. p \in Projects
    BY <1>3, <1>8, <2>1, Columns DEF Inv, Store!Cancel
  <2>3. Proofs!Next
    BY <1>3, <1>8, <2>1, <2>2, CancelTransaction
  <2>4. UNCHANGED <<dsProject, dsDeleted>>
    BY <1>8, OtherTransactions
  <2> QED
    BY <1>2, <1>5, <1>8, <2>3, <2>4, MoveKeeps
<1> QED
  BY <1>1, <1>6, <1>7, <1>8 DEF CompareInputs

-----------------------------------------------------------------------------
(* Everyone else.                                                          *)

(* A transaction of nobody here touches neither files nor datasets.        *)
LEMMA OthersKeep ==
  ASSUME Inv, UpdatePolicy \/ CancelRun \/ Work \/ Tick
  PROVE  Inv'
<1>1. UNCHANGED <<file, op, answers, resumed>>
  BY DEF UpdatePolicy, CancelRun, Work, Tick
<1>2. Proofs!Next
  BY QuietTransactions, CancelTransaction, WorkTransaction DEF UpdatePolicy, CancelRun, Tick, Inv
<1>3. UNCHANGED <<dsProject, dsDeleted>>
  BY OtherTransactions DEF UpdatePolicy, CancelRun, Tick
<1>4. Types'
  BY <1>1 DEF Inv, Types
<1>5. /\ {} \in SUBSET Clients /\ \A x \in Clients \ {} : op'[x] = op[x]
      /\ \A x \in {} : ClientOK(x)'
      /\ \A a \in answers' : a \in answers
      /\ \A e \in resumed' : e \in resumed
  BY <1>1
<1> QED
  BY <1>1, <1>2, <1>3, <1>4, <1>5, PlainStep

(* An altered file is there.                                               *)
LEMMA AlterKeeps ==
  ASSUME Inv, NEW d \in Datasets, Alter(d)
  PROVE  Inv'
<1>1. file' = [file EXCEPT ![d] = "altered"] /\ UNCHANGED <<storeVars, op, answers, resumed>>
  BY DEF Alter
<1>2. Types'
  BY <1>1 DEF Inv, Types, Contents
<1>3. UNCHANGED <<dsProject, dsDeleted>>
  BY <1>1 DEF storeVars
<1>4. \A e \in Datasets : DatasetOK(e)' /\ FileStays(e)
  BY <1>1, <1>3 DEF Inv, Types, DatasetOK, FileStays, Present
<1>5. /\ {} \in SUBSET Clients /\ \A x \in Clients \ {} : op'[x] = op[x]
      /\ \A x \in {} : ClientOK(x)'
      /\ \A a \in answers' : a \in answers
      /\ \A e \in resumed' : e \in resumed
  BY <1>1
<1> QED
  BY <1>1, <1>2, <1>4, <1>5, ClientStep

-----------------------------------------------------------------------------
(* The theorems.                                                           *)

(* Nothing is registered, asked or answered at first.                      *)
LEMMA InitInv == Init => Inv
<1> SUFFICES ASSUME Init PROVE Inv
  OBVIOUS
<1>1. Proofs!Init
  BY DEF Init, Store!Init, Proofs!Init
<1>2. StoreInv
  BY <1>1, StoreAssumptions, Proofs!StoreInit DEF StoreInv
<1>3. Types
  BY IdleMemory DEF Init, Types
<1>4. \A d \in Datasets : DatasetOK(d)
  BY DEF Init, Store!Init, DatasetOK
<1>5. \A c \in Clients : ClientOK(c)
  BY DEF Init, Idle, ClientOK, FilesOK, SubmitOK, ResumeOK
<1> QED
  BY <1>2, <1>3, <1>4, <1>5 DEF Init, Inv

(* Every step keeps the invariant.                                         *)
LEMMA NextInv ==
  ASSUME Inv, [Next]_vars
  PROVE  Inv'
<1>1. ASSUME NEW c \in Clients, NEW p \in Projects, NEW d \in Datasets,
             CopySnapshot(c, p, d) \/ BeginDelete(c, p, d)
      PROVE  Inv'
  BY <1>1, CopySnapshotKeeps, BeginDeleteKeeps
<1>2. ASSUME NEW c \in Clients, AddDataset(c) \/ DeleteDataset(c) \/ Unlink(c)
      PROVE  Inv'
  BY <1>2, AddDatasetKeeps, DeleteDatasetKeeps, UnlinkKeeps
<1>3. ASSUME NEW c \in Clients, NEW s \in Specs, NEW k \in Keys \cup {None}, NEW q \in Parents \cup {None},
             BeginSubmit(c, s, k, q)
      PROVE  Inv'
  BY <1>3, BeginSubmitKeeps
<1>4. ASSUME NEW c \in Clients, CheckInputs(c) \/ HashInputs(c) \/ Insert(c) \/ InsertRepeated(c)
      PROVE  Inv'
  BY <1>4, CheckInputsKeeps, HashInputsKeeps, InsertKeeps, InsertRepeatedKeeps
<1>5. ASSUME NEW c \in Clients, InsertRefused(c) \/ InterruptRefused(c) \/ Crash(c)
      PROVE  Inv'
  BY <1>5, LeaveKeeps DEF InsertRefused, InterruptRefused, Crash
<1>6. ASSUME NEW c \in Clients, NEW r \in Runs, BeginResume(c, r)
      PROVE  Inv'
  BY <1>6, BeginResumeKeeps
<1>7. ASSUME NEW c \in Clients, LookForStale(c) \/ InterruptStale(c) \/ MatchIdentity(c)
      PROVE  Inv'
  BY <1>7, LookForStaleKeeps, InterruptStaleKeeps, MatchIdentityKeeps
<1>8. ASSUME NEW c \in Clients, Resubmit(c) \/ CompareInputs(c)
      PROVE  Inv'
  BY <1>8, ResubmitKeeps, CompareInputsKeeps
<1>9. ASSUME NEW d \in Datasets, Alter(d)
      PROVE  Inv'
  BY <1>9, AlterKeeps
<1>10. CASE UNCHANGED vars
  <2>1. /\ UNCHANGED <<storeVars, dsProject, dsDeleted, file, op, answers, resumed>>
    BY <1>10 DEF vars, storeVars
  <2>2. Types'
    BY <2>1 DEF Inv, Types
  <2>3. /\ {} \in SUBSET Clients /\ \A x \in Clients \ {} : op'[x] = op[x]
        /\ \A x \in {} : ClientOK(x)'
        /\ \A a \in answers' : a \in answers
        /\ \A e \in resumed' : e \in resumed
    BY <2>1
  <2> QED
    BY <2>1, <2>2, <2>3, PlainStep
<1> QED
  BY <1>1, <1>2, <1>3, <1>4, <1>5, <1>6, <1>7, <1>8, <1>9, <1>10, OthersKeep DEF Next

(* The invariant holds for any number of projects, runs, datasets, leases, *)
(* keys and clients, whether or not files are altered.                     *)
THEOREM SubmissionInvariant == Spec => []Inv
<1>1. Inv /\ [Next]_vars => Inv'
  BY NextInv
<1> QED
  BY <1>1, InitInv, PTL DEF Spec

(* register copies before it inserts and the deletion handler unlinks      *)
(* after it has committed, so that a dataset that a run names is on disk.  *)
THEOREM SnapshotsAreThere == Spec => []SnapshotsPresent
<1>1. Inv => SnapshotsPresent
  <2> SUFFICES ASSUME Inv PROVE SnapshotsPresent
    OBVIOUS
  <2>1. ASSUME NEW p \in Projects, NEW d \in Datasets, Store!Live(p, d)
        PROVE  file[d] # "absent"
    <3>1. p # None
      BY SubmissionStoreAssumption
    <3> QED
      BY <2>1, <3>1 DEF Inv, DatasetOK, Present, Store!Live
  <2>2. ASSUME NEW r \in Runs, NEW d \in Datasets, Store!References(r, d)
        PROVE  file[d] # "absent"
    <3>1. dsProject[d] = Store!ProjectOf(r) /\ d \notin dsDeleted /\ Store!ProjectOf(r) \in Projects
      BY <2>2, Columns DEF Inv, Store!References
    <3>2. dsProject[d] # None
      BY <3>1, SubmissionStoreAssumption
    <3> QED
      BY <3>1, <3>2 DEF Inv, DatasetOK, Present
  <2> QED
    BY <2>1, <2>2 DEF SnapshotsPresent
<1> QED
  BY <1>1, SubmissionInvariant, PTL

(* submit answers a repeated key with the run that has it, and only if its *)
(* request was the same.                                                   *)
THEOREM AnswersAreConsistent == Spec => []AnswersMatchRequests
<1>1. Inv => AnswersMatchRequests
  <2> SUFFICES ASSUME Inv PROVE AnswersMatchRequests
    OBVIOUS
  <2>1. ASSUME NEW a \in answers, NEW b \in answers, a.key = b.key, a.key # None,
               a.spec.project = b.spec.project
        PROVE  a.run = b.run
    <3>1. a.run \in Runs /\ b.run \in Runs /\ AnswerOK(a) /\ AnswerOK(b)
      BY DEF Inv, Types
    <3>2. idem[a.run] = idem[b.run] /\ Store!Exists(a.run) /\ Store!Exists(b.run)
      BY <2>1, <3>1 DEF AnswerOK
    <3> QED
      BY <3>1, <3>2, Columns DEF Inv
  <2> QED
    BY <2>1 DEF AnswersMatchRequests, Inv, AnswerOK
<1> QED
  BY <1>1, SubmissionInvariant, PTL

(* resume answers only with an attempt of equal inputs at a run that has   *)
(* ended, and that run never publishes afterwards.                         *)
THEOREM ResumedRunsAreOver == Spec => []ResumedRunsStayEnded
<1>1. Inv => ResumedRunsStayEnded
  BY DEF Inv, AttemptOK, EndedWithoutSuccess, Terminal, ResumedRunsStayEnded
<1> QED
  BY <1>1, SubmissionInvariant, PTL

-----------------------------------------------------------------------------
(* The system is one of the clients that the store is proved for.          *)

(* Every step of a client, a worker or an operator is one transaction of   *)
(* the store or none.                                                      *)
LEMMA StepIsTransaction ==
  ASSUME Inv, [Next]_vars
  PROVE  Proofs!Next \/ UNCHANGED storeVars
<1>1. ASSUME NEW c \in Clients, AddDataset(c)
      PROVE  Proofs!Next
  <2>1. /\ Store!AddDataset(op[c].project, op[c].dataset)
        /\ op[c].project \in Projects /\ op[c].dataset \in Datasets
    BY <1>1 DEF AddDataset, At, Inv, ClientOK, FilesOK
  <2> QED
    BY <2>1, QuietTransactions
<1>2. ASSUME NEW c \in Clients, DeleteDataset(c)
      PROVE  Proofs!Next \/ UNCHANGED storeVars
  <2>1. op[c].project \in Projects /\ op[c].dataset \in Datasets
    BY <1>2 DEF DeleteDataset, At, Inv, ClientOK, FilesOK
  <2> QED
    BY <1>2, <2>1, QuietTransactions DEF DeleteDataset
<1>3. ASSUME NEW c \in Clients, Insert(c)
      PROVE  Proofs!Next
  <2>1. op[c].at = "insert"
    BY <1>3 DEF Insert, At
  <2>2. PICK s, k, q, i, h : s = op[c].spec /\ k = op[c].key /\ q = op[c].parent
                             /\ i = op[c].implementation /\ h = op[c].inputs
    OBVIOUS
  <2>3. s \in Specs /\ i \in Policies /\ h \in Hashes /\ k \in Keys \cup {None} /\ q \in Runs \cup {None}
    BY <2>1, <2>2 DEF Inv, Types, ClientOK, SubmitOK, Memory
  <2>4. [implementation |-> i, inputs |-> h, parent |-> q] \in Provenance
    BY <2>3 DEF Provenance, Hashes
  <2>5. PICK r \in Runs : Store!Submit(s, k, r, [implementation |-> i, inputs |-> h, parent |-> q])
    BY <1>3, <2>2 DEF Insert
  <2> QED
    BY <2>3, <2>4, <2>5, SubmitTransaction
<1>4. ASSUME NEW c \in Clients, InterruptStale(c)
      PROVE  Proofs!Next
  <2>1. PICK r, p, l : r = op[c].resume /\ p = op[c].project /\ l = op[c].lease
    OBVIOUS
  <2>2. op[c].at = "fence" /\ Store!Interrupt(p, r, l, now - StaleAfter)
    BY <1>4, <2>1 DEF InterruptStale, At
  <2>3. r \in Runs /\ Store!Exists(r) /\ p = Store!ProjectOf(r)
    BY <2>1, <2>2 DEF Inv, ClientOK, ResumeOK, Store!Interrupt, Store!Finish, Store!LeaseValid
  <2>4. p \in Projects
    BY <2>3, Columns DEF Inv
  <2> QED
    BY <2>2, <2>3, <2>4, InterruptTransaction DEF Inv
<1>5. ASSUME NEW c \in Clients, CompareInputs(c)
      PROVE  Proofs!Next \/ UNCHANGED storeVars
  <2>1. PICK p, q : p = op[c].project /\ q = op[c].parent
    OBVIOUS
  <2>2. q \in Runs /\ Store!Exists(q)
    BY <1>5, <2>1 DEF CompareInputs, At, Inv, ClientOK, ResumeOK
  <2>3. ASSUME Store!Cancel(p, q) PROVE Proofs!Next
    <3>1. p \in Projects
      BY <2>2, <2>3, Columns DEF Inv, Store!Cancel
    <3> QED
      BY <2>2, <2>3, <3>1, CancelTransaction
  <2> QED
    BY <1>5, <2>1, <2>3 DEF CompareInputs
<1>6. CASE UpdatePolicy \/ CancelRun \/ Work \/ Tick
  BY <1>6, QuietTransactions, CancelTransaction, WorkTransaction DEF UpdatePolicy, CancelRun, Tick, Inv
<1>7. ASSUME NEW c \in Clients,
             \/ \E p \in Projects, d \in Datasets : CopySnapshot(c, p, d) \/ BeginDelete(c, p, d)
             \/ Unlink(c)
             \/ \E s \in Specs, k \in Keys \cup {None}, q \in Parents \cup {None} : BeginSubmit(c, s, k, q)
             \/ CheckInputs(c) \/ HashInputs(c) \/ InsertRepeated(c) \/ InsertRefused(c)
             \/ (\E r \in Runs : BeginResume(c, r)) \/ LookForStale(c) \/ InterruptRefused(c)
             \/ MatchIdentity(c) \/ Resubmit(c) \/ Crash(c)
      PROVE  UNCHANGED storeVars
  BY <1>7 DEF CopySnapshot, BeginDelete, Unlink, BeginSubmit, Resubmit, ReadPolicy, CheckInputs, HashInputs,
              InsertRepeated, InsertRefused, BeginResume, LookForStale, InterruptRefused, MatchIdentity, Crash
<1>8. CASE (\E d \in Datasets : Alter(d)) \/ UNCHANGED vars
  BY <1>8 DEF Alter, vars
<1> QED
  BY <1>1, <1>2, <1>3, <1>4, <1>5, <1>6, <1>7, <1>8 DEF Next

(* Clients and workers use the store as it may be used, so all that is     *)
(* proved of every client of the store holds of this system.               *)
THEOREM SubmissionsUseTheStore == Spec => Proofs!Spec
<1>1. Init => Proofs!Init
  BY DEF Init, Store!Init, Proofs!Init
<1>2. Inv /\ [Next]_vars => [Proofs!Next]_(Proofs!vars)
  <2>1. UNCHANGED storeVars => UNCHANGED Proofs!vars
    BY DEF storeVars, Proofs!vars
  <2> QED
    BY <2>1, StepIsTransaction
<1> QED
  BY <1>1, <1>2, SubmissionInvariant, PTL DEF Spec, Proofs!Spec

(* The runs that clients submit and resume live as RunLifecycle promises:  *)
(* a resumed run is never started again, its attempt is a run of its own.  *)
THEOREM SubmissionsImplementLifecycle == Spec => Proofs!ImplementsLifecycle
BY SubmissionsUseTheStore, StoreAssumptions, Proofs!StoreImplementsLifecycle, PTL

=============================================================================
