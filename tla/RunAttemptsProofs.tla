------------------------- MODULE RunAttemptsProofs -------------------------
(***************************************************************************)
(* What checkpoints and resumes guarantee for any number of runs, any      *)
(* fingerprints and any number of stages.                                  *)
(***************************************************************************)
EXTENDS RunAttempts, TLAPS

USE AttemptsAssumption

(* The lives of the runs, whose types RunLifecycle leaves open.            *)
LivesTyped ==
  /\ phase \in [Runs -> {"absent", "queued", "running"} \cup Ended]
  /\ home \in [Runs -> {"project", None}]
  /\ cancelling \subseteq Runs

(* What a run has at each point of its life: a fingerprint from its        *)
(* submission on, a directory once it is running, an executor only with a  *)
(* directory, and before that no checkpoint but a part of a copy.          *)
Belongings ==
  \A r \in Runs :
     /\ phase[r] = "absent" => parent[r] = None /\ r \notin resumes
     /\ phase[r] # "absent" => identity[r] \in Identities
     /\ r \in prepared => phase[r] \notin {"absent", "queued"}
     /\ r \notin prepared => executor[r] = "none" /\ checkpoint[r] \in {None, Truncated}
     /\ phase[r] \notin Ended => left[r] = 0

(* A resume repeats the work of a run that has ended.                      *)
ResumesRepeat ==
  \A r \in resumes :
     /\ parent[r] \in Runs /\ phase[parent[r]] \in Ended
     /\ identity[r] = identity[parent[r]]

(* What a resume copied from its parent stays until its own executor comes *)
(* to its end.                                                             *)
CopyStays ==
  \A r \in resumes \cap prepared :
     "done" \notin {executor[r], executor[parent[r]]} => Completed(r) >= left[parent[r]]

(* A set of runs in which only resumes have parents, and these are in it.  *)
Joined(S) == \A r \in S : parent[r] # None => r \in resumes /\ parent[r] \in S

(* Work stays in the family: unless a copy stopped half-way in it, no run  *)
(* of such a set has another fingerprint in its checkpoint, and none is    *)
(* refused.                                                                *)
JoinedRunsAreTrusted ==
  \A S \in SUBSET Runs :
     Joined(S) /\ (\A r \in S : ~ CopyStopped(r)) => \A r \in S : Loads(r) /\ executor[r] # "refused"

Inv ==
  /\ TypeOK /\ LivesTyped
  /\ Belongings /\ ResumesRepeat
  /\ EndedWorkStays /\ CopyStays /\ StartsWhereItStopped /\ ChainsGrow
  /\ NoForeignWork /\ JoinedRunsAreTrusted

(* Every step is one of ten operations on one run; whether a run was      *)
(* submitted or resumed, it is queued and its parent is an existing run,   *)
(* which for a resume has ended.                                           *)
Queued(r, i, p) ==
  /\ i \in Identities /\ p \in Runs \cup {None}
  /\ p # None => Exists(p)
  /\ Queue(r, i, p)
  /\ \/ UNCHANGED resumes
     \/ /\ p \in Runs /\ phase[p] \in Ended /\ i = identity[p]
        /\ resumes' = resumes \cup {r}

(* A run is queued by a submission or as the resumption of one that ended. *)
LEMMA QueuedTwoWays ==
  ASSUME Belongings, NEW r \in Runs,
         \/ \E i \in Identities, p \in Runs \cup {None} : Submit(r, i, p)
         \/ \E p \in Runs : Resume(r, p)
  PROVE  \E i \in Identities, p \in Runs \cup {None} : Queued(r, i, p)
<1>1. CASE \E i \in Identities, p \in Runs \cup {None} : Submit(r, i, p)
  BY <1>1 DEF Submit, Queued
<1>2. CASE \E p \in Runs : Resume(r, p)
  <2>1. PICK p \in Runs : Resume(r, p)
    BY <1>2
  <2>2. phase[p] \in Ended /\ Exists(p) /\ identity[p] \in Identities
    BY <2>1 DEF Resume, Belongings, Ended, Exists
  <2> QED
    BY <2>1, <2>2 DEF Resume, Queued
<1> QED
  BY <1>1, <1>2

(* How many stages a checkpoint holds.                                     *)
LEMMA CompletedType ==
  ASSUME TypeOK, NEW r \in Runs
  PROVE  Completed(r) \in 0 .. Stages
BY DEF TypeOK, Completed, Checkpoints, Truncated

(* The operations keep every variable in its type.                         *)
LEMMA TypeStep ==
  ASSUME Inv, [Next]_vars
  PROVE  (TypeOK /\ LivesTyped)'
<1> USE DEF submittedVars, Truncated
<1>1. CASE UNCHANGED vars
  BY <1>1 DEF Inv, TypeOK, LivesTyped, vars
<1>2. ASSUME NEW r \in Runs, NEW i \in Identities, NEW p \in Runs \cup {None}, Queued(r, i, p)
      PROVE  (TypeOK /\ LivesTyped)'
  BY <1>2 DEF Inv, TypeOK, LivesTyped, Queued, Queue, Life!Queue
<1>3. ASSUME NEW r \in Runs, Claim(r)
      PROVE  (TypeOK /\ LivesTyped)'
  BY <1>3 DEF Inv, TypeOK, LivesTyped, Claim, Life!Start
<1>4. ASSUME NEW r \in Runs, Prepare(r)
      PROVE  (TypeOK /\ LivesTyped)'
  BY <1>4 DEF Inv, TypeOK, LivesTyped, Prepare, Inherited
<1>5. ASSUME NEW r \in Runs, Launch(r)
      PROVE  (TypeOK /\ LivesTyped)'
  BY <1>5 DEF Inv, TypeOK, LivesTyped, Launch, Checkpoints
<1>6. ASSUME NEW r \in Runs, CompleteStage(r)
      PROVE  (TypeOK /\ LivesTyped)'
  <2>1. Completed(r) \in 0 .. Stages
    BY CompletedType DEF Inv
  <2>2. identity[r] \in Identities
    BY <1>6 DEF Inv, CompleteStage, Belongings
  <2>3. [identity |-> identity[r], completed |-> Completed(r) + 1] \in Checkpoints
    BY <1>6, <2>1, <2>2 DEF CompleteStage, Checkpoints
  <2> QED
    BY <1>6, <2>3 DEF Inv, TypeOK, LivesTyped, CompleteStage
<1>7. ASSUME NEW r \in Runs, WriteOutputs(r) \/ Kill(r)
      PROVE  (TypeOK /\ LivesTyped)'
  BY <1>7 DEF Inv, TypeOK, LivesTyped, WriteOutputs, Kill
<1>8. ASSUME NEW r \in Runs, NEW outcome \in Outcomes, End(r, outcome)
      PROVE  (TypeOK /\ LivesTyped)'
  BY <1>8, CompletedType DEF Inv, TypeOK, LivesTyped, End, Life!End, Ended
<1>9. ASSUME NEW r \in Runs, Cancel(r)
      PROVE  (TypeOK /\ LivesTyped)'
  BY <1>9 DEF Inv, TypeOK, LivesTyped, Cancel, Life!AcceptCancel, Ended
<1>10. ASSUME NEW r \in Runs, CopyStops(r)
       PROVE  (TypeOK /\ LivesTyped)'
  BY <1>10 DEF Inv, TypeOK, LivesTyped, CopyStops, Inherited
<1> QED
  BY <1>1, <1>2, <1>3, <1>4, <1>5, <1>6, <1>7, <1>8, <1>9, <1>10, QueuedTwoWays DEF Next, Inv

(* What a run has changes with its life.                                   *)
LEMMA BelongingsStep ==
  ASSUME Inv, [Next]_vars
  PROVE  Belongings'
<1> USE DEF submittedVars, Truncated
<1>1. CASE UNCHANGED vars
  BY <1>1 DEF Inv, TypeOK, LivesTyped, Belongings, Ended, vars
<1>2. ASSUME NEW r \in Runs, NEW i \in Identities, NEW p \in Runs \cup {None}, Queued(r, i, p)
      PROVE  Belongings'
  BY <1>2 DEF Inv, TypeOK, LivesTyped, Belongings, Ended, Queued, Queue, Life!Queue, Exists
<1>3. ASSUME NEW r \in Runs, Claim(r)
      PROVE  Belongings'
  BY <1>3 DEF Inv, TypeOK, LivesTyped, Belongings, Ended, Claim, Life!Start
<1>4. ASSUME NEW r \in Runs, Prepare(r)
      PROVE  Belongings'
  BY <1>4 DEF Inv, TypeOK, LivesTyped, Belongings, Ended, Prepare, Inherited
<1>5. ASSUME NEW r \in Runs, Launch(r)
      PROVE  Belongings'
  BY <1>5 DEF Inv, TypeOK, LivesTyped, Belongings, Ended, Launch
<1>6. ASSUME NEW r \in Runs, CompleteStage(r)
      PROVE  Belongings'
  BY <1>6 DEF Inv, TypeOK, LivesTyped, Belongings, Ended, CompleteStage
<1>7. ASSUME NEW r \in Runs, WriteOutputs(r) \/ Kill(r)
      PROVE  Belongings'
  BY <1>7 DEF Inv, TypeOK, LivesTyped, Belongings, Ended, WriteOutputs, Kill
<1>8. ASSUME NEW r \in Runs, NEW outcome \in Outcomes, End(r, outcome)
      PROVE  Belongings'
  BY <1>8 DEF Inv, TypeOK, LivesTyped, Belongings, Ended, End, Life!End
<1>9. ASSUME NEW r \in Runs, Cancel(r)
      PROVE  Belongings'
  BY <1>9 DEF Inv, TypeOK, LivesTyped, Belongings, Ended, Cancel, Life!AcceptCancel
<1>10. ASSUME NEW r \in Runs, CopyStops(r)
       PROVE  Belongings'
  BY <1>10 DEF Inv, TypeOK, LivesTyped, Belongings, Ended, CopyStops, Inherited
<1> QED
  BY <1>1, <1>2, <1>3, <1>4, <1>5, <1>6, <1>7, <1>8, <1>9, <1>10, QueuedTwoWays DEF Next, Inv

(* A run that is resumed has ended, and neither its end nor what it works  *)
(* on changes any more.                                                    *)
LEMMA RepeatStep ==
  ASSUME Inv, [Next]_vars
  PROVE  ResumesRepeat'
<1> USE DEF submittedVars, Truncated
<1>1. CASE UNCHANGED vars
  BY <1>1 DEF Inv, TypeOK, LivesTyped, Belongings, ResumesRepeat, Ended, vars
<1>2. ASSUME NEW r \in Runs, NEW i \in Identities, NEW p \in Runs \cup {None}, Queued(r, i, p)
      PROVE  ResumesRepeat'
  BY <1>2 DEF Inv, TypeOK, LivesTyped, Belongings, ResumesRepeat, Ended, Queued, Queue, Life!Queue, Exists
<1>3. ASSUME NEW r \in Runs, Claim(r)
      PROVE  ResumesRepeat'
  BY <1>3 DEF Inv, TypeOK, LivesTyped, Belongings, ResumesRepeat, Ended, Claim, Life!Start
<1>4. ASSUME NEW r \in Runs, Prepare(r)
      PROVE  ResumesRepeat'
  BY <1>4 DEF Inv, TypeOK, LivesTyped, Belongings, ResumesRepeat, Ended, Prepare, Inherited
<1>5. ASSUME NEW r \in Runs, Launch(r)
      PROVE  ResumesRepeat'
  BY <1>5 DEF Inv, TypeOK, LivesTyped, Belongings, ResumesRepeat, Ended, Launch
<1>6. ASSUME NEW r \in Runs, CompleteStage(r)
      PROVE  ResumesRepeat'
  BY <1>6 DEF Inv, TypeOK, LivesTyped, Belongings, ResumesRepeat, Ended, CompleteStage
<1>7. ASSUME NEW r \in Runs, WriteOutputs(r) \/ Kill(r)
      PROVE  ResumesRepeat'
  BY <1>7 DEF Inv, TypeOK, LivesTyped, Belongings, ResumesRepeat, Ended, WriteOutputs, Kill
<1>8. ASSUME NEW r \in Runs, NEW outcome \in Outcomes, End(r, outcome)
      PROVE  ResumesRepeat'
  BY <1>8 DEF Inv, TypeOK, LivesTyped, Belongings, ResumesRepeat, Ended, End, Life!End
<1>9. ASSUME NEW r \in Runs, Cancel(r)
      PROVE  ResumesRepeat'
  BY <1>9 DEF Inv, TypeOK, LivesTyped, Belongings, ResumesRepeat, Ended, Cancel, Life!AcceptCancel
<1>10. ASSUME NEW r \in Runs, CopyStops(r)
       PROVE  ResumesRepeat'
  BY <1>10 DEF Inv, TypeOK, LivesTyped, Belongings, ResumesRepeat, Ended, CopyStops, Inherited
<1> QED
  BY <1>1, <1>2, <1>3, <1>4, <1>5, <1>6, <1>7, <1>8, <1>9, <1>10, QueuedTwoWays DEF Next, Inv

(* Ending a run records what its checkpoint holds, and checkpoints grow.   *)
LEMMA StaysStep ==
  ASSUME Inv, [Next]_vars
  PROVE  EndedWorkStays'
<1> USE DEF submittedVars, Truncated
<1>1. CASE UNCHANGED vars
  BY <1>1 DEF Inv, TypeOK, LivesTyped, Belongings, EndedWorkStays, Completed, Checkpoints, Ended, vars
<1>2. ASSUME NEW r \in Runs, NEW i \in Identities, NEW p \in Runs \cup {None}, Queued(r, i, p)
      PROVE  EndedWorkStays'
  BY <1>2 DEF Inv, TypeOK, LivesTyped, Belongings, EndedWorkStays, Completed, Checkpoints, Ended, Queued, Queue, Life!Queue, Exists
<1>3. ASSUME NEW r \in Runs, Claim(r)
      PROVE  EndedWorkStays'
  BY <1>3 DEF Inv, TypeOK, LivesTyped, Belongings, EndedWorkStays, Completed, Checkpoints, Ended, Claim, Life!Start
<1>4. ASSUME NEW r \in Runs, Prepare(r)
      PROVE  EndedWorkStays'
  BY <1>4 DEF Inv, TypeOK, LivesTyped, Belongings, EndedWorkStays, Completed, Checkpoints, Ended, Prepare, Inherited
<1>5. ASSUME NEW r \in Runs, Launch(r)
      PROVE  EndedWorkStays'
  BY <1>5 DEF Inv, TypeOK, LivesTyped, Belongings, EndedWorkStays, Completed, Checkpoints, Ended, Launch
<1>6. ASSUME NEW r \in Runs, CompleteStage(r)
      PROVE  EndedWorkStays'
  BY <1>6 DEF Inv, TypeOK, LivesTyped, Belongings, EndedWorkStays, Completed, Checkpoints, Ended, CompleteStage
<1>7. ASSUME NEW r \in Runs, WriteOutputs(r) \/ Kill(r)
      PROVE  EndedWorkStays'
  BY <1>7 DEF Inv, TypeOK, LivesTyped, Belongings, EndedWorkStays, Completed, Checkpoints, Ended, WriteOutputs, Kill
<1>8. ASSUME NEW r \in Runs, NEW outcome \in Outcomes, End(r, outcome)
      PROVE  EndedWorkStays'
  BY <1>8 DEF Inv, TypeOK, LivesTyped, Belongings, EndedWorkStays, Completed, Checkpoints, Ended, End, Life!End
<1>9. ASSUME NEW r \in Runs, Cancel(r)
      PROVE  EndedWorkStays'
  BY <1>9 DEF Inv, TypeOK, LivesTyped, Belongings, EndedWorkStays, Completed, Checkpoints, Ended, Cancel, Life!AcceptCancel
<1>10. ASSUME NEW r \in Runs, CopyStops(r)
       PROVE  EndedWorkStays'
  BY <1>10 DEF Inv, TypeOK, LivesTyped, Belongings, EndedWorkStays, Completed, Checkpoints, Ended, CopyStops, Inherited
<1> QED
  BY <1>1, <1>2, <1>3, <1>4, <1>5, <1>6, <1>7, <1>8, <1>9, <1>10, QueuedTwoWays DEF Next, Inv

(* Prepare copies at least what the parent had at its end.                 *)
LEMMA CopyStep ==
  ASSUME Inv, [Next]_vars
  PROVE  CopyStays'
<1> USE DEF submittedVars, Truncated
<1>1. CASE UNCHANGED vars
  BY <1>1 DEF Inv, TypeOK, LivesTyped, Belongings, ResumesRepeat, EndedWorkStays, CopyStays, Completed, Checkpoints, Ended, vars
<1>2. ASSUME NEW r \in Runs, NEW i \in Identities, NEW p \in Runs \cup {None}, Queued(r, i, p)
      PROVE  CopyStays'
  BY <1>2 DEF Inv, TypeOK, LivesTyped, Belongings, ResumesRepeat, EndedWorkStays, CopyStays, Completed, Checkpoints, Ended, Queued, Queue, Life!Queue, Exists
<1>3. ASSUME NEW r \in Runs, Claim(r)
      PROVE  CopyStays'
  BY <1>3 DEF Inv, TypeOK, LivesTyped, Belongings, ResumesRepeat, EndedWorkStays, CopyStays, Completed, Checkpoints, Ended, Claim, Life!Start
<1>4. ASSUME NEW r \in Runs, Prepare(r)
      PROVE  CopyStays'
  BY <1>4 DEF Inv, TypeOK, LivesTyped, Belongings, ResumesRepeat, EndedWorkStays, CopyStays, Completed, Checkpoints, Ended, Prepare, Inherited
<1>5. ASSUME NEW r \in Runs, Launch(r)
      PROVE  CopyStays'
  BY <1>5 DEF Inv, TypeOK, LivesTyped, Belongings, ResumesRepeat, EndedWorkStays, CopyStays, Completed, Checkpoints, Ended, Launch
<1>6. ASSUME NEW r \in Runs, CompleteStage(r)
      PROVE  CopyStays'
  BY <1>6 DEF Inv, TypeOK, LivesTyped, Belongings, ResumesRepeat, EndedWorkStays, CopyStays, Completed, Checkpoints, Ended, CompleteStage
<1>7. ASSUME NEW r \in Runs, WriteOutputs(r) \/ Kill(r)
      PROVE  CopyStays'
  BY <1>7 DEF Inv, TypeOK, LivesTyped, Belongings, ResumesRepeat, EndedWorkStays, CopyStays, Completed, Checkpoints, Ended, WriteOutputs, Kill
<1>8. ASSUME NEW r \in Runs, NEW outcome \in Outcomes, End(r, outcome)
      PROVE  CopyStays'
  BY <1>8 DEF Inv, TypeOK, LivesTyped, Belongings, ResumesRepeat, EndedWorkStays, CopyStays, Completed, Checkpoints, Ended, End, Life!End
<1>9. ASSUME NEW r \in Runs, Cancel(r)
      PROVE  CopyStays'
  BY <1>9 DEF Inv, TypeOK, LivesTyped, Belongings, ResumesRepeat, EndedWorkStays, CopyStays, Completed, Checkpoints, Ended, Cancel, Life!AcceptCancel
<1>10. ASSUME NEW r \in Runs, CopyStops(r)
       PROVE  CopyStays'
  BY <1>10 DEF Inv, TypeOK, LivesTyped, Belongings, ResumesRepeat, EndedWorkStays, CopyStays, Completed, Checkpoints, Ended, CopyStops, Inherited
<1> QED
  BY <1>1, <1>2, <1>3, <1>4, <1>5, <1>6, <1>7, <1>8, <1>9, <1>10, QueuedTwoWays DEF Next, Inv

(* Launch loads all of the copy.                                           *)
LEMMA StartStep ==
  ASSUME Inv, [Next]_vars
  PROVE  StartsWhereItStopped'
<1> USE DEF submittedVars, Truncated
<1>1. CASE UNCHANGED vars
  BY <1>1 DEF Inv, TypeOK, LivesTyped, Belongings, ResumesRepeat, CopyStays, StartsWhereItStopped, Completed, Loads, Ended, vars
<1>2. ASSUME NEW r \in Runs, NEW i \in Identities, NEW p \in Runs \cup {None}, Queued(r, i, p)
      PROVE  StartsWhereItStopped'
  BY <1>2 DEF Inv, TypeOK, LivesTyped, Belongings, ResumesRepeat, CopyStays, StartsWhereItStopped, Completed, Loads, Ended, Queued, Queue, Life!Queue, Exists
<1>3. ASSUME NEW r \in Runs, Claim(r)
      PROVE  StartsWhereItStopped'
  BY <1>3 DEF Inv, TypeOK, LivesTyped, Belongings, ResumesRepeat, CopyStays, StartsWhereItStopped, Completed, Loads, Ended, Claim, Life!Start
<1>4. ASSUME NEW r \in Runs, Prepare(r)
      PROVE  StartsWhereItStopped'
  BY <1>4 DEF Inv, TypeOK, LivesTyped, Belongings, ResumesRepeat, CopyStays, StartsWhereItStopped, Completed, Loads, Ended, Prepare, Inherited
<1>5. ASSUME NEW r \in Runs, Launch(r)
      PROVE  StartsWhereItStopped'
  BY <1>5 DEF Inv, TypeOK, LivesTyped, Belongings, ResumesRepeat, CopyStays, StartsWhereItStopped, Completed, Loads, Ended, Launch
<1>6. ASSUME NEW r \in Runs, CompleteStage(r)
      PROVE  StartsWhereItStopped'
  BY <1>6 DEF Inv, TypeOK, LivesTyped, Belongings, ResumesRepeat, CopyStays, StartsWhereItStopped, Completed, Loads, Ended, CompleteStage
<1>7. ASSUME NEW r \in Runs, WriteOutputs(r) \/ Kill(r)
      PROVE  StartsWhereItStopped'
  BY <1>7 DEF Inv, TypeOK, LivesTyped, Belongings, ResumesRepeat, CopyStays, StartsWhereItStopped, Completed, Loads, Ended, WriteOutputs, Kill
<1>8. ASSUME NEW r \in Runs, NEW outcome \in Outcomes, End(r, outcome)
      PROVE  StartsWhereItStopped'
  BY <1>8 DEF Inv, TypeOK, LivesTyped, Belongings, ResumesRepeat, CopyStays, StartsWhereItStopped, Completed, Loads, Ended, End, Life!End
<1>9. ASSUME NEW r \in Runs, Cancel(r)
      PROVE  StartsWhereItStopped'
  BY <1>9 DEF Inv, TypeOK, LivesTyped, Belongings, ResumesRepeat, CopyStays, StartsWhereItStopped, Completed, Loads, Ended, Cancel, Life!AcceptCancel
<1>10. ASSUME NEW r \in Runs, CopyStops(r)
       PROVE  StartsWhereItStopped'
  BY <1>10 DEF Inv, TypeOK, LivesTyped, Belongings, ResumesRepeat, CopyStays, StartsWhereItStopped, Completed, Loads, Ended, CopyStops, Inherited
<1> QED
  BY <1>1, <1>2, <1>3, <1>4, <1>5, <1>6, <1>7, <1>8, <1>9, <1>10, QueuedTwoWays DEF Next, Inv

(* Ending a run records at least what it copied.                           *)
LEMMA GrowStep ==
  ASSUME Inv, [Next]_vars
  PROVE  ChainsGrow'
<1> USE DEF submittedVars, Truncated
<1>1. CASE UNCHANGED vars
  BY <1>1 DEF Inv, TypeOK, LivesTyped, Belongings, ResumesRepeat, CopyStays, ChainsGrow, Completed, Ended, vars
<1>2. ASSUME NEW r \in Runs, NEW i \in Identities, NEW p \in Runs \cup {None}, Queued(r, i, p)
      PROVE  ChainsGrow'
  BY <1>2 DEF Inv, TypeOK, LivesTyped, Belongings, ResumesRepeat, CopyStays, ChainsGrow, Completed, Ended, Queued, Queue, Life!Queue, Exists
<1>3. ASSUME NEW r \in Runs, Claim(r)
      PROVE  ChainsGrow'
  BY <1>3 DEF Inv, TypeOK, LivesTyped, Belongings, ResumesRepeat, CopyStays, ChainsGrow, Completed, Ended, Claim, Life!Start
<1>4. ASSUME NEW r \in Runs, Prepare(r)
      PROVE  ChainsGrow'
  BY <1>4 DEF Inv, TypeOK, LivesTyped, Belongings, ResumesRepeat, CopyStays, ChainsGrow, Completed, Ended, Prepare, Inherited
<1>5. ASSUME NEW r \in Runs, Launch(r)
      PROVE  ChainsGrow'
  BY <1>5 DEF Inv, TypeOK, LivesTyped, Belongings, ResumesRepeat, CopyStays, ChainsGrow, Completed, Ended, Launch
<1>6. ASSUME NEW r \in Runs, CompleteStage(r)
      PROVE  ChainsGrow'
  BY <1>6 DEF Inv, TypeOK, LivesTyped, Belongings, ResumesRepeat, CopyStays, ChainsGrow, Completed, Ended, CompleteStage
<1>7. ASSUME NEW r \in Runs, WriteOutputs(r) \/ Kill(r)
      PROVE  ChainsGrow'
  BY <1>7 DEF Inv, TypeOK, LivesTyped, Belongings, ResumesRepeat, CopyStays, ChainsGrow, Completed, Ended, WriteOutputs, Kill
<1>8. ASSUME NEW r \in Runs, NEW outcome \in Outcomes, End(r, outcome)
      PROVE  ChainsGrow'
  BY <1>8 DEF Inv, TypeOK, LivesTyped, Belongings, ResumesRepeat, CopyStays, ChainsGrow, Completed, Ended, End, Life!End
<1>9. ASSUME NEW r \in Runs, Cancel(r)
      PROVE  ChainsGrow'
  BY <1>9 DEF Inv, TypeOK, LivesTyped, Belongings, ResumesRepeat, CopyStays, ChainsGrow, Completed, Ended, Cancel, Life!AcceptCancel
<1>10. ASSUME NEW r \in Runs, CopyStops(r)
       PROVE  ChainsGrow'
  BY <1>10 DEF Inv, TypeOK, LivesTyped, Belongings, ResumesRepeat, CopyStays, ChainsGrow, Completed, Ended, CopyStops, Inherited
<1> QED
  BY <1>1, <1>2, <1>3, <1>4, <1>5, <1>6, <1>7, <1>8, <1>9, <1>10, QueuedTwoWays DEF Next, Inv

(* Launch refuses a copy of another fingerprint; after that the executor   *)
(* writes its own.                                                         *)
LEMMA ForeignStep ==
  ASSUME Inv, [Next]_vars
  PROVE  NoForeignWork'
<1> USE DEF submittedVars, Truncated
<1>1. CASE UNCHANGED vars
  BY <1>1 DEF Inv, TypeOK, LivesTyped, Belongings, NoForeignWork, Loads, vars
<1>2. ASSUME NEW r \in Runs, NEW i \in Identities, NEW p \in Runs \cup {None}, Queued(r, i, p)
      PROVE  NoForeignWork'
  BY <1>2 DEF Inv, TypeOK, LivesTyped, Belongings, NoForeignWork, Loads, Queued, Queue, Life!Queue, Exists
<1>3. ASSUME NEW r \in Runs, Claim(r)
      PROVE  NoForeignWork'
  BY <1>3 DEF Inv, TypeOK, LivesTyped, Belongings, NoForeignWork, Loads, Claim, Life!Start
<1>4. ASSUME NEW r \in Runs, Prepare(r)
      PROVE  NoForeignWork'
  BY <1>4 DEF Inv, TypeOK, LivesTyped, Belongings, NoForeignWork, Loads, Prepare, Inherited
<1>5. ASSUME NEW r \in Runs, Launch(r)
      PROVE  NoForeignWork'
  BY <1>5 DEF Inv, TypeOK, LivesTyped, Belongings, NoForeignWork, Loads, Launch
<1>6. ASSUME NEW r \in Runs, CompleteStage(r)
      PROVE  NoForeignWork'
  BY <1>6 DEF Inv, TypeOK, LivesTyped, Belongings, NoForeignWork, Loads, CompleteStage
<1>7. ASSUME NEW r \in Runs, WriteOutputs(r) \/ Kill(r)
      PROVE  NoForeignWork'
  BY <1>7 DEF Inv, TypeOK, LivesTyped, Belongings, NoForeignWork, Loads, WriteOutputs, Kill
<1>8. ASSUME NEW r \in Runs, NEW outcome \in Outcomes, End(r, outcome)
      PROVE  NoForeignWork'
  BY <1>8 DEF Inv, TypeOK, LivesTyped, Belongings, NoForeignWork, Loads, End, Life!End
<1>9. ASSUME NEW r \in Runs, Cancel(r)
      PROVE  NoForeignWork'
  BY <1>9 DEF Inv, TypeOK, LivesTyped, Belongings, NoForeignWork, Loads, Cancel, Life!AcceptCancel
<1>10. ASSUME NEW r \in Runs, CopyStops(r)
       PROVE  NoForeignWork'
  BY <1>10 DEF Inv, TypeOK, LivesTyped, Belongings, NoForeignWork, Loads, CopyStops, Inherited
<1> QED
  BY <1>1, <1>2, <1>3, <1>4, <1>5, <1>6, <1>7, <1>8, <1>9, <1>10, QueuedTwoWays DEF Next, Inv

(* A run joins a family with no checkpoint of its own, then takes over     *)
(* that of a parent with its fingerprint.                                  *)
LEMMA TrustStep ==
  ASSUME Inv, [Next]_vars
  PROVE  JoinedRunsAreTrusted'
<1> USE DEF submittedVars, Truncated
<1>1. CASE UNCHANGED vars
  BY <1>1 DEF Inv, TypeOK, LivesTyped, Belongings, ResumesRepeat, JoinedRunsAreTrusted, Joined, CopyStopped, Loads, vars
<1>2. ASSUME NEW r \in Runs, NEW i \in Identities, NEW p \in Runs \cup {None}, Queued(r, i, p)
      PROVE  JoinedRunsAreTrusted'
  BY <1>2 DEF Inv, TypeOK, LivesTyped, Belongings, ResumesRepeat, JoinedRunsAreTrusted, Joined, CopyStopped, Loads, Queued, Queue, Life!Queue, Exists
<1>3. ASSUME NEW r \in Runs, Claim(r)
      PROVE  JoinedRunsAreTrusted'
  BY <1>3 DEF Inv, TypeOK, LivesTyped, Belongings, ResumesRepeat, JoinedRunsAreTrusted, Joined, CopyStopped, Loads, Claim, Life!Start
<1>4. ASSUME NEW r \in Runs, Prepare(r)
      PROVE  JoinedRunsAreTrusted'
  BY <1>4 DEF Inv, TypeOK, LivesTyped, Belongings, ResumesRepeat, JoinedRunsAreTrusted, Joined, CopyStopped, Loads, Prepare, Inherited
<1>5. ASSUME NEW r \in Runs, Launch(r)
      PROVE  JoinedRunsAreTrusted'
  BY <1>5 DEF Inv, TypeOK, LivesTyped, Belongings, ResumesRepeat, JoinedRunsAreTrusted, Joined, CopyStopped, Loads, Launch
<1>6. ASSUME NEW r \in Runs, CompleteStage(r)
      PROVE  JoinedRunsAreTrusted'
  BY <1>6 DEF Inv, TypeOK, LivesTyped, Belongings, ResumesRepeat, JoinedRunsAreTrusted, Joined, CopyStopped, Loads, CompleteStage
<1>7. ASSUME NEW r \in Runs, WriteOutputs(r) \/ Kill(r)
      PROVE  JoinedRunsAreTrusted'
  BY <1>7 DEF Inv, TypeOK, LivesTyped, Belongings, ResumesRepeat, JoinedRunsAreTrusted, Joined, CopyStopped, Loads, WriteOutputs, Kill
<1>8. ASSUME NEW r \in Runs, NEW outcome \in Outcomes, End(r, outcome)
      PROVE  JoinedRunsAreTrusted'
  BY <1>8 DEF Inv, TypeOK, LivesTyped, Belongings, ResumesRepeat, JoinedRunsAreTrusted, Joined, CopyStopped, Loads, End, Life!End
<1>9. ASSUME NEW r \in Runs, Cancel(r)
      PROVE  JoinedRunsAreTrusted'
  BY <1>9 DEF Inv, TypeOK, LivesTyped, Belongings, ResumesRepeat, JoinedRunsAreTrusted, Joined, CopyStopped, Loads, Cancel, Life!AcceptCancel
<1>10. ASSUME NEW r \in Runs, CopyStops(r)
       PROVE  JoinedRunsAreTrusted'
  BY <1>10 DEF Inv, TypeOK, LivesTyped, Belongings, ResumesRepeat, JoinedRunsAreTrusted, Joined, CopyStopped, Loads, CopyStops, Inherited
<1> QED
  BY <1>1, <1>2, <1>3, <1>4, <1>5, <1>6, <1>7, <1>8, <1>9, <1>10, QueuedTwoWays DEF Next, Inv

(* The invariant of all attempts: it holds at first and every operation,   *)
(* on whatever run, preserves it.                                          *)
THEOREM AttemptsInvariant == Spec => []Inv
<1>1. Init => Inv
  BY DEF Init, Life!Init, Inv, TypeOK, LivesTyped, Belongings, ResumesRepeat, EndedWorkStays, CopyStays,
         StartsWhereItStopped, ChainsGrow, NoForeignWork, JoinedRunsAreTrusted, Joined, Loads, Ended,
         Completed
<1>2. Inv /\ [Next]_vars => Inv'
  BY TypeStep, BelongingsStep, RepeatStep, StaysStep, CopyStep, StartStep, GrowStep, ForeignStep, TrustStep DEF Inv
<1> QED
  BY <1>1, <1>2, PTL DEF Spec

(* No executor of any attempt ever goes on from the checkpoint of another  *)
(* input or configuration.                                                 *)
THEOREM NoForeignWorkEver == Spec => []NoForeignWork
BY AttemptsInvariant, PTL DEF Inv

(* In a family of runs joined by resume and copied whole none is refused.  *)
LEMMA TrustedRunsAreNotRefused ==
  ASSUME JoinedRunsAreTrusted
  PROVE  NoResumeRefused
BY DEF JoinedRunsAreTrusted, Joined, NoResumeRefused

(* Whatever is killed, cancelled and resumed, and in whatever order: a     *)
(* resume starts no earlier than the attempt it resumes had stopped, ends  *)
(* with no less if it was prepared, and takes nothing from that attempt;   *)
(* it is refused for the checkpoint it inherits only after a copy that     *)
(* stopped half-way.                                                       *)
THEOREM ResumesKeepProgress == Spec => []ResumeKeepsProgress
<1>1. Inv => ResumeKeepsProgress
  BY TrustedRunsAreNotRefused DEF Inv, ResumeKeepsProgress
<1> QED
  BY <1>1, AttemptsInvariant, PTL
=============================================================================
