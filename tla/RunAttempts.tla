---------------------------- MODULE RunAttempts ----------------------------
(***************************************************************************)
(* The attempts at one piece of work: runs that name a parent, the         *)
(* checkpoint that runs/service.py, RunService.prepare, copies from the    *)
(* parent's directory, and the pipeline that loads it.  RunLifecycle       *)
(* stands for the store and the workers, which implement it; an executor   *)
(* may outlive its run when its worker dies.                               *)
(***************************************************************************)
EXTENDS Integers

CONSTANTS
  Runs, None,
  Identities,     \* fingerprints: what an input and a configuration hash to
  Stages,         \* the number of pipeline stages
  CallerParents,  \* whether ordinary submissions name a parent
  Outcomes        \* bound: how a claimed run may end

ASSUME AttemptsAssumption ==
  /\ None \notin Runs \cup Identities
  /\ Stages \in Nat \ {0}
  /\ None \notin [identity : Identities \cup {None}, completed : 0 .. Stages]
  /\ CallerParents \in BOOLEAN
  /\ Outcomes \subseteq {"succeeded", "failed", "cancelled", "interrupted"}

VARIABLES
  phase, home, cancelling,   \* the lives of the runs
  identity,     \* the fingerprint of each run's input and configuration
  parent,       \* parent_run_id
  resumes,      \* the runs submitted by resume
  prepared,     \* the runs with a directory
  checkpoint,   \* the checkpoint in each run's directory
  executor,     \* each run's executor
  start,        \* the number of stages it did not have to run
  left          \* the number of stages each run's checkpoint held when it ended

Life == INSTANCE RunLifecycle WITH Projects <- {"project"}

submittedVars == <<identity, parent, resumes>>
vars == <<phase, home, cancelling, submittedVars, prepared, checkpoint, executor, start, left>>

Init ==
  /\ Life!Init
  /\ identity = [r \in Runs |-> None]
  /\ parent = [r \in Runs |-> None]
  /\ resumes = {}
  /\ prepared = {}
  /\ checkpoint = [r \in Runs |-> None]
  /\ executor = [r \in Runs |-> "none"]
  /\ start = [r \in Runs |-> 0]
  /\ left = [r \in Runs |-> 0]

Exists(r) == phase[r] # "absent"

Queue(r, i, p) ==
  /\ Life!Queue(r, "project")
  /\ identity' = [identity EXCEPT ![r] = i]
  /\ parent' = [parent EXCEPT ![r] = p]
  /\ UNCHANGED <<prepared, checkpoint, executor, start, left>>

(* An ordinary submission, of its own input and configuration.             *)
Submit(r, i, p) ==
  /\ p # None => CallerParents /\ Exists(p)
  /\ Queue(r, i, p)
  /\ UNCHANGED resumes

(* resume: the parent's specification, inputs and implementation.          *)
Resume(r, p) ==
  /\ phase[p] \in {"failed", "cancelled", "interrupted"}
  /\ Queue(r, identity[p], p)
  /\ resumes' = resumes \cup {r}

Claim(r) ==
  /\ Life!Start(r)
  /\ UNCHANGED <<submittedVars, prepared, checkpoint, executor, start, left>>

(* prepare copies the parent's checkpoint, if there is one by now, to the  *)
(* name under which the executor looks for its own.                        *)
InheritedNever(r) == None
Inherited(r) == IF parent[r] = None THEN None ELSE checkpoint[parent[r]]

Prepare(r) ==
  /\ phase[r] = "running"
  /\ r \notin prepared /\ checkpoint[r] = None
  /\ prepared' = prepared \cup {r}
  /\ checkpoint' = [checkpoint EXCEPT ![r] = Inherited(r)]
  /\ UNCHANGED <<phase, home, cancelling, submittedVars, executor, start, left>>

(* copy_snapshot stops with a part of the file written: the disk is full   *)
(* or the process dies.  The run then ends without an executor, and what   *)
(* was written stays where it is.                                          *)
Truncated == [identity |-> None, completed |-> 0]

CopyStops(r) ==
  /\ phase[r] = "running"
  /\ r \notin prepared /\ checkpoint[r] = None
  /\ Inherited(r) # None
  /\ checkpoint' = [checkpoint EXCEPT ![r] = Truncated]
  /\ UNCHANGED <<phase, home, cancelling, submittedVars, prepared, executor, start, left>>

-----------------------------------------------------------------------------
(* The executor's pipeline: _load_checkpoint refuses a file that it cannot *)
(* parse and one of another fingerprint.                                   *)
LoadsAny(r) == TRUE
Loads(r) == checkpoint[r] # None => checkpoint[r].identity = identity[r]

Launch(r) ==
  /\ phase[r] = "running" /\ r \in prepared
  /\ executor[r] = "none"
  /\ executor' = [executor EXCEPT ![r] = IF Loads(r) THEN "running" ELSE "refused"]
  /\ start' = [start EXCEPT ![r] =
                 IF Loads(r) /\ checkpoint[r] # None THEN checkpoint[r].completed ELSE 0]
  /\ UNCHANGED <<phase, home, cancelling, submittedVars, prepared, checkpoint, left>>

Completed(r) == IF checkpoint[r] = None THEN 0 ELSE checkpoint[r].completed

(* One more stage and its checkpoint.                                      *)
CompleteStage(r) ==
  /\ executor[r] = "running"
  /\ Completed(r) < Stages
  /\ checkpoint' = [checkpoint EXCEPT ![r] =
                      [identity |-> identity[r], completed |-> Completed(r) + 1]]
  /\ UNCHANGED <<phase, home, cancelling, submittedVars, prepared, executor, start, left>>

(* The outputs are written and the checkpoint unlinked.                    *)
WriteOutputs(r) ==
  /\ executor[r] = "running"
  /\ Completed(r) = Stages
  /\ checkpoint' = [checkpoint EXCEPT ![r] = None]
  /\ executor' = [executor EXCEPT ![r] = "done"]
  /\ UNCHANGED <<phase, home, cancelling, submittedVars, prepared, start, left>>

Kill(r) ==
  /\ executor[r] = "running"
  /\ executor' = [executor EXCEPT ![r] = "killed"]
  /\ UNCHANGED <<phase, home, cancelling, submittedVars, prepared, checkpoint, start, left>>

(* The run ends; unless it succeeds its executor may still be at work.     *)
End(r, outcome) ==
  /\ outcome = "succeeded" => executor[r] = "done"
  /\ Life!End(r, outcome)
  /\ left' = [left EXCEPT ![r] = Completed(r)]
  /\ UNCHANGED <<submittedVars, prepared, checkpoint, executor, start>>

Cancel(r) ==
  /\ r \notin cancelling
  /\ Life!AcceptCancel(r)
  /\ UNCHANGED <<submittedVars, prepared, checkpoint, executor, start, left>>

Next ==
  \E r \in Runs :
     \/ \E i \in Identities, p \in Runs \cup {None} : Submit(r, i, p)
     \/ \E p \in Runs : Resume(r, p)
     \/ Claim(r) \/ Prepare(r) \/ CopyStops(r) \/ Launch(r)
     \/ CompleteStage(r) \/ WriteOutputs(r) \/ Kill(r)
     \/ \E outcome \in Outcomes : End(r, outcome)
     \/ Cancel(r)

Spec == Init /\ [][Next]_vars

-----------------------------------------------------------------------------
Checkpoints == [identity : Identities, completed : 1 .. Stages]

TypeOK ==
  /\ identity \in [Runs -> Identities \cup {None}]
  /\ parent \in [Runs -> Runs \cup {None}]
  /\ resumes \subseteq Runs /\ prepared \subseteq Runs
  /\ checkpoint \in [Runs -> Checkpoints \cup {Truncated, None}]
  /\ executor \in [Runs -> {"none", "running", "refused", "done", "killed"}]
  /\ start \in [Runs -> 0 .. Stages]
  /\ left \in [Runs -> 0 .. Stages]

(* An executor never goes on from work of another input or configuration,  *)
(* whichever run left the checkpoint it finds.                             *)
NoForeignWork ==
  \A r \in Runs :
     executor[r] \in {"running", "killed"} /\ checkpoint[r] # None =>
        checkpoint[r].identity = identity[r]

Ended == {"succeeded", "failed", "cancelled", "interrupted"}

(* A resume starts at least where the attempt it resumes was when it       *)
(* ended, unless that one's executor came to its end after all (which      *)
(* removes the checkpoint).                                                *)
StartsWhereItStopped ==
  \A r \in resumes :
     executor[r] \in {"running", "done", "killed"} /\ executor[parent[r]] # "done"
       => start[r] >= left[parent[r]]

(* Along a chain of resumes an attempt ends with no less than the one it   *)
(* resumes, if it was prepared and neither executor came to its end.  One  *)
(* that was cancelled in the queue, or stopped before or in the copy, ends *)
(* with nothing, and so do the attempts that resume it.                    *)
ChainsGrow ==
  \A r \in resumes \cap prepared :
     phase[r] \in Ended /\ "done" \notin {executor[r], executor[parent[r]]}
       => left[r] >= left[parent[r]]

(* ... but nothing that happens to the resumes of an attempt takes away    *)
(* what it had itself, so that it can be resumed once more.                *)
EndedWorkStays ==
  \A r \in Runs :
     phase[r] \in Ended => executor[r] = "done" \/ Completed(r) >= left[r]

(* Among attempts whose ancestors were all joined by resume, and none of   *)
(* which has a copy that stopped half-way, no executor is refused, whoever *)
(* else names them as parents.                                             *)
CopyStopped(r) == r \notin prepared /\ checkpoint[r] = Truncated

NoResumeRefused ==
  \A S \in SUBSET Runs :
     (\A r \in S : /\ ~ CopyStopped(r)
                   /\ parent[r] # None => r \in resumes /\ parent[r] \in S)
       => \A r \in S : executor[r] # "refused"

(* However often runs are killed, cancelled and resumed: a resume goes on  *)
(* from the checkpoint of the attempt it names, and is refused for it only *)
(* after a copy that stopped half-way; what an attempt had stays its own.  *)
ResumeKeepsProgress ==
  StartsWhereItStopped /\ ChainsGrow /\ EndedWorkStays /\ NoResumeRefused
=============================================================================
