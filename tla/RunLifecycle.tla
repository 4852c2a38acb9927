---------------------------- MODULE RunLifecycle ----------------------------
(***************************************************************************)
(* What managed runs promise their users, whatever columns, leases and     *)
(* heartbeats implement it: a run is queued for one project, starts only   *)
(* while no other run of that project is running, and ends once.  A run    *)
(* whose cancellation was accepted ends cancelled and nothing else.        *)
(***************************************************************************)
CONSTANTS Projects, Runs, None

VARIABLES
  phase,      \* where each run is in its life
  home,       \* the project a run was submitted to
  cancelling  \* the runs whose cancellation was accepted

vars == <<phase, home, cancelling>>

Ended == {"succeeded", "failed", "cancelled", "interrupted"}

Init ==
  /\ phase = [r \in Runs |-> "absent"]
  /\ home = [r \in Runs |-> None]
  /\ cancelling = {}

Queue(r, p) ==
  /\ phase[r] = "absent"
  /\ phase' = [phase EXCEPT ![r] = "queued"]
  /\ home' = [home EXCEPT ![r] = p]
  /\ UNCHANGED cancelling

(* One run at a time in a project.                                         *)
Start(r) ==
  /\ phase[r] = "queued"
  /\ \A q \in Runs : home[q] = home[r] => phase[q] # "running"
  /\ phase' = [phase EXCEPT ![r] = "running"]
  /\ UNCHANGED <<home, cancelling>>

End(r, outcome) ==
  /\ phase[r] = "running"
  /\ r \in cancelling => outcome = "cancelled"
  /\ phase' = [phase EXCEPT ![r] = outcome]
  /\ UNCHANGED <<home, cancelling>>

(* Accepting a cancellation ends a queued run and binds a running one.     *)
AcceptCancel(r) ==
  /\ phase[r] \in {"queued", "running"}
  /\ cancelling' = cancelling \cup {r}
  /\ phase' = [phase EXCEPT ![r] = IF @ = "queued" THEN "cancelled" ELSE @]
  /\ UNCHANGED home

Next ==
  \/ \E r \in Runs, p \in Projects : Queue(r, p)
  \/ \E r \in Runs : Start(r)
  \/ \E r \in Runs, outcome \in Ended : End(r, outcome)
  \/ \E r \in Runs : AcceptCancel(r)

Spec == Init /\ [][Next]_vars

=============================================================================
