-------------------------- MODULE DatasetCommands ---------------------------
(* The commands over whole datasets: sharded runs, and commands behind the *)
(* accuracy gate.  They are processes of their own with files of their own.*)
EXTENDS ShardedRuns, GatedCommands

vars == <<shardVars, gatedVars>>

Init == ShardsInit /\ GatedInit

Next ==
  \/ ShardedRun /\ UNCHANGED gatedVars
  \/ GatedStep /\ UNCHANGED shardVars

Spec == Init /\ [][Next]_vars
=============================================================================
