------------------------------ MODULE RunStages ------------------------------
(***************************************************************************)
(* The plugin stages of a run and a provider stage after them, in one      *)
(* pipeline process: the rows that validation accepted and the scrubber    *)
(* went over are those the provider stage sends.  A run that validation    *)
(* fails never calls a provider.                                           *)
(***************************************************************************)
EXTENDS PluginSandbox, ProviderCalls

vars == <<pluginVars, callVars>>

Init == PluginsInit /\ CallsInit

StartStage ==
  /\ phase = "over"
  /\ Cardinality({r \in RowIds : verdict[r] = "valid"}) = Rows
  /\ Start

(* The steps of the plugin stages, of a chunk and of the stage.            *)
PluginStep ==
  \/ InProcess
  \/ Call
  \/ Work
  \/ Receive
  \/ GiveUp
  \/ \E b \in Boxes : Exit(b)

StageStep(c) == ChunkStep(c) /\ UNCHANGED pluginVars

Next ==
  \/ PluginStep /\ UNCHANGED callVars
  \/ StartStage /\ UNCHANGED pluginVars
  \/ \E c \in AllChunks : StageStep(c)
  \/ Tick /\ UNCHANGED pluginVars
  \/ Finish /\ UNCHANGED pluginVars

Fairness ==
  /\ WF_vars(StartStage /\ UNCHANGED pluginVars)
  /\ WF_vars(Tick /\ UNCHANGED pluginVars)
  /\ WF_vars(Finish /\ UNCHANGED pluginVars)
  /\ \A c \in AllChunks : WF_vars(StageStep(c))

Spec == Init /\ [][Next]_vars /\ Fairness

-----------------------------------------------------------------------------
TypeOK == PluginsTypeOK /\ CallsTypeOK

(* plugins.py: a validator that is missing, unapproved, broken or in a     *)
(* failed sandbox keeps every row of the run from the provider.  (What the *)
(* code does, and not what its docstrings at lines 14-15 and 143-145 say,  *)
(* where a plugin that raises is logged and skipped, and the run goes on.) *)
NothingSentUnvalidated ==
  stage # "new" =>
    /\ phase = "over"
    /\ Validators \cap setup.approved = Validators \cap setup.installed
    /\ Validators \cap setup.installed \cap setup.broken = {}
    /\ \A r \in RowIds : verdict[r] # "pending" /\ (verdict[r] = "valid" => text[r] # "raw")
=============================================================================
