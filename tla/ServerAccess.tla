---------------------------- MODULE ServerAccess ----------------------------
(* Signing in and the keys of a project's artifacts, in one server: both   *)
(* are tables of one store, and no transaction touches both.               *)
EXTENDS SignIn, DataKeys

vars == <<signInVars, keyVars>>

Init == SignInInit /\ KeysInit

Next ==
  \/ SignInStep /\ UNCHANGED keyVars
  \/ KeyStep /\ UNCHANGED signInVars

Spec == Init /\ [][Next]_vars

(* The types of both parts' variables.                                     *)
TypeOK == SignInTypeOK /\ KeysTypeOK
=============================================================================
