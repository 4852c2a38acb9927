--------------------------- MODULE MCServerAccess ---------------------------
(* Two handlers, two browsers, two logins and two signing keys; three runs *)
(* that want the project's key.                                            *)
EXTENDS ServerAccess, TLC

(* Bearer requests are followed while the provider changes its keys,       *)
(* logins while it does not and for as long as the first of them lasts,    *)
(* and data keys, which share no variable with either, from the start.     *)
Idle == verified = 0 /\ \A s \in States : begun[s] = Nothing
MCExplored ==
  /\ Idle \/ \A c \in Clients : place[c] = "new"
  /\ place # [c \in Clients |-> "new"] => clock = 0 /\ signing = 1
  /\ (\E s \in States : begun[s] # Nothing) =>
       /\ signing = 1 /\ clock <= LoginLife + 1
       /\ \A h \in Handlers : request[h] # Nothing => request[h].of # Nothing

MCSymmetry == Permutations(Handlers) \cup Permutations(Browsers) \cup Permutations(States)
              \cup Permutations(SessionIds)
=============================================================================
