------------------------------ MODULE DataKeys ------------------------------
(***************************************************************************)
(* The data key of a project (runs/store.py, get_or_create_data_key) and   *)
(* the artifacts under it: the runs of a project, prepared by the server   *)
(* or by local runners, ask for the key at once, their executors encrypt   *)
(* the files they wrote one by one and hash them into the manifest, and    *)
(* artifact_bytes reads them with the key it is given then.  A process may *)
(* stop between any two steps.                                             *)
(***************************************************************************)
EXTENDS Integers, Sequences

CONSTANTS
  Clients,        \* processes that prepare a run and execute it
  DataKeySet,     \* keys, secrets.token_bytes(32)
  NoKey

ASSUME DataKeysAssumption == NoKey \notin DataKeySet \cup Clients

Files == <<"output", "rejected", "report">>

VARIABLES
  stored,         \* managed_project_keys, the one row of the project
  rowLock,        \* who holds the project row, SELECT ... FOR UPDATE
  drawn,          \* the keys drawn so far
  place,          \* each client's place
  inHand,         \* the key it holds
  made,           \* its new key that is not committed yet
  under,          \* what each file of its run is encrypted with
  listed          \* the hashes in its candidate manifest

keyVars == <<stored, rowLock, drawn, place, inHand, made, under, listed>>

KeysInit ==
  /\ stored = NoKey /\ rowLock = NoKey /\ drawn = {}
  /\ place = [c \in Clients |-> "new"]
  /\ inHand = [c \in Clients |-> NoKey]
  /\ made = [c \in Clients |-> NoKey]
  /\ under = [c \in Clients |-> <<>>]
  /\ listed = [c \in Clients |-> <<>>]

NoLock(c) == TRUE
RowFree(c) == rowLock = NoKey

(* The transaction takes the row of the project, reads the key's row, and  *)
(* inserts one if there is none.  The insert is seen when it commits.      *)
BeginKey(c) ==
  /\ place[c] = "new" /\ RowFree(c)
  /\ rowLock' = c
  /\ place' = [place EXCEPT ![c] = "locked"]
  /\ UNCHANGED <<stored, drawn, inHand, made, under, listed>>

ReadKey(c) ==
  /\ place[c] = "locked" /\ stored # NoKey
  /\ inHand' = [inHand EXCEPT ![c] = stored]
  /\ place' = [place EXCEPT ![c] = "commit"]
  /\ UNCHANGED <<stored, rowLock, drawn, made, under, listed>>

CreateKey(c, k) ==
  /\ place[c] = "locked" /\ stored = NoKey
  /\ k \notin drawn
  /\ drawn' = drawn \cup {k}
  /\ made' = [made EXCEPT ![c] = k]
  /\ inHand' = [inHand EXCEPT ![c] = k]
  /\ place' = [place EXCEPT ![c] = "commit"]
  /\ UNCHANGED <<stored, rowLock, under, listed>>

(* The key is returned after the commit.  A second row for the project     *)
(* would break the primary key: the insert raises and the run fails.       *)
CommitKey(c) ==
  /\ place[c] = "commit"
  /\ LET broken == made[c] # NoKey /\ stored # NoKey
     IN /\ stored' = IF made[c] = NoKey \/ broken THEN stored ELSE made[c]
        /\ place' = [place EXCEPT ![c] = IF broken THEN "raised" ELSE "execute"]
  /\ made' = [made EXCEPT ![c] = NoKey]
  /\ rowLock' = NoKey
  /\ UNCHANGED <<drawn, inHand, under, listed>>

(* The executor wrote the files in the clear.                              *)
WriteFiles(c) ==
  /\ place[c] = "execute"
  /\ under' = [under EXCEPT ![c] = [i \in 1 .. Len(Files) |-> "clear"]]
  /\ place' = [place EXCEPT ![c] = "encrypt"]
  /\ UNCHANGED <<stored, rowLock, drawn, inHand, made, listed>>

(* encrypt_file_in_place, of the next file: a temporary file replaces it.  *)
EncryptFile(c) ==
  /\ place[c] = "encrypt"
  /\ \E i \in 1 .. Len(Files) :
       /\ under[c][i] = "clear" /\ \A j \in 1 .. i - 1 : under[c][j] # "clear"
       /\ under' = [under EXCEPT ![c][i] = inHand[c]]
  /\ UNCHANGED <<stored, rowLock, drawn, place, inHand, made, listed>>

Encrypted(c) == \A i \in 1 .. Len(Files) : under[c][i] # "clear"

(* The candidate manifest lists the hashes of the ciphertexts, and the     *)
(* run is published with it.                                               *)
ListFiles(c) ==
  /\ place[c] = "encrypt" /\ Encrypted(c)
  /\ listed' = [listed EXCEPT ![c] = under[c]]
  /\ place' = [place EXCEPT ![c] = "published"]
  /\ UNCHANGED <<stored, rowLock, drawn, inHand, made, under>>

(* artifact_bytes asks for the key again: what it gets of a file.          *)
Readable(c, i) == under[c][i] = "clear" \/ under[c][i] = stored

(* A transaction that is cut off is rolled back and gives the row back.    *)
Crash(c) ==
  /\ place[c] \in {"locked", "commit", "execute", "encrypt"}
  /\ place' = [place EXCEPT ![c] = "dead"]
  /\ made' = [made EXCEPT ![c] = NoKey]
  /\ rowLock' = IF rowLock = c THEN NoKey ELSE rowLock
  /\ UNCHANGED <<stored, drawn, inHand, under, listed>>

KeyStep ==
  \E c \in Clients :
    \/ BeginKey(c) \/ ReadKey(c) \/ CommitKey(c)
    \/ \E k \in DataKeySet : CreateKey(c, k)
    \/ WriteFiles(c) \/ EncryptFile(c) \/ ListFiles(c)
    \/ Crash(c)

-----------------------------------------------------------------------------
KeysTypeOK ==
  /\ stored \in DataKeySet \cup {NoKey}
  /\ rowLock \in Clients \cup {NoKey}
  /\ drawn \subseteq DataKeySet
  /\ place \in [Clients -> {"new", "locked", "commit", "execute", "encrypt", "published", "raised", "dead"}]
  /\ inHand \in [Clients -> DataKeySet \cup {NoKey}]
  /\ made \in [Clients -> DataKeySet \cup {NoKey}]
  /\ {under, listed} \subseteq [Clients -> Seq(DataKeySet \cup {"clear"})]

(* store.py, get_or_create_data_key: whichever of several first runs       *)
(* creates the project's key, and whichever of them dies, none fails       *)
(* because of another, every file that a run of the project encrypts can   *)
(* be read with the stored key, and a published one is in no manifest in   *)
(* the clear.                                                              *)
ArtifactsOpen ==
  \A c \in Clients :
    /\ place[c] # "raised"
    /\ \A i \in DOMAIN under[c] : Readable(c, i)
    /\ \A i \in DOMAIN listed[c] : listed[c][i] = stored
=============================================================================
