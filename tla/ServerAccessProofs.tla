------------------------- MODULE ServerAccessProofs -------------------------
(***************************************************************************)
(* What signing in and the keys of artifacts guarantee for any number of   *)
(* handlers, browsers, logins, signing keys and clients, and for every     *)
(* choice of the lifetimes.                                                *)
(***************************************************************************)
EXTENDS ServerAccess, FiniteSetTheorems, SequenceTheorems, TLAPS

-----------------------------------------------------------------------------
(* The keys of artifacts.                                                  *)

FileIds == 1 .. Len(Files)

(* Who is inside the transaction holds the row of the project.             *)
RowLocked == \A c \in Clients : (rowLock = c) <=> (place[c] \in {"locked", "commit"})

(* A key that is not committed yet is that of the transaction which found  *)
(* none; every key that was returned is the stored one.                    *)
KeysAgree ==
  \A c \in Clients :
    /\ made[c] # NoKey => place[c] = "commit" /\ stored = NoKey /\ inHand[c] = made[c]
    /\ place[c] = "commit" => inHand[c] # NoKey /\ (made[c] = NoKey => inHand[c] = stored)
    /\ place[c] \in {"execute", "encrypt", "published"} => inHand[c] = stored /\ stored # NoKey

(* There are files from the execution on, and a manifest at the end.       *)
FilesAppear ==
  \A c \in Clients :
    /\ place[c] \in {"new", "locked", "commit", "execute"} => under[c] = <<>>
    /\ place[c] = "encrypt" => under[c] \in [FileIds -> DataKeySet \cup {"clear"}]
    /\ place[c] \notin {"published"} => listed[c] = <<>>

KeysInv == KeysTypeOK /\ RowLocked /\ KeysAgree /\ FilesAppear /\ ArtifactsOpen

-----------------------------------------------------------------------------
(* Signing in.                                                             *)

Exchanging(h, s) == pc[h] = "exchange" /\ request[h].of = s

(* A handler that is not idle verifies a request; that of a login belongs  *)
(* to the browser which began the login.                                   *)
RequestsKnown ==
  \A h \in Handlers :
    /\ pc[h] # "idle" => request[h] \in RequestType
    /\ pc[h] = "exchange" => request[h].of \in States
    /\ pc[h] # "idle" /\ request[h].of # Nothing =>
         request[h].browser \in Browsers /\ begun[request[h].of] = request[h].browser

(* A login state is in the table until its exchange begins.                *)
LoginsOnce ==
  /\ \A s \in States :
       /\ begun[s] = Nothing => row[s] = Nothing /\ exchanges[s] = 0
       /\ row[s] # Nothing => exchanges[s] = 0 /\ \A h \in Handlers : ~Exchanging(h, s)
       /\ exchanges[s] <= 1
       /\ \A h \in Handlers : Exchanging(h, s) =>
            /\ exchanges[s] = 0
            /\ \A g \in Handlers : Exchanging(g, s) => g = h
  /\ \A b \in Browsers : loginCookie[b] # Nothing => begun[loginCookie[b]] = b

SessionsStay ==
  \A b \in Browsers :
    sessionCookie[b] # Nothing /\ row[sessionCookie[b]] # Nothing
      => begun[row[sessionCookie[b]].of] = b

(* The provider's keys are withdrawn one after the other.                  *)
KeysRotate ==
  /\ 1 .. signing \subseteq SigningKeys
  /\ \A k \in SigningKeys : IF k < signing THEN withdrawn[k] \in 0 .. clock ELSE withdrawn[k] = Nothing
  /\ \A j, k \in SigningKeys : j <= k /\ k < signing => withdrawn[j] <= withdrawn[k]

(* The provider still published k at time t.                               *)
PublishedAt(k, t) == k = signing \/ (k < signing /\ t <= withdrawn[k])

(* The entry is no younger than the last attempt to fetch one, and a fetch *)
(* that is under way is that attempt.                                      *)
CacheIsDated ==
  /\ attempt # Nothing => attempt <= clock
  /\ cached # Nothing =>
       attempt # Nothing /\ cached.at <= attempt /\ PublishedAt(cached.key, cached.at)
  /\ holder # Nothing => Looks(holder) /\ request[holder].looked = attempt

(* What a lookup tells of the keys it returns: the provider had them at    *)
(* its beginning, or it came soon after an attempt to fetch them.          *)
Fetched(h) == \A k \in request[h].keys : PublishedAt(k, request[h].looked)
SoonAfter(h, age) == request[h].gap # Nothing /\ request[h].gap < age
Patience(h) == IF request[h].named THEN Cooldown ELSE Ttl

LookedUp(h) ==
  /\ pc[h] # "idle" =>
       /\ request[h].looked <= clock
       /\ \A k \in request[h].keys :
            k = signing \/ (k < signing /\ request[h].looked - withdrawn[k] < Ttl)
  /\ pc[h] \in {"again", "second"} => request[h].named
  /\ pc[h] \in {"first", "second"} => request[h].keys # {}
  /\ pc[h] = "first" => Fetched(h) \/ SoonAfter(h, Ttl)
  /\ pc[h] = "second" => Fetched(h) \/ SoonAfter(h, Cooldown)

(* Why a handler answered as it did.                                       *)
Explained(h) ==
  /\ pc[h] = "accepted" => request[h].key \in request[h].keys
  /\ pc[h] = "refused" =>
       \/ request[h].failed
       \/ SoonAfter(h, Patience(h))
       \/ clock >= request[h].expires
       \/ Fetched(h) /\ request[h].keys # {} /\ request[h].key \notin request[h].keys

AnswersExplained == \A h \in Handlers : LookedUp(h) /\ Explained(h)

SignInInv ==
  /\ SignInTypeOK /\ RequestsKnown
  /\ LoginsOnce /\ SessionsStay
  /\ KeysRotate /\ CacheIsDated /\ AnswersExplained

Inv == KeysInv /\ SignInInv
-----------------------------------------------------------------------------
(* What is proved of the keys.                                             *)

(* What is written for each file is a sequence.                            *)
LEMMA FilesAreSequences ==
  ASSUME NEW X, NEW f \in [FileIds -> X]
  PROVE  f \in Seq(X)
<1>1. FileIds = 1 .. 3
  BY DEF FileIds, Files
<1> QED
  BY <1>1, SeqDef

(* Every step keeps the types of the key variables.                        *)
LEMMA KeysTypeStep ==
  ASSUME KeysInv, KeyStep \/ UNCHANGED keyVars
  PROVE  KeysTypeOK'
<1> USE DataKeysAssumption
<1>1. CASE UNCHANGED keyVars
  BY <1>1 DEF KeysInv, KeysTypeOK, keyVars
<1>2. ASSUME NEW c \in Clients, BeginKey(c)
      PROVE  KeysTypeOK'
  BY <1>2 DEF KeysInv, KeysTypeOK, BeginKey, RowFree
<1>3. ASSUME NEW c \in Clients, ReadKey(c)
      PROVE  KeysTypeOK'
  BY <1>3 DEF KeysInv, KeysTypeOK, ReadKey
<1>4. ASSUME NEW c \in Clients, NEW k \in DataKeySet, CreateKey(c, k)
      PROVE  KeysTypeOK'
  BY <1>4 DEF KeysInv, KeysTypeOK, CreateKey
<1>5. ASSUME NEW c \in Clients, CommitKey(c)
      PROVE  KeysTypeOK'
  BY <1>5 DEF KeysInv, KeysTypeOK, CommitKey
<1>6. ASSUME NEW c \in Clients, WriteFiles(c)
      PROVE  KeysTypeOK'
  <2>1. [i \in FileIds |-> "clear"] \in Seq(DataKeySet \cup {"clear"})
    BY DEF FileIds, Files
  <2> QED
    BY <1>6, <2>1 DEF KeysInv, KeysTypeOK, WriteFiles, FileIds
<1>7. ASSUME NEW c \in Clients, EncryptFile(c)
      PROVE  KeysTypeOK'
  <2>1. PICK i \in FileIds : under' = [under EXCEPT ![c][i] = inHand[c]]
    BY <1>7 DEF EncryptFile, FileIds
  <2>2. inHand[c] \in DataKeySet
    BY <1>7 DEF EncryptFile, KeysInv, KeysTypeOK, KeysAgree
  <2>3. under[c] \in [FileIds -> DataKeySet \cup {"clear"}]
    BY <1>7 DEF EncryptFile, KeysInv, FilesAppear
  <2>4. [under[c] EXCEPT ![i] = inHand[c]] \in Seq(DataKeySet \cup {"clear"})
    BY <2>2, <2>3, FilesAreSequences
  <2> DEFINE Texts == Seq(DataKeySet \cup {"clear"})
  <2>5. under \in [Clients -> Texts]
    BY DEF KeysInv, KeysTypeOK
  <2>6. \A v \in Texts : [under EXCEPT ![c] = v] \in [Clients -> Texts]
    BY <2>5, Zenon
  <2>7. under' = [under EXCEPT ![c] = [under[c] EXCEPT ![i] = inHand[c]]]
    BY <2>1
  <2>8. under' \in [Clients -> Texts]
    BY <2>4, <2>6, <2>7
  <2> QED
    BY <1>7, <2>8 DEF KeysInv, KeysTypeOK, EncryptFile
<1>8. ASSUME NEW c \in Clients, ListFiles(c)
      PROVE  KeysTypeOK'
  BY <1>8 DEF KeysInv, KeysTypeOK, ListFiles, Encrypted
<1>9. ASSUME NEW c \in Clients, Crash(c)
      PROVE  KeysTypeOK'
  BY <1>9 DEF KeysInv, KeysTypeOK, Crash
<1> QED
  BY <1>1, <1>2, <1>3, <1>4, <1>5, <1>6, <1>7, <1>8, <1>9 DEF KeyStep

(* The row passes from transaction to transaction.                         *)
LEMMA RowLockStep ==
  ASSUME KeysInv, KeyStep \/ UNCHANGED keyVars
  PROVE  RowLocked'
<1> USE DataKeysAssumption
<1>1. CASE UNCHANGED keyVars
  BY <1>1 DEF KeysInv, KeysTypeOK, RowLocked, keyVars
<1>2. ASSUME NEW c \in Clients, BeginKey(c)
      PROVE  RowLocked'
  BY <1>2 DEF KeysInv, KeysTypeOK, RowLocked, BeginKey, RowFree
<1>3. ASSUME NEW c \in Clients, ReadKey(c)
      PROVE  RowLocked'
  BY <1>3 DEF KeysInv, KeysTypeOK, RowLocked, ReadKey
<1>4. ASSUME NEW c \in Clients, NEW k \in DataKeySet, CreateKey(c, k)
      PROVE  RowLocked'
  BY <1>4 DEF KeysInv, KeysTypeOK, RowLocked, CreateKey
<1>5. ASSUME NEW c \in Clients, CommitKey(c)
      PROVE  RowLocked'
  BY <1>5 DEF KeysInv, KeysTypeOK, RowLocked, CommitKey
<1>6. ASSUME NEW c \in Clients, WriteFiles(c)
      PROVE  RowLocked'
  BY <1>6 DEF KeysInv, KeysTypeOK, RowLocked, WriteFiles
<1>7. ASSUME NEW c \in Clients, EncryptFile(c)
      PROVE  RowLocked'
  BY <1>7 DEF KeysInv, KeysTypeOK, RowLocked, EncryptFile
<1>8. ASSUME NEW c \in Clients, ListFiles(c)
      PROVE  RowLocked'
  BY <1>8 DEF KeysInv, KeysTypeOK, RowLocked, ListFiles, Encrypted
<1>9. ASSUME NEW c \in Clients, Crash(c)
      PROVE  RowLocked'
  BY <1>9 DEF KeysInv, KeysTypeOK, RowLocked, Crash
<1> QED
  BY <1>1, <1>2, <1>3, <1>4, <1>5, <1>6, <1>7, <1>8, <1>9 DEF KeyStep

(* While a client holds the row nobody else can commit a key.              *)
LEMMA KeysAgreeStep ==
  ASSUME KeysInv, KeyStep \/ UNCHANGED keyVars
  PROVE  KeysAgree'
<1> USE DataKeysAssumption
<1>1. CASE UNCHANGED keyVars
  BY <1>1 DEF KeysInv, KeysTypeOK, RowLocked, KeysAgree, keyVars
<1>2. ASSUME NEW c \in Clients, BeginKey(c)
      PROVE  KeysAgree'
  BY <1>2 DEF KeysInv, KeysTypeOK, RowLocked, KeysAgree, BeginKey, RowFree
<1>3. ASSUME NEW c \in Clients, ReadKey(c)
      PROVE  KeysAgree'
  BY <1>3 DEF KeysInv, KeysTypeOK, RowLocked, KeysAgree, ReadKey
<1>4. ASSUME NEW c \in Clients, NEW k \in DataKeySet, CreateKey(c, k)
      PROVE  KeysAgree'
  BY <1>4 DEF KeysInv, KeysTypeOK, RowLocked, KeysAgree, CreateKey
<1>5. ASSUME NEW c \in Clients, CommitKey(c)
      PROVE  KeysAgree'
  BY <1>5 DEF KeysInv, KeysTypeOK, RowLocked, KeysAgree, CommitKey
<1>6. ASSUME NEW c \in Clients, WriteFiles(c)
      PROVE  KeysAgree'
  BY <1>6 DEF KeysInv, KeysTypeOK, RowLocked, KeysAgree, WriteFiles
<1>7. ASSUME NEW c \in Clients, EncryptFile(c)
      PROVE  KeysAgree'
  BY <1>7 DEF KeysInv, KeysTypeOK, RowLocked, KeysAgree, EncryptFile
<1>8. ASSUME NEW c \in Clients, ListFiles(c)
      PROVE  KeysAgree'
  BY <1>8 DEF KeysInv, KeysTypeOK, RowLocked, KeysAgree, ListFiles, Encrypted
<1>9. ASSUME NEW c \in Clients, Crash(c)
      PROVE  KeysAgree'
  BY <1>9 DEF KeysInv, KeysTypeOK, RowLocked, KeysAgree, Crash
<1> QED
  BY <1>1, <1>2, <1>3, <1>4, <1>5, <1>6, <1>7, <1>8, <1>9 DEF KeyStep

(* Files and manifests appear in the order of the run.                     *)
LEMMA FilesStep ==
  ASSUME KeysInv, KeyStep \/ UNCHANGED keyVars
  PROVE  FilesAppear'
<1> USE DataKeysAssumption
<1>1. CASE UNCHANGED keyVars
  BY <1>1 DEF KeysInv, KeysTypeOK, FilesAppear, keyVars
<1>2. ASSUME NEW c \in Clients, BeginKey(c)
      PROVE  FilesAppear'
  BY <1>2 DEF KeysInv, KeysTypeOK, FilesAppear, BeginKey, RowFree
<1>3. ASSUME NEW c \in Clients, ReadKey(c)
      PROVE  FilesAppear'
  BY <1>3 DEF KeysInv, KeysTypeOK, FilesAppear, ReadKey
<1>4. ASSUME NEW c \in Clients, NEW k \in DataKeySet, CreateKey(c, k)
      PROVE  FilesAppear'
  BY <1>4 DEF KeysInv, KeysTypeOK, FilesAppear, CreateKey
<1>5. ASSUME NEW c \in Clients, CommitKey(c)
      PROVE  FilesAppear'
  BY <1>5 DEF KeysInv, KeysTypeOK, FilesAppear, CommitKey
<1>6. ASSUME NEW c \in Clients, WriteFiles(c)
      PROVE  FilesAppear'
  BY <1>6 DEF KeysInv, KeysTypeOK, FilesAppear, WriteFiles, FileIds
<1>7. ASSUME NEW c \in Clients, EncryptFile(c)
      PROVE  FilesAppear'
  <2>1. PICK i \in FileIds : under' = [under EXCEPT ![c][i] = inHand[c]]
    BY <1>7 DEF EncryptFile, FileIds
  <2>2. inHand[c] \in DataKeySet
    BY <1>7 DEF EncryptFile, KeysInv, KeysTypeOK, KeysAgree
  <2>3. under[c] \in [FileIds -> DataKeySet \cup {"clear"}]
    BY <1>7 DEF EncryptFile, KeysInv, FilesAppear
  <2> QED
    BY <1>7, <2>1, <2>2, <2>3 DEF KeysInv, KeysTypeOK, FilesAppear, EncryptFile
<1>8. ASSUME NEW c \in Clients, ListFiles(c)
      PROVE  FilesAppear'
  BY <1>8 DEF KeysInv, KeysTypeOK, FilesAppear, ListFiles, Encrypted
<1>9. ASSUME NEW c \in Clients, Crash(c)
      PROVE  FilesAppear'
  BY <1>9 DEF KeysInv, KeysTypeOK, FilesAppear, Crash
<1> QED
  BY <1>1, <1>2, <1>3, <1>4, <1>5, <1>6, <1>7, <1>8, <1>9 DEF KeyStep

(* The stored key never changes once it is there.                          *)
LEMMA OpenStep ==
  ASSUME KeysInv, KeyStep \/ UNCHANGED keyVars
  PROVE  ArtifactsOpen'
<1> USE DataKeysAssumption
<1>1. CASE UNCHANGED keyVars
  BY <1>1 DEF KeysInv, KeysTypeOK, KeysAgree, FilesAppear, ArtifactsOpen, Readable, FileIds, keyVars
<1>2. ASSUME NEW c \in Clients, BeginKey(c)
      PROVE  ArtifactsOpen'
  BY <1>2 DEF KeysInv, KeysTypeOK, KeysAgree, FilesAppear, ArtifactsOpen, Readable, FileIds, BeginKey, RowFree
<1>3. ASSUME NEW c \in Clients, ReadKey(c)
      PROVE  ArtifactsOpen'
  BY <1>3 DEF KeysInv, KeysTypeOK, KeysAgree, FilesAppear, ArtifactsOpen, Readable, FileIds, ReadKey
<1>4. ASSUME NEW c \in Clients, NEW k \in DataKeySet, CreateKey(c, k)
      PROVE  ArtifactsOpen'
  BY <1>4 DEF KeysInv, KeysTypeOK, KeysAgree, FilesAppear, ArtifactsOpen, Readable, FileIds, CreateKey
<1>5. ASSUME NEW c \in Clients, CommitKey(c)
      PROVE  ArtifactsOpen'
  BY <1>5 DEF KeysInv, KeysTypeOK, KeysAgree, FilesAppear, ArtifactsOpen, Readable, FileIds, CommitKey
<1>6. ASSUME NEW c \in Clients, WriteFiles(c)
      PROVE  ArtifactsOpen'
  BY <1>6 DEF KeysInv, KeysTypeOK, KeysAgree, FilesAppear, ArtifactsOpen, Readable, FileIds, WriteFiles
<1>7. ASSUME NEW c \in Clients, EncryptFile(c)
      PROVE  ArtifactsOpen'
  BY <1>7 DEF KeysInv, KeysTypeOK, KeysAgree, FilesAppear, ArtifactsOpen, Readable, FileIds, EncryptFile
<1>8. ASSUME NEW c \in Clients, ListFiles(c)
      PROVE  ArtifactsOpen'
  <2>1. DOMAIN under[c] = FileIds
    BY <1>8 DEF KeysInv, FilesAppear, ListFiles
  <2> QED
    BY <1>8, <2>1 DEF KeysInv, KeysTypeOK, ArtifactsOpen, Readable, ListFiles, Encrypted, FileIds
<1>9. ASSUME NEW c \in Clients, Crash(c)
      PROVE  ArtifactsOpen'
  BY <1>9 DEF KeysInv, KeysTypeOK, KeysAgree, FilesAppear, ArtifactsOpen, Readable, FileIds, Crash
<1> QED
  BY <1>1, <1>2, <1>3, <1>4, <1>5, <1>6, <1>7, <1>8, <1>9 DEF KeyStep

-----------------------------------------------------------------------------
(* What is proved of signing in.                                           *)

(* The steps that verify a token, from its lookup to the answer.           *)
Verifying(h) ==
  \/ Lookup(h) \/ LookupRefused(h)
  \/ BeginFetch(h) \/ FetchAnswers(h) \/ FetchFails(h)
  \/ LookAgain(h) \/ Decode(h) \/ Respond(h)

(* Every step is one of these.                                             *)
LEMMA SignInCases ==
  ASSUME SignInStep
  PROVE  \/ \E b \in Browsers, s \in States : Login(b, s)
         \/ \E h \in Handlers, b \in Browsers, s \in States : Callback(h, b, s)
         \/ \E h \in Handlers, k \in SigningKeys, n \in BOOLEAN : Bearer(h, k, n)
         \/ \E h \in Handlers : Exchange(h)
         \/ \E h \in Handlers : Verifying(h)
         \/ \E h \in Handlers, x \in SessionIds : SaveSession(h, x)
         \/ \E b \in Browsers : Logout(b)
         \/ Rotate
         \/ ClockTicks
BY DEF SignInStep, HandlerStep, Verifying

(* Ages are times.                                                         *)
LEMMA GapType ==
  ASSUME SignInTypeOK, CacheIsDated
  PROVE  /\ Gap \in Time \cup {Nothing}
         /\ Cooling => Gap # Nothing /\ Gap < Cooldown
BY SignInAssumption DEF SignInTypeOK, CacheIsDated, Gap, Time, Cooling

(* The cooldown is no longer than the time to live.                        *)
LEMMA CooldownType == Cooldown \in Nat /\ Cooldown <= Ttl
BY SignInAssumption DEF Cooldown, Min2

(* A key that the provider published since a time is one of its keys, and  *)
(* was published at that time.                                             *)
LEMMA PublishedKeys ==
  ASSUME SignInTypeOK, KeysRotate, NEW t \in Time, NEW k \in PublishedSince(t)
  PROVE  k \in SigningKeys /\ PublishedAt(k, t)
BY SignInAssumption DEF SignInTypeOK, KeysRotate, Time, PublishedSince, PublishedAt

(* Verifying touches neither logins nor sessions: it looks up keys for the *)
(* request that its handler has, which stays one of RequestType.           *)
LEMMA VerifyingFrame ==
  ASSUME SignInInv, NEW h \in Handlers, Verifying(h)
  PROVE  /\ UNCHANGED <<clock, providerVars, browserVars, verified>>
         /\ pc[h] \notin {"idle", "exchange"}
         /\ pc' \in [Handlers -> {"idle", "lookup", "first", "again", "second", "accepted", "refused", "exchange"}]
         /\ pc'[h] # "exchange"
         /\ request' \in [Handlers -> RequestType \cup {Nothing}]
         /\ \A g \in Handlers \ {h} : pc'[g] = pc[g] /\ request'[g] = request[g]
         /\ pc'[h] # "idle" =>
              /\ request'[h] \in RequestType
              /\ request'[h].of = request[h].of
              /\ request'[h].browser = request[h].browser
<1> USE SignInAssumption DEF browserVars, providerVars, cacheVars, Looks
<1>0. /\ clock \in Time
      /\ pc \in [Handlers -> {"idle", "exchange", "lookup", "first", "again", "second", "accepted", "refused"}]
      /\ request \in [Handlers -> RequestType \cup {Nothing}]
      /\ pc[h] # "idle" => request[h] \in RequestType
      /\ holder = h => Looks(h)
  BY DEF SignInInv, SignInTypeOK, RequestsKnown, CacheIsDated
<1>1. CASE Lookup(h)
  <2>1. cached.key \in SigningKeys
    BY <1>1 DEF Lookup, Fresh, SignInInv, SignInTypeOK
  <2>2. pc[h] # "idle" /\ request[h] \in RequestType
    BY <1>0, <1>1 DEF Lookup
  <2>3. request' = [request EXCEPT ![h].keys = {cached.key}, ![h].looked = clock, ![h].gap = Gap]
    BY <1>1 DEF Lookup, Found
  <2>4. request'[h] \in RequestType /\ request'[h].of = request[h].of /\ request'[h].browser = request[h].browser
    BY <1>0, <2>1, <2>2, <2>3, GapType DEF RequestType, SignInInv
  <2> QED
    BY <1>0, <1>1, <2>2, <2>3, <2>4 DEF Lookup, Answered
<1>2. CASE LookupRefused(h) \/ BeginFetch(h)
  <2>2. pc[h] # "idle" /\ request[h] \in RequestType
    BY <1>0, <1>2 DEF LookupRefused, BeginFetch
  <2>3. request' = [request EXCEPT ![h].keys = {}, ![h].looked = clock, ![h].gap = Gap]
    BY <1>2 DEF LookupRefused, BeginFetch, Found
  <2>4. request'[h] \in RequestType /\ request'[h].of = request[h].of /\ request'[h].browser = request[h].browser
    BY <1>0, <2>2, <2>3, GapType DEF RequestType, SignInInv
  <2> QED
    BY <1>0, <1>2, <2>2, <2>3, <2>4 DEF LookupRefused, BeginFetch
<1>3. CASE FetchAnswers(h)
  <2>1. request[h] \in RequestType /\ Looks(h)
    BY <1>0, <1>3 DEF FetchAnswers
  <2>2. PICK k \in PublishedSince(request[h].looked) : request' = [request EXCEPT ![h].keys = {k}]
    BY <1>3 DEF FetchAnswers
  <2>3. k \in SigningKeys
    BY <2>1, <2>2, PublishedKeys DEF SignInInv, RequestType
  <2>4. request'[h] \in RequestType /\ request'[h].of = request[h].of /\ request'[h].browser = request[h].browser
    BY <1>0, <2>1, <2>2, <2>3 DEF RequestType
  <2> QED
    BY <1>0, <1>3, <2>1, <2>2, <2>4 DEF FetchAnswers, Answered
<1>4. CASE FetchFails(h)
  <2>1. request[h] \in RequestType /\ Looks(h)
    BY <1>0, <1>4 DEF FetchFails
  <2>2. request'[h] \in RequestType /\ request'[h].of = request[h].of /\ request'[h].browser = request[h].browser
    BY <1>0, <1>4, <2>1 DEF FetchFails, RequestType
  <2> QED
    BY <1>0, <1>4, <2>1, <2>2 DEF FetchFails
<1>5. CASE LookAgain(h) \/ Decode(h) \/ Respond(h)
  BY <1>0, <1>5 DEF LookAgain, Decode, Respond, Leave
<1> QED
  BY <1>1, <1>2, <1>3, <1>4, <1>5 DEF Verifying

(* The request of a handler that begins one.                               *)
LEMMA NewRequestType ==
  ASSUME NEW b \in Browsers \cup {Nothing}, NEW s \in States \cup {Nothing},
         NEW k \in SigningKeys \cup {Nothing}, NEW n \in BOOLEAN, NEW e \in Nat
  PROVE  [browser |-> b, of |-> s, key |-> k, named |-> n, expires |-> e, looked |-> 0,
          keys |-> {}, gap |-> Nothing, failed |-> FALSE] \in RequestType
BY SignInAssumption DEF RequestType, Time

(* A handler takes the request of a browser with the cookie of the login,  *)
(* and the browser of a begun login never changes.                         *)
LEMMA RequestsStep ==
  ASSUME SignInInv, SignInStep \/ UNCHANGED signInVars
  PROVE  RequestsKnown'
<1> USE SignInAssumption DEF browserVars, providerVars, cacheVars, handlerVars
<1>1. CASE UNCHANGED signInVars
  BY <1>1 DEF SignInInv, RequestsKnown, SignInTypeOK, signInVars
<1>2. ASSUME NEW b \in Browsers, NEW s \in States, Login(b, s)
      PROVE  RequestsKnown'
  BY <1>2 DEF SignInInv, RequestsKnown, SignInTypeOK, Login
<1>3. ASSUME NEW h \in Handlers, NEW b \in Browsers, NEW s \in States, Callback(h, b, s)
      PROVE  RequestsKnown'
  <2>1. begun[s] = b
    BY <1>3 DEF SignInInv, LoginsOnce, Callback, CookieMatches
  <2>2. CASE UNCHANGED <<pc, request>>
    BY <1>3, <2>2 DEF SignInInv, RequestsKnown, Callback
  <2>3. CASE /\ pc' = [pc EXCEPT ![h] = "exchange"]
             /\ request' = [request EXCEPT ![h] = [browser |-> b, of |-> s, key |-> Nothing, named |-> TRUE,
                  expires |-> 0, looked |-> 0, keys |-> {}, gap |-> Nothing, failed |-> FALSE]]
    <3>1. request'[h] \in RequestType /\ request'[h].of = s /\ request'[h].browser = b
      BY <2>3, NewRequestType DEF SignInInv, SignInTypeOK
    <3> QED
      BY <1>3, <2>1, <2>3, <3>1 DEF SignInInv, SignInTypeOK, RequestsKnown, Callback
  <2> QED
    BY <1>3, <2>2, <2>3 DEF Callback
<1>4. ASSUME NEW h \in Handlers, NEW k \in SigningKeys, NEW n \in BOOLEAN, Bearer(h, k, n)
      PROVE  RequestsKnown'
  BY <1>4, NewRequestType DEF SignInInv, SignInTypeOK, RequestsKnown, Bearer
<1>5. ASSUME NEW h \in Handlers, Exchange(h)
      PROVE  RequestsKnown'
  <2>1. request[h] \in RequestType /\ request[h].of \in States
    BY <1>5 DEF Exchange, SignInInv, RequestsKnown
  <2>2. clock + TokenLife \in Nat /\ signing \in SigningKeys
    BY DEF SignInInv, SignInTypeOK, Time
  <2>3. CASE pc' = [pc EXCEPT ![h] = "idle"] /\ request' = [request EXCEPT ![h] = Nothing]
    BY <1>5, <2>3 DEF Exchange, SignInInv, SignInTypeOK, RequestsKnown
  <2>4. CASE /\ pc' = [pc EXCEPT ![h] = "lookup"]
             /\ request' = [request EXCEPT ![h].key = signing, ![h].expires = clock + TokenLife]
    <3>1. /\ request'[h] \in RequestType
          /\ request'[h].of = request[h].of /\ request'[h].browser = request[h].browser
      BY <2>1, <2>2, <2>4 DEF RequestType, SignInInv, SignInTypeOK
    <3> QED
      BY <1>5, <2>4, <3>1 DEF Exchange, SignInInv, SignInTypeOK, RequestsKnown
  <2> QED
    BY <1>5, <2>3, <2>4 DEF Exchange
<1>6. ASSUME NEW h \in Handlers, Verifying(h)
      PROVE  RequestsKnown'
  BY <1>6, VerifyingFrame DEF SignInInv, RequestsKnown, SignInTypeOK
<1>7. ASSUME NEW h \in Handlers, NEW x \in SessionIds, SaveSession(h, x)
      PROVE  RequestsKnown'
  BY <1>7 DEF SignInInv, RequestsKnown, SignInTypeOK, SaveSession, Leave, Min2
<1>8. ASSUME NEW b \in Browsers, Logout(b)
      PROVE  RequestsKnown'
  BY <1>8 DEF SignInInv, RequestsKnown, SignInTypeOK, Logout, Consume, Read
<1>9. CASE Rotate
  BY <1>9 DEF SignInInv, RequestsKnown, SignInTypeOK, Rotate
<1>10. CASE ClockTicks
  BY <1>10 DEF SignInInv, RequestsKnown, SignInTypeOK, ClockTicks
<1> QED
  BY <1>1, <1>2, <1>3, <1>4, <1>5, <1>6, <1>7, <1>8, <1>9, <1>10, SignInCases

(* What SaveSession writes.                                                *)
LEMMA SessionLasts ==
  ASSUME SignInTypeOK, NEW e \in Nat
  PROVE  clock + Min2(SessionLife, IF e > clock THEN e - clock ELSE 0) \in Nat
BY SignInAssumption DEF SignInTypeOK, Time, Min2

(* Every step keeps the types of the variables of signing in.              *)
LEMMA SignInTypeStep ==
  ASSUME SignInInv, SignInStep \/ UNCHANGED signInVars
  PROVE  SignInTypeOK'
<1> USE SignInAssumption DEF browserVars, providerVars, cacheVars, handlerVars
<1>1. CASE UNCHANGED signInVars
  BY <1>1 DEF SignInInv, SignInTypeOK, signInVars
<1>2. ASSUME NEW b \in Browsers, NEW s \in States, Login(b, s)
      PROVE  SignInTypeOK'
  <2>1. [kind |-> "login", expires |-> clock + LoginLife, of |-> s] \in Rows
    BY DEF SignInInv, SignInTypeOK, Time, Rows
  <2> QED
    BY <1>2, <2>1 DEF SignInInv, SignInTypeOK, Login, Tokens
<1>3. ASSUME NEW h \in Handlers, NEW b \in Browsers, NEW s \in States, Callback(h, b, s)
      PROVE  SignInTypeOK'
  <2>1. row' \in [Tokens -> Rows \cup {Nothing}]
    BY <1>3 DEF SignInInv, SignInTypeOK, Callback, Consume
  <2>2. [browser |-> b, of |-> s, key |-> Nothing, named |-> TRUE, expires |-> 0, looked |-> 0,
         keys |-> {}, gap |-> Nothing, failed |-> FALSE] \in RequestType
    BY NewRequestType
  <2>3. /\ pc' \in [Handlers -> {"idle", "exchange", "lookup", "first", "again", "second", "accepted", "refused"}]
        /\ request' \in [Handlers -> RequestType \cup {Nothing}]
        /\ verified' \in 0 .. Requests
    <3>1. CASE UNCHANGED <<pc, request, verified>>
      BY <3>1 DEF SignInInv, SignInTypeOK
    <3>2. CASE /\ pc' = [pc EXCEPT ![h] = "exchange"]
               /\ request' = [request EXCEPT ![h] = [browser |-> b, of |-> s, key |-> Nothing, named |-> TRUE,
                    expires |-> 0, looked |-> 0, keys |-> {}, gap |-> Nothing, failed |-> FALSE]]
               /\ verified < Requests /\ verified' = verified + 1
      BY <2>2, <3>2 DEF SignInInv, SignInTypeOK
    <3> QED
      BY <1>3, <3>1, <3>2 DEF Callback
  <2> QED
    BY <1>3, <2>1, <2>3 DEF SignInInv, SignInTypeOK, Callback
<1>4. ASSUME NEW h \in Handlers, NEW k \in SigningKeys, NEW n \in BOOLEAN, Bearer(h, k, n)
      PROVE  SignInTypeOK'
  BY <1>4, NewRequestType DEF SignInInv, SignInTypeOK, Bearer
<1>5. ASSUME NEW h \in Handlers, Exchange(h)
      PROVE  SignInTypeOK'
  <2>1. request[h] \in RequestType /\ request[h].of \in States
    BY <1>5 DEF Exchange, SignInInv, RequestsKnown
  <2>2. clock + TokenLife \in Nat /\ signing \in SigningKeys
    BY DEF SignInInv, SignInTypeOK, Time
  <2>3. [request[h] EXCEPT !.key = signing, !.expires = clock + TokenLife] \in RequestType
    BY <2>1, <2>2 DEF RequestType
  <2>4. /\ pc' \in [Handlers -> {"idle", "exchange", "lookup", "first", "again", "second", "accepted", "refused"}]
        /\ request' \in [Handlers -> RequestType \cup {Nothing}]
    <3>1. CASE pc' = [pc EXCEPT ![h] = "idle"] /\ request' = [request EXCEPT ![h] = Nothing]
      BY <3>1 DEF SignInInv, SignInTypeOK
    <3>2. CASE /\ pc' = [pc EXCEPT ![h] = "lookup"]
               /\ request' = [request EXCEPT ![h].key = signing, ![h].expires = clock + TokenLife]
      <4>1. request' = [request EXCEPT ![h] = [request[h] EXCEPT !.key = signing, !.expires = clock + TokenLife]]
        BY <2>1, <3>2 DEF SignInInv, SignInTypeOK, RequestType
      <4> QED
        BY <2>3, <3>2, <4>1 DEF SignInInv, SignInTypeOK
    <3> QED
      BY <1>5, <3>1, <3>2 DEF Exchange
  <2>5. exchanges' \in [States -> Nat]
    BY <1>5, <2>1 DEF Exchange, SignInInv, SignInTypeOK
  <2> QED
    BY <1>5, <2>4, <2>5 DEF Exchange, SignInInv, SignInTypeOK
<1>6. ASSUME NEW h \in Handlers, Verifying(h)
      PROVE  SignInTypeOK'
  <2>1. attempt' \in Time \cup {Nothing} /\ holder' \in Handlers \cup {Nothing}
    BY <1>6 DEF Verifying, Lookup, LookupRefused, BeginFetch, FetchAnswers, FetchFails,
                LookAgain, Decode, Respond, SignInInv, SignInTypeOK
  <2>2. cached' \in [key : SigningKeys, at : Time] \cup {Nothing}
    <3>1. CASE FetchAnswers(h)
      <4>1. request[h] \in RequestType
        BY <1>6, <3>1 DEF FetchAnswers, SignInInv, CacheIsDated, RequestsKnown, Looks
      <4>2. PICK k \in PublishedSince(request[h].looked) : cached' = [key |-> k, at |-> request[h].looked]
        BY <3>1 DEF FetchAnswers, Stamp
      <4> QED
        BY <4>1, <4>2, PublishedKeys DEF RequestType, SignInInv
    <3>2. CASE UNCHANGED cached
      BY <3>2 DEF SignInInv, SignInTypeOK
    <3> QED
      BY <1>6, <3>1, <3>2 DEF Verifying, Lookup, LookupRefused, BeginFetch, FetchFails, LookAgain, Decode, Respond
  <2> QED
    BY <1>6, <2>1, <2>2, VerifyingFrame DEF SignInInv, SignInTypeOK
<1>7. ASSUME NEW h \in Handlers, NEW x \in SessionIds, SaveSession(h, x)
      PROVE  SignInTypeOK'
  <2>1. request[h] \in RequestType /\ request[h].of \in States /\ request[h].browser \in Browsers
    BY <1>7 DEF SaveSession, SignInInv, RequestsKnown, RequestType
  <2>2. [kind |-> "session",
         expires |-> clock + Min2(SessionLife, IF request[h].expires > clock THEN request[h].expires - clock ELSE 0),
         of |-> request[h].of] \in Rows
    BY <2>1, SessionLasts DEF SignInInv, Rows, RequestType
  <2> QED
    BY <1>7, <2>1, <2>2 DEF SignInInv, SignInTypeOK, SaveSession, Leave, Tokens
<1>8. ASSUME NEW b \in Browsers, Logout(b)
      PROVE  SignInTypeOK'
  BY <1>8 DEF SignInInv, SignInTypeOK, Logout, Consume, Read
<1>9. CASE Rotate
  BY <1>9 DEF SignInInv, SignInTypeOK, Rotate, Time
<1>10. CASE ClockTicks
  BY <1>10 DEF SignInInv, SignInTypeOK, ClockTicks, Time
<1> QED
  BY <1>1, <1>2, <1>3, <1>4, <1>5, <1>6, <1>7, <1>8, <1>9, <1>10, SignInCases

(* The state of a login goes from the table to one callback.               *)
LEMMA LoginsStep ==
  ASSUME SignInInv, SignInStep \/ UNCHANGED signInVars
  PROVE  LoginsOnce'
<1> USE SignInAssumption DEF browserVars, providerVars, cacheVars, handlerVars
<1>1. CASE UNCHANGED signInVars
  BY <1>1 DEF SignInInv, SignInTypeOK, RequestsKnown, LoginsOnce, Exchanging, signInVars
<1>2. ASSUME NEW b \in Browsers, NEW s \in States, Login(b, s)
      PROVE  LoginsOnce'
  BY <1>2 DEF SignInInv, SignInTypeOK, RequestsKnown, RequestType, LoginsOnce, Exchanging, Login, Tokens
<1>3. ASSUME NEW h \in Handlers, NEW b \in Browsers, NEW s \in States, Callback(h, b, s)
      PROVE  LoginsOnce'
  <2>1. CASE UNCHANGED <<pc, request>>
    BY <1>3, <2>1 DEF SignInInv, SignInTypeOK, LoginsOnce, Exchanging, Callback, Consume, Tokens
  <2>2. CASE /\ Read(s) # Nothing
             /\ pc' = [pc EXCEPT ![h] = "exchange"]
             /\ request' = [request EXCEPT ![h] = [browser |-> b, of |-> s, key |-> Nothing, named |-> TRUE,
                  expires |-> 0, looked |-> 0, keys |-> {}, gap |-> Nothing, failed |-> FALSE]]
    <3>1. row[s] # Nothing
      BY <2>2 DEF Read
    <3>2. row' = [row EXCEPT ![s] = Nothing] /\ UNCHANGED <<begun, loginCookie, exchanges>>
      BY <1>3 DEF Callback, Consume
    <3>3. exchanges[s] = 0 /\ (\A g \in Handlers : ~Exchanging(g, s)) /\ begun[s] # Nothing
      BY <3>1 DEF SignInInv, LoginsOnce
    <3>4. \A g \in Handlers, t \in States : Exchanging(g, t)' <=> (IF g = h THEN t = s ELSE Exchanging(g, t))
      BY <2>2 DEF Exchanging, SignInInv, SignInTypeOK
    <3>5. \A t \in States : row'[t] = IF t = s THEN Nothing ELSE row[t]
      BY <3>2 DEF SignInInv, SignInTypeOK, Tokens
    <3> QED
      BY <1>3, <3>2, <3>3, <3>4, <3>5 DEF SignInInv, SignInTypeOK, LoginsOnce, Callback, CookieMatches, Exchanging
  <2> QED
    BY <1>3, <2>1, <2>2 DEF Callback
<1>4. ASSUME NEW h \in Handlers, NEW k \in SigningKeys, NEW n \in BOOLEAN, Bearer(h, k, n)
      PROVE  LoginsOnce'
  BY <1>4 DEF SignInInv, SignInTypeOK, LoginsOnce, Exchanging, Bearer
<1>5. ASSUME NEW h \in Handlers, Exchange(h)
      PROVE  LoginsOnce'
  <2>1. pc[h] = "exchange" /\ request[h].of \in States
    BY <1>5 DEF Exchange, SignInInv, RequestsKnown
  <2>2. \A g \in Handlers, t \in States : Exchanging(g, t)' <=> g # h /\ Exchanging(g, t)
    BY <1>5, <2>1 DEF Exchange, Exchanging, SignInInv, SignInTypeOK
  <2>3. row[request[h].of] = Nothing /\ begun[request[h].of] # Nothing /\ exchanges[request[h].of] = 0
    BY <2>1 DEF SignInInv, LoginsOnce, Exchanging, RequestsKnown
  <2> QED
    BY <1>5, <2>1, <2>2, <2>3 DEF Exchange, SignInInv, SignInTypeOK, LoginsOnce, Exchanging
<1>6. ASSUME NEW h \in Handlers, Verifying(h)
      PROVE  LoginsOnce'
  <2>1. UNCHANGED <<row, begun, loginCookie, exchanges>>
    BY <1>6, VerifyingFrame
  <2>2. \A g \in Handlers, t \in States : Exchanging(g, t)' <=> Exchanging(g, t)
    BY <1>6, VerifyingFrame DEF Exchanging
  <2> QED
    BY <2>1, <2>2 DEF SignInInv, LoginsOnce
<1>7. ASSUME NEW h \in Handlers, NEW x \in SessionIds, SaveSession(h, x)
      PROVE  LoginsOnce'
  BY <1>7 DEF SignInInv, SignInTypeOK, LoginsOnce, Exchanging, SaveSession, Leave, Tokens
<1>8. ASSUME NEW b \in Browsers, Logout(b)
      PROVE  LoginsOnce'
  BY <1>8 DEF SignInInv, SignInTypeOK, LoginsOnce, Exchanging, Logout, Consume, Tokens
<1>9. CASE Rotate
  BY <1>9 DEF SignInInv, SignInTypeOK, RequestsKnown, LoginsOnce, Exchanging, Rotate
<1>10. CASE ClockTicks
  BY <1>10 DEF SignInInv, SignInTypeOK, RequestsKnown, LoginsOnce, Exchanging, ClockTicks
<1> QED
  BY <1>1, <1>2, <1>3, <1>4, <1>5, <1>6, <1>7, <1>8, <1>9, <1>10, SignInCases

(* The callback gives the session to the browser of its login.             *)
LEMMA SessionsStep ==
  ASSUME SignInInv, SignInStep \/ UNCHANGED signInVars
  PROVE  SessionsStay'
<1> USE SignInAssumption DEF browserVars, providerVars, cacheVars, handlerVars
<1>1. CASE UNCHANGED signInVars
  BY <1>1 DEF SignInInv, SignInTypeOK, SessionsStay, signInVars
<1>2. ASSUME NEW b \in Browsers, NEW s \in States, Login(b, s)
      PROVE  SessionsStay'
  <2>1. begun[s] = Nothing /\ begun' = [begun EXCEPT ![s] = b]
    BY <1>2 DEF Login
  <2>2. \A x \in SessionIds : row'[x] = row[x] /\ (row[x] # Nothing => row[x].of \in States)
    BY <1>2 DEF Login, SignInInv, SignInTypeOK, Tokens, Rows
  <2> QED
    BY <1>2, <2>1, <2>2 DEF Login, SignInInv, SignInTypeOK, SessionsStay
<1>3. ASSUME NEW h \in Handlers, NEW b \in Browsers, NEW s \in States, Callback(h, b, s)
      PROVE  SessionsStay'
  <2>1. \A x \in SessionIds : row'[x] = row[x]
    BY <1>3 DEF Callback, Consume, SignInInv, SignInTypeOK, Tokens
  <2> QED
    BY <1>3, <2>1 DEF Callback, SignInInv, SignInTypeOK, SessionsStay
<1>4. ASSUME NEW h \in Handlers, NEW k \in SigningKeys, NEW n \in BOOLEAN, Bearer(h, k, n)
      PROVE  SessionsStay'
  BY <1>4 DEF SignInInv, SignInTypeOK, SessionsStay, Bearer
<1>5. ASSUME NEW h \in Handlers, Exchange(h)
      PROVE  SessionsStay'
  BY <1>5 DEF SignInInv, SignInTypeOK, SessionsStay, Exchange
<1>6. ASSUME NEW h \in Handlers, Verifying(h)
      PROVE  SessionsStay'
  BY <1>6, VerifyingFrame DEF SignInInv, SessionsStay
<1>7. ASSUME NEW h \in Handlers, NEW x \in SessionIds, SaveSession(h, x)
      PROVE  SessionsStay'
  <2>1. /\ request[h].of \in States /\ request[h].browser \in Browsers
        /\ begun[request[h].of] = request[h].browser
    BY <1>7 DEF SaveSession, SignInInv, RequestsKnown, RequestType
  <2>2. /\ \A t \in Tokens \ {x} : row'[t] = row[t]
        /\ row'[x].of = request[h].of /\ UNCHANGED begun
        /\ sessionCookie' = [sessionCookie EXCEPT ![request[h].browser] = x]
        /\ \A b \in Browsers : sessionCookie[b] # x
    BY <1>7 DEF SaveSession, SignInInv, SignInTypeOK, Tokens
  <2> QED
    BY <2>1, <2>2 DEF SignInInv, SignInTypeOK, SessionsStay, Tokens
<1>8. ASSUME NEW b \in Browsers, Logout(b)
      PROVE  SessionsStay'
  BY <1>8 DEF SignInInv, SignInTypeOK, SessionsStay, Logout, Consume, Tokens
<1>9. CASE Rotate
  BY <1>9 DEF SignInInv, SignInTypeOK, SessionsStay, Rotate
<1>10. CASE ClockTicks
  BY <1>10 DEF SignInInv, SignInTypeOK, SessionsStay, ClockTicks
<1> QED
  BY <1>1, <1>2, <1>3, <1>4, <1>5, <1>6, <1>7, <1>8, <1>9, <1>10, SignInCases

(* A key is withdrawn when the next is published, and at no other time.    *)
LEMMA KeysRotateStep ==
  ASSUME SignInInv, SignInStep \/ UNCHANGED signInVars
  PROVE  KeysRotate'
<1> USE SignInAssumption DEF browserVars, providerVars, cacheVars, handlerVars
<1>1. CASE UNCHANGED signInVars
  BY <1>1 DEF SignInInv, KeysRotate, signInVars
<1>2. ASSUME NEW b \in Browsers, NEW s \in States, Login(b, s)
      PROVE  KeysRotate'
  BY <1>2 DEF SignInInv, KeysRotate, Login
<1>3. ASSUME NEW h \in Handlers, NEW b \in Browsers, NEW s \in States, Callback(h, b, s)
      PROVE  KeysRotate'
  BY <1>3 DEF SignInInv, KeysRotate, Callback
<1>4. ASSUME NEW h \in Handlers, NEW k \in SigningKeys, NEW n \in BOOLEAN, Bearer(h, k, n)
      PROVE  KeysRotate'
  BY <1>4 DEF SignInInv, KeysRotate, Bearer
<1>5. ASSUME NEW h \in Handlers, Exchange(h)
      PROVE  KeysRotate'
  BY <1>5 DEF SignInInv, KeysRotate, Exchange
<1>6. ASSUME NEW h \in Handlers, Verifying(h)
      PROVE  KeysRotate'
  BY <1>6, VerifyingFrame DEF SignInInv, KeysRotate
<1>7. ASSUME NEW h \in Handlers, NEW x \in SessionIds, SaveSession(h, x)
      PROVE  KeysRotate'
  BY <1>7 DEF SignInInv, KeysRotate, SaveSession
<1>8. ASSUME NEW b \in Browsers, Logout(b)
      PROVE  KeysRotate'
  BY <1>8 DEF SignInInv, KeysRotate, Logout
<1>9. CASE Rotate
  <2>1. /\ signing + 1 \in SigningKeys /\ signing' = signing + 1 /\ clock' = clock
        /\ withdrawn' = [withdrawn EXCEPT ![signing] = clock]
    BY <1>9 DEF Rotate
  <2>2. /\ clock \in Nat /\ signing \in Nat /\ signing \in SigningKeys
        /\ SigningKeys \subseteq Nat /\ DOMAIN withdrawn = SigningKeys
    BY SignInAssumption DEF SignInInv, SignInTypeOK, Time
  <2>3. 1 .. signing' \subseteq SigningKeys
    BY <2>1, <2>2 DEF SignInInv, KeysRotate
  <2>4. ASSUME NEW k \in SigningKeys
        PROVE  IF k < signing' THEN withdrawn'[k] \in 0 .. clock' ELSE withdrawn'[k] = Nothing
    BY <2>1, <2>2 DEF SignInInv, KeysRotate
  <2>5. ASSUME NEW j \in SigningKeys, NEW k \in SigningKeys, j <= k, k < signing'
        PROVE  withdrawn'[j] <= withdrawn'[k]
    BY <2>1, <2>2, <2>5 DEF SignInInv, KeysRotate
  <2> QED
    BY <2>3, <2>4, <2>5 DEF KeysRotate
<1>10. CASE ClockTicks
  <2>1. clock' = clock + 1 /\ UNCHANGED <<signing, withdrawn>>
    BY <1>10 DEF ClockTicks, providerVars
  <2>2. clock \in Nat
    BY DEF SignInInv, SignInTypeOK, Time
  <2>3. \A n \in 0 .. clock : n \in 0 .. clock'
    BY <2>1, <2>2
  <2> QED
    BY <2>1, <2>2, <2>3 DEF SignInInv, KeysRotate
<1> QED
  BY <1>1, <1>2, <1>3, <1>4, <1>5, <1>6, <1>7, <1>8, <1>9, <1>10, SignInCases

(* That a key was published at some time in the past stays true.           *)
LEMMA PastStays ==
  ASSUME SignInInv, Rotate, NEW k \in SigningKeys, NEW t \in Time, t <= clock, PublishedAt(k, t)
  PROVE  PublishedAt(k, t)'
BY SignInAssumption DEF SignInInv, SignInTypeOK, KeysRotate, Rotate, Time, PublishedAt

(* Entries are replaced by those of later attempts only, for one fetch is  *)
(* under way at a time.                                                    *)
LEMMA CacheStep ==
  ASSUME SignInInv, SignInStep \/ UNCHANGED signInVars
  PROVE  CacheIsDated'
<1> USE SignInAssumption DEF browserVars, providerVars, cacheVars, handlerVars
<1>1. CASE UNCHANGED signInVars
  BY <1>1 DEF SignInInv, CacheIsDated, Looks, SignInTypeOK, PublishedAt, signInVars
<1>2. ASSUME NEW b \in Browsers, NEW s \in States, Login(b, s)
      PROVE  CacheIsDated'
  BY <1>2 DEF SignInInv, CacheIsDated, Looks, SignInTypeOK, PublishedAt, Login
<1>3. ASSUME NEW h \in Handlers, NEW b \in Browsers, NEW s \in States, Callback(h, b, s)
      PROVE  CacheIsDated'
  BY <1>3 DEF SignInInv, SignInTypeOK, CacheIsDated, Looks, PublishedAt, Callback
<1>4. ASSUME NEW h \in Handlers, NEW k \in SigningKeys, NEW n \in BOOLEAN, Bearer(h, k, n)
      PROVE  CacheIsDated'
  BY <1>4 DEF SignInInv, CacheIsDated, Looks, SignInTypeOK, PublishedAt, Bearer
<1>5. ASSUME NEW h \in Handlers, Exchange(h)
      PROVE  CacheIsDated'
  BY <1>5 DEF SignInInv, CacheIsDated, Looks, SignInTypeOK, PublishedAt, Exchange
<1>6. ASSUME NEW h \in Handlers, Verifying(h)
      PROVE  CacheIsDated'
  <2>1. /\ UNCHANGED <<clock, providerVars>>
        /\ \A g \in Handlers \ {h} : pc'[g] = pc[g] /\ request'[g] = request[g]
    BY <1>6, VerifyingFrame
  <2>2. CASE BeginFetch(h)
    <3>1. Looks(h)' /\ request'[h].looked = clock /\ attempt' = clock /\ holder' = h /\ UNCHANGED cached
      <4>1. request[h] \in RequestType /\ h \in DOMAIN request
        BY <2>2 DEF BeginFetch, Looks, SignInInv, SignInTypeOK, RequestsKnown
      <4> QED
        BY <2>2, <4>1 DEF BeginFetch, Looks, Found, RequestType
    <3> QED
      BY <2>1, <3>1 DEF SignInInv, SignInTypeOK, CacheIsDated, PublishedAt, Time
  <2>3. CASE FetchAnswers(h)
    <3>1. request[h].looked = attempt /\ attempt \in Time /\ request[h] \in RequestType
      BY <2>3 DEF FetchAnswers, SignInInv, SignInTypeOK, CacheIsDated, RequestsKnown, Looks, RequestType
    <3>2. PICK k \in PublishedSince(request[h].looked) : cached' = [key |-> k, at |-> request[h].looked]
      BY <2>3 DEF FetchAnswers, Stamp
    <3>3. PublishedAt(k, attempt)
      BY <3>1, <3>2, PublishedKeys DEF SignInInv
    <3> QED
      BY <2>1, <2>3, <3>1, <3>2, <3>3 DEF FetchAnswers, SignInInv, CacheIsDated, PublishedAt, Time
  <2>4. CASE FetchFails(h)
    BY <2>1, <2>4 DEF FetchFails, SignInInv, CacheIsDated, PublishedAt
  <2>5. CASE Lookup(h) \/ LookupRefused(h)
    BY <2>1, <2>5 DEF Lookup, LookupRefused, SignInInv, CacheIsDated, PublishedAt
  <2>6. CASE LookAgain(h) \/ Decode(h) \/ Respond(h)
    <3>1. ~Looks(h) /\ UNCHANGED cacheVars
      BY <2>6 DEF LookAgain, Decode, Respond, Looks
    <3> QED
      BY <2>1, <3>1 DEF SignInInv, SignInTypeOK, CacheIsDated, PublishedAt, Looks
  <2> QED
    BY <1>6, <2>2, <2>3, <2>4, <2>5, <2>6 DEF Verifying
<1>7. ASSUME NEW h \in Handlers, NEW x \in SessionIds, SaveSession(h, x)
      PROVE  CacheIsDated'
  BY <1>7 DEF SignInInv, SignInTypeOK, CacheIsDated, Looks, PublishedAt, SaveSession, Leave
<1>8. ASSUME NEW b \in Browsers, Logout(b)
      PROVE  CacheIsDated'
  BY <1>8 DEF SignInInv, CacheIsDated, Looks, SignInTypeOK, PublishedAt, Logout, Consume, Read
<1>9. CASE Rotate
  <2>1. cached # Nothing => PublishedAt(cached.key, cached.at)'
    <3>1. CASE cached # Nothing
      <4>1. cached.key \in SigningKeys /\ cached.at \in Time /\ cached.at <= clock /\ UNCHANGED cached
        BY <1>9, <3>1 DEF Rotate, SignInInv, SignInTypeOK, CacheIsDated, Time
      <4>2. \A k \in SigningKeys, t \in Time : t <= clock /\ PublishedAt(k, t) => PublishedAt(k, t)'
        BY <1>9, PastStays
      <4> QED
        BY <3>1, <4>1, <4>2 DEF SignInInv, CacheIsDated, PublishedAt
    <3> QED
      BY <3>1
  <2> QED
    BY <1>9, <2>1 DEF Rotate, SignInInv, CacheIsDated, Looks
<1>10. CASE ClockTicks
  BY <1>10 DEF SignInInv, SignInTypeOK, CacheIsDated, Looks, PublishedAt, ClockTicks, Time
<1> QED
  BY <1>1, <1>2, <1>3, <1>4, <1>5, <1>6, <1>7, <1>8, <1>9, <1>10, SignInCases

(* What holds of a handler that does nothing goes on to hold.              *)
LEMMA OthersStay ==
  ASSUME NEW g \in Handlers, LookedUp(g), Explained(g),
         UNCHANGED <<clock, providerVars>>, pc'[g] = pc[g], request'[g] = request[g]
  PROVE  LookedUp(g)' /\ Explained(g)'
BY DEF providerVars, LookedUp, Explained, Fetched, SoonAfter, Patience, PublishedAt

(* ... and of all if only one did something and it holds of that one.      *)
LEMMA OneMoved ==
  ASSUME AnswersExplained, UNCHANGED <<clock, providerVars>>, NEW h \in Handlers,
         \A g \in Handlers \ {h} : pc'[g] = pc[g] /\ request'[g] = request[g],
         LookedUp(h)' /\ Explained(h)'
  PROVE  AnswersExplained'
BY OthersStay DEF AnswersExplained

(* A lookup records how long ago keys were last fetched.                   *)
LEMMA LookupFound ==
  ASSUME SignInInv, NEW h \in Handlers, Looks(h), NEW keys \in SUBSET SigningKeys, Found(h, keys)
  PROVE  /\ request'[h].keys = keys /\ request'[h].looked = clock /\ request'[h].gap = Gap
         /\ request'[h].named = request[h].named /\ request'[h].key = request[h].key
BY DEF SignInInv, SignInTypeOK, RequestsKnown, RequestType, Looks, Found

(* The keys of a fresh entry come soon after the last attempt and were     *)
(* published less than Ttl ago.                                            *)
LEMMA FreshKeys ==
  ASSUME SignInInv, Fresh
  PROVE  /\ cached.key \in SigningKeys
         /\ Gap # Nothing /\ Gap < Ttl
         /\ cached.key = signing
              \/ (cached.key < signing /\ clock - withdrawn[cached.key] < Ttl)
<1>1. /\ cached.key \in SigningKeys /\ cached.at \in Nat /\ clock \in Nat /\ Ttl \in Nat
      /\ clock - cached.at < Ttl
  BY SignInAssumption DEF SignInInv, SignInTypeOK, Fresh, Time
<1>2. attempt \in Nat /\ attempt # Nothing /\ cached.at <= attempt /\ PublishedAt(cached.key, cached.at)
  BY DEF SignInInv, SignInTypeOK, CacheIsDated, Fresh, Time
<1>3. cached.key < signing => withdrawn[cached.key] \in 0 .. clock
  BY <1>1 DEF SignInInv, KeysRotate
<1>4. Gap = clock - attempt /\ Gap \in Int /\ Gap < Ttl
  BY <1>1, <1>2 DEF Gap
<1> QED
  BY <1>1, <1>2, <1>3, <1>4, SignInAssumption DEF PublishedAt

(* What a fetch answers was published when the fetch began.                *)
LEMMA FetchedKeys ==
  ASSUME SignInInv, NEW t \in Time, NEW k \in PublishedSince(t)
  PROVE  /\ PublishedAt(k, t)
         /\ k = signing \/ (k < signing /\ t - withdrawn[k] < Ttl)
<1>1. k \in SigningKeys /\ PublishedAt(k, t)
  BY PublishedKeys DEF SignInInv
<1>2. CASE k < signing
  <2>1. withdrawn[k] \in 0 .. clock
    BY <1>1, <1>2 DEF SignInInv, KeysRotate
  <2>2. clock \in Nat /\ signing \in Nat /\ k \in Nat /\ t \in Nat /\ Ttl \in Nat /\ Ttl > 0
    BY <1>1, SignInAssumption DEF SignInInv, SignInTypeOK, Time
  <2>3. t <= withdrawn[k]
    BY <1>1, <1>2, <2>2 DEF PublishedAt
  <2> QED
    BY <1>1, <1>2, <2>1, <2>2, <2>3
<1> QED
  BY <1>1, <1>2 DEF PublishedAt

(* The steps of verifying a token.                                         *)
LEMMA VerifyingExplained ==
  ASSUME SignInInv, NEW h \in Handlers, Verifying(h)
  PROVE  LookedUp(h)' /\ Explained(h)'
<1> USE SignInAssumption DEF providerVars
<1>0. /\ LookedUp(h) /\ Explained(h) /\ UNCHANGED <<clock, signing, withdrawn>>
      /\ clock \in Nat /\ h \in DOMAIN pc /\ h \in DOMAIN request
      /\ request[h] \in RequestType
      /\ (pc[h] # "idle") /\ (holder = h => Looks(h))
  BY VerifyingFrame DEF SignInInv, SignInTypeOK, AnswersExplained, Time, RequestsKnown, CacheIsDated
<1>1. CASE Lookup(h)
  <2>1. Fresh /\ Looks(h) /\ Found(h, {cached.key})
    BY <1>1 DEF Lookup
  <2>2. cached.key \in SigningKeys
    BY <2>1, FreshKeys
  <2>3. /\ request'[h].keys = {cached.key} /\ request'[h].looked = clock /\ request'[h].gap = Gap
        /\ request'[h].named = request[h].named
    BY <2>1, <2>2, LookupFound
  <2>4. SoonAfter(h, Ttl)'
    BY <2>1, <2>3, FreshKeys DEF SoonAfter
  <2>5. pc[h] = "again" => SoonAfter(h, Cooldown)'
    BY <1>1, <2>3, GapType DEF Lookup, Insists, SoonAfter, SignInInv
  <2>6. pc'[h] = IF pc[h] = "lookup" THEN "first" ELSE "second"
    BY <1>0, <1>1 DEF Lookup, Answered
  <2>7. LookedUp(h)'
    BY <1>0, <2>1, <2>3, <2>4, <2>5, <2>6, FreshKeys DEF LookedUp, Looks
  <2> QED
    BY <2>6, <2>7 DEF Explained
<1>2. CASE LookupRefused(h)
  <2>1. Looks(h) /\ Found(h, {}) /\ Cooling /\ pc'[h] = "refused"
    BY <1>0, <1>2 DEF LookupRefused
  <2>2. request'[h].keys = {} /\ request'[h].looked = clock /\ request'[h].gap = Gap
    BY <2>1, LookupFound
  <2>3. Gap # Nothing /\ Gap < Cooldown /\ Gap \in Time \cup {Nothing}
    BY <2>1, GapType DEF SignInInv
  <2>4. SoonAfter(h, Patience(h))'
    BY <2>2, <2>3, CooldownType DEF SoonAfter, Patience, Time
  <2> QED
    BY <1>0, <2>1, <2>2, <2>4 DEF LookedUp, Explained
<1>3. CASE BeginFetch(h)
  <2>1. Looks(h) /\ Found(h, {}) /\ UNCHANGED pc
    BY <1>3 DEF BeginFetch
  <2>2. request'[h].keys = {} /\ request'[h].looked = clock /\ request'[h].named = request[h].named
    BY <2>1, LookupFound
  <2> QED
    BY <1>0, <2>1, <2>2 DEF LookedUp, Explained, Looks
<1>4. CASE FetchAnswers(h)
  <2>1. PICK k \in PublishedSince(request[h].looked) : request' = [request EXCEPT ![h].keys = {k}]
    BY <1>4 DEF FetchAnswers
  <2>2. /\ request'[h].keys = {k} /\ request'[h].looked = request[h].looked
        /\ request'[h].named = request[h].named
    BY <1>0, <2>1 DEF RequestType
  <2>3. request[h].looked \in Time
    BY <1>0 DEF RequestType
  <2>4. /\ PublishedAt(k, request[h].looked)
        /\ k = signing \/ (k < signing /\ request[h].looked - withdrawn[k] < Ttl)
    BY <2>1, <2>3, FetchedKeys
  <2>5. Fetched(h)'
    BY <1>0, <2>2, <2>4 DEF Fetched, PublishedAt
  <2>6. Looks(h) /\ pc'[h] = IF pc[h] = "lookup" THEN "first" ELSE "second"
    BY <1>0, <1>4 DEF FetchAnswers, Answered
  <2> QED
    BY <1>0, <2>2, <2>4, <2>5, <2>6 DEF LookedUp, Explained, Looks
<1>5. CASE FetchFails(h)
  <2>1. /\ pc'[h] = "refused" /\ request'[h].failed
        /\ request'[h].keys = request[h].keys /\ request'[h].looked = request[h].looked
    BY <1>0, <1>5 DEF FetchFails, RequestType
  <2> QED
    BY <1>0, <2>1 DEF LookedUp, Explained
<1>6. CASE LookAgain(h)
  <2>1. pc[h] = "first" /\ pc'[h] = "again" /\ UNCHANGED request /\ request[h].keys # {}
    BY <1>0, <1>6 DEF LookAgain, LookedUp
  <2>2. request[h].named
    BY <1>0, <1>6, <2>1 DEF LookAgain, Candidates, RequestType
  <2> QED
    BY <1>0, <2>1, <2>2 DEF LookedUp, Explained
<1>7. CASE Decode(h)
  <2>1. UNCHANGED request /\ pc[h] \in {"first", "second"}
    BY <1>7 DEF Decode
  <2>2. CASE request[h].key \in Candidates(h) /\ clock < request[h].expires
    <3>1. pc'[h] = "accepted" /\ request[h].key \in request[h].keys
      BY <1>0, <1>7, <2>2 DEF Decode, Candidates
    <3> QED
      BY <1>0, <2>1, <3>1 DEF LookedUp, Explained
  <2>3. CASE ~(clock < request[h].expires)
    <3>1. pc'[h] = "refused" /\ clock >= request[h].expires
      BY <1>0, <1>7, <2>3 DEF Decode, RequestType
    <3> QED
      BY <1>0, <2>1, <3>1 DEF LookedUp, Explained
  <2>4. CASE request[h].key \notin Candidates(h)
    <3>1. pc'[h] = "refused"
      BY <1>0, <1>7, <2>4 DEF Decode
    <3>2. request[h].key \notin request[h].keys /\ request[h].keys # {}
      BY <1>0, <2>1, <2>4 DEF Candidates, LookedUp
    <3>3. pc[h] = "second" => request[h].named
      BY <1>0 DEF LookedUp
    <3>4. pc[h] = "first" => ~request[h].named
      BY <1>7, <2>4, <3>2 DEF Decode, Candidates
    <3>5. Fetched(h) \/ SoonAfter(h, Patience(h))
      BY <1>0, <2>1, <3>3, <3>4 DEF LookedUp, Patience
    <3> QED
      BY <1>0, <2>1, <3>1, <3>2, <3>5 DEF LookedUp, Explained, Fetched, SoonAfter, Patience, PublishedAt
  <2> QED
    BY <2>2, <2>3, <2>4
<1>8. CASE Respond(h)
  BY <1>0, <1>8 DEF Respond, Leave, LookedUp, Explained
<1> QED
  BY <1>1, <1>2, <1>3, <1>4, <1>5, <1>6, <1>7, <1>8 DEF Verifying

(* Every answer is explained by what its handler looked up.                *)
LEMMA ExplainedStep ==
  ASSUME SignInInv, SignInStep \/ UNCHANGED signInVars
  PROVE  AnswersExplained'
<1> USE SignInAssumption DEF browserVars, providerVars, cacheVars, handlerVars
<1>1. CASE UNCHANGED signInVars
  BY <1>1, OthersStay DEF SignInInv, AnswersExplained, signInVars
<1>2. ASSUME NEW b \in Browsers, NEW s \in States, Login(b, s)
      PROVE  AnswersExplained'
  BY <1>2, OthersStay DEF SignInInv, AnswersExplained, Login
<1>3. ASSUME NEW h \in Handlers, NEW b \in Browsers, NEW s \in States, Callback(h, b, s)
      PROVE  AnswersExplained'
  <2>1. CASE UNCHANGED <<pc, request>>
    BY <1>3, <2>1, OthersStay DEF SignInInv, AnswersExplained, Callback
  <2>2. CASE /\ pc' = [pc EXCEPT ![h] = "exchange"]
             /\ request' = [request EXCEPT ![h] = [browser |-> b, of |-> s, key |-> Nothing, named |-> TRUE,
                  expires |-> 0, looked |-> 0, keys |-> {}, gap |-> Nothing, failed |-> FALSE]]
    <3>1. pc'[h] = "exchange" /\ request'[h].looked = 0 /\ request'[h].keys = {} /\ UNCHANGED clock /\ clock \in Nat
      BY <1>3, <2>2 DEF Callback, SignInInv, SignInTypeOK, Time
    <3>2. LookedUp(h)' /\ Explained(h)'
      BY <3>1 DEF LookedUp, Explained
    <3>3. UNCHANGED <<clock, providerVars>> /\ \A g \in Handlers \ {h} : pc'[g] = pc[g] /\ request'[g] = request[g]
      BY <1>3, <2>2 DEF Callback, SignInInv, SignInTypeOK
    <3> QED
      BY <3>2, <3>3, OneMoved DEF SignInInv
  <2> QED
    BY <1>3, <2>1, <2>2 DEF Callback
<1>4. ASSUME NEW h \in Handlers, NEW k \in SigningKeys, NEW n \in BOOLEAN, Bearer(h, k, n)
      PROVE  AnswersExplained'
  <2>1. /\ pc'[h] = "lookup" /\ request'[h].looked = 0 /\ request'[h].keys = {}
        /\ UNCHANGED <<clock, providerVars>> /\ clock \in Nat
        /\ \A g \in Handlers \ {h} : pc'[g] = pc[g] /\ request'[g] = request[g]
    BY <1>4 DEF Bearer, SignInInv, SignInTypeOK, Time
  <2>2. LookedUp(h)' /\ Explained(h)'
    BY <2>1 DEF LookedUp, Explained
  <2> QED
    BY <2>1, <2>2, OneMoved DEF SignInInv
<1>5. ASSUME NEW h \in Handlers, Exchange(h)
      PROVE  AnswersExplained'
  <2>1. request[h] \in RequestType /\ LookedUp(h) /\ pc[h] = "exchange"
    BY <1>5 DEF Exchange, SignInInv, RequestsKnown, AnswersExplained
  <2>2. /\ UNCHANGED <<clock, providerVars>>
        /\ \A g \in Handlers \ {h} : pc'[g] = pc[g] /\ request'[g] = request[g]
        /\ \/ pc'[h] = "idle"
           \/ pc'[h] = "lookup" /\ request'[h].looked = request[h].looked /\ request'[h].keys = request[h].keys
    BY <1>5, <2>1 DEF Exchange, SignInInv, SignInTypeOK, RequestType
  <2>3. LookedUp(h)' /\ Explained(h)'
    BY <2>1, <2>2 DEF LookedUp, Explained
  <2> QED
    BY <2>2, <2>3, OneMoved DEF SignInInv
<1>6. ASSUME NEW h \in Handlers, Verifying(h)
      PROVE  AnswersExplained'
  BY <1>6, VerifyingFrame, VerifyingExplained, OneMoved DEF SignInInv
<1>7. ASSUME NEW h \in Handlers, NEW x \in SessionIds, SaveSession(h, x)
      PROVE  AnswersExplained'
  <2>1. /\ pc'[h] = "idle" /\ UNCHANGED <<clock, providerVars>>
        /\ \A g \in Handlers \ {h} : pc'[g] = pc[g] /\ request'[g] = request[g]
    BY <1>7 DEF SaveSession, Leave, SignInInv, SignInTypeOK
  <2>2. LookedUp(h)' /\ Explained(h)'
    BY <2>1 DEF LookedUp, Explained
  <2> QED
    BY <2>1, <2>2, OneMoved DEF SignInInv
<1>8. ASSUME NEW b \in Browsers, Logout(b)
      PROVE  AnswersExplained'
  BY <1>8, OthersStay DEF SignInInv, AnswersExplained, Logout
<1>9. CASE Rotate
  <2>1. /\ UNCHANGED <<clock, pc, request>> /\ signing' = signing + 1
        /\ withdrawn' = [withdrawn EXCEPT ![signing] = clock]
    BY <1>9 DEF Rotate
  <2>2. ASSUME NEW h \in Handlers, pc[h] # "idle"
        PROVE  LookedUp(h)' /\ Explained(h)'
    <3>1. /\ LookedUp(h) /\ Explained(h)
          /\ request[h].looked \in Time /\ request[h].looked <= clock /\ request[h].keys \subseteq SigningKeys
      BY <2>2 DEF SignInInv, AnswersExplained, LookedUp, RequestsKnown, RequestType
    <3>2. Fetched(h) => Fetched(h)'
      BY <1>9, <2>1, <3>1, PastStays DEF Fetched, PublishedAt
    <3>3. \A k \in request[h].keys :
             k = signing \/ (k < signing /\ request[h].looked - withdrawn[k] < Ttl)
               => k < signing' /\ request[h].looked - withdrawn'[k] < Ttl
      BY <2>1, <3>1 DEF SignInInv, SignInTypeOK, KeysRotate, Time
    <3>4. LookedUp(h)'
      BY <2>1, <2>2, <3>1, <3>2, <3>3 DEF LookedUp, SoonAfter
    <3> QED
      BY <2>1, <3>1, <3>2, <3>4 DEF Explained, SoonAfter, Patience
  <2>3. ASSUME NEW h \in Handlers, pc[h] = "idle"
        PROVE  LookedUp(h)' /\ Explained(h)'
    BY <2>1, <2>3 DEF LookedUp, Explained
  <2> QED
    BY <2>2, <2>3 DEF AnswersExplained
<1>10. CASE ClockTicks
  <2>1. clock' = clock + 1 /\ clock \in Nat /\ UNCHANGED <<pc, request, signing, withdrawn>>
    BY <1>10 DEF ClockTicks, SignInInv, SignInTypeOK, Time
  <2>2. ASSUME NEW h \in Handlers
        PROVE  LookedUp(h)' /\ Explained(h)'
    <3>1. /\ LookedUp(h) /\ Explained(h)
          /\ pc[h] # "idle" => request[h].looked \in Nat /\ request[h].expires \in Nat
      BY DEF SignInInv, AnswersExplained, RequestsKnown, RequestType, Time
    <3> QED
      BY <2>1, <3>1 DEF LookedUp, Explained, Fetched, SoonAfter, Patience, PublishedAt
  <2> QED
    BY <2>2 DEF AnswersExplained
<1> QED
  BY <1>1, <1>2, <1>3, <1>4, <1>5, <1>6, <1>7, <1>8, <1>9, <1>10, SignInCases

-----------------------------------------------------------------------------
(* The theorems.                                                           *)

(* Both parts' invariants hold in every reachable state, whatever the two  *)
(* do in between.                                                          *)
THEOREM AccessInvariant == Spec => []Inv
<1>1. KeysInit => KeysInv
  BY DataKeysAssumption DEF KeysInit, KeysInv, KeysTypeOK, RowLocked, KeysAgree, FilesAppear, ArtifactsOpen
<1>2. SignInInit => SignInInv
  <2> SUFFICES ASSUME SignInInit PROVE SignInInv
    OBVIOUS
  <2>1. SignInTypeOK
    BY SignInAssumption DEF SignInInit, SignInTypeOK, Time
  <2>2. KeysRotate
    BY SignInAssumption DEF SignInInit, KeysRotate
  <2>3. LoginsOnce /\ SessionsStay
    BY DEF SignInInit, LoginsOnce, Exchanging, SessionsStay, Tokens
  <2> QED
    BY <2>1, <2>2, <2>3 DEF SignInInit, SignInInv, RequestsKnown, CacheIsDated, AnswersExplained, LookedUp, Explained
<1>3. KeysInv /\ (KeyStep \/ UNCHANGED keyVars) => KeysInv'
  BY KeysTypeStep, RowLockStep, KeysAgreeStep, FilesStep, OpenStep DEF KeysInv
<1>4. SignInInv /\ (SignInStep \/ UNCHANGED signInVars) => SignInInv'
  BY SignInTypeStep, RequestsStep, LoginsStep, SessionsStep, KeysRotateStep, CacheStep, ExplainedStep DEF SignInInv
<1>5. Inv /\ [Next]_vars => Inv'
  BY <1>3, <1>4 DEF Inv, Next, vars
<1>6. Init => Inv
  BY <1>1, <1>2 DEF Init, Inv
<1> QED
  BY <1>5, <1>6, PTL DEF Spec

(* Every variable of sessions, key caches and data keys keeps its type.    *)
THEOREM AccessTypes == Spec => []TypeOK
<1>1. Inv => TypeOK
  BY DEF Inv, KeysInv, SignInInv, TypeOK
<1> QED
  BY <1>1, AccessInvariant, PTL

(* get_or_create_data_key: whichever of any number of first runs creates   *)
(* the key, and whichever dies, every file that is encrypted can be read.  *)
THEOREM ArtifactsStayOpen == Spec => []ArtifactsOpen
<1>1. Inv => ArtifactsOpen
  BY DEF Inv, KeysInv
<1> QED
  BY <1>1, AccessInvariant, PTL

(* A login state that is exchanged at most once has at most one handler    *)
(* that exchanges it.                                                      *)
LEMMA OneExchange ==
  ASSUME SignInInv, NEW s \in States
  PROVE  exchanges[s] + Cardinality({h \in Handlers : pc[h] = "exchange" /\ request[h].of = s}) <= 1
<1> DEFINE Busy == {h \in Handlers : pc[h] = "exchange" /\ request[h].of = s}
<1>1. exchanges[s] \in Nat /\ exchanges[s] <= 1
  BY DEF SignInInv, SignInTypeOK, LoginsOnce
<1>2. CASE Busy = {}
  <2>1. Cardinality(Busy) = 0
    BY <1>2, FS_EmptySet
  <2> QED
    BY <1>1, <2>1
<1>3. CASE Busy # {}
  <2>1. PICK h \in Handlers : Exchanging(h, s)
    BY <1>3 DEF Exchanging
  <2>2. exchanges[s] = 0 /\ Busy = {h}
    BY <2>1 DEF SignInInv, LoginsOnce, Exchanging
  <2>3. Cardinality(Busy) = 1
    BY <2>2, FS_Singleton
  <2> QED
    BY <2>2, <2>3
<1> QED
  BY <1>2, <1>3

(* app.py, callback: a login leads to at most one exchange of its code,    *)
(* and to a session only in the browser that began it.                     *)
THEOREM LoginsAreUsedOnce == Spec => []LoginStatesUsedOnce
<1>1. Inv => LoginStatesUsedOnce
  BY OneExchange DEF Inv, SignInInv, SessionsStay, LoginStatesUsedOnce
<1> QED
  BY <1>1, AccessInvariant, PTL

(* oidc.py: no token is accepted under a key that was withdrawn Ttl before *)
(* the lookup, for whatever Ttl and cooldown.                              *)
THEOREM AcceptedKeysStayFresh == Spec => []AcceptedKeysAreFresh
<1>1. ASSUME Inv, NEW h \in Handlers, pc[h] = "accepted", request[h].key < signing
      PROVE  request[h].looked - withdrawn[request[h].key] < Ttl
  <2>1. LookedUp(h) /\ Explained(h) /\ request[h] \in RequestType
    BY <1>1 DEF Inv, SignInInv, AnswersExplained, RequestsKnown
  <2>2. request[h].key \in request[h].keys /\ request[h].key # signing
    BY <1>1, <2>1, SignInAssumption DEF Explained, RequestType, Inv, SignInInv, SignInTypeOK
  <2> QED
    BY <1>1, <2>1, <2>2 DEF LookedUp
<1>2. Inv => AcceptedKeysAreFresh
  BY <1>1 DEF AcceptedKeysAreFresh
<1> QED
  BY <1>2, AccessInvariant, PTL

(* A handler that fetched keys cannot have missed the one that signs now   *)
(* and did before it looked.                                               *)
LEMMA FetchFindsKey ==
  ASSUME SignInInv, NEW h \in Handlers, request[h] \in RequestType,
         Fetched(h), request[h].keys # {}, request[h].key \notin request[h].keys,
         request[h].key = signing
  PROVE  signing # 1 /\ withdrawn[signing - 1] # Nothing /\ ~(withdrawn[signing - 1] < request[h].looked)
<1>1. PICK k \in request[h].keys : PublishedAt(k, request[h].looked)
  BY DEF Fetched
<1>2. k \in SigningKeys /\ k \in Nat /\ k >= 1 /\ signing \in Nat /\ request[h].looked \in Nat
  BY <1>1, SignInAssumption DEF RequestType, SignInInv, SignInTypeOK, Time
<1>3. k < signing /\ request[h].looked <= withdrawn[k]
  BY <1>1, <1>2 DEF PublishedAt
<1>4. signing - 1 \in SigningKeys /\ k <= signing - 1 /\ signing - 1 < signing
  BY <1>2, <1>3 DEF SignInInv, KeysRotate
<1>5. withdrawn[k] <= withdrawn[signing - 1]
  BY <1>2, <1>4 DEF SignInInv, KeysRotate
<1>6. withdrawn[k] \in 0 .. clock /\ withdrawn[signing - 1] \in 0 .. clock /\ clock \in Nat
  BY <1>2, <1>3, <1>4 DEF SignInInv, SignInTypeOK, KeysRotate, Time
<1> QED
  BY <1>2, <1>3, <1>5, <1>6, SignInAssumption

(* oidc.py: a token that the provider stands behind is refused only when   *)
(* the provider cannot be reached, or soon after a fetch.                  *)
THEOREM GoodTokensAreRefusedBriefly == Spec => []GoodTokensRefusedBriefly
<1>1. ASSUME Inv, NEW h \in Handlers, pc[h] = "refused",
             request[h].key = signing, clock < request[h].expires,
             signing = 1 \/ withdrawn[signing - 1] = Nothing \/ withdrawn[signing - 1] < request[h].looked
      PROVE  request[h].failed \/ SoonAfter(h, Patience(h))
  <2>1. Explained(h) /\ request[h] \in RequestType /\ SignInInv /\ clock \in Nat
    BY <1>1 DEF Inv, SignInInv, SignInTypeOK, AnswersExplained, RequestsKnown, Time
  <2>2. ~(clock >= request[h].expires)
    BY <1>1, <2>1 DEF RequestType
  <2>3. ~(Fetched(h) /\ request[h].keys # {} /\ request[h].key \notin request[h].keys)
    BY <1>1, <2>1, FetchFindsKey
  <2> QED
    BY <1>1, <2>1, <2>2, <2>3 DEF Explained
<1>2. Inv => GoodTokensRefusedBriefly
  BY <1>1 DEF GoodTokensRefusedBriefly, SoonAfter, Patience
<1> QED
  BY <1>2, AccessInvariant, PTL
=============================================================================
