---------------------------- MODULE ProviderCalls ----------------------------
(***************************************************************************)
(* One stage's calls to a language-model provider: the client that         *)
(* create_llm_client selects (buffdata/engine/client.py), the rate limiter *)
(* (buffdata/engine/limiter.py) and what the stages of                     *)
(* buffdata/optimizers make of the answers.                                *)
(*                                                                         *)
(* A stage sends its rows in chunks.  The chunks are coroutines of one     *)
(* event loop; their requests run in threads, which go on when the stage   *)
(* has already failed.  Time is kept as the ages of what happened, up to   *)
(* the window of the limiter, so it has no bound of its own.               *)
(***************************************************************************)
EXTENDS Integers, Sequences, FiniteSets

CONSTANTS
  Rows,         \* the number of rows of the stage
  ChunkSize,
  Kinds,        \* the stages considered, see StageKinds
  Own,          \* the sets of rows a stage may decide without the provider
  Confs,        \* the configurations considered, see ConfType
  MaxRpm,
  Slots,        \* AsyncRateLimiter.concurrency
  MaxRetries,
  Window,       \* ticks in the 60 seconds of the limiter
  None

StageKinds == {"audit", "refine", "evolve", "dpo", "classify", "augment"}

(* The arguments of create_llm_client and the process they meet.  "cloud"  *)
(* stands for OpenAI and Anthropic, "preset" for the four local servers;   *)
(* url is the base URL or Azure endpoint, given or from the environment.   *)
ConfType ==
  [provider : {"gemini", "cloud", "bedrock", "azure", "compatible", "preset"},
   policy : {"unrestricted", "local", "strict"},
   url : {None, "private", "public"},
   key : BOOLEAN, model : BOOLEAN,
   managed : BOOLEAN,     \* an execution context, and SafeProvider
   approved : BOOLEAN]    \* its policy approves the endpoint

ASSUME CallsAssumption ==
  /\ {Rows, ChunkSize, MaxRpm, Slots, MaxRetries, Window} \subseteq Nat \ {0}
  /\ Kinds \subseteq StageKinds
  /\ Own \subseteq SUBSET (1..Rows)
  /\ Confs \subseteq ConfType
  /\ None \notin Int \cup {"private", "public"}

VARIABLES
  conf, kind, own,   \* what the stage is started with
  client,
  stage,        \* "new", "running", "done" or "raised"
  pc,           \* where each chunk is
  attempts,     \* its requests so far
  wait,         \* how long it still sleeps
  reply,        \* what its request came back with
  queue, free,  \* AsyncRateLimiter._semaphore: waiters in order, free slots
  timestamps,   \* AsyncRateLimiter._timestamps, as ages
  got, error,   \* what each row got from an answer; the rows flagged with an error
  usage,        \* _ClientBase.usage, one unit per response
  holder, seen, \* _usage_lock, and what its holder read
  recent,       \* auxiliary: the ages of the last MaxRpm + 1 admissions
  responses     \* auxiliary: the responses received

setupVars == <<conf, kind, own, client>>
limiterVars == <<queue, free, timestamps, recent>>
usageVars == <<usage, holder, seen, responses>>
callVars == <<setupVars, stage, pc, attempts, wait, reply, limiterVars, got, error, usageVars>>

RowSet == 1..Rows
Least(a, b) == IF a < b THEN a ELSE b

-----------------------------------------------------------------------------
(* create_llm_client.                                                      *)
Routed == {"compatible", "preset"}
Url(f) == IF f.url = None /\ f.provider = "preset" THEN "private" ELSE f.url
HostUnchecked(f) == f.provider \in Routed /\ Url(f) # None
LocalAllowed(f) == f.provider \in Routed /\ Url(f) = "private"
EndpointApproved(f) == (f.provider \in Routed \cup {"azure"} => Url(f) # None) /\ f.approved
HasModel(f) == f.model \/ f.provider \in {"gemini", "cloud", "bedrock"}

(* What each class of clients needs at its first request.                  *)
PublicReady(f) == f.provider \in {"gemini", "cloud"} => f.key
AzureReady(f) == f.provider = "azure" => f.key /\ Url(f) # None
RoutedReady(f) == f.provider \in Routed => Url(f) # None
Ready(f) == PublicReady(f) /\ AzureReady(f) /\ RoutedReady(f)

(* Gemini validates an unparsed response itself; the others raise.         *)
Lenient(f) == f.provider = "gemini"
NetworkForbidden == [sends |-> FALSE, host |-> "none", lenient |-> FALSE]

Refused(f) ==
  \/ f.policy = "local" /\ ~LocalAllowed(f)
  \/ f.managed /\ ~EndpointApproved(f)
  \/ ~HasModel(f)

(* None when it raises; what a client that sends may reach is its host.    *)
CreateClient(f) ==
  IF f.policy = "strict" THEN NetworkForbidden
  ELSE IF Refused(f) THEN None
  ELSE [sends |-> Ready(f),
        host |-> IF f.provider \in Routed THEN Url(f) ELSE "public",
        lenient |-> Lenient(f)]

-----------------------------------------------------------------------------
(* The chunks of the stage: the audit splits the rows it does not decide   *)
(* itself, the others split all rows and leave some out of the prompt.     *)
Remote == RowSet \ own
Position(r) == IF kind = "audit" THEN Cardinality({s \in Remote : s < r}) ELSE r - 1
ChunkOf(r) == 1 + (Position(r) \div ChunkSize)
RowsOf(c) == {r \in Remote : ChunkOf(r) = c}
Flagged(c) == {r \in IF kind = "augment" THEN RowSet ELSE Remote : ChunkOf(r) = c}
AllChunks == 1..((Rows + ChunkSize - 1) \div ChunkSize)
Chunks == {c \in AllChunks : RowsOf(c) # {}}
InOrder == SelectSeq([c \in AllChunks |-> c], LAMBDA c : c \in Chunks)

CallsInit ==
  /\ conf = None /\ kind = None /\ own = {} /\ client = None
  /\ stage = "new"
  /\ pc = [c \in AllChunks |-> "none"]
  /\ attempts = [c \in AllChunks |-> 0]
  /\ wait = [c \in AllChunks |-> 0]
  /\ reply = [c \in AllChunks |-> None]
  /\ queue = <<>>
  /\ free = Slots
  /\ timestamps = <<>> /\ recent = <<>>
  /\ got = [r \in RowSet |-> "nothing"] /\ error = {}
  /\ usage = 0 /\ holder = None /\ seen = 0 /\ responses = 0

(* gather starts every chunk, and each asks for a slot.                    *)
Start ==
  /\ stage = "new"
  /\ conf' \in Confs
  /\ kind' \in Kinds
  /\ own' \in (IF kind' \in {"refine", "evolve", "dpo"} THEN {{}} ELSE Own)
  /\ client' = CreateClient(conf')
  /\ IF client' = None
     THEN stage' = "raised" /\ UNCHANGED <<pc, queue, got, error>>
     ELSE /\ stage' = "running"
          /\ pc' = [c \in AllChunks |-> IF c \in Chunks' THEN "queued" ELSE "none"]
          /\ queue' = InOrder'
          /\ got' = [r \in RowSet |-> IF kind' = "audit" /\ r \in own' THEN "score" ELSE "nothing"]
          /\ error' = IF kind' = "classify" THEN own' ELSE {}
  /\ UNCHANGED <<attempts, wait, reply, free, timestamps, recent, usageVars>>

-----------------------------------------------------------------------------
(* AsyncRateLimiter.acquire: first a slot, in order, then the window,      *)
(* which is waited for with the slot held.                                 *)
Enter(c) ==
  /\ stage = "running"
  /\ pc[c] = "queued"
  /\ queue # <<>> /\ Head(queue) = c
  /\ free > 0
  /\ free' = free - 1
  /\ queue' = Tail(queue)
  /\ pc' = [pc EXCEPT ![c] = "pacing"]
  /\ UNCHANGED <<setupVars, stage, attempts, wait, reply, timestamps, recent, got, error, usageVars>>

(* The timestamps are in order: the younger ones are the last.             *)
Younger(t, age) ==
  LET young == {i \in DOMAIN t : t[i] < age}
  IN  IF young = {} THEN <<>> ELSE SubSeq(t, CHOOSE i \in young : \A j \in young : i <= j, Len(t))
KeptEarly(t) == Younger(t, Window - 1)
Kept(t) == Younger(t, Window)

Pace(c) ==
  /\ stage = "running"
  /\ pc[c] = "pacing"
  /\ LET kept == Kept(timestamps)
         last == Append(recent, 0)
     IN  IF Len(kept) < MaxRpm
         THEN /\ timestamps' = Append(kept, 0)
              /\ recent' = IF Len(last) > MaxRpm + 1 THEN Tail(last) ELSE last
              /\ pc' = [pc EXCEPT ![c] = "admitted"]
              /\ UNCHANGED wait
         ELSE /\ timestamps' = kept
              /\ wait' = [wait EXCEPT ![c] = Window - Head(kept)]
              /\ pc' = [pc EXCEPT ![c] = "sleeping"]
              /\ UNCHANGED recent
  /\ UNCHANGED <<setupVars, stage, attempts, reply, queue, free, got, error, usageVars>>

Wake(c) ==
  /\ stage = "running"
  /\ pc[c] = "sleeping"
  /\ wait[c] = 0
  /\ pc' = [pc EXCEPT ![c] = "pacing"]
  /\ UNCHANGED <<setupVars, stage, attempts, wait, reply, limiterVars, got, error, usageVars>>

Older(t) == [i \in DOMAIN t |-> Least(t[i] + 1, Window)]

Tick ==
  /\ stage = "running"
  /\ timestamps' = Older(timestamps)
  /\ recent' = Older(recent)
  /\ wait' = [c \in AllChunks |-> IF wait[c] > 0 THEN wait[c] - 1 ELSE 0]
  /\ UNCHANGED <<setupVars, stage, pc, attempts, reply, queue, free, got, error, usageVars>>

-----------------------------------------------------------------------------
(* A provider error ends the stage: the loop cancels every other chunk,    *)
(* but not the requests that already run in threads.                       *)
InThread == {"sent", "recording", "writing"}
CancelNothing(s) == s
Cancelled(s) == IF s \in InThread \cup {"none", "done"} THEN s ELSE "cancelled"
RaiseFrom(c) ==
  /\ stage' = "raised"
  /\ pc' = [d \in AllChunks |-> IF d = c THEN "failed" ELSE Cancelled(pc[d])]

(* generate_structured_async: asyncio.to_thread.  The forbidden client and *)
(* one without a key or URL raise a provider error instead of sending.     *)
Send(c) ==
  /\ pc[c] = "admitted"
  /\ IF client.sends
     THEN /\ pc' = [pc EXCEPT ![c] = "sent"]
          /\ attempts' = [attempts EXCEPT ![c] = @ + 1]
          /\ UNCHANGED stage
     ELSE RaiseFrom(c) /\ UNCHANGED attempts
  /\ UNCHANGED <<setupVars, wait, reply, limiterVars, got, error, usageVars>>

(* The request fails or times out, or a response comes: without the        *)
(* structure asked for, or with answers for some of the rows.              *)
Fail(c) ==
  /\ pc[c] = "sent"
  /\ pc' = [pc EXCEPT ![c] = "returned"]
  /\ reply' = [reply EXCEPT ![c] = [kind |-> "lost", rows |-> {}]]
  /\ UNCHANGED <<setupVars, stage, attempts, wait, limiterVars, got, error, usageVars>>

Respond(c) ==
  /\ pc[c] = "sent"
  /\ \E a \in {[kind |-> "unparsed", rows |-> {}]} \cup
              [kind : {"answer"}, rows : SUBSET RowsOf(c)] :
        reply' = [reply EXCEPT ![c] = a]
  /\ responses' = responses + 1
  /\ pc' = [pc EXCEPT ![c] = "recording"]
  /\ UNCHANGED <<setupVars, stage, attempts, wait, limiterVars, got, error, usage, holder, seen>>

(* _record_usage: += under the lock.                                       *)
NoLock == TRUE
LockFree == holder = None

ReadUsage(c) ==
  /\ pc[c] = "recording"
  /\ LockFree
  /\ holder' = c
  /\ seen' = usage
  /\ pc' = [pc EXCEPT ![c] = "writing"]
  /\ UNCHANGED <<setupVars, stage, attempts, wait, reply, limiterVars, got, error, usage, responses>>

WriteUsage(c) ==
  /\ pc[c] = "writing"
  /\ usage' = seen + 1
  /\ holder' = None
  /\ seen' = 0
  /\ pc' = [pc EXCEPT ![c] = "returned"]
  /\ UNCHANGED <<setupVars, stage, attempts, wait, reply, limiterVars, got, error, responses>>

-----------------------------------------------------------------------------
(* Back in the event loop: __aexit__ gives the slot back, whatever came.   *)
RaisesUnparsed(a) == a.kind = "unparsed" /\ ~client.lenient
Masked(a) == a.kind # "answer" /\ conf.managed
Permanent(a) == RaisesUnparsed(a) \/ Masked(a)

(* What each optimizer makes of an answer.  A chunk is labelled in order,  *)
(* up to the first row missed.                                             *)
Got(R, what) == [r \in RowSet |-> IF r \in R THEN what ELSE got[r]]
Scored(c) == Got(reply[c].rows, "score")
Refined(c) == Got(reply[c].rows, "edit")
Evolved(c) == Got(reply[c].rows, "evolved item")
Paired(c) == Got(reply[c].rows, "preference pair")
Labelled(c) ==
  Got({r \in RowsOf(c) : \A s \in RowsOf(c) : s <= r => s \in reply[c].rows}, "label")
Augmented(c) == Got(reply[c].rows, "variations")

Applied(c) ==
  CASE kind = "audit" -> Scored(c)
    [] kind = "refine" -> Refined(c)
    [] kind = "evolve" -> Evolved(c)
    [] kind = "dpo" -> Paired(c)
    [] kind = "classify" -> Labelled(c)
    [] kind = "augment" -> Augmented(c)

Missed(c) == IF kind \in {"classify", "augment"} THEN {} ELSE RowsOf(c) \ reply[c].rows

(* classify tries twice, whatever fails, and does not back off.            *)
Satisfied(c) ==
  reply[c].kind = "answer" /\ (kind = "classify" => reply[c].rows = RowsOf(c))
Tries == IF kind = "classify" THEN 2 ELSE MaxRetries

ReleasedOnSuccess(c) == IF Satisfied(c) THEN free + 1 ELSE free
Released(c) == free + 1

Return(c) ==
  /\ stage = "running"
  /\ pc[c] = "returned"
  /\ ~Permanent(reply[c])
  /\ free' = Released(c)
  /\ got' = Applied(c)
  /\ CASE Satisfied(c) ->
            /\ error' = error \cup Missed(c)
            /\ pc' = [pc EXCEPT ![c] = "done"]
       [] ~Satisfied(c) /\ attempts[c] < Tries ->
            /\ pc' = [pc EXCEPT ![c] = "backoff"]
            /\ UNCHANGED error
       [] OTHER ->
            /\ error' = error \cup Flagged(c)
            /\ pc' = [pc EXCEPT ![c] = "done"]
  /\ reply' = [reply EXCEPT ![c] = None]
  /\ UNCHANGED <<setupVars, stage, attempts, wait, queue, timestamps, recent, usageVars>>

ReturnError(c) ==
  /\ stage = "running"
  /\ pc[c] = "returned"
  /\ Permanent(reply[c])
  /\ RaiseFrom(c)
  /\ UNCHANGED <<setupVars, attempts, wait, reply, limiterVars, got, error, usageVars>>

(* tenacity waits without a slot, then the coroutine asks for one again.   *)
Retry(c) ==
  /\ stage = "running"
  /\ pc[c] = "backoff"
  /\ pc' = [pc EXCEPT ![c] = "queued"]
  /\ queue' = Append(queue, c)
  /\ UNCHANGED <<setupVars, stage, attempts, wait, reply, free, timestamps, recent, got, error, usageVars>>

Finish ==
  /\ stage = "running"
  /\ \A c \in Chunks : pc[c] = "done"
  /\ stage' = "done"
  /\ UNCHANGED <<setupVars, pc, attempts, wait, reply, limiterVars, got, error, usageVars>>

ChunkStep(c) ==
  \/ Enter(c) \/ Pace(c) \/ Wake(c) \/ Send(c)
  \/ Fail(c) \/ Respond(c) \/ ReadUsage(c) \/ WriteUsage(c)
  \/ Return(c) \/ ReturnError(c) \/ Retry(c)
CallsNext ==
  \/ Start
  \/ \E c \in AllChunks : ChunkStep(c)
  \/ Tick
  \/ Finish

(* The loop and the threads run what is ready, sleeps end, and every       *)
(* client bounds its requests (DEFAULT_REQUEST_TIMEOUT_SECONDS).           *)
CallsFairness ==
  /\ WF_callVars(Start) /\ WF_callVars(Finish) /\ WF_callVars(Tick)
  /\ \A c \in AllChunks : WF_callVars(ChunkStep(c))

-----------------------------------------------------------------------------
Gains == {"nothing", "score", "edit", "evolved item", "preference pair", "label", "variations"}

CallsTypeOK ==
  /\ stage = "new" \/ (conf \in Confs /\ kind \in Kinds /\ own \subseteq RowSet)
  /\ client # None => /\ client.sends \in BOOLEAN /\ client.lenient \in BOOLEAN
                      /\ client.host \in {"none", "private", "public", None}
  /\ stage \in {"new", "running", "done", "raised"}
  /\ pc \in [AllChunks -> {"none", "queued", "pacing", "sleeping", "admitted", "returned",
                            "backoff", "done", "failed", "cancelled"} \cup InThread]
  /\ attempts \in [AllChunks -> Nat]
  /\ wait \in [AllChunks -> 0..Window]
  /\ free \in 0..Slots
  /\ Len(queue) <= Rows
  /\ Len(timestamps) <= MaxRpm /\ Len(recent) <= MaxRpm + 1
  /\ got \in [RowSet -> Gains] /\ error \subseteq RowSet
  /\ usage <= responses
  /\ holder \in AllChunks \cup {None}

(* limiter.py: no more than MaxRpm requests are admitted in any window, no *)
(* more than Slots are in flight, whatever fails, sleeps or is retried;    *)
(* and a slot is either free or held by one chunk.                         *)
InFlight == {c \in AllChunks : pc[c] \in InThread}
Holders == {c \in AllChunks : pc[c] \in {"pacing", "sleeping", "admitted", "returned"} \cup InThread}
CallsWithinLimits ==
  /\ Cardinality(InFlight) <= Slots
  /\ stage = "running" => free + Cardinality(Holders) = Slots
  /\ Len(recent) = MaxRpm + 1 => Head(recent) = Window

(* At the end of a stage every row it should decide has an answer of the   *)
(* provider or an error, never neither (augment leaves such a row without  *)
(* variations), and the usage is that of all responses received, the       *)
(* rejected and retried ones too, although threads record it concurrently. *)
RowsAndUsageAccounted ==
  stage = "done" =>
    /\ kind # "augment" => \A r \in RowSet \ error : got[r] # "nothing"
    /\ usage = responses

(* No request leaves under the strict policy or from a client that is not  *)
(* ready, and under the local policy it goes to a private host.            *)
RequestsObeyPolicy ==
  (\E c \in AllChunks : attempts[c] > 0) =>
    /\ conf.policy # "strict"
    /\ conf.policy = "local" => client.host = "private"
    /\ Ready(conf) /\ client.host # None

(* Once a stage has failed, no chunk sends another request: the requests   *)
(* already in threads finish and the rest is cancelled.                    *)
NothingSentAfterFailure ==
  [][stage = "raised" => UNCHANGED attempts]_callVars

(* Every stage ends, whatever is missed, lost, throttled or retried.       *)
StageEnds == (stage = "running") ~> (stage \in {"done", "raised"})
=============================================================================
