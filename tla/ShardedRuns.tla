---------------------------- MODULE ShardedRuns -----------------------------
(***************************************************************************)
(* A dataset split by `buffdata shard`, processed by one command for each  *)
(* partition, and put together by `buffdata merge`                         *)
(* (integrations/sharding.py, integrations/ray_executor.py and the         *)
(* commands of cli/main.py).  The partitions are processed at once, by an  *)
(* orchestrator's tasks or by Ray; any process may stop between two of its *)
(* steps and is then started again.  A row is its number in the dataset, a *)
(* synthetic variation the negative of its source's, and 0 a row of an     *)
(* earlier dataset in the same directories.                                *)
(***************************************************************************)
EXTENDS Integers, FiniteSets, SequencesExt

CONSTANTS
  Classes,        \* scalar labels
  MaxRows,        \* bound: rows of the dataset
  MaxParts,       \* bound: partitions asked for
  MaxFailures,    \* bound: processes that stop or fail
  Configurations, \* the setups that are looked at
  Globbing,       \* the files to merge are named by a pattern, out/*.jsonl
  None

ASSUME ShardsAssumption ==
  /\ {MaxRows, MaxParts, MaxFailures} \subseteq Nat
  /\ Globbing \in BOOLEAN
  /\ None \notin Classes \cup Nat \cup Seq(Nat)

Parts == 1..MaxParts
Rewriters == {"refine", "evolve", "dpo"}
Commands == Rewriters \cup {"optimize", "score", "filter-ppl", "classify", "augment", "dedup", "scrub"}
Setups == [labels   : UNION {[1..k -> Classes \cup {None}] : k \in 0..MaxRows},
           parts    : Parts,
           stratify : BOOLEAN,
           command  : Commands,
           given    : {"returned", "listed", "numbered"}, \* see Given
           ray      : BOOLEAN,                            \* run-ray, only optimize
           similar  : SUBSET {{i, j} : i, j \in 1..MaxRows}, \* at the threshold, or in text
           blank    : SUBSET (1..MaxRows),                \* rows without a word in them
           used     : BOOLEAN]                            \* directories not empty

ASSUME ConfigurationsAssumption ==
  \A s \in Configurations : s \in Setups /\ (s.ray => s.command = "optimize")

VARIABLES
  setup, phase,
  at, opened,     \* partition_dataset: the next row, the files it opened
  part,           \* partition-NNNN.jsonl
  worker,         \* how far the command is with each partition
  out, rej, rep,  \* its output, .rejected.jsonl, .report.json (rows it counts)
  merging,        \* merge_partition_results: what it has in memory
  final, finalRej, finalRep,
  failures

workVars == <<worker, out, rej, rep>>
mergeVars == <<merging, final, finalRej, finalRep>>
shardVars == <<setup, phase, at, opened, part, workVars, mergeVars, failures>>

Absent == [p \in Parts |-> None]
NoMerge == [stream |-> FALSE, todo |-> {}, items |-> <<>>, rejected |-> <<>>, reasons |-> 0]

ShardsInit ==
  /\ setup = None /\ phase = "new"
  /\ at = 1 /\ opened = {} /\ part = Absent
  /\ worker = [p \in Parts |-> "idle"]
  /\ out = Absent /\ rej = Absent /\ rep = Absent
  /\ merging = NoMerge /\ final = None /\ finalRej = None /\ finalRep = None
  /\ failures = 0

(* What an earlier dataset left: partitions, a merged file and its         *)
(* rejected rows.                                                          *)
Choose(s) ==
  /\ setup' = s /\ phase' = "shard"
  /\ IF s.used
     THEN part' = [p \in Parts |-> <<0>>] /\ final' = <<0>> /\ finalRej' = <<0>>
     ELSE UNCHANGED <<part, final, finalRej>>
  /\ UNCHANGED <<at, opened, workVars, merging, finalRep, failures>>

May == failures < MaxFailures
Lost == failures' = failures + 1

-----------------------------------------------------------------------------
(* partition_dataset                                                       *)
Stratified(r) == setup.stratify /\ setup.labels[r] # None
Alike(r) == {q \in 1..(r - 1) : IF Stratified(r) THEN setup.labels[q] = setup.labels[r]
                                                 ELSE ~ Stratified(q)}
PlaceOf(r) == (Cardinality(Alike(r)) % setup.parts) + 1
Appended(p) == IF part[p] = None THEN <<>> ELSE part[p]
Truncated(p) == <<>>

ShardRow ==
  /\ phase = "shard" /\ at <= Len(setup.labels)
  /\ LET p == PlaceOf(at) IN
       /\ part' = [part EXCEPT ![p] = Append(IF p \in opened THEN @ ELSE Truncated(p), at)]
       /\ opened' = opened \cup {p}
  /\ at' = at + 1
  /\ UNCHANGED <<setup, phase, workVars, mergeVars, failures>>

(* The files it opened are the list it returns; without a row it raises.   *)
ShardEnds ==
  /\ phase = "shard" /\ at > Len(setup.labels)
  /\ phase' = IF setup.labels = <<>> THEN "failed" ELSE "work"
  /\ UNCHANGED <<setup, at, opened, part, workVars, mergeVars, failures>>

ShardStops ==
  /\ phase = "shard" /\ May /\ Lost
  /\ at' = 1 /\ opened' = {}
  /\ UNCHANGED <<setup, phase, part, workVars, mergeVars>>

-----------------------------------------------------------------------------
(* The commands.                                                           *)

(* The partitions they are started for: the paths that partition_dataset   *)
(* returned, whatever parts/partition-*.jsonl names, or the numbers up to  *)
(* the one that was asked for.                                             *)
Given ==
  CASE setup.given = "returned" -> opened
    [] setup.given = "listed" -> {p \in Parts : part[p] # None}
    [] setup.given = "numbered" -> 1..setup.parts

Become(p, place) == worker' = [worker EXCEPT ![p] = place]
Working == UNCHANGED <<setup, phase, at, opened, part, mergeVars>>

StartCommand(p) ==
  /\ worker[p] = "idle"
  /\ Become(p, "running")
  /\ Working /\ UNCHANGED <<out, rej, rep, failures>>

(* A command fails on a partition that was not created, and augment on one *)
(* with a row that has no scalar label.                                    *)
Unlabelled(p) == \E r \in ToSet(part[p]) \cap DOMAIN setup.labels : setup.labels[r] = None
Refuses(p) == part[p] # None => setup.command = "augment" /\ Unlabelled(p)

(* deduplicate_exact, _minhash, _semantic_local and _semantic walk over    *)
(* the rows and drop one that is like a row they kept.  Likeness at a      *)
(* threshold is not transitive.                                            *)
LikeLast(kept, r) == kept # <<>> /\ {kept[Len(kept)], r} \in setup.similar
LikeKept(kept, r) == \E k \in ToSet(kept) : {k, r} \in setup.similar
Deduplicated(rows) ==
  LET walk[n \in 0..Len(rows)] ==
        IF n = 0 THEN <<>>
        ELSE IF LikeKept(walk[n - 1], rows[n]) THEN walk[n - 1] ELSE Append(walk[n - 1], rows[n])
  IN  walk[Len(rows)]

(* What optimize may accept: any of the rows, in their order.  (Written    *)
(* out, since the provers know nothing of SelectSeq.)                      *)
Only(rows, S) ==
  LET walk[n \in 0..Len(rows)] ==
        IF n = 0 THEN <<>>
        ELSE IF rows[n] \in S THEN Append(walk[n - 1], rows[n]) ELSE walk[n - 1]
  IN  walk[Len(rows)]

(* run_file replaces the three files one after the other.                  *)
OptimizeWrites(p) ==
  /\ setup.command = "optimize" /\ worker[p] = "running" /\ ~ Refuses(p)
  /\ \E S \in SUBSET ToSet(part[p]) : out' = [out EXCEPT ![p] = Only(part[p], S)]
  /\ Become(p, "accepted") /\ Working /\ UNCHANGED <<rej, rep, failures>>

OptimizeRejects(p) ==
  /\ worker[p] = "accepted"
  /\ rej' = [rej EXCEPT ![p] = Only(part[p], ToSet(part[p]) \ ToSet(out[p]))]
  /\ Become(p, "rejected") /\ Working /\ UNCHANGED <<out, rep, failures>>

OptimizeReports(p) ==
  /\ worker[p] = "rejected"
  /\ rep' = [rep EXCEPT ![p] = Len(rej[p])]
  /\ Become(p, "done") /\ Working /\ UNCHANGED <<out, rej, failures>>

(* write_dataset opens the output for writing, which empties it, and then  *)
(* writes the rows.                                                        *)
OpenOutput(p) ==
  /\ setup.command # "optimize" /\ worker[p] = "running" /\ ~ Refuses(p)
  /\ out' = [out EXCEPT ![p] = <<>>]
  /\ Become(p, "writing") /\ Working /\ UNCHANGED <<rej, rep, failures>>

Fill(p, rows) ==
  /\ out' = [out EXCEPT ![p] = rows]
  /\ Become(p, "done") /\ Working /\ UNCHANGED <<rej, rep, failures>>

(* score keeps every row, or with --filter those with the score.           *)
Score(p) == setup.command = "score" /\ \E S \in SUBSET ToSet(part[p]) : Fill(p, Only(part[p], S))
(* filter-ppl keeps those whose perplexity is low enough.                  *)
FilterPerplexity(p) ==
  setup.command = "filter-ppl" /\ \E S \in SUBSET ToSet(part[p]) : Fill(p, Only(part[p], S))
(* refine, evolve and dpo write each row's new form in the row's place, and*)
(* scrub the row without what it found in it.                              *)
Rewrite(p) == setup.command \in Rewriters /\ Fill(p, part[p])
Scrub(p) == setup.command = "scrub" /\ Fill(p, part[p])
(* classify writes the rows with labels, or unchanged.                     *)
Classify(p) == setup.command = "classify" /\ Fill(p, part[p])
(* augment adds the variations of S, and then drops rows without a word    *)
(* and those whose text it has seen: in an earlier row, or (T) in a        *)
(* variation of a row of an earlier chunk.                                 *)
Distinct(rows) == Deduplicated(Only(rows, ToSet(rows) \ setup.blank))
Augmented(rows, S, T) ==
  LET sources == Only(rows, S) IN
  Only(Distinct(rows), ToSet(rows) \ T) \o [i \in DOMAIN sources |-> - sources[i]]
Augment(p) ==
  /\ setup.command = "augment"
  /\ \E S, T \in SUBSET ToSet(part[p]) :
       /\ \A t \in T : \E s \in S : s < t
       /\ Fill(p, Augmented(part[p], S, T))
Dedup(p) == setup.command = "dedup" /\ Fill(p, Deduplicated(part[p]))

WriteRows(p) ==
  /\ worker[p] = "writing"
  /\ \/ Score(p) \/ FilterPerplexity(p) \/ Rewrite(p) \/ Scrub(p)
     \/ Classify(p) \/ Augment(p) \/ Dedup(p)

(* A command stops or raises: an orchestrator starts its task again; the   *)
(* first failure of a Ray task ends the driver and with it every task.     *)
Fallen(p) == IF setup.ray THEN Parts ELSE {p}
Fails(p) ==
  /\ worker' = [q \in Parts |-> IF q \in Fallen(p) THEN "failed" ELSE worker[q]]
  /\ Working /\ UNCHANGED <<out, rej, rep>>

WorkerFails(p) ==
  /\ worker[p] \notin {"idle", "done", "failed"}
  /\ May /\ Lost /\ Fails(p)
CommandRaises(p) ==
  /\ worker[p] = "running" /\ Refuses(p)
  /\ Fails(p) /\ UNCHANGED failures

Retry ==
  /\ phase = "work" /\ \E p \in Parts : worker[p] = "failed"
  /\ worker' = [q \in Parts |-> IF worker[q] = "failed" THEN "idle" ELSE worker[q]]
  /\ Working /\ UNCHANGED <<out, rej, rep, failures>>

-----------------------------------------------------------------------------
(* merge_partition_results, once every task is done.                       *)
Path == {"out", "rej"} \X Parts
FileAt(path) == IF path[1] = "out" THEN out[path[2]] ELSE rej[path[2]]
Named == {path \in Path : /\ path[2] \in Given
                          /\ path[1] = "out" \/ (Globbing /\ rej[path[2]] # None)}

MergeOpens(stream) ==
  /\ phase = "work" /\ \A p \in Given : worker[p] = "done"
  /\ phase' = "merge"
  /\ merging' = [NoMerge EXCEPT !.stream = stream, !.todo = Named]
  /\ final' = IF stream THEN <<>> ELSE final
  /\ UNCHANGED <<setup, at, opened, part, workVars, finalRej, finalRep, failures>>

(* The next path, in the order the command line has them, and the files    *)
(* beside it.                                                              *)
RejectedBeside(path) == IF path[1] = "out" /\ rej[path[2]] # None THEN rej[path[2]] ELSE <<>>
CountedBeside(path) == IF path[1] = "out" /\ rep[path[2]] # None THEN rep[path[2]] ELSE 0
MergePath(path) ==
  /\ phase = "merge" /\ path \in merging.todo
  /\ merging' = [merging EXCEPT !.todo = @ \ {path},
                                !.items = @ \o FileAt(path),
                                !.rejected = @ \o RejectedBeside(path),
                                !.reasons = @ + CountedBeside(path)]
  /\ final' = IF merging.stream THEN final \o FileAt(path) ELSE final
  /\ UNCHANGED <<setup, phase, at, opened, part, workVars, finalRej, finalRep, failures>>

MergeCloses ==
  /\ phase = "merge" /\ merging.todo = {}
  /\ phase' = "quarantine"
  /\ final' = merging.items
  /\ UNCHANGED <<setup, at, opened, part, workVars, merging, finalRej, finalRep, failures>>

MergeRejects ==
  /\ phase = "quarantine" /\ phase' = "summary"
  /\ finalRej' = IF merging.rejected # <<>> THEN merging.rejected ELSE finalRej
  /\ UNCHANGED <<setup, at, opened, part, workVars, merging, final, finalRep, failures>>

MergeReports ==
  /\ phase = "summary" /\ phase' = "merged"
  /\ finalRep' = [accepted |-> Len(merging.items), rejected |-> Len(merging.rejected),
                  reasons |-> merging.reasons]
  /\ UNCHANGED <<setup, at, opened, part, workVars, merging, final, finalRej, failures>>

MergeStops ==
  /\ phase \in {"merge", "quarantine", "summary"} /\ May /\ Lost
  /\ phase' = "work" /\ merging' = NoMerge
  /\ UNCHANGED <<setup, at, opened, part, workVars, final, finalRej, finalRep>>

Command(p) ==
  /\ phase = "work" /\ p \in Given
  /\ \/ StartCommand(p) \/ OptimizeWrites(p) \/ OptimizeRejects(p) \/ OptimizeReports(p)
     \/ OpenOutput(p) \/ WriteRows(p) \/ WorkerFails(p) \/ CommandRaises(p)
Merge ==
  \/ \E stream \in BOOLEAN : MergeOpens(stream)
  \/ \E path \in Path : MergePath(path)
  \/ MergeCloses \/ MergeRejects \/ MergeReports \/ MergeStops
ShardedRun ==
  \/ phase = "new" /\ \E s \in Configurations : Choose(s)
  \/ ShardRow \/ ShardEnds \/ ShardStops \/ (\E p \in Parts : Command(p)) \/ Retry \/ Merge

-----------------------------------------------------------------------------
(* How often a row is in a sequence of rows.                               *)
Times(r, rows) == Cardinality({i \in DOMAIN rows : rows[i] = r})
Rows == DOMAIN setup.labels

(* As the commands find them, the partitions that partition_dataset        *)
(* returned hold each row once, and a class, or the rows that have none,   *)
(* is spread over the partitions asked for as evenly as can be (a file it  *)
(* did not open counts as empty).                                          *)
In(p) == IF p \in opened THEN part[p] ELSE <<>>
PartitionsHoldEachRowOnce ==
  (phase = "work" /\ \A p \in Parts : worker[p] = "idle") =>
    /\ \A p \in opened : ToSet(part[p]) \subseteq Rows
    /\ \A r \in Rows : \E p \in opened :
         /\ Times(r, part[p]) = 1
         /\ \A q \in opened \ {p} : Times(r, part[q]) = 0
    /\ \A r \in Rows :
         LET sameCount(p) == Cardinality({q \in ToSet(In(p)) :
               IF Stratified(r) THEN setup.labels[q] = setup.labels[r] ELSE ~ Stratified(q)}) IN
         \A p, q \in 1..setup.parts : sameCount(p) <= sameCount(q) + 1

(* A row may be missing after score, filter-ppl or dedup, and after        *)
(* augment if it has no word in it, or if an earlier row has its text or   *)
(* has a variation among the accepted rows.                                *)
MayDrop(r, accepted) ==
  \/ setup.command \in {"score", "filter-ppl", "dedup"}
  \/ /\ setup.command = "augment"
     /\ \/ r \in setup.blank
        \/ \E q \in Rows : q < r /\ ({q, r} \in setup.similar \/ - q \in ToSet(accepted))

(* What a merge that reports holds: every row of the dataset once, or, if  *)
(* the command may drop it, at most once, accepted or rejected, with       *)
(* variations of rows among the accepted ones; no other row, unless the    *)
(* commands were given partitions that the dataset was not split into,     *)
(* which shard leaves where they are; and the report counts them.          *)
Known == Rows \cup (IF Given = opened THEN {} ELSE {0})
Quarantined == IF finalRep.rejected > 0 THEN finalRej ELSE <<>>
MergeHoldsEachRowOnce ==
  phase = "merged" =>
    /\ \A x \in ToSet(final) : x \in Known \/ - x \in Known
    /\ ToSet(Quarantined) \subseteq Known
    /\ \A r \in Rows :
         LET times == Times(r, final) + Times(r, Quarantined) IN
         times = 1 \/ (times = 0 /\ MayDrop(r, final))
    /\ finalRep = [accepted |-> Len(final), rejected |-> Len(Quarantined),
                   reasons |-> Len(Quarantined)]

(* Rows go once through shard, the commands and merge, whatever stopped    *)
(* and was started again and whatever the directory of the partitions and  *)
(* that of the merged file held.  (The commands' own is a new one.)        *)
RowsOnceThroughShards == PartitionsHoldEachRowOnce /\ MergeHoldsEachRowOnce

(* No two rows that dedup kept are alike, and one that it dropped is like  *)
(* an earlier one that it kept: its content is still represented.          *)
DuplicatesRepresented ==
  setup # None => \A p \in Parts : (setup.command = "dedup" /\ worker[p] = "done") =>
    LET kept == ToSet(out[p]) IN
    /\ \A r, s \in kept : r # s => {r, s} \notin setup.similar
    /\ \A r \in ToSet(part[p]) \ kept : \E k \in kept : k < r /\ {k, r} \in setup.similar

(* A row the command rejected is not among the accepted rows of a merge:   *)
(* `buffdata merge` puts the rejected rows in a file of their own.         *)
RejectedStayOut ==
  phase = "merged" => \A p \in opened : rej[p] # None =>
    \A r \in ToSet(rej[p]) : Times(r, final) = 0
=============================================================================
