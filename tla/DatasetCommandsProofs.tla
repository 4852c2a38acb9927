----------------------- MODULE DatasetCommandsProofs ------------------------
(***************************************************************************)
(* What the commands over whole datasets guarantee wherever they stop:     *)
(* those behind the accuracy gate for any number of seeds and rounds, and  *)
(* sharded runs for every dataset, number of partitions, labels and        *)
(* likeness of rows.                                                       *)
(***************************************************************************)
EXTENDS DatasetCommands, FiniteSetTheorems, SequenceTheorems, TLAPS

-----------------------------------------------------------------------------
(* The inductive invariant.                                                *)

RoundType == [accuracy : Nat, gain : Int \X Int, accepted : BOOLEAN]
SavedType == [attempt : Nat, round : Nat]

GatedTypes ==
  /\ attempt \in Nat
  /\ rounds \in Seq(RoundType)
  /\ best \in 0 .. Len(rounds)
  /\ saved \in SavedType \cup {Nothing}

Writing == {"accepted", "reject", "report"}
Returning == {"write", "fill", "gate"}
Unwritten == {"new", "measure", "diagnose", "accepted", "write"}
Written == {"reject", "report", "fill", "gate", "done"}

(* Nothing is written before the gate has decided, and what is written is  *)
(* of the attempt that writes.                                             *)
NothingEarly ==
  /\ stage \in Unwritten => saved = Nothing
  /\ saved = Nothing => quarantine = Nothing
  /\ gateReport # Nothing => stage = "done"
  /\ stage \in Writing => command = "optimize"
  /\ stage \in Returning \cup {"diagnose"} => command = "generate"
WrittenNow ==
  /\ stage \in Written => saved # Nothing /\ saved.attempt = attempt
  /\ stage # "new" => attempt > 0
  /\ saved # Nothing => saved.attempt <= attempt
  /\ saved # Nothing /\ stage = "refused" => saved.attempt < attempt
FilesFollow == NothingEarly /\ WrittenNow

(* What optimize writes was accepted, and is still what was measured.      *)
Above(o, c) == \A s \in Seeds : c[s] > o[s] + MinimumGain
OptimizeOK ==
  command = "optimize" =>
    /\ stage \in Writing => Above(original, candidate)
    /\ saved # Nothing =>
         /\ saved.attempt = attempt => Above(original, candidate)
         /\ quarantine \in {Nothing, saved.attempt}
         /\ stage \in {"report", "done"} => quarantine = attempt
    /\ gateReport # Nothing => gateReport.attempt = saved.attempt

(* The rounds of generate: the best is the best, only the last, which ends *)
(* them, may be accepted, and a round that is alone has the baseline.      *)
AboveInPart(o, c) ==
  \A s \in Seeds : o[s] = 0 \/ (c[s] - o[s]) * RelativeGain[2] >= o[s] * RelativeGain[1]
BestIsBest ==
  /\ rounds # <<>> => best \in DOMAIN rounds
  /\ \A i \in DOMAIN rounds : rounds[i].accuracy <= rounds[best].accuracy
LastMayPass ==
  /\ stage \in {"measure", "diagnose"} => \A i \in DOMAIN rounds : ~ rounds[i].accepted
  /\ stage \in Returning =>
       /\ rounds # <<>>
       /\ \A i \in 1 .. (Len(rounds) - 1) : ~ rounds[i].accepted
       /\ Passed => AboveInPart(original, candidate)
GainsFit == Len(rounds) = 1 => rounds[1].gain = Gain(rounds[1].accuracy, baseline)
RoundsOK == BestIsBest /\ LastMayPass /\ GainsFit

(* The file that generate reports on is the one it returned.               *)
GenerateOK ==
  /\ stage = "gate" => saved.round = Returned
  /\ ReportedHonestly

GatedInv == GatedTypes /\ FilesFollow /\ OptimizeOK /\ RoundsOK /\ GenerateOK

-----------------------------------------------------------------------------
(* The decision of the gate.                                               *)

(* The parts an accuracy reaches are finitely many: Total is a number.     *)
LEMMA TotalIsNat ==
  ASSUME NEW runs PROVE Total(runs) \in Nat
<1> DEFINE parts == Seeds \X (1 .. Top)
           reached == {e \in parts : e[2] <= runs[e[1]]}
<1>1. IsFiniteSet(Seeds) BY GateAssumption
<1>2. IsFiniteSet(1 .. Top) BY GateAssumption, FS_Interval
<1>3. IsFiniteSet(parts) BY <1>1, <1>2, FS_Product
<1>4. reached \subseteq parts OBVIOUS
<1>5. IsFiniteSet(reached) BY <1>3, <1>4, FS_Subset
<1>6. Cardinality(reached) \in Nat BY <1>5, FS_CardinalityType
<1> QED BY <1>6 DEF Total

(* A candidate that optimize accepts is better on every seed.              *)
LEMMA AcceptedIsAbove ==
  ASSUME NEW o \in Accuracies, NEW c \in Accuracies, Accepts(FALSE, c, o)
  PROVE Above(o, c)
<1> SUFFICES ASSUME NEW s \in Seeds PROVE c[s] > o[s] + MinimumGain BY DEF Above
<1>1. MeetsAbsolute(c[s], o[s], 1) BY DEF Accepts
<1>2. c[s] \in Nat /\ o[s] \in Nat /\ MinimumGain \in Nat BY GateAssumption DEF Accuracies
<1>3. c[s] - o[s] > MinimumGain * 1 BY <1>1 DEF MeetsAbsolute
<1> QED BY <1>2, <1>3

(* A product of sums is the sum of the products.                           *)
LEMMA Distributes ==
  ASSUME NEW a \in Int, NEW b \in Int, NEW m \in Int, NEW n \in Int, m * b >= n * (a + b)
  PROVE (m - n) * b >= n * a
<1>1. n * (a + b) = n * a + n * b OBVIOUS
<1>2. (m - n) * b = m * b - n * b OBVIOUS
<1>3. m * b \in Int /\ n * b \in Int /\ n * a \in Int OBVIOUS
<1> QED BY <1>1, <1>2, <1>3

(* A candidate that generate accepts gains the fraction on every seed.     *)
LEMMA AcceptedIsAboveInPart ==
  ASSUME NEW o \in Accuracies, NEW c \in Accuracies, Accepts(TRUE, c, o)
  PROVE AboveInPart(o, c)
<1> SUFFICES ASSUME NEW s \in Seeds, o[s] # 0
             PROVE (c[s] - o[s]) * RelativeGain[2] >= o[s] * RelativeGain[1]
  BY DEF AboveInPart
<1>1. MeetsRelative(c[s], o[s]) BY DEF Accepts
<1>2. c[s] \in Nat /\ o[s] \in Nat /\ RelativeGain[1] \in Nat /\ RelativeGain[2] \in Nat
  BY GateAssumption DEF Accuracies
<1>3. ~ (o[s] <= 0) BY <1>2
<1>4. c[s] * RelativeGain[2] >= o[s] * (RelativeGain[1] + RelativeGain[2])
  BY <1>1, <1>3 DEF MeetsRelative
<1> QED BY <1>2, <1>4, Distributes

-----------------------------------------------------------------------------
(* Both commands.                                                          *)

(* Nothing of an attempt is there before the first, and an attempt that    *)
(* finds an output is refused.                                             *)
LEMMA GatedBegins == GatedInit => GatedInv
<1> SUFFICES ASSUME GatedInit PROVE GatedInv OBVIOUS
<1>1. GatedTypes
  <2>1. rounds = <<>> /\ <<>> \in Seq(RoundType) BY DEF GatedInit
  <2> QED BY <2>1 DEF GatedInit, GatedTypes
<1>2. FilesFollow
  BY DEF GatedInit, FilesFollow, NothingEarly, WrittenNow, Unwritten, Written, Writing, Returning
<1>3. OptimizeOK BY DEF GatedInit, OptimizeOK, Writing
<1>4. RoundsOK
  <2>1. rounds = <<>> /\ Len(<<>>) = 0 /\ DOMAIN <<>> = {} BY DEF GatedInit
  <2> QED BY <2>1 DEF GatedInit, RoundsOK, BestIsBest, LastMayPass, GainsFit, Returning
<1>5. GenerateOK BY DEF GatedInit, GenerateOK, ReportedHonestly
<1> QED BY <1>1, <1>2, <1>3, <1>4, <1>5 DEF GatedInv

(* What does not change keeps the invariant.                               *)
LEMMA GatedStutters == GatedInv /\ UNCHANGED gatedVars => GatedInv'
BY DEF gatedVars, inputVars, measureVars, fileVars, GatedInv, GatedTypes, FilesFollow, NothingEarly,
       WrittenNow, OptimizeOK, RoundsOK, BestIsBest, LastMayPass, GainsFit, GenerateOK,
       ReportedHonestly, Returned, Passed, Above, AboveInPart

(* Begin: an output that is there keeps its command.                       *)
LEMMA BeginKeeps ==
  ASSUME GatedInv, NEW c, NEW L, NEW V, Begin(c, L, V) PROVE GatedInv'
<1> USE DEF Begin, fileVars
<1>1. GatedTypes'
  <2>1. rounds' = <<>> /\ <<>> \in Seq(RoundType) OBVIOUS
  <2> QED BY <2>1 DEF GatedInv, GatedTypes
<1>2. gateReport = Nothing BY DEF GatedInv, FilesFollow, NothingEarly
<1>3. FilesFollow'
  <2>1. NothingEarly'
    BY <1>2 DEF GatedInv, FilesFollow, NothingEarly, Unwritten, Writing, Returning
  <2>2. WrittenNow'
    <3>1. saved # Nothing => saved.attempt \in Nat BY DEF GatedInv, GatedTypes, SavedType
    <3> QED BY <3>1 DEF GatedInv, GatedTypes, FilesFollow, WrittenNow, Written
  <2> QED BY <2>1, <2>2 DEF FilesFollow
<1>4. OptimizeOK'
  <2>1. ASSUME saved # Nothing
        PROVE  saved.attempt < attempt' /\ command' = command /\ stage' = "refused"
    <3>1. stage # "new" /\ attempt > 0 /\ saved.attempt <= attempt
      BY <2>1 DEF GatedInv, FilesFollow, NothingEarly, WrittenNow, Unwritten
    <3>2. saved.attempt \in Nat /\ attempt \in Nat BY <2>1 DEF GatedInv, GatedTypes, SavedType
    <3>3. <<command, labelled, validation>> = <<c, L, V>> BY <3>1
    <3>4. saved.attempt < attempt + 1 BY <3>1, <3>2
    <3> QED BY <2>1, <3>3, <3>4
  <2> QED BY <1>2, <2>1 DEF GatedInv, GatedTypes, OptimizeOK, Writing
<1>5. RoundsOK'
  <2>1. rounds' = <<>> /\ Len(<<>>) = 0 /\ DOMAIN <<>> = {} /\ stage' \in {"measure", "refused"}
    OBVIOUS
  <2> QED BY <2>1 DEF RoundsOK, BestIsBest, LastMayPass, GainsFit, Returning
<1>6. GenerateOK' BY <1>2 DEF GenerateOK, ReportedHonestly
<1> QED BY <1>1, <1>3, <1>4, <1>5, <1>6 DEF GatedInv

(* The command ends without writing: there is no decision, or it stops.    *)
LEMMA EndKeeps ==
  ASSUME GatedInv, Incomparable \/ Stop PROVE GatedInv'
<1>1. /\ stage' = "over" /\ stage \notin {"new", "over", "refused", "done"}
      /\ UNCHANGED <<inputVars, measureVars, fileVars>>
  BY DEF Incomparable, Stop
<1> USE DEF inputVars, measureVars, fileVars
<1>2. GatedTypes' BY <1>1 DEF GatedInv, GatedTypes
<1>3. gateReport = Nothing BY <1>1 DEF GatedInv, FilesFollow, NothingEarly
<1>4. FilesFollow'
  BY <1>1, <1>3 DEF GatedInv, FilesFollow, NothingEarly, WrittenNow, Unwritten, Written, Writing,
                    Returning
<1>5. OptimizeOK' BY <1>1, <1>3 DEF GatedInv, OptimizeOK, Writing, Above
<1>6. RoundsOK' BY <1>1 DEF GatedInv, RoundsOK, BestIsBest, LastMayPass, GainsFit, Returning
<1>7. GenerateOK' BY <1>1, <1>3 DEF GenerateOK, ReportedHonestly
<1> QED BY <1>2, <1>4, <1>5, <1>6, <1>7 DEF GatedInv

-----------------------------------------------------------------------------
(* optimize.                                                               *)

(* Optimize: only a candidate that is better is written.                   *)
LEMMA OptimizeKeeps ==
  ASSUME GatedInv, NEW o \in Accuracies, NEW c \in Accuracies, Optimize(o, c) PROVE GatedInv'
<1> USE DEF Optimize, Measured, Publishable, inputVars, fileVars
<1>1. GatedTypes' BY DEF GatedInv, GatedTypes
<1>2. saved = Nothing /\ gateReport = Nothing
  BY DEF GatedInv, FilesFollow, NothingEarly, Unwritten
<1>3. FilesFollow'
  BY <1>2 DEF GatedInv, FilesFollow, NothingEarly, WrittenNow, Unwritten, Written, Writing, Returning
<1>4. OptimizeOK'
  <2>1. stage' \in Writing => Above(original', candidate')
    <3>1. SUFFICES ASSUME stage' \in Writing PROVE Above(o, c) OBVIOUS
    <3>2. Accepts(FALSE, c, o) BY <3>1 DEF Writing
    <3> QED BY <3>2, AcceptedIsAbove
  <2> QED BY <1>2, <2>1 DEF OptimizeOK
<1>5. RoundsOK' BY DEF GatedInv, RoundsOK, BestIsBest, LastMayPass, GainsFit, Returning
<1>6. GenerateOK' BY <1>2 DEF GenerateOK, ReportedHonestly
<1> QED BY <1>1, <1>3, <1>4, <1>5, <1>6 DEF GatedInv

(* WriteAccepted, WriteRejected, WriteReport: the files, one after the     *)
(* other, of one attempt.                                                  *)
LEMMA OptimizedIsWritten ==
  ASSUME GatedInv, WriteAccepted \/ WriteRejected \/ WriteReport PROVE GatedInv'
<1> USE DEF WriteAccepted, WriteRejected, WriteReport, inputVars, measureVars
<1>1. /\ UNCHANGED <<attempt, command, rounds, baseline, best, original, candidate>>
      /\ command = "optimize" /\ stage \in Writing /\ gateReport = Nothing
  BY DEF GatedInv, FilesFollow, NothingEarly, Writing
<1>2. Above(original, candidate) BY <1>1 DEF GatedInv, OptimizeOK
<1>3. \A n \in Nat : [attempt |-> n, round |-> 1] \in SavedType BY DEF SavedType
<1>4. GatedTypes'
  <2>1. saved' \in SavedType \cup {Nothing}
    BY <1>3 DEF GatedInv, GatedTypes
  <2> QED BY <1>1, <2>1 DEF GatedInv, GatedTypes
<1>5. saved' # Nothing /\ saved'.attempt = attempt /\ stage' \in {"reject", "report", "done"}
  <2>1. CASE WriteAccepted
    <3>1. saved' \in SavedType /\ saved'.attempt = attempt
      BY <1>3, <2>1 DEF GatedInv, GatedTypes
    <3>2. Nothing \notin SavedType BY GatedAssumption DEF SavedType
    <3> QED BY <2>1, <3>1, <3>2
  <2>2. CASE WriteRejected \/ WriteReport
    BY <2>2 DEF GatedInv, FilesFollow, WrittenNow, Written
  <2> QED BY <2>1, <2>2
<1>6. gateReport' # Nothing => stage' = "done" BY <1>1
<1>7. FilesFollow'
  BY <1>1, <1>5, <1>6 DEF GatedInv, GatedTypes, FilesFollow, NothingEarly, WrittenNow, Unwritten,
                          Written, Writing, Returning
<1>8. OptimizeOK'
  <2>1. Above(original', candidate') BY <1>1, <1>2
  <2>2. quarantine' \in {Nothing, saved'.attempt}
    BY <1>1, <1>5 DEF GatedInv, FilesFollow, NothingEarly, OptimizeOK, Unwritten
  <2>3. stage' \in {"report", "done"} => quarantine' = attempt'
    BY <1>1, <1>5 DEF GatedInv, FilesFollow, WrittenNow, Written, OptimizeOK
  <2>4. gateReport' # Nothing => gateReport'.attempt = saved'.attempt BY <1>1, <1>5
  <2> QED BY <1>5, <2>1, <2>2, <2>3, <2>4 DEF OptimizeOK
<1>9. RoundsOK' BY <1>1, <1>5 DEF GatedInv, RoundsOK, BestIsBest, LastMayPass, GainsFit, Returning
<1>10. GenerateOK' BY <1>1, <1>5 DEF GenerateOK, ReportedHonestly
<1> QED BY <1>4, <1>7, <1>8, <1>9, <1>10 DEF GatedInv

-----------------------------------------------------------------------------
(* generate.                                                               *)

(* A round more: each earlier one is as it was.                            *)
LEMMA RoundAppends ==
  ASSUME NEW s \in Seq(RoundType), NEW e \in RoundType
  PROVE  /\ Append(s, e) \in Seq(RoundType) /\ Len(Append(s, e)) = Len(s) + 1
         /\ Len(s) \in Nat /\ DOMAIN s = 1 .. Len(s)
         /\ DOMAIN Append(s, e) = 1 .. (Len(s) + 1)
         /\ Append(s, e)[Len(s) + 1] = e
         /\ \A i \in 1 .. Len(s) : Append(s, e)[i] = s[i] /\ s[i] \in RoundType
         /\ s = <<>> <=> Len(s) = 0
OBVIOUS

(* Round: the best is kept, and an accepted round is the last.             *)
LEMMA RoundKeeps ==
  ASSUME GatedInv, NEW o \in Accuracies, NEW c \in Accuracies, Round(o, c) PROVE GatedInv'
<1> DEFINE passed == Accepts(TRUE, c, o)
           entry == [accuracy |-> Total(c), gain |-> Gain(Total(c), Total(o)),
                     accepted |-> passed]
           n == Len(rounds)
<1>1. /\ command = "generate" /\ stage = "measure" /\ rounds' = Append(rounds, entry)
      /\ stage' = (IF passed \/ n + 1 = MaxIterations THEN "write" ELSE "diagnose")
      /\ best' = (IF Better(c) THEN n + 1 ELSE best) /\ original' = o /\ candidate' = c
      /\ baseline' = (IF rounds = <<>> THEN Total(o) ELSE baseline)
      /\ UNCHANGED <<attempt, command, saved, quarantine, gateReport>>
  BY DEF Round, Publishable, Measured, inputVars, fileVars
<1>2. Total(c) \in Nat /\ Total(o) \in Nat /\ Gain(Total(c), Total(o)) \in Int \X Int
  BY TotalIsNat DEF Gain
<1>3. passed \in BOOLEAN BY DEF Accepts
<1>4. entry \in RoundType BY <1>2, <1>3 DEF RoundType
<1>5. rounds \in Seq(RoundType) /\ best \in 0 .. n BY DEF GatedInv, GatedTypes
<1>6. /\ rounds' \in Seq(RoundType) /\ Len(rounds') = n + 1 /\ n \in Nat
      /\ DOMAIN rounds = 1 .. n /\ DOMAIN rounds' = 1 .. (n + 1) /\ rounds'[n + 1] = entry
      /\ \A i \in 1 .. n : rounds'[i] = rounds[i] /\ rounds[i] \in RoundType
      /\ rounds = <<>> <=> n = 0
  BY <1>1, <1>4, <1>5, RoundAppends
<1>7. /\ entry.accuracy = Total(c) /\ entry.accepted = passed
      /\ entry.gain = Gain(Total(c), Total(o))
  OBVIOUS
<1>8. saved = Nothing /\ quarantine = Nothing /\ gateReport = Nothing
  BY <1>1 DEF GatedInv, FilesFollow, NothingEarly, Unwritten
<1> HIDE DEF passed, entry, n
<1>9. GatedTypes'
  <2>1. best' \in 0 .. Len(rounds') BY <1>1, <1>5, <1>6
  <2> QED BY <1>1, <1>6, <2>1 DEF GatedInv, GatedTypes
<1>10. stage' \in {"write", "diagnose"} BY <1>1
<1>11. FilesFollow'
  BY <1>1, <1>8, <1>10 DEF GatedInv, FilesFollow, NothingEarly, WrittenNow, Unwritten, Written,
                           Writing, Returning
<1>12. OptimizeOK' BY <1>1 DEF OptimizeOK
<1>13. BestIsBest'
  <2>1. best = 0 => n = 0
    <3>1. rounds # <<>> => best \in DOMAIN rounds BY DEF GatedInv, RoundsOK, BestIsBest
    <3>2. rounds = <<>> => n = 0 BY DEF n
    <3> QED BY <1>6, <3>1, <3>2
  <2>2. \A i \in 1 .. n : rounds[i].accuracy <= rounds[best].accuracy
    BY <1>6 DEF GatedInv, RoundsOK, BestIsBest
  <2>3. \A i \in 1 .. n : rounds[i].accuracy \in Nat BY <1>6 DEF RoundType
  <2>4. CASE Better(c)
    <3>1. best' = n + 1 BY <1>1, <2>4
    <3>2. \A i \in 1 .. n : rounds[i].accuracy <= Total(c)
      <4> SUFFICES ASSUME NEW i \in 1 .. n PROVE rounds[i].accuracy <= Total(c) OBVIOUS
      <4>1. best \in 1 .. n BY <1>5, <1>6, <2>1
      <4>2. Total(c) > rounds[best].accuracy BY <2>4, <4>1 DEF Better
      <4>3. rounds[i].accuracy <= rounds[best].accuracy BY <2>2
      <4> QED BY <1>2, <2>3, <4>1, <4>2, <4>3
    <3>3. \A i \in 1 .. (n + 1) : rounds'[i].accuracy <= Total(c)
      <4> SUFFICES ASSUME NEW i \in 1 .. (n + 1) PROVE rounds'[i].accuracy <= Total(c) OBVIOUS
      <4>1. CASE i = n + 1 BY <1>2, <1>6, <1>7, <4>1
      <4>2. CASE i # n + 1
        <5>1. i \in 1 .. n BY <1>6, <4>2
        <5> QED BY <1>6, <3>2, <5>1
      <4> QED BY <4>1, <4>2
    <3>4. rounds'[best'].accuracy = Total(c) BY <1>6, <1>7, <3>1
    <3>5. best' \in DOMAIN rounds' BY <1>6, <3>1
    <3> QED BY <1>6, <3>3, <3>4, <3>5 DEF BestIsBest
  <2>5. CASE ~ Better(c)
    <3>1. best' = best /\ best # 0 /\ ~ (Total(c) > rounds[best].accuracy)
      BY <1>1, <2>5 DEF Better
    <3>2. best \in 1 .. n BY <1>5, <1>6, <3>1
    <3>3. rounds'[best'] = rounds[best] BY <1>6, <3>1, <3>2
    <3>4. Total(c) <= rounds[best].accuracy BY <1>2, <2>3, <3>1, <3>2
    <3>5. \A i \in 1 .. (n + 1) : rounds'[i].accuracy <= rounds[best].accuracy
      <4> SUFFICES ASSUME NEW i \in 1 .. (n + 1)
                   PROVE rounds'[i].accuracy <= rounds[best].accuracy
        OBVIOUS
      <4>1. CASE i = n + 1 BY <1>6, <1>7, <3>4, <4>1
      <4>2. CASE i # n + 1
        <5>1. i \in 1 .. n BY <1>6, <4>2
        <5> QED BY <1>6, <2>2, <5>1
      <4> QED BY <4>1, <4>2
    <3>6. best' \in DOMAIN rounds' BY <1>6, <3>1, <3>2
    <3> QED BY <1>6, <3>3, <3>5, <3>6 DEF BestIsBest
  <2> QED BY <2>4, <2>5
<1>14. LastMayPass'
  <2>1. \A i \in 1 .. n : ~ rounds'[i].accepted
    BY <1>1, <1>6 DEF GatedInv, RoundsOK, LastMayPass
  <2>2. stage' = "diagnose" => ~ passed BY <1>1
  <2>3. stage' \in {"measure", "diagnose"} => \A i \in DOMAIN rounds' : ~ rounds'[i].accepted
    <3> SUFFICES ASSUME stage' = "diagnose", NEW i \in 1 .. (n + 1) PROVE ~ rounds'[i].accepted
      BY <1>6, <1>10
    <3>1. CASE i = n + 1 BY <1>6, <1>7, <2>2, <3>1
    <3>2. CASE i # n + 1
      <4>1. i \in 1 .. n BY <1>6, <3>2
      <4> QED BY <2>1, <4>1
    <3> QED BY <3>1, <3>2
  <2>4. rounds' # <<>> BY <1>6
  <2>5. \A i \in 1 .. (Len(rounds') - 1) : ~ rounds'[i].accepted
    <3>1. Len(rounds') - 1 = n BY <1>6
    <3> QED BY <2>1, <3>1
  <2>6. Passed' => AboveInPart(original', candidate')
    <3>1. Passed' <=> passed BY <1>6, <1>7 DEF Passed
    <3>2. passed => AboveInPart(o, c) BY AcceptedIsAboveInPart DEF passed
    <3> QED BY <1>1, <3>1, <3>2
  <2> QED BY <2>3, <2>4, <2>5, <2>6 DEF LastMayPass
<1>15. GainsFit'
  <2>1. Len(rounds') = 1 => rounds = <<>> /\ rounds'[1] = entry /\ baseline' = Total(o)
    BY <1>1, <1>6
  <2> QED BY <1>7, <2>1 DEF GainsFit
<1>16. GenerateOK' BY <1>1, <1>8, <1>10 DEF GenerateOK, ReportedHonestly
<1> QED BY <1>9, <1>11, <1>12, <1>13, <1>14, <1>15, <1>16 DEF GatedInv, RoundsOK

(* Diagnose: the rounds stay, and none of them was accepted.               *)
LEMMA DiagnoseKeeps ==
  ASSUME GatedInv, Diagnose PROVE GatedInv'
<1>1. /\ stage = "diagnose" /\ stage' \in {"over", "measure"}
      /\ UNCHANGED <<attempt, command, rounds, baseline, best, saved, quarantine, gateReport>>
  BY DEF Diagnose, inputVars, fileVars
<1>2. command = "generate" /\ saved = Nothing /\ gateReport = Nothing
  BY <1>1 DEF GatedInv, FilesFollow, NothingEarly, Unwritten, Returning
<1>3. GatedTypes' BY <1>1 DEF GatedInv, GatedTypes
<1>4. FilesFollow'
  BY <1>1, <1>2 DEF GatedInv, FilesFollow, NothingEarly, WrittenNow, Unwritten, Written, Writing,
                    Returning
<1>5. OptimizeOK' BY <1>1, <1>2 DEF OptimizeOK
<1>6. RoundsOK' BY <1>1 DEF GatedInv, RoundsOK, BestIsBest, LastMayPass, GainsFit, Returning
<1>7. GenerateOK' BY <1>1, <1>2 DEF GenerateOK, ReportedHonestly
<1> QED BY <1>3, <1>4, <1>5, <1>6, <1>7 DEF GatedInv

(* OpenCandidate and WriteCandidate: what was returned is written.         *)
LEMMA ReturnedIsARound ==
  ASSUME GatedInv, stage \in Returning
  PROVE  /\ Returned \in DOMAIN rounds /\ Returned \in Nat
         /\ Passed = rounds[Returned].accepted
         /\ Passed => AboveInPart(original, candidate)
         /\ ~ Passed => \A i \in DOMAIN rounds :
              ~ rounds[i].accepted /\ rounds[i].accuracy <= rounds[Returned].accuracy
         /\ Passed => Returned = Len(rounds)
         /\ Len(rounds) = 1 => rounds[1].gain = Gain(rounds[Returned].accuracy, baseline)
<1>1. /\ rounds \in Seq(RoundType) /\ rounds # <<>> /\ best \in DOMAIN rounds
      /\ \A i \in 1 .. (Len(rounds) - 1) : ~ rounds[i].accepted
      /\ \A i \in DOMAIN rounds : rounds[i].accuracy <= rounds[best].accuracy
  BY DEF GatedInv, GatedTypes, RoundsOK, BestIsBest, LastMayPass
<1>2. Len(rounds) \in Nat /\ Len(rounds) > 0 /\ DOMAIN rounds = 1 .. Len(rounds) BY <1>1
<1>3. Len(rounds) \in DOMAIN rounds BY <1>2
<1>4. \A i \in DOMAIN rounds : rounds[i].accepted \in BOOLEAN
  <2>1. \A i \in DOMAIN rounds : rounds[i] \in RoundType BY <1>1, <1>2
  <2>2. \A r \in RoundType : r.accepted \in BOOLEAN BY Zenon DEF RoundType
  <2> QED BY <2>1, <2>2, Zenon
<1>5. ~ Passed => \A i \in DOMAIN rounds : ~ rounds[i].accepted
  <2> SUFFICES ASSUME ~ Passed, NEW i \in 1 .. Len(rounds) PROVE ~ rounds[i].accepted BY <1>2
  <2>1. CASE i = Len(rounds) BY <2>1 DEF Passed
  <2>2. CASE i # Len(rounds)
    <3>1. PICK n \in Nat : n = Len(rounds) BY <1>2
    <3>2. i \in 1 .. (n - 1) BY <2>2, <3>1
    <3> QED BY <1>1, <3>1, <3>2
  <2> QED BY <2>1, <2>2
<1>6. Returned \in DOMAIN rounds BY <1>1, <1>3 DEF Returned
<1>7. Passed \in BOOLEAN BY <1>3, <1>4, Zenon DEF Passed
<1>8. Passed = rounds[Returned].accepted
  <2>1. CASE Passed
    <3>1. Returned = Len(rounds) BY <2>1 DEF Returned
    <3> QED BY <3>1 DEF Passed
  <2>2. CASE ~ Passed
    <3>1. ~ rounds[Returned].accepted BY <1>5, <1>6, <2>2
    <3> QED BY <1>4, <1>6, <1>7, <2>2, <3>1
  <2> QED BY <2>1, <2>2
<1>9. ~ Passed => Returned = best BY DEF Returned
<1>10. Returned \in Nat BY <1>2, <1>6
<1>11. Passed => AboveInPart(original, candidate) BY DEF GatedInv, RoundsOK, LastMayPass
<1>12. Passed => Returned = Len(rounds) BY DEF Returned
<1>13. Len(rounds) = 1 => rounds[1].gain = Gain(rounds[Returned].accuracy, baseline)
  <2>1. Len(rounds) = 1 => Returned = 1 BY <1>2, <1>6
  <2> QED BY <2>1 DEF GatedInv, RoundsOK, GainsFit
<1> QED BY <1>1, <1>5, <1>6, <1>8, <1>9, <1>10, <1>11, <1>12, <1>13

LEMMA CandidateIsWritten ==
  ASSUME GatedInv, OpenCandidate \/ WriteCandidate PROVE GatedInv'
<1>1. /\ stage \in Returning /\ stage' \in {"fill", "gate"}
      /\ UNCHANGED <<attempt, command, rounds, baseline, best, original, candidate, quarantine,
                     gateReport>>
  BY DEF OpenCandidate, WriteCandidate, inputVars, measureVars, Returning
<1>2. command = "generate" /\ gateReport = Nothing
  BY <1>1 DEF GatedInv, FilesFollow, NothingEarly, Returning
<1>3. attempt \in Nat BY DEF GatedInv, GatedTypes
<1>4. /\ saved' \in SavedType /\ saved'.attempt = attempt
      /\ stage' = "gate" => saved'.round = Returned
  <2>1. CASE OpenCandidate
    <3>1. saved' = [attempt |-> attempt, round |-> 0] /\ stage' = "fill"
      BY <2>1 DEF OpenCandidate
    <3> QED BY <1>3, <3>1 DEF SavedType
  <2>2. CASE WriteCandidate
    <3>1. saved' = [saved EXCEPT !.round = Returned] /\ stage = "fill" BY <2>2 DEF WriteCandidate
    <3>2. saved # Nothing /\ saved.attempt = attempt
      BY <3>1 DEF GatedInv, FilesFollow, WrittenNow, Written
    <3>3. saved \in SavedType BY <3>2 DEF GatedInv, GatedTypes
    <3>4. Returned \in Nat BY <1>1, ReturnedIsARound
    <3> QED BY <3>1, <3>2, <3>3, <3>4 DEF SavedType
  <2> QED BY <1>1, <2>1, <2>2
<1>5. saved' # Nothing BY <1>4, GatedAssumption DEF SavedType
<1>6. GatedTypes' BY <1>1, <1>4 DEF GatedInv, GatedTypes
<1>7. attempt > 0 BY <1>1 DEF GatedInv, FilesFollow, WrittenNow, Returning
<1>8. FilesFollow'
  BY <1>1, <1>2, <1>3, <1>4, <1>5, <1>7 DEF FilesFollow, NothingEarly, WrittenNow, Unwritten,
                                            Written, Writing, Returning
<1>9. OptimizeOK' BY <1>1, <1>2 DEF OptimizeOK
<1>10. RoundsOK'
  <2>1. BestIsBest' BY <1>1 DEF GatedInv, RoundsOK, BestIsBest
  <2>2. LastMayPass'
    BY <1>1 DEF GatedInv, RoundsOK, LastMayPass, Returning, Passed
  <2>3. GainsFit' BY <1>1 DEF GatedInv, RoundsOK, GainsFit
  <2> QED BY <2>1, <2>2, <2>3 DEF RoundsOK
<1>11. GenerateOK'
  <2>1. Returned' = Returned BY <1>1 DEF Returned, Passed
  <2> QED BY <1>1, <1>2, <1>4, <2>1 DEF GenerateOK, ReportedHonestly
<1> QED BY <1>6, <1>8, <1>9, <1>10, <1>11 DEF GatedInv

(* WriteGateReport: what is reported is what was written.                  *)
LEMMA GateIsReported ==
  ASSUME GatedInv, WriteGateReport PROVE GatedInv'
<1>1. /\ stage = "gate" /\ stage' = "done"
      /\ UNCHANGED <<attempt, command, rounds, baseline, best, original, candidate, saved, quarantine>>
      /\ gateReport' = [attempt |-> attempt, passed |-> Passed, baseline |-> baseline,
                        final |-> rounds[Returned].accuracy, gain |-> rounds[Len(rounds)].gain,
                        per |-> rounds]
  BY DEF WriteGateReport, inputVars, measureVars
<1>2. command = "generate" /\ stage \in Returning
  BY <1>1 DEF GatedInv, FilesFollow, NothingEarly, Returning
<1>3. saved # Nothing /\ saved.attempt = attempt /\ saved.round = Returned
  BY <1>1 DEF GatedInv, FilesFollow, WrittenNow, Written, GenerateOK
<1>4. GatedTypes' BY <1>1 DEF GatedInv, GatedTypes
<1>5. FilesFollow'
  BY <1>1, <1>2, <1>3 DEF GatedInv, GatedTypes, FilesFollow, NothingEarly, WrittenNow, Unwritten,
                          Written, Writing, Returning
<1>6. OptimizeOK' BY <1>1, <1>2 DEF OptimizeOK
<1>7. RoundsOK' BY <1>1 DEF GatedInv, RoundsOK, BestIsBest, LastMayPass, GainsFit, Returning
<1>8. /\ gateReport'.attempt = attempt /\ gateReport'.passed = Passed
      /\ gateReport'.final = rounds[Returned].accuracy /\ gateReport'.per = rounds
      /\ gateReport'.baseline = baseline /\ gateReport'.gain = rounds[Len(rounds)].gain
  BY <1>1
<1>9. ReportedHonestly'
  <2>1. /\ Returned \in DOMAIN rounds
        /\ Passed = rounds[Returned].accepted
        /\ Passed => AboveInPart(original, candidate)
        /\ ~ Passed => \A i \in DOMAIN rounds :
             ~ rounds[i].accepted /\ rounds[i].accuracy <= rounds[Returned].accuracy
        /\ Passed => Returned = Len(rounds)
        /\ Len(rounds) = 1 => rounds[1].gain = Gain(rounds[Returned].accuracy, baseline)
    BY <1>2, ReturnedIsARound
  <2> HIDE DEF Returned, Passed
  <2> QED BY <1>1, <1>3, <1>8, <2>1 DEF ReportedHonestly, AboveInPart
<1>10. GenerateOK' BY <1>1, <1>9 DEF GenerateOK
<1> QED BY <1>4, <1>5, <1>6, <1>7, <1>10 DEF GatedInv

-----------------------------------------------------------------------------
(* Whatever the commands over whole datasets do, and wherever they stop,   *)
(* the files, the decision and the rounds of a command behind the accuracy *)
(* gate (cli/main.py, optimizers/gated_generator.py) agree.                *)
THEOREM GatesInvariant == Spec => []GatedInv
<1>1. Init => GatedInv BY GatedBegins DEF Init
<1>2. GatedInv /\ [Next]_vars => GatedInv'
  <2> SUFFICES ASSUME GatedInv, [Next]_vars PROVE GatedInv' OBVIOUS
  <2>1. CASE UNCHANGED gatedVars BY <2>1, GatedStutters
  <2>2. CASE GatedStep
    <3>1. ASSUME NEW c, NEW L, NEW V, Begin(c, L, V) PROVE GatedInv' BY <3>1, BeginKeeps
    <3>2. CASE Incomparable \/ Stop BY <3>2, EndKeeps
    <3>3. ASSUME NEW o \in Accuracies, NEW c \in Accuracies, Optimize(o, c) PROVE GatedInv'
      BY <3>3, OptimizeKeeps
    <3>4. ASSUME NEW o \in Accuracies, NEW c \in Accuracies, Round(o, c) PROVE GatedInv'
      BY <3>4, RoundKeeps
    <3>5. CASE Diagnose BY <3>5, DiagnoseKeeps
    <3>6. CASE WriteAccepted \/ WriteRejected \/ WriteReport BY <3>6, OptimizedIsWritten
    <3>7. CASE OpenCandidate \/ WriteCandidate BY <3>7, CandidateIsWritten
    <3>8. CASE WriteGateReport BY <3>8, GateIsReported
    <3> QED BY <2>2, <3>1, <3>2, <3>3, <3>4, <3>5, <3>6, <3>7, <3>8 DEF GatedStep
  <2>3. CASE UNCHANGED vars
    <3>1. UNCHANGED gatedVars BY <2>3 DEF vars
    <3> QED BY <3>1, GatedStutters
  <2> QED BY <2>1, <2>2, <2>3 DEF Next
<1> QED BY <1>1, <1>2, PTL DEF Spec

(* An output of `buffdata optimize --require-positive-gain` is better than *)
(* the original on every seed, and a report of `buffdata generate` is about*)
(* the candidate beside it: passed and its accuracy are that candidate's,  *)
(* its gain the last round's.                                              *)
THEOREM GatesAreHonest == Spec => []GatesHonest
<1>1. GatedInv => GatesHonest
  <2> SUFFICES ASSUME GatedInv PROVE GatesHonest OBVIOUS
  <2>1. PublishedOnlyIfBetter
    <3> SUFFICES ASSUME command = "optimize", saved # Nothing
                 PROVE  /\ attempt = saved.attempt =>
                             \A s \in Seeds : candidate[s] > original[s] + MinimumGain
                        /\ quarantine \in {Nothing, saved.attempt}
                        /\ gateReport # Nothing =>
                             gateReport.attempt = saved.attempt /\ quarantine = saved.attempt
      BY DEF PublishedOnlyIfBetter
    <3>1. attempt = saved.attempt => Above(original, candidate) BY DEF GatedInv, OptimizeOK
    <3>2. quarantine \in {Nothing, saved.attempt} BY DEF GatedInv, OptimizeOK
    <3>3. ASSUME gateReport # Nothing
          PROVE  gateReport.attempt = saved.attempt /\ quarantine = saved.attempt
      <4>1. stage = "done" BY <3>3 DEF GatedInv, FilesFollow, NothingEarly
      <4>2. saved.attempt = attempt BY <4>1 DEF GatedInv, FilesFollow, WrittenNow, Written
      <4> QED BY <3>3, <4>1, <4>2 DEF GatedInv, OptimizeOK
    <3> QED BY <3>1, <3>2, <3>3 DEF Above
  <2>2. ReportedHonestly BY DEF GatedInv, GenerateOK
  <2> QED BY <2>1, <2>2 DEF GatesHonest
<1> QED BY <1>1, GatesInvariant, PTL

-----------------------------------------------------------------------------
(* Induction over the positions of a sequence.                             *)

(* A set of numbers that has 0 and every successor has them all.           *)
LEMMA Counting ==
  ASSUME NEW T \in SUBSET Nat, 0 \in T, \A n \in T : n + 1 \in T
  PROVE  T = Nat
<1> DEFINE R == OpToRel(<, Nat)
<1>1. IsWellFoundedOn(R, Nat) BY NatLessThanWellFounded
<1>2. \A x, y \in Nat : y < x => <<y, x>> \in R BY DEF OpToRel
<1> HIDE DEF R
<1>3. SUFFICES ASSUME Nat \ T # {} PROVE FALSE OBVIOUS
<1>4. PICK x \in Nat \ T : \A y \in Nat \ T : ~ (<<y, x>> \in R) BY <1>1, <1>3, WFMin
<1>5. x - 1 \in Nat /\ x - 1 < x BY <1>4
<1>6. x - 1 \in T BY <1>2, <1>4, <1>5
<1> QED BY <1>4, <1>5, <1>6

(* Up to some number, likewise.                                            *)
LEMMA CountingUpTo ==
  ASSUME NEW m \in Nat, NEW T, 0 \in T, \A n \in 0 .. m : n \in T /\ n < m => n + 1 \in T
  PROVE  \A n \in 0 .. m : n \in T
<1> DEFINE U == {n \in Nat : n <= m => n \in T}
<1>1. U \in SUBSET Nat /\ 0 \in U OBVIOUS
<1>2. ASSUME NEW n \in U PROVE n + 1 \in U
  <2>1. CASE n + 1 <= m
    <3>1. n \in 0 .. m /\ n < m /\ n \in T BY <2>1, <1>2
    <3> QED BY <3>1
  <2>2. CASE ~ (n + 1 <= m) BY <2>2
  <2> QED BY <2>1, <2>2
<1> HIDE DEF U
<1>3. U = Nat BY <1>1, <1>2, Counting
<1> QED BY <1>3 DEF U

(* A walk over a sequence makes one step for each row, from a state and the*)
(* row to a state.                                                         *)
Walk(f, m, base, step, rows) ==
  f = [n \in 0 .. m |-> IF n = 0 THEN base ELSE step[<<f[n - 1], rows[n]>>]]

(* There is one, and it stays in the states.                               *)
LEMMA WalksExist ==
  ASSUME NEW X, NEW D, NEW rows \in Seq(D), NEW base \in X, NEW step \in [X \X D -> X]
  PROVE  \E f \in [0 .. Len(rows) -> X] : Walk(f, Len(rows), base, step, rows)
<1> DEFINE Walks(m) == {f \in [0 .. m -> X] : Walk(f, m, base, step, rows)}
           T == {m \in Nat : Walks(m) # {}}
<1>1. 0 \in T
  <2>1. [n \in 0 .. 0 |-> base] \in Walks(0) BY DEF Walk
  <2> QED BY <2>1
<1>2. \A m \in 0 .. Len(rows) : m \in T /\ m < Len(rows) => m + 1 \in T
  <2> SUFFICES ASSUME NEW m \in 0 .. Len(rows), m \in T, m < Len(rows) PROVE m + 1 \in T OBVIOUS
  <2>1. m \in Nat /\ rows[m + 1] \in D BY LenProperties
  <2>2. PICK f \in [0 .. m -> X] : Walk(f, m, base, step, rows) OBVIOUS
  <2>3. PICK x \in X : x = step[<<f[m], rows[m + 1]>>] BY <2>1
  <2> DEFINE g == [n \in 0 .. (m + 1) |-> IF n = m + 1 THEN x ELSE f[n]]
  <2>4. g \in [0 .. (m + 1) -> X] BY <2>1, <2>2
  <2>9. \A n \in 0 .. (m + 1) : g[n] = IF n = m + 1 THEN x ELSE f[n] OBVIOUS
  <2> HIDE DEF g
  <2>5. \A n \in 0 .. m : f[n] = IF n = 0 THEN base ELSE step[<<f[n - 1], rows[n]>>] BY <2>2 DEF Walk
  <2>6. ASSUME NEW n \in 0 .. (m + 1)
        PROVE  g[n] = IF n = 0 THEN base ELSE step[<<g[n - 1], rows[n]>>]
    <3>1. CASE n = m + 1
      <4>1. g[n] = x /\ n # 0 /\ n - 1 = m /\ n = m + 1 BY <2>1, <2>9, <3>1
      <4>2. m \in 0 .. (m + 1) /\ m # m + 1 BY <2>1
      <4>3. g[m] = f[m] BY <2>9, <4>2
      <4>4. g[n] = step[<<f[m], rows[m + 1]>>] BY <2>3, <4>1
      <4> QED BY <4>1, <4>3, <4>4
    <3>2. CASE n = 0
      <4>1. n \in 0 .. m /\ n # m + 1 BY <2>1, <3>2
      <4> QED BY <2>5, <2>9, <3>2, <4>1
    <3>3. CASE n # 0 /\ n # m + 1
      <4>1. n \in 0 .. m /\ g[n] = f[n] /\ g[n - 1] = f[n - 1] BY <2>1, <2>9, <3>3
      <4> QED BY <2>5, <3>3, <4>1
    <3> QED BY <3>1, <3>2, <3>3
  <2>7. Walk(g, m + 1, base, step, rows)
    <3> QED BY <2>4, <2>6 DEF Walk
  <2>8. g \in Walks(m + 1) BY <2>4, <2>7
  <2> HIDE DEF Walks, g
  <2> QED BY <2>1, <2>8
<1>3. PICK k \in Nat : k = Len(rows) BY LenProperties
<1> HIDE DEF T
<1>5. \A m \in 0 .. k : m \in T /\ m < k => m + 1 \in T BY <1>2, <1>3
<1>6. \A m \in 0 .. k : m \in T BY <1>1, <1>5, CountingUpTo
<1>4. Len(rows) \in T BY <1>3, <1>6
<1> QED BY <1>4 DEF T
-----------------------------------------------------------------------------
(* Files of rows, in their order.                                          *)

Ascending(s) == s \in Seq(Nat) /\ \A i, j \in DOMAIN s : i < j => s[i] < s[j]

(* A row after all others can be appended.                                 *)
LEMMA AppendAscends ==
  ASSUME NEW s, Ascending(s), NEW x \in Nat, \A y \in ToSet(s) : y < x
  PROVE  Ascending(Append(s, x)) /\ ToSet(Append(s, x)) = ToSet(s) \cup {x}
<1> DEFINE t == Append(s, x)
<1>1. s \in Seq(Nat) /\ \A i, j \in DOMAIN s : i < j => s[i] < s[j] BY DEF Ascending
<1>2. PICK n \in Nat : n = Len(s) BY <1>1
<1>3. /\ t \in Seq(Nat) /\ DOMAIN t = 1 .. (n + 1) /\ DOMAIN s = 1 .. n
      /\ t[n + 1] = x /\ \A i \in 1 .. n : t[i] = s[i] /\ s[i] \in Nat
  BY <1>1, <1>2
<1> HIDE DEF t
<1>4. \A i \in 1 .. n : s[i] \in ToSet(s) BY <1>3 DEF ToSet
<1>5. ASSUME NEW i \in 1 .. (n + 1), NEW j \in 1 .. (n + 1), i < j PROVE t[i] < t[j]
  <2>1. i \in 1 .. n BY <1>2, <1>5
  <2>2. CASE j = n + 1 BY <1>3, <1>4, <2>1, <2>2
  <2>3. CASE j # n + 1
    <3>1. j \in 1 .. n BY <1>2, <2>3
    <3> QED BY <1>1, <1>3, <1>5, <2>1, <3>1
  <2> QED BY <2>2, <2>3
<1>6. Ascending(t) BY <1>3, <1>5 DEF Ascending
<1>7. ToSet(t) = ToSet(s) \cup {x}
  <2>1. ASSUME NEW y \in ToSet(t) PROVE y \in ToSet(s) \cup {x}
    <3>1. PICK i \in 1 .. (n + 1) : y = t[i] BY <1>3, <2>1 DEF ToSet
    <3>2. CASE i = n + 1 BY <1>3, <3>1, <3>2
    <3>3. CASE i # n + 1
      <4>1. i \in 1 .. n BY <1>2, <3>3
      <4> QED BY <1>3, <1>4, <3>1, <4>1
    <3> QED BY <3>2, <3>3
  <2>2. ASSUME NEW y \in ToSet(s) PROVE y \in ToSet(t)
    <3>1. PICK i \in 1 .. n : y = s[i] BY <1>3, <2>2 DEF ToSet
    <3>2. i \in 1 .. (n + 1) BY <1>2
    <3> QED BY <1>3, <3>1, <3>2 DEF ToSet
  <2>3. x \in ToSet(t)
    <3>1. n + 1 \in 1 .. (n + 1) BY <1>2
    <3> QED BY <1>3, <3>1 DEF ToSet
  <2> QED BY <2>1, <2>2, <2>3
<1> QED BY <1>6, <1>7 DEF t

(* The rows up to some position.                                           *)
UpTo(rows, n) == {rows[i] : i \in 1 .. n}

(* A row is after those before it.                                         *)
LEMMA UpToGrows ==
  ASSUME NEW rows, Ascending(rows), NEW n \in 1 .. Len(rows)
  PROVE  /\ UpTo(rows, n) = UpTo(rows, n - 1) \cup {rows[n]}
         /\ rows[n] \in Nat /\ \A y \in UpTo(rows, n - 1) : y < rows[n]
         /\ UpTo(rows, 0) = {} /\ UpTo(rows, Len(rows)) = ToSet(rows)
<1>1. /\ rows \in Seq(Nat) /\ DOMAIN rows = 1 .. Len(rows) /\ Len(rows) \in Nat
      /\ \A i, j \in 1 .. Len(rows) : i < j => rows[i] < rows[j]
  BY DEF Ascending
<1>2. PICK m \in Nat : m = Len(rows) BY <1>1
<1>3. n \in 1 .. m BY <1>2
<1>4. 1 .. n = 1 .. (n - 1) \cup {n} BY <1>3
<1>5. UpTo(rows, n) = UpTo(rows, n - 1) \cup {rows[n]} BY <1>4 DEF UpTo
<1>6. \A i \in 1 .. (n - 1) : i \in 1 .. m /\ i < n BY <1>3
<1>7. \A y \in UpTo(rows, n - 1) : y < rows[n] BY <1>1, <1>2, <1>3, <1>6 DEF UpTo
<1>8. UpTo(rows, 0) = {} BY DEF UpTo
<1> QED BY <1>1, <1>5, <1>7, <1>8 DEF UpTo, ToSet

(* Only is what its walk ends with.                                        *)
OnlyWalk(k, rows, S) ==
  /\ k[0] = <<>> /\ Only(rows, S) = k[Len(rows)]
  /\ \A n \in 1 .. Len(rows) :
       k[n] = IF rows[n] \in S THEN Append(k[n - 1], rows[n]) ELSE k[n - 1]

(* Such a walk exists.                                                     *)
LEMMA OnlyWalks ==
  ASSUME NEW rows \in Seq(Nat), NEW S
  PROVE  \E k : OnlyWalk(k, rows, S)
<1> DEFINE Is(g) == g = [n \in 0 .. Len(rows) |->
                           IF n = 0 THEN <<>>
                           ELSE IF rows[n] \in S THEN Append(g[n - 1], rows[n]) ELSE g[n - 1]]
           step == [e \in Seq(Nat) \X Nat |-> IF e[2] \in S THEN Append(e[1], e[2]) ELSE e[1]]
           k == CHOOSE g : Is(g)
<1>1. <<>> \in Seq(Nat) OBVIOUS
<1>2. step \in [Seq(Nat) \X Nat -> Seq(Nat)] OBVIOUS
<1>3. \A s \in Seq(Nat), x \in Nat : step[<<s, x>>] = IF x \in S THEN Append(s, x) ELSE s OBVIOUS
<1> HIDE DEF step
<1>4. PICK f \in [0 .. Len(rows) -> Seq(Nat)] : Walk(f, Len(rows), <<>>, step, rows)
  BY <1>1, <1>2, WalksExist
<1>5. PICK m \in Nat : m = Len(rows) OBVIOUS
<1>6. Is(f)
  <2>1. ASSUME NEW n \in 0 .. m, n # 0
        PROVE  step[<<f[n - 1], rows[n]>>]
                 = IF rows[n] \in S THEN Append(f[n - 1], rows[n]) ELSE f[n - 1]
    <3>1. n - 1 \in 0 .. m /\ n \in 1 .. m BY <1>5, <2>1
    <3>2. f[n - 1] \in Seq(Nat) BY <1>4, <1>5, <3>1
    <3>3. rows[n] \in Nat BY <1>5, <3>1, ElementOfSeq
    <3> QED BY <1>3, <3>2, <3>3
  <2> QED BY <1>4, <1>5, <2>1 DEF Walk
<1>7. Is(k)
  <2> HIDE DEF Is
  <2> QED BY <1>6
<1>8. Only(rows, S) = k[Len(rows)] BY DEF Only
<1> HIDE DEF k
<1>9. \A n \in 0 .. m : k[n] = IF n = 0 THEN <<>>
                               ELSE IF rows[n] \in S THEN Append(k[n - 1], rows[n]) ELSE k[n - 1]
  BY <1>5, <1>7
<1> HIDE DEF Is
<1>10. k[0] = <<>> BY <1>9
<1>11. \A n \in 1 .. m : k[n] = IF rows[n] \in S THEN Append(k[n - 1], rows[n]) ELSE k[n - 1]
  BY <1>9
<1> QED BY <1>5, <1>8, <1>10, <1>11 DEF OnlyWalk

(* Only keeps the rows of the set, in their order.                         *)
LEMMA OnlyKeeps ==
  ASSUME NEW rows, Ascending(rows), NEW S
  PROVE  Ascending(Only(rows, S)) /\ ToSet(Only(rows, S)) = ToSet(rows) \cap S
<1>1. rows \in Seq(Nat) BY DEF Ascending
<1>2. PICK k : OnlyWalk(k, rows, S) BY <1>1, OnlyWalks
<1>3. PICK m \in Nat : m = Len(rows) BY <1>1
<1> DEFINE T == {n \in Nat : Ascending(k[n]) /\ ToSet(k[n]) = UpTo(rows, n) \cap S}
<1>4. 0 \in T
  <2>1. Ascending(<<>>) /\ ToSet(<<>>) = {} BY DEF Ascending, ToSet
  <2> QED BY <1>2, <2>1 DEF UpTo, OnlyWalk
<1>5. ASSUME NEW n \in 0 .. m, n \in T, n < m PROVE n + 1 \in T
  <2>1. n + 1 \in 1 .. m /\ (n + 1) - 1 = n BY <1>5
  <2>2. /\ UpTo(rows, n + 1) = UpTo(rows, n) \cup {rows[n + 1]}
        /\ rows[n + 1] \in Nat /\ \A y \in UpTo(rows, n) : y < rows[n + 1]
    BY <1>3, <2>1, UpToGrows
  <2>3. k[n + 1] = IF rows[n + 1] \in S THEN Append(k[n], rows[n + 1]) ELSE k[n]
    BY <1>2, <1>3, <2>1 DEF OnlyWalk
  <2>4. Ascending(k[n]) /\ ToSet(k[n]) = UpTo(rows, n) \cap S BY <1>5
  <2> HIDE DEF T
  <2>5. CASE rows[n + 1] \in S
    <3>1. Ascending(k[n + 1]) /\ ToSet(k[n + 1]) = ToSet(k[n]) \cup {rows[n + 1]}
      BY <2>2, <2>3, <2>4, <2>5, AppendAscends
    <3> QED BY <2>1, <2>2, <2>4, <2>5, <3>1 DEF T
  <2>6. CASE rows[n + 1] \notin S BY <2>1, <2>2, <2>3, <2>4, <2>6 DEF T
  <2> QED BY <2>5, <2>6
<1> HIDE DEF T
<1>6. m \in T BY <1>4, <1>5, CountingUpTo
<1>7. UpTo(rows, m) = ToSet(rows) BY <1>1, <1>3 DEF UpTo, ToSet
<1> QED BY <1>2, <1>3, <1>6, <1>7 DEF T, OnlyWalk

(* So is Deduplicated.                                                     *)
DedupWalk(k, rows) ==
  /\ k[0] = <<>> /\ Deduplicated(rows) = k[Len(rows)]
  /\ \A n \in 1 .. Len(rows) :
       k[n] = IF LikeKept(k[n - 1], rows[n]) THEN k[n - 1] ELSE Append(k[n - 1], rows[n])

(* Such a walk exists.                                                     *)
LEMMA DedupWalks ==
  ASSUME NEW rows \in Seq(Nat)
  PROVE  \E k : DedupWalk(k, rows)
<1> DEFINE Is(g) == g = [n \in 0 .. Len(rows) |->
                           IF n = 0 THEN <<>>
                           ELSE IF LikeKept(g[n - 1], rows[n]) THEN g[n - 1]
                                ELSE Append(g[n - 1], rows[n])]
           step == [e \in Seq(Nat) \X Nat |-> IF LikeKept(e[1], e[2]) THEN e[1] ELSE Append(e[1], e[2])]
           k == CHOOSE g : Is(g)
<1>1. <<>> \in Seq(Nat) OBVIOUS
<1>2. step \in [Seq(Nat) \X Nat -> Seq(Nat)] OBVIOUS
<1>3. \A s \in Seq(Nat), x \in Nat : step[<<s, x>>] = IF LikeKept(s, x) THEN s ELSE Append(s, x) OBVIOUS
<1> HIDE DEF step
<1>4. PICK f \in [0 .. Len(rows) -> Seq(Nat)] : Walk(f, Len(rows), <<>>, step, rows)
  BY <1>1, <1>2, WalksExist
<1>5. PICK m \in Nat : m = Len(rows) OBVIOUS
<1>6. Is(f)
  <2>1. ASSUME NEW n \in 0 .. m, n # 0
        PROVE  step[<<f[n - 1], rows[n]>>]
                 = IF LikeKept(f[n - 1], rows[n]) THEN f[n - 1] ELSE Append(f[n - 1], rows[n])
    <3>1. n - 1 \in 0 .. m /\ n \in 1 .. m BY <1>5, <2>1
    <3>2. f[n - 1] \in Seq(Nat) BY <1>4, <1>5, <3>1
    <3>3. rows[n] \in Nat BY <1>5, <3>1, ElementOfSeq
    <3> QED BY <1>3, <3>2, <3>3
  <2> QED BY <1>4, <1>5, <2>1 DEF Walk
<1>7. Is(k)
  <2> HIDE DEF Is
  <2> QED BY <1>6
<1>8. Deduplicated(rows) = k[Len(rows)] BY DEF Deduplicated
<1> HIDE DEF k
<1>9. \A n \in 0 .. m : k[n] = IF n = 0 THEN <<>>
                               ELSE IF LikeKept(k[n - 1], rows[n]) THEN k[n - 1]
                                    ELSE Append(k[n - 1], rows[n])
  BY <1>5, <1>7
<1> HIDE DEF Is
<1>10. k[0] = <<>> BY <1>9
<1>11. \A n \in 1 .. m : k[n] = IF LikeKept(k[n - 1], rows[n]) THEN k[n - 1]
                                ELSE Append(k[n - 1], rows[n])
  BY <1>9
<1> QED BY <1>5, <1>8, <1>10, <1>11 DEF DedupWalk

(* No two rows that are kept are alike, and a row that is not is like an   *)
(* earlier one that is.                                                    *)
Represented(kept, rows) ==
  /\ \A r, s \in kept : r # s => {r, s} \notin setup.similar
  /\ \A r \in rows \ kept : \E q \in kept : q < r /\ {q, r} \in setup.similar

(* dedup keeps such rows, in their order.                                  *)
LEMMA DedupKeeps ==
  ASSUME NEW rows, Ascending(rows)
  PROVE  /\ Ascending(Deduplicated(rows)) /\ ToSet(Deduplicated(rows)) \subseteq ToSet(rows)
         /\ Represented(ToSet(Deduplicated(rows)), ToSet(rows))
<1>1. rows \in Seq(Nat) BY DEF Ascending
<1>2. PICK k : DedupWalk(k, rows) BY <1>1, DedupWalks
<1>3. PICK m \in Nat : m = Len(rows) BY <1>1
<1> DEFINE T == {n \in Nat : /\ Ascending(k[n]) /\ ToSet(k[n]) \subseteq UpTo(rows, n)
                            /\ Represented(ToSet(k[n]), UpTo(rows, n))}
<1>4. 0 \in T
  <2>1. Ascending(<<>>) /\ ToSet(<<>>) = {} BY DEF Ascending, ToSet
  <2> QED BY <1>2, <2>1 DEF UpTo, DedupWalk, Represented
<1>5. ASSUME NEW n \in 0 .. m, n \in T, n < m PROVE n + 1 \in T
  <2>1. n + 1 \in 1 .. m /\ (n + 1) - 1 = n /\ n + 1 \in Nat BY <1>5
  <2>2. PICK x \in Nat : x = rows[n + 1] BY <1>3, <2>1, UpToGrows
  <2>3. PICK before, kept : before = UpTo(rows, n) /\ kept = ToSet(k[n]) OBVIOUS
  <2>4. UpTo(rows, n + 1) = before \cup {x} /\ \A y \in before : y < x
    BY <1>3, <2>1, <2>2, <2>3, UpToGrows
  <2>5. k[n + 1] = IF LikeKept(k[n], x) THEN k[n] ELSE Append(k[n], x)
    BY <1>2, <1>3, <2>1, <2>2 DEF DedupWalk
  <2>6. Ascending(k[n]) /\ kept \subseteq before /\ Represented(kept, before) BY <1>5, <2>3
  <2> HIDE DEF T
  <2>7. CASE LikeKept(k[n], x)
    <3>1. PICK q \in kept : {q, x} \in setup.similar BY <2>3, <2>7 DEF LikeKept
    <3>2. q < x BY <2>4, <2>6
    <3>3. Represented(kept, before \cup {x}) BY <2>6, <3>1, <3>2 DEF Represented
    <3> QED BY <2>1, <2>3, <2>4, <2>5, <2>6, <2>7, <3>3 DEF T
  <2>8. CASE ~ LikeKept(k[n], x)
    <3>1. \A q \in kept : {q, x} \notin setup.similar BY <2>3, <2>8 DEF LikeKept
    <3>2. Ascending(k[n + 1]) /\ ToSet(k[n + 1]) = kept \cup {x}
      BY <2>2, <2>3, <2>4, <2>5, <2>6, <2>8, AppendAscends
    <3>3. \A q \in kept : {x, q} = {q, x} OBVIOUS
    <3>4. \A r, s \in kept \cup {x} : r # s => {r, s} \notin setup.similar
      BY <2>6, <3>1, <3>3 DEF Represented
    <3>5. Represented(kept \cup {x}, before \cup {x}) BY <2>6, <3>4 DEF Represented
    <3> QED BY <2>1, <2>4, <2>6, <3>2, <3>5 DEF T
  <2> QED BY <2>7, <2>8
<1> HIDE DEF T
<1>6. m \in T BY <1>4, <1>5, CountingUpTo
<1>7. UpTo(rows, m) = ToSet(rows) BY <1>1, <1>3 DEF UpTo, ToSet
<1> QED BY <1>2, <1>3, <1>6, <1>7 DEF T, DedupWalk

-----------------------------------------------------------------------------
(* How often a row is in a sequence: a number, and 0 if it is not in it.   *)
LEMMA TimesIsNat ==
  ASSUME NEW s \in Seq(Int), NEW r
  PROVE  /\ Times(r, s) \in Nat /\ IsFiniteSet({i \in DOMAIN s : s[i] = r})
         /\ r \notin ToSet(s) => Times(r, s) = 0
<1> DEFINE I == {i \in DOMAIN s : s[i] = r}
<1>1. IsFiniteSet(1 .. Len(s)) BY FS_Interval
<1>2. I \in SUBSET (1 .. Len(s)) OBVIOUS
<1>3. IsFiniteSet(I) BY <1>1, <1>2, FS_Subset
<1>4. r \notin ToSet(s) => I = {} BY DEF ToSet
<1> HIDE DEF I
<1>5. Cardinality(I) \in Nat BY <1>3, FS_CardinalityType
<1>6. r \notin ToSet(s) => Cardinality(I) = 0 BY <1>4, FS_EmptySet
<1> QED BY <1>3, <1>5, <1>6 DEF Times, I

(* Rows in their order have no row twice.                                  *)
LEMMA TimesAscending ==
  ASSUME NEW s, Ascending(s), NEW r
  PROVE  Times(r, s) = IF r \in ToSet(s) THEN 1 ELSE 0
<1>1. s \in Seq(Nat) /\ DOMAIN s \subseteq Nat /\ \A i, j \in DOMAIN s : i < j => s[i] < s[j]
  BY DEF Ascending
<1>2. s \in Seq(Int) BY <1>1
<1>3. ASSUME r \in ToSet(s) PROVE Times(r, s) = 1
  <2>1. PICK i \in DOMAIN s : s[i] = r BY <1>3 DEF ToSet
  <2>2. \A j \in DOMAIN s : s[j] \in Nat BY <1>1
  <2>3. \A j \in DOMAIN s : s[j] = r => j = i
    <3> SUFFICES ASSUME NEW j \in DOMAIN s, s[j] = r, j # i PROVE FALSE OBVIOUS
    <3>1. i \in Nat /\ j \in Nat BY <1>1
    <3>2. i < j \/ j < i BY <3>1
    <3>3. s[i] < s[j] \/ s[j] < s[i] BY <1>1, <3>2
    <3> QED BY <2>1, <2>2, <3>3
  <2>4. {j \in DOMAIN s : s[j] = r} = {i} BY <2>1, <2>3
  <2> QED BY <2>4, FS_Singleton DEF Times
<1> QED BY <1>2, <1>3, TimesIsNat

(* Of two sequences, one after the other, the sum.                         *)
LEMMA TimesConcatenated ==
  ASSUME NEW s \in Seq(Int), NEW t \in Seq(Int), NEW r
  PROVE  Times(r, s \o t) = Times(r, s) + Times(r, t)
<1> DEFINE u == s \o t
           I == {i \in DOMAIN s : s[i] = r}
           J == {i \in DOMAIN t : t[i] = r}
           K == {i \in DOMAIN u : u[i] = r}
<1>1. PICK m \in Nat, n \in Nat : m = Len(s) /\ n = Len(t) OBVIOUS
<1>2. DOMAIN s = 1 .. m /\ DOMAIN t = 1 .. n /\ DOMAIN u = 1 .. (m + n) BY <1>1, ConcatProperties
<1>3. /\ \A i \in 1 .. m : u[i] = s[i]
      /\ \A i \in 1 .. n : u[m + i] = t[i]
  BY <1>1, ConcatProperties
<1>4. IsFiniteSet(I) /\ IsFiniteSet(J) BY TimesIsNat
<1> HIDE DEF u
<1> DEFINE shifted == {m + i : i \in J}
           shift == [i \in J |-> m + i]
<1>5. K = I \cup shifted
  <2>1. ASSUME NEW i \in K PROVE i \in I \cup shifted
    <3>1. i \in 1 .. (m + n) /\ u[i] = r BY <1>2, <2>1
    <3>2. CASE i \in 1 .. m BY <1>2, <1>3, <3>1, <3>2
    <3>3. CASE i \notin 1 .. m
      <4>1. i - m \in 1 .. n /\ i = m + (i - m) BY <1>1, <3>1, <3>3
      <4>2. i - m \in J BY <1>2, <1>3, <3>1, <4>1
      <4> QED BY <4>1, <4>2
    <3> QED BY <3>2, <3>3
  <2>2. ASSUME NEW i \in I PROVE i \in K BY <1>1, <1>2, <1>3, <2>2
  <2>3. ASSUME NEW i \in J PROVE m + i \in K
    <3>1. i \in 1 .. n /\ t[i] = r /\ m + i \in 1 .. (m + n) BY <1>1, <1>2, <2>3
    <3>2. u[m + i] = r BY <1>3, <3>1
    <3> QED BY <1>2, <3>1, <3>2
  <2> QED BY <2>1, <2>2, <2>3
<1>6. I \cap shifted = {} BY <1>1, <1>2
<1>7. shift \in Bijection(J, shifted)
  <2>1. \A i \in J : i \in Nat BY <1>2
  <2>2. shift \in [J -> shifted] OBVIOUS
  <2>3. \A i, j \in J : shift[i] = shift[j] => i = j BY <1>1, <2>1
  <2>4. \A k \in shifted : \E i \in J : shift[i] = k OBVIOUS
  <2> HIDE DEF shift, shifted, J
  <2> QED BY <2>2, <2>3, <2>4 DEF Bijection, Injection, Surjection, IsInjective
<1> HIDE DEF I, J, K, shifted, shift
<1>8. IsFiniteSet(shifted) /\ Cardinality(shifted) = Cardinality(J)
  BY <1>4, <1>7, FS_Bijection DEF ExistsBijection
<1>9. Cardinality(K) = Cardinality(I) + Cardinality(shifted) - Cardinality(I \cap shifted)
  BY <1>4, <1>5, <1>8, FS_Union
<1>10. Cardinality(I) \in Nat /\ Cardinality(J) \in Nat /\ Cardinality(I \cap shifted) = 0
  BY <1>4, <1>6, FS_EmptySet, FS_CardinalityType
<1>11. Times(r, s) = Cardinality(I) BY DEF Times, I
<1>12. Times(r, t) = Cardinality(J) BY DEF Times, J
<1>13. Times(r, u) = Cardinality(K) BY DEF Times, K
<1> QED BY <1>8, <1>9, <1>10, <1>11, <1>12, <1>13 DEF u

(* What is in two sequences is in both of them, one after the other.       *)
LEMMA ToSetConcatenated ==
  ASSUME NEW s \in Seq(Int), NEW t \in Seq(Int)
  PROVE  s \o t \in Seq(Int) /\ ToSet(s \o t) = ToSet(s) \cup ToSet(t)
<1>1. PICK m \in Nat, n \in Nat : m = Len(s) /\ n = Len(t) OBVIOUS
<1> DEFINE u == s \o t
<1>2. /\ u \in Seq(Int) /\ DOMAIN s = 1 .. m /\ DOMAIN t = 1 .. n /\ DOMAIN u = 1 .. (m + n)
      /\ \A i \in 1 .. m : u[i] = s[i]
      /\ \A i \in 1 .. n : u[m + i] = t[i]
  BY <1>1, ConcatProperties
<1> HIDE DEF u
<1>3. ASSUME NEW i \in 1 .. (m + n) PROVE u[i] \in ToSet(s) \cup ToSet(t)
  <2>1. CASE i \in 1 .. m BY <1>2, <2>1 DEF ToSet
  <2>2. CASE i \notin 1 .. m
    <3>1. i - m \in 1 .. n /\ m + (i - m) = i BY <1>1, <1>3, <2>2
    <3> QED BY <1>2, <3>1 DEF ToSet
  <2> QED BY <2>1, <2>2
<1>4. ASSUME NEW i \in 1 .. m PROVE s[i] \in ToSet(u)
  <2>1. i \in 1 .. (m + n) BY <1>1, <1>4
  <2> QED BY <1>2, <1>4, <2>1 DEF ToSet
<1>5. ASSUME NEW i \in 1 .. n PROVE t[i] \in ToSet(u)
  <2>1. m + i \in 1 .. (m + n) BY <1>1, <1>5
  <2> QED BY <1>2, <1>5, <2>1 DEF ToSet
<1>6. ToSet(u) = ToSet(s) \cup ToSet(t)
  <2>1. ToSet(u) \subseteq ToSet(s) \cup ToSet(t) BY <1>2, <1>3 DEF ToSet
  <2>2. ToSet(s) \subseteq ToSet(u)
    <3>1. \A x \in ToSet(s) : \E i \in 1 .. m : x = s[i] BY <1>2 DEF ToSet
    <3> QED BY <1>4, <3>1
  <2>3. ToSet(t) \subseteq ToSet(u)
    <3>1. \A x \in ToSet(t) : \E i \in 1 .. n : x = t[i] BY <1>2 DEF ToSet
    <3> QED BY <1>5, <3>1
  <2> QED BY <2>1, <2>2, <2>3
<1> QED BY <1>2, <1>6 DEF u

-----------------------------------------------------------------------------
(* The inductive invariant of sharded runs.                                *)

Dropping == {"score", "filter-ppl", "dedup"}
Repeating == Rewriters \cup {"scrub", "classify"}
Merging == {"merge", "quarantine", "summary", "merged"}
OutputOf(p) == <<"out", p>>

(* Rows are placed one after the other; a file that was opened has those   *)
(* placed in it, in their order, and one that never is what was there.     *)
Placed(p) == {r \in 1 .. (at - 1) : PlaceOf(r) = p}
PartitionsOK ==
  /\ phase = "new" => at = 1 /\ part = Absent
  /\ phase # "new" => setup \in Configurations /\ at <= Len(setup.labels) + 1
  /\ phase \notin {"new", "shard"} => at = Len(setup.labels) + 1
  /\ phase \in {"new", "shard", "failed"} =>
       worker = [p \in Parts |-> "idle"] /\ rej = Absent /\ rep = Absent
  /\ at \in Nat \ {0} /\ opened = {PlaceOf(r) : r \in 1 .. (at - 1)}
  /\ DOMAIN part = Parts
  /\ \A p \in opened : Ascending(part[p]) /\ ToSet(part[p]) = Placed(p)
  /\ phase # "new" => \A p \in Parts \ {PlaceOf(r) : r \in Rows} : part[p] \in {None, <<0>>}

(* What a command has written so far, of rows of its partition.            *)
Accepted(p) == Ascending(out[p]) /\ ToSet(out[p]) \subseteq ToSet(part[p])
Rejected(p) == Ascending(rej[p]) /\ ToSet(rej[p]) = ToSet(part[p]) \ ToSet(out[p])
(* What augment makes of rows: each once, or not at all if it has no word  *)
(* or another row or a variation says the same.                            *)
AugmentedFrom(rows, file) ==
  /\ file \in Seq(Int)
  /\ \A x \in ToSet(file) : x \in ToSet(rows) \/ - x \in ToSet(rows)
  /\ \A r \in ToSet(rows) \ {0} :
       IF r \in ToSet(file) THEN Times(r, file) = 1
       ELSE \/ r \in setup.blank
            \/ \E q \in ToSet(rows) : q < r /\ ({q, r} \in setup.similar \/ - q \in ToSet(file))
OptimizedOK(p) ==
  /\ worker[p] \in {"accepted", "rejected", "done"} => Accepted(p)
  /\ worker[p] \in {"rejected", "done"} => Rejected(p)
  /\ worker[p] = "done" => rep[p] = Len(rej[p])
  /\ worker[p] # "writing"
OthersOK(p) ==
  /\ worker[p] \notin {"accepted", "rejected"} /\ rej[p] = None /\ rep[p] = None
  /\ worker[p] = "done" =>
       /\ setup.command \in Repeating => out[p] = part[p]
       /\ setup.command \in Dropping => Accepted(p)
       /\ setup.command = "augment" => AugmentedFrom(part[p], out[p])
       /\ setup.command = "dedup" => Represented(ToSet(out[p]), ToSet(part[p]))
FilesOK(p) ==
  /\ worker[p] \notin {"idle", "failed", "running"} => part[p] # None
  /\ phase # "new" => IF setup.command = "optimize" THEN OptimizedOK(p) ELSE OthersOK(p)

CommandsOK ==
  /\ DOMAIN worker = Parts /\ DOMAIN out = Parts /\ DOMAIN rej = Parts /\ DOMAIN rep = Parts
  /\ \A p \in Parts : FilesOK(p)
  /\ phase \in Merging => \A p \in Given : worker[p] = "done"

(* What merge has in memory: a row once when its partition was read.       *)
MergedRow(r) ==
  LET times == Times(r, merging.items) + Times(r, merging.rejected) IN
  IF OutputOf(PlaceOf(r)) \in merging.todo
    THEN times = 0
    ELSE times = 1 \/ (times = 0 /\ MayDrop(r, merging.items))
MemoryOK ==
  /\ DOMAIN merging = DOMAIN NoMerge
  /\ merging.todo \subseteq {OutputOf(p) : p \in Given}
  /\ merging.items \in Seq(Int) /\ merging.rejected \in Seq(Nat)
  /\ merging.reasons = Len(merging.rejected)
  /\ \A x \in ToSet(merging.items) : x \in Known \/ - x \in Known
  /\ ToSet(merging.rejected) \subseteq Known
  /\ \A r \in Rows : MergedRow(r)
MergeOK ==
  /\ phase \in Merging => MemoryOK
  /\ phase \in Merging \ {"merge"} => final = merging.items /\ merging.todo = {}
  /\ phase \in {"summary", "merged"} => merging.rejected = <<>> \/ finalRej = merging.rejected
  /\ phase = "merged" => finalRep = [accepted |-> Len(merging.items), rejected |-> Len(merging.rejected),
                                     reasons |-> merging.reasons]

ShardInv == PartitionsOK /\ CommandsOK /\ (~ Globbing => MergeOK)

-----------------------------------------------------------------------------
(* Where rows are placed.                                                  *)

(* A set-up has as many parts as it asks for, and rows are numbers.        *)
LEMMA SetupFacts ==
  ASSUME NEW s \in Configurations
  PROVE  /\ s.parts \in Nat \ {0} /\ 1 .. s.parts \subseteq Parts /\ s.command \in Commands
         /\ Len(s.labels) \in Nat /\ DOMAIN s.labels = 1 .. Len(s.labels)
         /\ s.labels = <<>> <=> Len(s.labels) = 0
<1>1. s \in Setups BY ConfigurationsAssumption
<1>2. s.parts \in Parts /\ s.command \in Commands BY <1>1 DEF Setups
<1>3. s.labels \in UNION {[1..k -> Classes \cup {None}] : k \in 0..MaxRows} BY <1>1 DEF Setups
<1>4. PICK k \in 0 .. MaxRows : s.labels \in [1 .. k -> Classes \cup {None}] BY <1>3
<1>5. k \in Nat BY <1>4, ShardsAssumption
<1>6. s.labels \in Seq(Classes \cup {None}) BY <1>4, <1>5, IsASeq
<1>7. MaxParts \in Nat BY ShardsAssumption
<1> QED BY <1>2, <1>6, <1>7 DEF Parts

(* Every row is placed in one of the partitions asked for.                 *)
LEMMA Placing ==
  ASSUME setup \in Configurations, NEW r \in Nat
  PROVE  PlaceOf(r) \in 1 .. setup.parts /\ PlaceOf(r) \in Parts
<1>1. Alike(r) \in SUBSET (1 .. (r - 1)) BY DEF Alike
<1>2. IsFiniteSet(1 .. (r - 1)) BY FS_Interval
<1>3. Cardinality(Alike(r)) \in Nat BY <1>1, <1>2, FS_Subset, FS_CardinalityType
<1>4. setup.parts \in Nat \ {0} /\ 1 .. setup.parts \subseteq Parts BY SetupFacts
<1>5. PICK c \in Nat, k \in Nat \ {0} : c = Cardinality(Alike(r)) /\ k = setup.parts BY <1>3, <1>4
<1>6. c % k \in 0 .. (k - 1) BY <1>5
<1>7. PlaceOf(r) = (c % k) + 1 BY <1>5 DEF PlaceOf
<1> QED BY <1>4, <1>5, <1>6, <1>7

(* Rows of a class, or without one.                                        *)
Akin(r, q) == IF Stratified(r) THEN setup.labels[q] = setup.labels[r] ELSE ~ Stratified(q)

(* Which rows are of the class of a row is the same for each of the class. *)
LEMMA AkinIsEquivalence ==
  ASSUME NEW r, NEW q, Akin(r, q), NEW x
  PROVE  Akin(q, x) <=> Akin(r, x)
BY DEF Akin, Stratified

(* The next row after Q rows in each part and one more in the first t goes *)
(* into part t + 1.                                                        *)
LEMMA Remainder ==
  ASSUME NEW Q \in Nat, NEW k \in Nat \ {0}, NEW t \in 0 .. (k - 1)
  PROVE  /\ (Q * k + t) % k = t
         /\ (t = k - 1) => (Q * k + t + 1 = (Q + 1) * k + 0)
<1>1. t \in Nat /\ t < k OBVIOUS
<1>2. (Q * k + t) % k = t BY <1>1
<1>3. (Q + 1) * k = Q * k + k OBVIOUS
<1>4. Q * k \in Nat /\ (Q + 1) * k \in Nat OBVIOUS
<1> QED BY <1>1, <1>2, <1>3, <1>4

(* partition_dataset deals the rows of a class out to the parts.           *)
Among(r, n) == {q \in 1 .. n : Akin(r, q)}
AmongIn(r, n, p) == {q \in Among(r, n) : PlaceOf(q) = p}
Dealt(r, n, Q, t) ==
  /\ Cardinality(Among(r, n)) = Q * setup.parts + t
  /\ \A p \in 1 .. setup.parts :
       Cardinality(AmongIn(r, n, p)) = IF p <= t THEN Q + 1 ELSE Q

(* After each row of the dataset, each partition has as many rows of a     *)
(* class as any other, or one more or less.                                *)
LEMMA Dealing ==
  ASSUME setup \in Configurations, NEW r, NEW n \in Nat
  PROVE  \E Q \in Nat, t \in 0 .. (setup.parts - 1) : Dealt(r, n, Q, t)
<1>1. PICK k \in Nat \ {0} : k = setup.parts BY SetupFacts
<1> DEFINE T == {m \in Nat : \E Q \in Nat, t \in 0 .. (k - 1) : Dealt(r, m, Q, t)}
<1>2. 0 \in T
  <2>1. Among(r, 0) = {} /\ \A p : AmongIn(r, 0, p) = {} BY DEF Among, AmongIn
  <2>2. 0 * k + 0 = 0 /\ \A p \in 1 .. k : ~ (p <= 0) OBVIOUS
  <2>3. Cardinality(Among(r, 0)) = 0 /\ \A p : Cardinality(AmongIn(r, 0, p)) = 0
    BY <2>1, FS_EmptySet
  <2>4. Dealt(r, 0, 0, 0) BY <1>1, <2>2, <2>3 DEF Dealt
  <2> QED BY <2>4
<1>3. ASSUME NEW m \in T PROVE m + 1 \in T
  <2>1. PICK Q \in Nat, t \in 0 .. (k - 1) : Dealt(r, m, Q, t) BY <1>3
  <2>2. m \in Nat BY <1>3
  <2>3. IsFiniteSet(1 .. m) BY <2>2, FS_Interval
  <2>4. IsFiniteSet(Among(r, m)) /\ \A p : IsFiniteSet(AmongIn(r, m, p))
    <3>1. Among(r, m) \in SUBSET (1 .. m) /\ \A p : AmongIn(r, m, p) \in SUBSET (1 .. m)
      BY DEF Among, AmongIn
    <3> QED BY <2>3, <3>1, FS_Subset
  <2>5. 1 .. (m + 1) = (1 .. m) \cup {m + 1} /\ m + 1 \notin 1 .. m BY <2>2
  <2> HIDE DEF T
  <2>6. CASE ~ Akin(r, m + 1)
    <3>1. Among(r, m + 1) = Among(r, m) BY <2>5, <2>6 DEF Among
    <3>2. \A p : AmongIn(r, m + 1, p) = AmongIn(r, m, p) BY <3>1 DEF AmongIn
    <3>3. Dealt(r, m + 1, Q, t) BY <2>1, <3>1, <3>2 DEF Dealt
    <3> QED BY <2>2, <3>3 DEF T
  <2>7. CASE Akin(r, m + 1)
    <3>1. Among(r, m + 1) = Among(r, m) \cup {m + 1} BY <2>5, <2>7 DEF Among
    <3>2. m + 1 \notin Among(r, m) BY <2>5 DEF Among
    <3>3. Cardinality(Among(r, m)) = Q * k + t BY <1>1, <2>1 DEF Dealt
    <3>4. Cardinality(Among(r, m + 1)) = Q * k + t + 1 BY <2>4, <3>1, <3>2, <3>3, FS_AddElement
    <3>5. PlaceOf(m + 1) = t + 1
      <4>1. (m + 1) - 1 = m BY <2>2
      <4>2. Alike(m + 1) = {q \in 1 .. m : Akin(m + 1, q)} BY <4>1 DEF Alike, Akin
      <4>3. Alike(m + 1) = Among(r, m) BY <2>7, <4>2, AkinIsEquivalence DEF Among
      <4>4. (Q * k + t) % k = t BY Remainder
      <4> QED BY <1>1, <3>3, <4>3, <4>4 DEF PlaceOf
    <3>6. ASSUME NEW p \in 1 .. k
          PROVE  Cardinality(AmongIn(r, m + 1, p)) = IF p <= t + 1 THEN Q + 1 ELSE Q
      <4>1. Cardinality(AmongIn(r, m, p)) = IF p <= t THEN Q + 1 ELSE Q BY <1>1, <2>1 DEF Dealt
      <4>2. CASE p = t + 1
        <5>1. AmongIn(r, m + 1, p) = AmongIn(r, m, p) \cup {m + 1} BY <3>1, <3>5, <4>2 DEF AmongIn
        <5>2. m + 1 \notin AmongIn(r, m, p) BY <3>2 DEF AmongIn
        <5>3. Cardinality(AmongIn(r, m + 1, p)) = Cardinality(AmongIn(r, m, p)) + 1
          BY <2>4, <5>1, <5>2, FS_AddElement
        <5>4. ~ (p <= t) BY <4>2
        <5> QED BY <4>1, <4>2, <5>3, <5>4
      <4>3. CASE p # t + 1
        <5>1. AmongIn(r, m + 1, p) = AmongIn(r, m, p) BY <3>1, <3>5, <4>3 DEF AmongIn
        <5>2. p <= t + 1 <=> p <= t BY <4>3
        <5> QED BY <4>1, <5>1, <5>2
      <4> QED BY <4>2, <4>3
    <3>7. CASE t = k - 1
      <4>1. Q * k + t + 1 = (Q + 1) * k + 0 BY <3>7, Remainder
      <4>2. \A p \in 1 .. k : p <= t + 1 /\ ~ (p <= 0) BY <3>7
      <4>3. Dealt(r, m + 1, Q + 1, 0) BY <1>1, <3>4, <3>6, <4>1, <4>2 DEF Dealt
      <4>4. Q + 1 \in Nat /\ 0 \in 0 .. (k - 1) BY <1>1
      <4> QED BY <2>2, <4>3, <4>4 DEF T
    <3>8. CASE t # k - 1
      <4>1. t + 1 \in 0 .. (k - 1) BY <1>1, <3>8
      <4>2. Q * k \in Nat OBVIOUS
      <4>3. Cardinality(Among(r, m + 1)) = Q * k + (t + 1) BY <3>4, <4>2
      <4>4. Dealt(r, m + 1, Q, t + 1) BY <1>1, <3>6, <4>3 DEF Dealt
      <4> QED BY <2>2, <4>1, <4>4 DEF T
    <3> QED BY <3>7, <3>8
  <2> QED BY <2>6, <2>7
<1>4. T \in SUBSET Nat OBVIOUS
<1> HIDE DEF T
<1>5. T = Nat BY <1>2, <1>3, <1>4, Counting
<1>6. n \in T BY <1>5
<1> QED BY <1>1, <1>6 DEF T

-----------------------------------------------------------------------------
(* What does not change.                                                   *)

(* A set-up that stays places rows where it did.                           *)
LEMMA SetupStays ==
  ASSUME setup' = setup
  PROVE  /\ \A r : PlaceOf(r)' = PlaceOf(r)
         /\ \A k, s : Represented(k, s)' = Represented(k, s)
         /\ \A k, s : AugmentedFrom(k, s)' = AugmentedFrom(k, s)
         /\ \A r, s : MayDrop(r, s)' = MayDrop(r, s)
         /\ Rows' = Rows
BY DEF PlaceOf, Alike, Stratified, Represented, AugmentedFrom, MayDrop, Rows

(* The partitions that commands are given stay, if what they are named     *)
(* after does.                                                             *)
LEMMA GivenStays ==
  ASSUME UNCHANGED <<setup, opened, part>> PROVE Given' = Given /\ Known' = Known
BY DEF Given, Known, Rows

(* Once they are made, the partitions stay.                                *)
LEMMA PartitionsStay ==
  ASSUME PartitionsOK, UNCHANGED <<setup, at, opened, part>>,
         phase \notin {"new", "shard"}, phase' \notin {"new", "shard", "failed"}
  PROVE  PartitionsOK'
<1>1. \A r : PlaceOf(r)' = PlaceOf(r) BY SetupStays
<1>2. \A p : Placed(p)' = Placed(p) BY <1>1 DEF Placed
<1>3. {PlaceOf(r) : r \in 1 .. (at - 1)}' = {PlaceOf(r) : r \in 1 .. (at - 1)} BY <1>1
<1>4. {PlaceOf(r) : r \in Rows}' = {PlaceOf(r) : r \in Rows} BY <1>1, SetupStays
<1> QED BY <1>2, <1>3, <1>4 DEF PartitionsOK

(* So does what a command wrote of one that it leaves alone.               *)
LEMMA FilesStay ==
  ASSUME NEW p, FilesOK(p), phase # "new", setup' = setup,
         UNCHANGED <<part[p], worker[p], out[p], rej[p], rep[p]>>
  PROVE  FilesOK(p)'
BY SetupStays DEF FilesOK, OptimizedOK, OthersOK, Accepted, Rejected

(* A step of one command.                                                  *)
LEMMA CommandStep ==
  ASSUME ShardInv, phase = "work", Working, NEW p \in Parts, FilesOK(p)',
         DOMAIN worker' = Parts, DOMAIN out' = Parts, DOMAIN rej' = Parts, DOMAIN rep' = Parts,
         \A q \in Parts \ {p} : UNCHANGED <<worker[q], out[q], rej[q], rep[q]>>
  PROVE  ShardInv'
<1>1. phase' = "work" /\ UNCHANGED <<setup, at, opened, part>> BY DEF Working
<1>2. PartitionsOK' BY <1>1, PartitionsStay DEF ShardInv
<1>3. \A q \in Parts : FilesOK(q)'
  <2>1. ASSUME NEW q \in Parts, q # p PROVE FilesOK(q)'
    <3>1. UNCHANGED <<worker[q], out[q], rej[q], rep[q], part[q]>> BY <1>1, <2>1
    <3> QED BY <1>1, <3>1, FilesStay DEF ShardInv, CommandsOK
  <2> QED BY <2>1
<1>4. CommandsOK' BY <1>1, <1>3 DEF CommandsOK, Merging
<1>5. MergeOK' BY <1>1 DEF MergeOK, Merging
<1> QED BY <1>2, <1>4, <1>5 DEF ShardInv

-----------------------------------------------------------------------------
(* partition_dataset: at first there is nothing of the dataset.            *)
LEMMA ShardsBegin == ShardsInit => ShardInv
<1> SUFFICES ASSUME ShardsInit PROVE ShardInv OBVIOUS
<1> USE DEF ShardsInit, Absent
<1>1. {PlaceOf(r) : r \in 1 .. (at - 1)} = {} OBVIOUS
<1>2. PartitionsOK BY <1>1 DEF PartitionsOK
<1>3. CommandsOK BY DEF CommandsOK, FilesOK, Merging
<1>4. MergeOK BY DEF MergeOK, Merging
<1> QED BY <1>2, <1>3, <1>4 DEF ShardInv

(* Before the commands there is nothing of theirs.                         *)
LEMMA NothingWritten ==
  ASSUME worker' = [p \in Parts |-> "idle"], rej' = Absent, rep' = Absent, DOMAIN out' = Parts,
         phase' \notin Merging
  PROVE  CommandsOK' /\ MergeOK'
<1>1. \A p \in Parts : worker'[p] = "idle" /\ rej'[p] = None /\ rep'[p] = None BY DEF Absent
<1>2. \A p \in Parts : FilesOK(p)' BY <1>1 DEF FilesOK, OptimizedOK, OthersOK
<1> QED BY <1>2 DEF CommandsOK, MergeOK, Merging, Absent

(* What an earlier dataset left counts for nothing.                        *)
LEMMA ChooseKeeps ==
  ASSUME ShardInv, phase = "new", NEW s \in Configurations, Choose(s) PROVE ShardInv'
<1>1. /\ setup' = s /\ phase' = "shard" /\ at' = 1 /\ opened' = {} /\ DOMAIN part' = Parts
      /\ \A p \in Parts : part'[p] \in {None, <<0>>}
      /\ worker' = [p \in Parts |-> "idle"] /\ rej' = Absent /\ rep' = Absent /\ DOMAIN out' = Parts
  <2>1. at = 1 /\ part = Absent /\ opened = {}
    <3>1. at = 1 /\ part = Absent BY DEF ShardInv, PartitionsOK
    <3> QED BY <3>1 DEF ShardInv, PartitionsOK
  <2>2. worker = [p \in Parts |-> "idle"] /\ rej = Absent /\ rep = Absent /\ DOMAIN out = Parts
    BY DEF ShardInv, PartitionsOK, CommandsOK
  <2>3. \/ part' = [p \in Parts |-> <<0>>]
        \/ part' = Absent
    BY <2>1 DEF Choose
  <2>4. DOMAIN part' = Parts /\ \A p \in Parts : part'[p] \in {None, <<0>>} BY <2>3 DEF Absent
  <2> QED BY <2>1, <2>2, <2>4 DEF Choose, workVars
<1>2. Len(s.labels) \in Nat BY SetupFacts
<1>3. {PlaceOf(r) : r \in 1 .. (at - 1)}' = {} BY <1>1
<1>4. PartitionsOK' BY <1>1, <1>2, <1>3 DEF PartitionsOK
<1> QED BY <1>1, <1>4, NothingWritten DEF Merging, ShardInv

(* A row is appended to the partition it is placed in.                     *)
LEMMA ShardRowKeeps ==
  ASSUME ShardInv, ShardRow PROVE ShardInv'
<1>0. setup \in Configurations /\ at \in Nat
  BY DEF ShardRow, ShardInv, PartitionsOK
<1>3. PICK p \in Parts : p = PlaceOf(at) BY <1>0, Placing
<1>1. /\ phase = "shard" /\ at <= Len(setup.labels) /\ at' = at + 1 /\ opened' = opened \cup {p}
      /\ part' = [part EXCEPT ![p] = Append(IF p \in opened THEN part[p] ELSE <<>>, at)]
      /\ UNCHANGED <<setup, phase, worker, out, rej, rep>>
  BY <1>3 DEF ShardRow, Truncated, workVars
<1>2. /\ setup \in Configurations /\ at \in Nat \ {0} /\ DOMAIN part = Parts
      /\ opened = {PlaceOf(r) : r \in 1 .. (at - 1)}
      /\ \A q \in opened : Ascending(part[q]) /\ ToSet(part[q]) = Placed(q)
  BY <1>1 DEF ShardInv, PartitionsOK
<1>4. \A r : PlaceOf(r)' = PlaceOf(r) BY <1>1, SetupStays
<1>5. at' - 1 = at /\ 1 .. at = (1 .. (at - 1)) \cup {at} BY <1>1, <1>2
<1>6. opened' = {PlaceOf(r) : r \in 1 .. (at - 1)}'
  <2>1. opened' = {PlaceOf(r) : r \in 1 .. at} BY <1>1, <1>2, <1>3, <1>5
  <2> QED BY <1>4, <1>5, <2>1
<1>7. \A q : Placed(q)' = {r \in 1 .. at : PlaceOf(r) = q} BY <1>4, <1>5 DEF Placed
<1> DEFINE s == IF p \in opened THEN part[p] ELSE <<>>
<1>8. Ascending(s) /\ ToSet(s) = Placed(p)
  <2>1. CASE p \in opened BY <1>2, <2>1
  <2>2. CASE p \notin opened
    <3>1. Placed(p) = {} BY <1>2, <2>2 DEF Placed
    <3> QED BY <2>2, <3>1 DEF Ascending, ToSet
  <2> QED BY <2>1, <2>2
<1>9. \A y \in Placed(p) : y < at BY <1>2 DEF Placed
<1>10. part'[p] = Append(s, at) /\ DOMAIN part' = Parts BY <1>1, <1>2, <1>3
<1>11. Placed(p)' = Placed(p) \cup {at} BY <1>3, <1>5, <1>7 DEF Placed
<1>12. \A q : q # p => Placed(q)' = Placed(q) BY <1>3, <1>5, <1>7 DEF Placed
<1> HIDE DEF s
<1>13. Ascending(part'[p]) /\ ToSet(part'[p]) = Placed(p)' BY <1>2, <1>8, <1>9, <1>10, <1>11, AppendAscends
<1>14. ASSUME NEW q \in opened', q # p PROVE Ascending(part'[q]) /\ ToSet(part'[q]) = Placed(q)'
  <2>1. q \in opened /\ part'[q] = part[q]
    <3>1. q \in Parts BY <1>1, <1>2, <1>14, Placing
    <3> QED BY <1>1, <1>2, <1>14, <3>1
  <2> QED BY <1>2, <1>12, <1>14, <2>1
<1>15. ASSUME NEW q \in opened' PROVE Ascending(part'[q]) /\ ToSet(part'[q]) = Placed(q)'
  <2>1. CASE q = p BY <1>13, <2>1
  <2>2. CASE q # p BY <1>14, <2>2
  <2> QED BY <2>1, <2>2
<1>18. \A q \in Parts \ {PlaceOf(x) : x \in Rows}' : part'[q] \in {None, <<0>>}
  <2>1. at \in Rows
    <3>1. DOMAIN setup.labels = 1 .. Len(setup.labels) /\ Len(setup.labels) \in Nat BY <1>2, SetupFacts
    <3> QED BY <1>1, <1>2, <3>1 DEF Rows
  <2>2. {PlaceOf(x) : x \in Rows}' = {PlaceOf(x) : x \in Rows} BY <1>1, <1>4, SetupStays
  <2>3. ASSUME NEW q \in Parts \ {PlaceOf(x) : x \in Rows} PROVE part'[q] \in {None, <<0>>}
    <3>1. q # p BY <1>3, <2>1
    <3>2. part'[q] = part[q] BY <1>1, <1>2, <3>1
    <3> QED BY <1>1, <3>2 DEF ShardInv, PartitionsOK
  <2> QED BY <2>2, <2>3
<1>16. PartitionsOK'
  <2>1. at' <= Len(setup'.labels) + 1 /\ at' \in Nat \ {0}
    <3>1. Len(setup.labels) \in Nat BY <1>2, SetupFacts
    <3> QED BY <1>1, <1>2, <3>1
  <2>2. worker' = [q \in Parts |-> "idle"] /\ rej' = Absent /\ rep' = Absent
    BY <1>1 DEF ShardInv, PartitionsOK
  <2> QED BY <1>1, <1>2, <1>6, <1>10, <1>15, <1>18, <2>1, <2>2 DEF PartitionsOK, Absent
<1>17. worker' = [q \in Parts |-> "idle"] /\ rej' = Absent /\ rep' = Absent /\ DOMAIN out' = Parts
  BY <1>1 DEF ShardInv, PartitionsOK, CommandsOK
<1> QED BY <1>1, <1>16, <1>17, NothingWritten DEF ShardInv, Merging

(* The files it opened are the partitions, or it starts over.              *)
LEMMA ShardEndsKeeps ==
  ASSUME ShardInv, ShardEnds \/ ShardStops PROVE ShardInv'
<1>1. /\ phase = "shard" /\ phase' \in {"failed", "work", "shard"} /\ setup \in Configurations
      /\ UNCHANGED <<setup, part, worker, out, rej, rep>>
  BY DEF ShardEnds, ShardStops, workVars, ShardInv, PartitionsOK
<1>2. /\ worker' = [q \in Parts |-> "idle"] /\ rej' = Absent /\ rep' = Absent /\ DOMAIN out' = Parts
      /\ DOMAIN part' = Parts
  BY <1>1 DEF ShardInv, PartitionsOK, CommandsOK
<1>3. CommandsOK' /\ MergeOK' BY <1>1, <1>2, NothingWritten DEF Merging
<1>4. Len(setup.labels) \in Nat BY <1>1, SetupFacts
<1>7. \A p \in Parts \ {PlaceOf(r) : r \in Rows}' : part'[p] \in {None, <<0>>}
  <2>1. {PlaceOf(r) : r \in Rows}' = {PlaceOf(r) : r \in Rows} BY <1>1, SetupStays
  <2> QED BY <1>1, <2>1 DEF ShardInv, PartitionsOK
<1>5. CASE ShardEnds
  <2>1. UNCHANGED <<at, opened>> /\ at = Len(setup.labels) + 1
    BY <1>4, <1>5 DEF ShardEnds, ShardInv, PartitionsOK
  <2>2. \A r : PlaceOf(r)' = PlaceOf(r) BY <1>1, SetupStays
  <2>3. \A p : Placed(p)' = Placed(p) BY <2>1, <2>2 DEF Placed
  <2>4. {PlaceOf(r) : r \in 1 .. (at - 1)}' = {PlaceOf(r) : r \in 1 .. (at - 1)} BY <2>1, <2>2
  <2>5. PartitionsOK' BY <1>1, <1>2, <1>7, <2>1, <2>3, <2>4 DEF ShardInv, PartitionsOK, Absent
  <2> QED BY <1>3, <2>5 DEF ShardInv
<1>6. CASE ShardStops
  <2>1. at' = 1 /\ opened' = {} /\ phase' = "shard" BY <1>1, <1>6 DEF ShardStops
  <2>2. {PlaceOf(r) : r \in 1 .. (at - 1)}' = {} BY <2>1
  <2>3. PartitionsOK' BY <1>1, <1>2, <1>4, <1>7, <2>1, <2>2 DEF PartitionsOK, Absent
  <2> QED BY <1>3, <2>3 DEF ShardInv
<1> QED BY <1>5, <1>6

-----------------------------------------------------------------------------
(* The commands.                                                           *)

(* A row is in the file of the place it was put.                           *)
LEMMA PlacedRows ==
  ASSUME ShardInv, phase \in Merging \cup {"work"}
  PROVE  /\ setup \in Configurations /\ Rows \subseteq Nat \ {0}
         /\ opened = {PlaceOf(r) : r \in Rows} /\ opened \subseteq Given
         /\ \A p : Placed(p) = {r \in Rows : PlaceOf(r) = p}
<1>1. /\ setup \in Configurations /\ at = Len(setup.labels) + 1
      /\ opened = {PlaceOf(r) : r \in 1 .. (at - 1)}
      /\ \A p \in opened : Ascending(part[p])
  BY DEF ShardInv, PartitionsOK, Merging
<1>2. PICK n \in Nat : n = Len(setup.labels) BY <1>1, SetupFacts
<1>3. Rows = 1 .. n /\ at - 1 = n BY <1>1, <1>2, SetupFacts DEF Rows
<1>4. \A r \in Rows : PlaceOf(r) \in 1 .. setup.parts /\ PlaceOf(r) \in Parts
  BY <1>1, <1>3, Placing
<1>5. \A p \in opened : part[p] # None
  <2>1. \A p \in opened : part[p] \in Seq(Nat) BY <1>1 DEF Ascending
  <2> QED BY <2>1, ShardsAssumption
<1>6. opened \subseteq Given
  <2>1. setup.given \in {"returned", "listed", "numbered"}
    <3>1. setup \in Setups BY <1>1, ConfigurationsAssumption
    <3> QED BY <3>1 DEF Setups
  <2> QED BY <1>1, <1>3, <1>4, <1>5, <2>1 DEF Given
<1> QED BY <1>1, <1>3, <1>6 DEF Placed

(* A command reads a partition as partition_dataset made it, or one that   *)
(* an earlier dataset left.                                                *)
PartOK(p) ==
  part[p] # None => /\ Ascending(part[p]) /\ ToSet(part[p]) \subseteq Known
                    /\ ToSet(part[p]) \ {0} = {r \in Rows : PlaceOf(r) = p}
                    /\ 0 \in ToSet(part[p]) => \A r \in Rows : PlaceOf(r) # p
LEMMA GivenIsReady ==
  ASSUME ShardInv, phase \in Merging \cup {"work"}, NEW p \in Given
  PROVE  /\ p \in Parts /\ PartOK(p) /\ setup \in Configurations /\ FilesOK(p)
         /\ DOMAIN worker = Parts /\ DOMAIN out = Parts /\ DOMAIN rej = Parts /\ DOMAIN rep = Parts
<1>1. /\ setup \in Configurations /\ Rows \subseteq Nat \ {0}
      /\ opened = {PlaceOf(r) : r \in Rows}
      /\ \A q : Placed(q) = {r \in Rows : PlaceOf(r) = q}
  BY PlacedRows
<1>2. p \in Parts
  <2>1. setup.given \in {"returned", "listed", "numbered"}
    <3>1. setup \in Setups BY <1>1, ConfigurationsAssumption
    <3> QED BY <3>1 DEF Setups
  <2>2. opened \subseteq Parts BY <1>1, Placing
  <2>3. 1 .. setup.parts \subseteq Parts BY <1>1, SetupFacts
  <2> QED BY <2>1, <2>2, <2>3 DEF Given
<1>3. CASE p \in opened
  <2>1. Ascending(part[p]) /\ ToSet(part[p]) = Placed(p) BY <1>3 DEF ShardInv, PartitionsOK
  <2> QED BY <1>1, <1>2, <2>1 DEF PartOK, Known, ShardInv, CommandsOK
<1>4. CASE p \notin opened
  <2>1. part[p] \in {None, <<0>>} BY <1>1, <1>2, <1>4 DEF ShardInv, PartitionsOK, Merging
  <2>2. 0 \in Known BY <1>4 DEF Known
  <2>3. Ascending(<<0>>) /\ ToSet(<<0>>) = {0} BY DEF Ascending, ToSet
  <2>4. {r \in Rows : PlaceOf(r) = p} = {} BY <1>1, <1>4
  <2>5. PartOK(p) BY <2>1, <2>2, <2>3, <2>4 DEF PartOK
  <2> QED BY <1>1, <1>2, <2>5 DEF ShardInv, CommandsOK
<1> QED BY <1>3, <1>4

(* Starting writes nothing.                                                *)
LEMMA StartKeeps ==
  ASSUME ShardInv, phase = "work", NEW p \in Given, StartCommand(p) PROVE ShardInv'
<1>1. /\ p \in Parts /\ FilesOK(p)
      /\ DOMAIN worker = Parts /\ DOMAIN out = Parts /\ DOMAIN rej = Parts /\ DOMAIN rep = Parts
  BY GivenIsReady
<1>2. /\ Working /\ UNCHANGED <<out, rej, rep>> /\ DOMAIN worker' = Parts
      /\ worker'[p] = "running" /\ \A q \in Parts \ {p} : worker'[q] = worker[q]
  BY <1>1 DEF StartCommand, Become
<1>3. UNCHANGED <<setup, part, phase>> BY <1>2 DEF Working
<1>4. FilesOK(p)' BY <1>1, <1>2, <1>3 DEF FilesOK, OptimizedOK, OthersOK
<1> QED BY <1>1, <1>2, <1>4, CommandStep

(* OptimizeWrites, OptimizeRejects and OptimizeReports: a row is accepted  *)
(* or rejected.                                                            *)
LEMMA OptimizeKeepsFiles ==
  ASSUME ShardInv, phase = "work", NEW p \in Given,
         OptimizeWrites(p) \/ OptimizeRejects(p) \/ OptimizeReports(p)
  PROVE  ShardInv'
<1>1. /\ p \in Parts /\ FilesOK(p) /\ Ascending(part[p]) /\ part[p] # None
      /\ DOMAIN worker = Parts /\ DOMAIN out = Parts /\ DOMAIN rej = Parts /\ DOMAIN rep = Parts
  <2>1. FilesOK(p) /\ PartOK(p) BY GivenIsReady
  <2>2. part[p] # None
    BY <2>1 DEF OptimizeWrites, OptimizeRejects, OptimizeReports, Refuses, FilesOK
  <2> QED BY <2>1, <2>2, GivenIsReady DEF PartOK
<1>2. Working /\ setup.command = "optimize"
  BY <1>1 DEF OptimizeWrites, OptimizeRejects, OptimizeReports, FilesOK, OthersOK
<1>3. UNCHANGED <<setup, part, phase>> BY <1>2 DEF Working
<1>4. OptimizedOK(p) BY <1>1, <1>2 DEF FilesOK
<1>5. CASE OptimizeWrites(p)
  <2>1. PICK S \in SUBSET ToSet(part[p]) : out' = [out EXCEPT ![p] = Only(part[p], S)]
    BY <1>5 DEF OptimizeWrites
  <2>2. /\ worker' = [worker EXCEPT ![p] = "accepted"] /\ UNCHANGED <<rej, rep>>
    BY <1>5 DEF OptimizeWrites, Become
  <2>3. out'[p] = Only(part[p], S) /\ worker'[p] = "accepted" BY <1>1, <2>1, <2>2
  <2>4. Accepted(p)' BY <1>1, <1>3, <2>3, OnlyKeeps DEF Accepted
  <2>5. FilesOK(p)' BY <1>1, <1>2, <1>3, <2>3, <2>4 DEF FilesOK, OptimizedOK
  <2>6. /\ DOMAIN worker' = Parts /\ DOMAIN out' = Parts /\ DOMAIN rej' = Parts /\ DOMAIN rep' = Parts
        /\ \A q \in Parts \ {p} : UNCHANGED <<worker[q], out[q], rej[q], rep[q]>>
    BY <1>1, <2>1, <2>2
  <2> QED BY <1>1, <1>2, <2>5, <2>6, CommandStep
<1>6. CASE OptimizeRejects(p)
  <2>1. /\ worker[p] = "accepted" /\ worker' = [worker EXCEPT ![p] = "rejected"]
        /\ rej' = [rej EXCEPT ![p] = Only(part[p], ToSet(part[p]) \ ToSet(out[p]))]
        /\ UNCHANGED <<out, rep>>
    BY <1>6 DEF OptimizeRejects, Become
  <2>2. /\ rej'[p] = Only(part[p], ToSet(part[p]) \ ToSet(out[p]))
        /\ worker'[p] = "rejected"
    BY <1>1, <2>1
  <2>3. Accepted(p) BY <1>4, <2>1 DEF OptimizedOK
  <2>4. Accepted(p)' BY <1>3, <2>1, <2>3 DEF Accepted
  <2>5. Ascending(rej'[p]) /\ ToSet(rej'[p]) = ToSet(part[p]) \ ToSet(out[p])
    BY <1>1, <2>2, OnlyKeeps
  <2>6. Rejected(p)' BY <1>3, <2>1, <2>5 DEF Rejected
  <2>7. FilesOK(p)' BY <1>1, <1>2, <1>3, <2>2, <2>4, <2>6 DEF FilesOK, OptimizedOK
  <2>8. /\ DOMAIN worker' = Parts /\ DOMAIN out' = Parts /\ DOMAIN rej' = Parts /\ DOMAIN rep' = Parts
        /\ \A q \in Parts \ {p} : UNCHANGED <<worker[q], out[q], rej[q], rep[q]>>
    BY <1>1, <2>1
  <2> QED BY <1>1, <1>2, <2>7, <2>8, CommandStep
<1>7. CASE OptimizeReports(p)
  <2>1. /\ worker[p] = "rejected" /\ worker' = [worker EXCEPT ![p] = "done"]
        /\ rep' = [rep EXCEPT ![p] = Len(rej[p])] /\ UNCHANGED <<out, rej>>
    BY <1>7 DEF OptimizeReports, Become
  <2>2. rep'[p] = Len(rej[p]) /\ worker'[p] = "done" BY <1>1, <2>1
  <2>3. Accepted(p) /\ Rejected(p) BY <1>4, <2>1 DEF OptimizedOK
  <2>4. Accepted(p)' /\ Rejected(p)' BY <1>3, <2>1, <2>3 DEF Accepted, Rejected
  <2>5. FilesOK(p)' BY <1>1, <1>2, <1>3, <2>1, <2>2, <2>4 DEF FilesOK, OptimizedOK
  <2>6. /\ DOMAIN worker' = Parts /\ DOMAIN out' = Parts /\ DOMAIN rej' = Parts /\ DOMAIN rep' = Parts
        /\ \A q \in Parts \ {p} : UNCHANGED <<worker[q], out[q], rej[q], rep[q]>>
    BY <1>1, <2>1
  <2> QED BY <1>1, <1>2, <2>5, <2>6, CommandStep
<1> QED BY <1>5, <1>6, <1>7

(* The other commands open their output first, and have nothing then.      *)
LEMMA OpenOutputKeeps ==
  ASSUME ShardInv, phase = "work", NEW p \in Given, OpenOutput(p) PROVE ShardInv'
<1>1. /\ p \in Parts /\ FilesOK(p)
      /\ DOMAIN worker = Parts /\ DOMAIN out = Parts /\ DOMAIN rej = Parts /\ DOMAIN rep = Parts
  BY GivenIsReady
<1>2. /\ Working /\ UNCHANGED <<rej, rep>> /\ setup.command # "optimize"
      /\ DOMAIN worker' = Parts /\ DOMAIN out' = Parts /\ worker'[p] = "writing"
      /\ \A q \in Parts \ {p} : worker'[q] = worker[q] /\ out'[q] = out[q]
  BY <1>1 DEF OpenOutput, Become
<1>3. UNCHANGED <<setup, part, phase>> BY <1>2 DEF Working
<1>5. part[p] # None BY DEF OpenOutput, Refuses
<1>4. FilesOK(p)' BY <1>1, <1>2, <1>3, <1>5 DEF FilesOK, OthersOK
<1> QED BY <1>1, <1>2, <1>4, CommandStep

(* The negatives of rows in their order are their variations.              *)
LEMMA VariationsOf ==
  ASSUME NEW k, Ascending(k)
  PROVE  /\ [i \in DOMAIN k |-> - k[i]] \in Seq(Int)
         /\ ToSet([i \in DOMAIN k |-> - k[i]]) = {- x : x \in ToSet(k)}
<1> DEFINE v == [i \in DOMAIN k |-> - k[i]]
<1>1. PICK n \in Nat : n = Len(k) /\ DOMAIN k = 1 .. n /\ \A i \in 1 .. n : k[i] \in Nat
  BY DEF Ascending
<1>2. v \in Seq(Int) BY <1>1, IsASeq
<1>3. DOMAIN v = 1 .. n /\ \A i \in 1 .. n : v[i] = - k[i] BY <1>1
<1> HIDE DEF v
<1>4. ToSet(v) = {v[i] : i \in 1 .. n} /\ ToSet(k) = {k[i] : i \in 1 .. n} BY <1>1, <1>3 DEF ToSet
<1>5. ToSet(v) = {- x : x \in ToSet(k)} BY <1>3, <1>4
<1> QED BY <1>2, <1>5 DEF v

(* augment keeps a row unless it has no word, or another row or a variation*)
(* says the same.                                                          *)
LEMMA AugmentKeeps ==
  ASSUME NEW rows, Ascending(rows), NEW S \in SUBSET ToSet(rows), NEW T \in SUBSET ToSet(rows),
         \A t \in T : \E x \in S : x < t
  PROVE  AugmentedFrom(rows, Augmented(rows, S, T))
<1> DEFINE worded == Only(rows, ToSet(rows) \ setup.blank)
           distinct == Deduplicated(worded)
           kept == Only(distinct, ToSet(rows) \ T)
           sources == Only(rows, S)
           variations == [i \in DOMAIN sources |-> - sources[i]]
           file == kept \o variations
<1>1. Augmented(rows, S, T) = file BY DEF Augmented, Distinct
<1>2. Ascending(worded) /\ ToSet(worded) = ToSet(rows) \ setup.blank
  <2>1. ToSet(rows) \cap (ToSet(rows) \ setup.blank) = ToSet(rows) \ setup.blank OBVIOUS
  <2> QED BY <2>1, OnlyKeeps
<1>3. Ascending(sources) /\ ToSet(sources) = S
  <2>1. ToSet(rows) \cap S = S OBVIOUS
  <2> QED BY <2>1, OnlyKeeps
<1> HIDE DEF worded, sources
<1>4. /\ Ascending(distinct) /\ ToSet(distinct) \subseteq ToSet(worded)
      /\ Represented(ToSet(distinct), ToSet(worded))
  BY <1>2, DedupKeeps
<1> HIDE DEF distinct
<1>5. Ascending(kept) /\ ToSet(kept) = ToSet(distinct) \ T
  <2>1. ToSet(distinct) \cap (ToSet(rows) \ T) = ToSet(distinct) \ T BY <1>2, <1>4
  <2> QED BY <1>4, <2>1, OnlyKeeps
<1> HIDE DEF kept
<1>6. variations \in Seq(Int) /\ ToSet(variations) = {- x : x \in S} BY <1>3, VariationsOf
<1> HIDE DEF variations
<1>7. kept \in Seq(Int) BY <1>5 DEF Ascending
<1>8. file \in Seq(Int) /\ ToSet(file) = ToSet(kept) \cup ToSet(variations)
  BY <1>6, <1>7, ToSetConcatenated
<1>9. \A r : Times(r, file) = Times(r, kept) + Times(r, variations) BY <1>6, <1>7, TimesConcatenated
<1> HIDE DEF file
<1>10. ToSet(rows) \subseteq Nat BY DEF Ascending, ToSet
<1>11. \A x \in ToSet(file) : x \in ToSet(rows) \/ - x \in ToSet(rows)
  <2>1. \A x \in ToSet(kept) : x \in ToSet(rows) BY <1>2, <1>4, <1>5
  <2>2. \A x \in S : x \in ToSet(rows) /\ - (- x) = x BY <1>10
  <2> QED BY <1>6, <1>8, <2>1, <2>2
<1>12. ASSUME NEW r \in ToSet(rows) \ {0}
       PROVE  IF r \in ToSet(file) THEN Times(r, file) = 1
              ELSE \/ r \in setup.blank
                   \/ \E q \in ToSet(rows) :
                        q < r /\ ({q, r} \in setup.similar \/ - q \in ToSet(file))
  <2>1. r \notin ToSet(variations) BY <1>6, <1>10
  <2>2. CASE r \in ToSet(file)
    <3>1. r \in ToSet(kept) BY <1>8, <2>1, <2>2
    <3>2. Times(r, kept) = 1 BY <1>5, <3>1, TimesAscending
    <3>3. Times(r, variations) = 0 BY <1>6, <2>1, TimesIsNat
    <3> QED BY <1>9, <2>2, <3>2, <3>3
  <2>3. CASE r \notin ToSet(file) /\ r \in T
    <3>1. PICK x \in S : x < r BY <2>3
    <3>2. - x \in ToSet(file) BY <1>6, <1>8
    <3> QED BY <2>3, <3>1, <3>2
  <2>4. CASE r \notin ToSet(file) /\ r \notin T /\ r \notin setup.blank
    <3>1. r \in ToSet(worded) \ ToSet(distinct) BY <1>2, <1>5, <1>8, <2>4
    <3>2. PICK q \in ToSet(distinct) : q < r /\ {q, r} \in setup.similar
      BY <1>4, <3>1 DEF Represented
    <3>3. q \in ToSet(rows) BY <1>2, <1>4
    <3> QED BY <2>4, <3>2, <3>3
  <2> QED BY <2>2, <2>3, <2>4
<1>13. AugmentedFrom(rows, file) BY <1>8, <1>11, <1>12 DEF AugmentedFrom
<1> QED BY <1>1, <1>13

(* What the other commands fill it with.                                   *)
Filled(p, rows) ==
  /\ setup.command \in Repeating => rows = part[p]
  /\ setup.command \in Dropping => Ascending(rows) /\ ToSet(rows) \subseteq ToSet(part[p])
  /\ setup.command = "augment" => AugmentedFrom(part[p], rows)
  /\ setup.command = "dedup" => Represented(ToSet(rows), ToSet(part[p]))

(* Fill: the output is complete, and the command done.                     *)
LEMMA FillKeeps ==
  ASSUME ShardInv, phase = "work", NEW p \in Given, NEW rows, Fill(p, rows),
         setup.command # "optimize", Filled(p, rows), part[p] # None
  PROVE  ShardInv'
<1>1. /\ p \in Parts /\ FilesOK(p)
      /\ DOMAIN worker = Parts /\ DOMAIN out = Parts /\ DOMAIN rej = Parts /\ DOMAIN rep = Parts
  BY GivenIsReady
<1>2. /\ Working /\ UNCHANGED <<rej, rep>>
      /\ DOMAIN worker' = Parts /\ DOMAIN out' = Parts /\ worker'[p] = "done" /\ out'[p] = rows
      /\ \A q \in Parts \ {p} : worker'[q] = worker[q] /\ out'[q] = out[q]
  BY <1>1 DEF Fill, Become
<1>3. UNCHANGED <<setup, part, phase>> BY <1>2 DEF Working
<1>4. OthersOK(p) BY <1>1 DEF FilesOK
<1>5. OthersOK(p)'
  <2>1. rej'[p] = None /\ rep'[p] = None BY <1>2, <1>4 DEF OthersOK
  <2>2. setup'.command \in Dropping => Accepted(p)' BY <1>2, <1>3 DEF Filled, Accepted
  <2>3. setup'.command = "augment" => AugmentedFrom(part[p], out[p])'
    BY <1>2, <1>3 DEF Filled, AugmentedFrom
  <2>4. setup'.command = "dedup" => Represented(ToSet(out[p]), ToSet(part[p]))'
    BY <1>2, <1>3, SetupStays DEF Filled, Represented
  <2>5. setup'.command \in Repeating => out'[p] = part'[p] BY <1>2, <1>3 DEF Filled
  <2> QED BY <1>2, <2>1, <2>2, <2>3, <2>4, <2>5 DEF OthersOK
<1>6. FilesOK(p)' BY <1>1, <1>3, <1>5 DEF FilesOK
<1> QED BY <1>1, <1>2, <1>6, CommandStep

(* What each of the other commands writes.                                 *)
LEMMA OthersKeep ==
  ASSUME ShardInv, phase = "work", NEW p \in Given,
         WriteRows(p)
  PROVE  ShardInv'
<1>1. Ascending(part[p]) /\ part[p] # None
  <2>1. FilesOK(p) /\ PartOK(p) BY GivenIsReady DEF Merging
  <2> QED BY <2>1 DEF WriteRows, FilesOK, PartOK
<1>2. CASE Score(p) \/ FilterPerplexity(p)
  <2>1. /\ setup.command \in {"score", "filter-ppl"}
        /\ \E S \in SUBSET ToSet(part[p]) : Fill(p, Only(part[p], S))
    BY <1>2 DEF Score, FilterPerplexity
  <2>2. PICK S \in SUBSET ToSet(part[p]) : Fill(p, Only(part[p], S)) BY <2>1
  <2>3. Ascending(Only(part[p], S)) /\ ToSet(Only(part[p], S)) \subseteq ToSet(part[p])
    BY <1>1, OnlyKeeps
  <2>4. Filled(p, Only(part[p], S)) BY <2>1, <2>3 DEF Filled, Repeating, Rewriters
  <2> QED BY <2>1, <2>2, <2>4, <1>1, FillKeeps
<1>3. CASE Rewrite(p) \/ Scrub(p) \/ Classify(p)
  <2>1. setup.command \in Repeating /\ Fill(p, part[p])
    BY <1>3 DEF Rewrite, Scrub, Classify, Repeating
  <2>2. Filled(p, part[p]) BY <2>1 DEF Filled, Repeating, Rewriters, Dropping
  <2>3. setup.command # "optimize" BY <2>1 DEF Repeating, Rewriters
  <2> QED BY <1>1, <2>1, <2>2, <2>3, FillKeeps
<1>4. CASE Augment(p)
  <2>1. /\ setup.command = "augment"
        /\ \E S, T \in SUBSET ToSet(part[p]) :
             /\ \A t \in T : \E x \in S : x < t
             /\ Fill(p, Augmented(part[p], S, T))
    BY <1>4 DEF Augment
  <2>2. PICK S \in SUBSET ToSet(part[p]), T \in SUBSET ToSet(part[p]) :
          /\ \A t \in T : \E x \in S : x < t
          /\ Fill(p, Augmented(part[p], S, T))
    BY <2>1
  <2>3. AugmentedFrom(part[p], Augmented(part[p], S, T)) BY <1>1, <2>2, AugmentKeeps
  <2>4. Filled(p, Augmented(part[p], S, T)) BY <2>1, <2>3 DEF Filled, Repeating, Rewriters, Dropping
  <2> QED BY <1>1, <2>1, <2>2, <2>4, FillKeeps
<1>5. CASE Dedup(p)
  <2>1. setup.command = "dedup" /\ Fill(p, Deduplicated(part[p])) BY <1>5 DEF Dedup
  <2>2. Filled(p, Deduplicated(part[p]))
    BY <1>1, <2>1, DedupKeeps DEF Filled, Repeating, Rewriters
  <2> QED BY <1>1, <2>1, <2>2, FillKeeps
<1> QED BY <1>2, <1>3, <1>4, <1>5 DEF WriteRows

(* A task that fails, and with Ray every task, has no output that counts   *)
(* until it is started again.                                              *)
LEMMA FailuresKeep ==
  ASSUME ShardInv, phase = "work", Retry \/ \E p \in Parts : WorkerFails(p) \/ CommandRaises(p)
  PROVE  ShardInv'
<1>1. /\ Working /\ UNCHANGED <<out, rej, rep>> /\ DOMAIN worker' = Parts
      /\ \A q \in Parts : \/ worker'[q] \in {worker[q], "failed"}
                          \/ worker[q] = "failed" /\ worker'[q] = "idle"
  BY DEF Retry, WorkerFails, CommandRaises, Fails
<1>2. phase' = "work" /\ UNCHANGED <<setup, at, opened, part>> BY <1>1 DEF Working
<1>3. PartitionsOK' BY <1>2, PartitionsStay DEF ShardInv
<1>4. ASSUME NEW q \in Parts PROVE FilesOK(q)'
  <2>1. FilesOK(q) BY DEF ShardInv, CommandsOK
  <2>2. CASE worker'[q] = worker[q] BY <1>1, <1>2, <2>1, <2>2, FilesStay
  <2>3. CASE worker'[q] \in {"failed", "idle"}
    BY <1>1, <1>2, <2>1, <2>3 DEF FilesOK, OptimizedOK, OthersOK
  <2> QED BY <1>1, <2>2, <2>3
<1>5. CommandsOK' BY <1>1, <1>2, <1>4 DEF ShardInv, CommandsOK, Merging
<1>6. MergeOK' BY <1>2 DEF MergeOK, Merging
<1> QED BY <1>3, <1>5, <1>6 DEF ShardInv

(* Command: whichever it is.                                               *)
LEMMA CommandKeeps ==
  ASSUME ShardInv, NEW p \in Parts, Command(p) PROVE ShardInv'
<1>1. phase = "work" /\ p \in Given BY DEF Command
<1>2. CASE StartCommand(p) BY <1>1, <1>2, StartKeeps
<1>3. CASE OptimizeWrites(p) \/ OptimizeRejects(p) \/ OptimizeReports(p)
  BY <1>1, <1>3, OptimizeKeepsFiles
<1>4. CASE OpenOutput(p) BY <1>1, <1>4, OpenOutputKeeps
<1>5. CASE WriteRows(p) BY <1>1, <1>5, OthersKeep
<1>6. CASE WorkerFails(p) \/ CommandRaises(p) BY <1>1, <1>6, FailuresKeep
<1> QED BY <1>2, <1>3, <1>4, <1>5, <1>6 DEF Command

-----------------------------------------------------------------------------
(* merge_partition_results, of files that are named.                       *)

(* What one path of the command line adds: the rows of its partition.      *)
Adds(p, file, beside, count) ==
  /\ file \in Seq(Int) /\ beside \in Seq(Nat) /\ count = Len(beside) /\ ToSet(beside) \subseteq Known
  /\ \A x \in ToSet(file) : x \in Known \/ - x \in Known
  /\ \A r \in Rows :
       LET times == Times(r, file) + Times(r, beside) IN
       IF PlaceOf(r) = p THEN times = 1 \/ (times = 0 /\ MayDrop(r, file)) ELSE times = 0

(* A row that may be dropped may be so too if the file has more.           *)
LEMMA MayDropMore ==
  ASSUME NEW r, NEW f, NEW g, MayDrop(r, f), ToSet(f) \subseteq ToSet(g) PROVE MayDrop(r, g)
BY DEF MayDrop

(* Rows of a partition in their order, with the others of it beside them,  *)
(* or without them where a command may drop rows.                          *)
LEMMA PartAdds ==
  ASSUME NEW p, PartOK(p), part[p] # None, Rows \subseteq Nat \ {0},
         NEW file, Ascending(file), NEW beside, Ascending(beside),
         ToSet(file) \subseteq ToSet(part[p]),
         \/ ToSet(beside) = ToSet(part[p]) \ ToSet(file)
         \/ ToSet(beside) = {} /\ (setup.command \in Dropping \/ ToSet(file) = ToSet(part[p]))
  PROVE  Adds(p, file, beside, Len(beside))
<1>1. file \in Seq(Int) /\ beside \in Seq(Nat) BY DEF Ascending
<1>2. ToSet(part[p]) \subseteq Known /\ ToSet(part[p]) \ {0} = {r \in Rows : PlaceOf(r) = p}
  BY DEF PartOK
<1>3. ASSUME NEW r \in Rows
      PROVE  LET times == Times(r, file) + Times(r, beside) IN
             IF PlaceOf(r) = p THEN times = 1 \/ (times = 0 /\ MayDrop(r, file)) ELSE times = 0
  <2>1. /\ Times(r, file) = IF r \in ToSet(file) THEN 1 ELSE 0
        /\ Times(r, beside) = IF r \in ToSet(beside) THEN 1 ELSE 0
    BY TimesAscending
  <2>2. r \in ToSet(part[p]) <=> PlaceOf(r) = p BY <1>2
  <2>3. setup.command \in Dropping => MayDrop(r, file) BY DEF MayDrop, Dropping
  <2> QED BY <2>1, <2>2, <2>3
<1> QED BY <1>1, <1>2, <1>3 DEF Adds

(* What augment makes of a partition has nothing beside it.                *)
LEMMA AugmentAdds ==
  ASSUME NEW p, PartOK(p), part[p] # None, Rows \subseteq Nat \ {0}, setup.command = "augment",
         NEW file, AugmentedFrom(part[p], file)
  PROVE  Adds(p, file, <<>>, 0)
<1>1. /\ ToSet(part[p]) \subseteq Known /\ ToSet(part[p]) \ {0} = {r \in Rows : PlaceOf(r) = p}
      /\ Ascending(part[p])
      /\ 0 \in ToSet(part[p]) => \A r \in Rows : PlaceOf(r) # p
  BY DEF PartOK
<1>2. /\ file \in Seq(Int)
      /\ \A x \in ToSet(file) : x \in ToSet(part[p]) \/ - x \in ToSet(part[p])
      /\ \A r \in ToSet(part[p]) \ {0} :
           IF r \in ToSet(file) THEN Times(r, file) = 1
           ELSE \/ r \in setup.blank
                \/ \E q \in ToSet(part[p]) : q < r /\ ({q, r} \in setup.similar \/ - q \in ToSet(file))
  BY DEF AugmentedFrom
<1>3. <<>> \in Seq(Nat) /\ <<>> \in Seq(Int) /\ Len(<<>>) = 0 /\ ToSet(<<>>) = {} BY DEF ToSet
<1>4. ToSet(part[p]) \subseteq Nat
  <2>1. part[p] \in Seq(Nat) BY <1>1 DEF Ascending
  <2>2. \A i \in DOMAIN part[p] : part[p][i] \in Nat BY <2>1
  <2> QED BY <2>2 DEF ToSet
<1>5. ASSUME NEW r \in Rows
      PROVE  LET times == Times(r, file) + Times(r, <<>>) IN
             IF PlaceOf(r) = p THEN times = 1 \/ (times = 0 /\ MayDrop(r, file)) ELSE times = 0
  <2>1. Times(r, <<>>) = 0 BY <1>3, TimesIsNat
  <2>2. Times(r, file) \in Nat /\ (r \notin ToSet(file) => Times(r, file) = 0) BY <1>2, TimesIsNat
  <2>3. CASE PlaceOf(r) # p
    <3>1. r \notin ToSet(part[p]) BY <1>1, <2>3
    <3>2. - r \notin ToSet(part[p]) BY <1>4
    <3>3. r \notin ToSet(file) BY <1>2, <3>1, <3>2
    <3> QED BY <2>1, <2>2, <2>3, <3>3
  <2>4. CASE PlaceOf(r) = p /\ r \in ToSet(file)
    <3>1. r \in ToSet(part[p]) \ {0} BY <1>1, <2>4
    <3>2. Times(r, file) = 1 BY <1>2, <2>4, <3>1
    <3> QED BY <2>1, <2>4, <3>2
  <2>5. CASE PlaceOf(r) = p /\ r \notin ToSet(file)
    <3>1. r \in ToSet(part[p]) \ {0} BY <1>1, <2>5
    <3>2. \/ r \in setup.blank
          \/ \E q \in ToSet(part[p]) : q < r /\ ({q, r} \in setup.similar \/ - q \in ToSet(file))
      BY <1>2, <2>5, <3>1
    <3>3. ToSet(part[p]) \subseteq Rows
      <4>1. 0 \notin ToSet(part[p]) BY <1>1, <2>5
      <4> QED BY <1>1, <4>1
    <3>4. MayDrop(r, file) BY <3>2, <3>3 DEF MayDrop
    <3>5. Times(r, file) = 0 BY <2>2, <2>5
    <3> QED BY <2>1, <2>5, <3>4, <3>5
  <2> QED BY <2>3, <2>4, <2>5
<1>6. \A x \in ToSet(file) : x \in Known \/ - x \in Known BY <1>1, <1>2
<1> QED BY <1>2, <1>3, <1>5, <1>6 DEF Adds

(* A command that is done wrote what adds the rows of its partition.       *)
LEMMA OutputAdds ==
  ASSUME ShardInv, phase \in Merging, NEW p \in Given
  PROVE  Adds(p, FileAt(OutputOf(p)), RejectedBeside(OutputOf(p)), CountedBeside(OutputOf(p)))
<1>1. phase # "new" /\ phase # "work" /\ worker[p] = "done"
  BY DEF Merging, ShardInv, CommandsOK
<1>2. p \in Parts /\ PartOK(p) /\ setup \in Configurations /\ FilesOK(p) BY GivenIsReady
<1>3. /\ Rows \subseteq Nat \ {0} /\ part[p] # None /\ Ascending(part[p])
  BY <1>1, <1>2, PlacedRows DEF FilesOK, PartOK
<1>4. setup.command \in Commands BY <1>2, SetupFacts
<1>5. /\ FileAt(OutputOf(p)) = out[p]
      /\ RejectedBeside(OutputOf(p)) = IF rej[p] # None THEN rej[p] ELSE <<>>
      /\ CountedBeside(OutputOf(p)) = IF rep[p] # None THEN rep[p] ELSE 0
  BY DEF FileAt, RejectedBeside, CountedBeside, OutputOf
<1>6. CASE setup.command = "optimize"
  <2>1. Accepted(p) /\ Rejected(p) /\ rep[p] = Len(rej[p])
    BY <1>1, <1>2, <1>6 DEF FilesOK, OptimizedOK
  <2>2. /\ Ascending(out[p]) /\ ToSet(out[p]) \subseteq ToSet(part[p])
        /\ Ascending(rej[p]) /\ ToSet(rej[p]) = ToSet(part[p]) \ ToSet(out[p])
    BY <2>1 DEF Accepted, Rejected
  <2>3. rej[p] # None /\ rep[p] # None
    <3>1. rej[p] \in Seq(Nat) BY <2>2 DEF Ascending
    <3>2. Len(rej[p]) \in Nat BY <3>1
    <3> QED BY <2>1, <3>1, <3>2, ShardsAssumption
  <2>4. Adds(p, out[p], rej[p], Len(rej[p])) BY <1>2, <1>3, <2>2, PartAdds
  <2> QED BY <1>5, <2>1, <2>3, <2>4
<1>7. CASE setup.command # "optimize"
  <2>1. OthersOK(p) BY <1>1, <1>2, <1>7 DEF FilesOK
  <2>2. RejectedBeside(OutputOf(p)) = <<>> /\ CountedBeside(OutputOf(p)) = 0 BY <1>5, <2>1 DEF OthersOK
  <2>3. Ascending(<<>>) /\ ToSet(<<>>) = {} /\ Len(<<>>) = 0 BY DEF Ascending, ToSet
  <2>4. CASE setup.command \in Repeating
    <3>1. out[p] = part[p] BY <1>1, <2>1, <2>4 DEF OthersOK
    <3>2. Adds(p, part[p], <<>>, Len(<<>>)) BY <1>2, <1>3, <2>3, PartAdds
    <3> QED BY <1>5, <2>2, <2>3, <3>1, <3>2
  <2>5. CASE setup.command \in Dropping
    <3>1. Ascending(out[p]) /\ ToSet(out[p]) \subseteq ToSet(part[p])
      BY <1>1, <2>1, <2>5 DEF OthersOK, Accepted
    <3>2. Adds(p, out[p], <<>>, Len(<<>>)) BY <1>2, <1>3, <2>3, <2>5, <3>1, PartAdds
    <3> QED BY <1>5, <2>2, <2>3, <3>2
  <2>6. CASE setup.command = "augment"
    <3>1. AugmentedFrom(part[p], out[p]) BY <1>1, <2>1, <2>6 DEF OthersOK
    <3>2. Adds(p, out[p], <<>>, 0) BY <1>2, <1>3, <2>6, <3>1, AugmentAdds
    <3> QED BY <1>5, <2>2, <3>2
  <2> QED BY <1>4, <1>7, <2>4, <2>5, <2>6 DEF Commands, Rewriters, Repeating, Dropping
<1> QED BY <1>6, <1>7

(* merge touches neither the partitions nor what the commands wrote.       *)
LEMMA MergeLeavesFiles ==
  ASSUME ShardInv, Merge PROVE PartitionsOK' /\ CommandsOK'
<1>1. /\ phase \in Merging \cup {"work"} /\ phase' \in Merging \cup {"work"}
      /\ UNCHANGED <<setup, at, opened, part, worker, out, rej, rep>>
  BY DEF Merge, MergeOpens, MergePath, MergeCloses, MergeRejects, MergeReports, MergeStops, workVars,
         Merging
<1>2. PartitionsOK' BY <1>1, PartitionsStay DEF Merging, ShardInv
<1>3. \A p \in Parts : FilesOK(p)'
  <2> SUFFICES ASSUME NEW p \in Parts PROVE FilesOK(p)' OBVIOUS
  <2>1. FilesOK(p) BY DEF ShardInv, CommandsOK
  <2> QED BY <1>1, <2>1, FilesStay DEF Merging
<1>4. phase' \in Merging => \A p \in Given' : worker'[p] = "done"
  <2>3. Given' = Given BY <1>1, GivenStays
  <2>1. CASE phase \in Merging BY <1>1, <2>1, <2>3 DEF ShardInv, CommandsOK
  <2>2. CASE phase = "work" /\ phase' \in Merging
    BY <1>1, <2>2, <2>3 DEF Merge, MergeOpens, MergePath, MergeCloses, MergeRejects, MergeReports,
                      MergeStops, Merging
  <2> QED BY <1>1, <2>1, <2>2 DEF Merging
<1> QED BY <1>1, <1>2, <1>3, <1>4 DEF ShardInv, CommandsOK

(* MergeOpens: nothing is read yet.                                        *)
LEMMA MergeOpensOK ==
  ASSUME ~ Globbing, ShardInv, NEW stream \in BOOLEAN, MergeOpens(stream) PROVE MergeOK'
<1>1. /\ phase = "work" /\ phase' = "merge" /\ UNCHANGED <<setup, opened, part>>
      /\ merging' = [stream |-> stream, todo |-> Named, items |-> <<>>, rejected |-> <<>>, reasons |-> 0]
  BY DEF MergeOpens, NoMerge
<1>2. \A p \in Given : p \in Parts BY <1>1, GivenIsReady
<1>3. Named = {OutputOf(p) : p \in Given} BY <1>2 DEF Named, Path, OutputOf
<1>4. \A r \in Rows : PlaceOf(r) \in Given BY <1>1, PlacedRows
<1>5. /\ merging'.todo = {OutputOf(p) : p \in Given} /\ merging'.items = <<>>
      /\ merging'.rejected = <<>> /\ merging'.reasons = 0
  BY <1>1, <1>3
<1>6. ToSet(<<>>) = {} /\ <<>> \in Seq(Int) /\ <<>> \in Seq(Nat) /\ Len(<<>>) = 0 BY DEF ToSet
<1>7. \A r : Times(r, <<>>) = 0 BY <1>6, TimesIsNat
<1>8. /\ Rows' = Rows /\ \A r : PlaceOf(r)' = PlaceOf(r)
      /\ Given' = Given /\ Known' = Known
  BY <1>1, SetupStays, GivenStays
<1>9. \A r \in Rows : MergedRow(r)'
  <2> SUFFICES ASSUME NEW r \in Rows PROVE MergedRow(r)' OBVIOUS
  <2>1. OutputOf(PlaceOf(r)') \in merging'.todo BY <1>4, <1>5, <1>8
  <2>2. Times(r, merging'.items) + Times(r, merging'.rejected) = 0 BY <1>5, <1>7
  <2> QED BY <2>1, <2>2 DEF MergedRow
<1>10. MemoryOK' BY <1>1, <1>5, <1>6, <1>8, <1>9 DEF MemoryOK, NoMerge
<1> QED BY <1>1, <1>10 DEF MergeOK, Merging

(* MergePath: the rows of one partition are added.                         *)
LEMMA MergePathOK ==
  ASSUME ~ Globbing, ShardInv, NEW path \in Path, MergePath(path) PROVE MergeOK'
<1>1. /\ phase = "merge" /\ phase' = "merge" /\ UNCHANGED <<setup, opened, part>> /\ path \in merging.todo
      /\ merging' = [merging EXCEPT !.todo = merging.todo \ {path},
                                    !.items = merging.items \o FileAt(path),
                                    !.rejected = merging.rejected \o RejectedBeside(path),
                                    !.reasons = merging.reasons + CountedBeside(path)]
  BY DEF MergePath
<1>2. MemoryOK BY <1>1 DEF ShardInv, MergeOK, Merging
<1>3. PICK p \in Given : path = OutputOf(p) BY <1>1, <1>2 DEF MemoryOK
<1>4. PICK file, beside, count :
        /\ file = FileAt(path) /\ beside = RejectedBeside(path) /\ count = CountedBeside(path)
        /\ Adds(p, file, beside, count)
  BY <1>1, <1>3, OutputAdds DEF Merging
<1>5. PICK items, rejected, reasons, todo :
        /\ items = merging.items /\ rejected = merging.rejected /\ reasons = merging.reasons
        /\ todo = merging.todo
  OBVIOUS
<1>6. /\ merging'.items = items \o file /\ merging'.rejected = rejected \o beside
      /\ merging'.reasons = reasons + count /\ merging'.todo = todo \ {path}
  BY <1>1, <1>2, <1>4, <1>5 DEF MemoryOK, NoMerge
<1>7. /\ items \in Seq(Int) /\ rejected \in Seq(Nat) /\ reasons = Len(rejected)
      /\ ToSet(rejected) \subseteq Known /\ \A r \in Rows : MergedRow(r)
      /\ \A x \in ToSet(items) : x \in Known \/ - x \in Known
  BY <1>2, <1>5 DEF MemoryOK
<1>8. /\ file \in Seq(Int) /\ beside \in Seq(Nat) /\ count = Len(beside) /\ ToSet(beside) \subseteq Known
      /\ \A x \in ToSet(file) : x \in Known \/ - x \in Known
  BY <1>4 DEF Adds
<1>9. rejected \in Seq(Int) /\ beside \in Seq(Int) BY <1>7, <1>8
<1>10. /\ items \o file \in Seq(Int) /\ ToSet(items \o file) = ToSet(items) \cup ToSet(file)
       /\ ToSet(rejected \o beside) = ToSet(rejected) \cup ToSet(beside)
  BY <1>7, <1>8, <1>9, ToSetConcatenated
<1>11. rejected \o beside \in Seq(Nat) /\ Len(rejected \o beside) = reasons + count
  BY <1>7, <1>8, ConcatProperties
<1>12. /\ Rows' = Rows /\ \A r : PlaceOf(r)' = PlaceOf(r)
       /\ \A r, f : MayDrop(r, f)' = MayDrop(r, f)
       /\ Given' = Given /\ Known' = Known
  BY <1>1, SetupStays, GivenStays
<1>13. ASSUME NEW r \in Rows PROVE MergedRow(r)'
  <2>1. /\ Times(r, items \o file) = Times(r, items) + Times(r, file)
        /\ Times(r, rejected \o beside) = Times(r, rejected) + Times(r, beside)
    BY <1>7, <1>8, <1>9, TimesConcatenated
  <2>2. PICK a \in Nat, b \in Nat, c \in Nat, d \in Nat :
          /\ a = Times(r, items) /\ b = Times(r, rejected) /\ c = Times(r, file) /\ d = Times(r, beside)
    BY <1>7, <1>8, <1>9, TimesIsNat
  <2>3. Times(r, merging'.items) + Times(r, merging'.rejected) = (a + c) + (b + d)
    BY <1>6, <2>1, <2>2
  <2>4. IF OutputOf(PlaceOf(r)) \in todo THEN a + b = 0
          ELSE a + b = 1 \/ (a + b = 0 /\ MayDrop(r, items))
    BY <1>5, <1>7, <2>2 DEF MergedRow
  <2>5. IF PlaceOf(r) = p THEN c + d = 1 \/ (c + d = 0 /\ MayDrop(r, file)) ELSE c + d = 0
    BY <1>4, <2>2 DEF Adds
  <2>6. OutputOf(PlaceOf(r)) \in todo \ {path} <=> OutputOf(PlaceOf(r)) \in todo /\ PlaceOf(r) # p
    BY <1>3 DEF OutputOf
  <2>7. PlaceOf(r) = p => OutputOf(PlaceOf(r)) \in todo BY <1>1, <1>3, <1>5
  <2>8. IF OutputOf(PlaceOf(r)) \in todo \ {path} THEN (a + c) + (b + d) = 0
        ELSE (a + c) + (b + d) = 1 \/ ((a + c) + (b + d) = 0 /\ MayDrop(r, items \o file))
    <3>1. MayDrop(r, items) \/ MayDrop(r, file) => MayDrop(r, items \o file) BY <1>10, MayDropMore
    <3> HIDE DEF OutputOf
    <3>2. CASE PlaceOf(r) = p BY <2>4, <2>5, <2>6, <2>7, <3>1, <3>2
    <3>3. CASE PlaceOf(r) # p BY <2>4, <2>5, <2>6, <3>1, <3>3
    <3> QED BY <3>2, <3>3
  <2>9. OutputOf(PlaceOf(r))' = OutputOf(PlaceOf(r)) BY <1>12 DEF OutputOf
  <2>10. MayDrop(r, merging.items)' = MayDrop(r, items \o file)
    <3>1. PICK f : f = merging'.items OBVIOUS
    <3>2. MayDrop(r, merging.items)' = MayDrop(r, f)'
      BY <3>1 DEF MayDrop
    <3> QED BY <1>6, <1>12, <3>1, <3>2
  <2> QED BY <1>6, <2>3, <2>8, <2>9, <2>10 DEF MergedRow
<1>14. merging'.todo \subseteq {OutputOf(q) : q \in Given'}
  BY <1>2, <1>5, <1>6, <1>12 DEF MemoryOK
<1>15. \A x \in ToSet(items \o file) : x \in Known \/ - x \in Known
  BY <1>7, <1>8, <1>10
<1>16. MemoryOK'
  <2>1. DOMAIN merging' = DOMAIN NoMerge BY <1>1, <1>2 DEF MemoryOK
  <2> QED BY <1>6, <1>7, <1>8, <1>10, <1>11, <1>12, <1>13, <1>14, <1>15, <2>1 DEF MemoryOK
<1> QED BY <1>1, <1>16 DEF MergeOK, Merging

(* The other steps of merge write what it has in memory.                   *)
LEMMA MergeEndsOK ==
  ASSUME ~ Globbing, ShardInv, MergeCloses \/ MergeRejects \/ MergeReports \/ MergeStops
  PROVE  MergeOK'
<1>1. CASE MergeStops BY <1>1 DEF MergeStops, MergeOK, Merging
<1>2. CASE ~ MergeStops
  <2>1. phase \in Merging /\ UNCHANGED <<setup, opened, part, merging>>
    BY <1>2 DEF MergeCloses, MergeRejects, MergeReports, Merging
  <2>2. MergeOK BY DEF ShardInv
  <2>3. MemoryOK BY <2>1, <2>2 DEF MergeOK
  <2>4. /\ Rows' = Rows /\ \A r : PlaceOf(r)' = PlaceOf(r)
        /\ Given' = Given /\ Known' = Known
    BY <2>1, SetupStays, GivenStays
  <2>5. \A r \in Rows : MergedRow(r)'
    BY <2>1, <2>3, <2>4 DEF MemoryOK, MergedRow, MayDrop
  <2>6. MemoryOK' BY <2>1, <2>3, <2>4, <2>5 DEF MemoryOK
  <2>7. CASE MergeCloses BY <2>1, <2>6, <2>7 DEF MergeCloses, MergeOK, Merging
  <2>8. CASE MergeRejects BY <2>1, <2>2, <2>6, <2>8 DEF MergeRejects, MergeOK, Merging
  <2>9. CASE MergeReports BY <2>1, <2>2, <2>6, <2>9 DEF MergeReports, MergeOK, Merging
  <2> QED BY <1>2, <2>7, <2>8, <2>9
<1> QED BY <1>1, <1>2

(* Merge: whichever step it is.                                            *)
LEMMA MergeKeeps ==
  ASSUME ShardInv, Merge PROVE ShardInv'
<1>1. PartitionsOK' /\ CommandsOK' BY MergeLeavesFiles
<1>2. ASSUME ~ Globbing PROVE MergeOK'
  <2>1. ASSUME NEW stream \in BOOLEAN, MergeOpens(stream) PROVE MergeOK' BY <1>2, <2>1, MergeOpensOK
  <2>2. ASSUME NEW path \in Path, MergePath(path) PROVE MergeOK' BY <1>2, <2>2, MergePathOK
  <2>3. CASE MergeCloses \/ MergeRejects \/ MergeReports \/ MergeStops
    BY <1>2, <2>3, MergeEndsOK
  <2> QED BY <2>1, <2>2, <2>3 DEF Merge
<1> QED BY <1>1, <1>2 DEF ShardInv

(* Nothing changes.                                                        *)
LEMMA ShardsStutter == ShardInv /\ UNCHANGED shardVars => ShardInv'
<1> SUFFICES ASSUME ShardInv, UNCHANGED shardVars PROVE ShardInv' OBVIOUS
<1>1. UNCHANGED <<setup, phase, at, opened, part, worker, out, rej, rep, merging, final, finalRej, finalRep>>
  BY DEF shardVars, workVars, mergeVars
<1>2. Rows' = Rows /\ \A r : PlaceOf(r)' = PlaceOf(r) BY <1>1, SetupStays
<1>3. \A k, s : Represented(k, s)' = Represented(k, s) BY <1>1, SetupStays
<1>4. \A p : Placed(p)' = Placed(p) BY <1>1, <1>2 DEF Placed
<1>5. {PlaceOf(r) : r \in 1 .. (at - 1)}' = {PlaceOf(r) : r \in 1 .. (at - 1)} BY <1>1, <1>2
<1>11. {PlaceOf(r) : r \in Rows}' = {PlaceOf(r) : r \in Rows} BY <1>2
<1>12. Given' = Given /\ Known' = Known BY <1>1, GivenStays
<1>6. PartitionsOK' BY <1>1, <1>4, <1>5, <1>11 DEF ShardInv, PartitionsOK, Absent
<1>7. \A p \in Parts : FilesOK(p)'
  <2> SUFFICES ASSUME NEW p \in Parts PROVE FilesOK(p)' OBVIOUS
  <2>1. FilesOK(p) BY DEF ShardInv, CommandsOK
  <2>2. CASE phase # "new" BY <1>1, <2>1, <2>2, FilesStay
  <2>3. CASE phase = "new" BY <1>1, <2>1, <2>3 DEF FilesOK
  <2> QED BY <2>2, <2>3
<1>8. CommandsOK' BY <1>1, <1>7, <1>12 DEF ShardInv, CommandsOK
<1>9. MemoryOK => MemoryOK' BY <1>1, <1>2, <1>12 DEF MemoryOK, MergedRow, MayDrop
<1>10. MergeOK => MergeOK' BY <1>1, <1>9 DEF MergeOK
<1> QED BY <1>6, <1>8, <1>10 DEF ShardInv

-----------------------------------------------------------------------------
(* Whatever stops and is started again, the partitions hold the rows that  *)
(* were placed in them, the commands what they make of these, and merge    *)
(* what they wrote (integrations/sharding.py, integrations/ray_executor.py *)
(* and the commands of cli/main.py).                                       *)
THEOREM ShardsInvariant == Spec => []ShardInv
<1>1. Init => ShardInv BY ShardsBegin DEF Init
<1>2. ShardInv /\ [Next]_vars => ShardInv'
  <2> SUFFICES ASSUME ShardInv, [Next]_vars PROVE ShardInv' OBVIOUS
  <2>1. CASE UNCHANGED shardVars BY <2>1, ShardsStutter
  <2>2. CASE ShardedRun
    <3>1. ASSUME phase = "new", NEW s \in Configurations, Choose(s) PROVE ShardInv'
      BY <3>1, ChooseKeeps
    <3>2. CASE ShardRow BY <3>2, ShardRowKeeps
    <3>3. CASE ShardEnds \/ ShardStops BY <3>3, ShardEndsKeeps
    <3>4. ASSUME NEW p \in Parts, Command(p) PROVE ShardInv' BY <3>4, CommandKeeps
    <3>5. CASE Retry
      <4>1. phase = "work" BY <3>5 DEF Retry
      <4> QED BY <3>5, <4>1, FailuresKeep
    <3>6. CASE Merge BY <3>6, MergeKeeps
    <3> QED BY <2>2, <3>1, <3>2, <3>3, <3>4, <3>5, <3>6 DEF ShardedRun
  <2>3. CASE UNCHANGED vars
    <3>1. UNCHANGED shardVars BY <2>3 DEF vars
    <3> QED BY <3>1, ShardsStutter
  <2> QED BY <2>1, <2>2, <2>3 DEF Next
<1> QED BY <1>1, <1>2, PTL DEF Spec

(* What dedup drops is like an earlier row that it keeps, and no two that  *)
(* it keeps are alike, for any relation of likeness (deduplicate_exact,    *)
(* _minhash, _semantic_local and _semantic).                               *)
THEOREM DuplicatesStayRepresented == Spec => []DuplicatesRepresented
<1>1. ShardInv => DuplicatesRepresented
  <2> SUFFICES ASSUME ShardInv, setup # None, NEW p \in Parts, setup.command = "dedup",
                      worker[p] = "done"
               PROVE  Represented(ToSet(out[p]), ToSet(part[p]))
    BY DEF DuplicatesRepresented, Represented
  <2>1. phase # "new" BY DEF ShardInv, PartitionsOK
  <2>2. OthersOK(p) BY <2>1 DEF ShardInv, CommandsOK, FilesOK
  <2> QED BY <2>2 DEF OthersOK
<1> QED BY <1>1, ShardsInvariant, PTL

(* partition_dataset puts every row into one partition, and deals the rows *)
(* of a class, and those without one, out evenly.                          *)
LEMMA PartitionsAreEven == ShardInv => PartitionsHoldEachRowOnce
<1> SUFFICES ASSUME ShardInv, phase = "work"
             PROVE  /\ \A p \in opened : ToSet(part[p]) \subseteq Rows
                    /\ \A r \in Rows : \E p \in opened :
                         /\ Times(r, part[p]) = 1
                         /\ \A q \in opened \ {p} : Times(r, part[q]) = 0
                    /\ \A r \in Rows : \A p, q \in 1 .. setup.parts :
                         Cardinality({x \in ToSet(In(p)) : Akin(r, x)})
                           <= Cardinality({x \in ToSet(In(q)) : Akin(r, x)}) + 1
  BY DEF PartitionsHoldEachRowOnce, Akin
<1>1. /\ \A p \in opened : Ascending(part[p]) /\ ToSet(part[p]) = Placed(p)
      /\ at = Len(setup.labels) + 1 /\ opened = {PlaceOf(r) : r \in 1 .. (at - 1)}
      /\ setup \in Configurations
  BY DEF ShardInv, PartitionsOK
<1>2. /\ opened = {PlaceOf(r) : r \in Rows}
      /\ \A p : Placed(p) = {r \in Rows : PlaceOf(r) = p}
  BY PlacedRows
<1>3. ASSUME NEW r \in Rows
      PROVE  \E p \in opened : /\ Times(r, part[p]) = 1
                               /\ \A q \in opened \ {p} : Times(r, part[q]) = 0
  <2>1. PICK p \in opened : p = PlaceOf(r) BY <1>2
  <2>2. Times(r, part[p]) = 1
    <3>1. r \in ToSet(part[p]) BY <1>1, <1>2, <2>1
    <3> QED BY <1>1, <3>1, TimesAscending
  <2>3. ASSUME NEW q \in opened \ {p} PROVE Times(r, part[q]) = 0
    <3>1. r \notin ToSet(part[q]) BY <1>1, <1>2, <2>1
    <3> QED BY <1>1, <3>1, TimesAscending
  <2> QED BY <2>2, <2>3
<1>4. PICK n \in Nat : n = Len(setup.labels) BY <1>1, SetupFacts
<1>5. Rows = 1 .. n BY <1>1, <1>4, SetupFacts DEF Rows
<1>6. \A p : ToSet(In(p)) = Placed(p)
  <2> SUFFICES ASSUME NEW p PROVE ToSet(In(p)) = Placed(p) OBVIOUS
  <2>1. CASE p \in opened BY <1>1, <2>1 DEF In
  <2>2. CASE p \notin opened
    <3>1. Placed(p) = {} BY <1>2, <2>2
    <3>2. ToSet(<<>>) = {} BY DEF ToSet
    <3> QED BY <2>2, <3>1, <3>2 DEF In
  <2> QED BY <2>1, <2>2
<1>7. ASSUME NEW r \in Rows, NEW p \in 1 .. setup.parts, NEW q \in 1 .. setup.parts
      PROVE  Cardinality({x \in ToSet(In(p)) : Akin(r, x)})
               <= Cardinality({x \in ToSet(In(q)) : Akin(r, x)}) + 1
  <2>1. \A u : {x \in ToSet(In(u)) : Akin(r, x)} = AmongIn(r, n, u)
    BY <1>2, <1>5, <1>6 DEF AmongIn, Among
  <2>2. PICK Q \in Nat, t \in 0 .. (setup.parts - 1) : Dealt(r, n, Q, t) BY <1>1, Dealing
  <2>3. /\ Cardinality(AmongIn(r, n, p)) \in {Q, Q + 1}
        /\ Cardinality(AmongIn(r, n, q)) \in {Q, Q + 1}
    BY <2>2 DEF Dealt
  <2>4. \A a, b \in {Q, Q + 1} : a <= b + 1 OBVIOUS
  <2> QED BY <2>1, <2>3, <2>4
<1> QED BY <1>1, <1>2, <1>3, <1>7

(* So the commands find partitions with each row of the dataset once.      *)
THEOREM PartitionsHold == Spec => []PartitionsHoldEachRowOnce
BY PartitionsAreEven, ShardsInvariant, PTL

(* If the files to merge are named, and not found by a pattern that also   *)
(* matches the rejected rows beside them, then every row of the dataset    *)
(* goes once through shard, the commands and merge, accepted or rejected,  *)
(* or dropped by a command that may drop it; augment drops only a row that *)
(* has no word, or of which another row or a variation says the same.      *)
THEOREM RowsGoOnce ==
  ASSUME ~ Globbing PROVE Spec => []RowsOnceThroughShards
<1>1. ShardInv => MergeHoldsEachRowOnce
  <2> SUFFICES ASSUME ShardInv, phase = "merged"
               PROVE  /\ \A x \in ToSet(final) : x \in Known \/ - x \in Known
                      /\ ToSet(Quarantined) \subseteq Known
                      /\ \A r \in Rows :
                           LET times == Times(r, final) + Times(r, Quarantined) IN
                           times = 1 \/ (times = 0 /\ MayDrop(r, final))
                      /\ finalRep = [accepted |-> Len(final), rejected |-> Len(Quarantined),
                                     reasons |-> Len(Quarantined)]
    BY DEF MergeHoldsEachRowOnce
  <2>1. /\ MemoryOK /\ final = merging.items /\ merging.todo = {}
        /\ merging.rejected = <<>> \/ finalRej = merging.rejected
        /\ finalRep = [accepted |-> Len(merging.items), rejected |-> Len(merging.rejected),
                       reasons |-> merging.reasons]
    BY DEF ShardInv, MergeOK, Merging
  <2>2. /\ merging.rejected \in Seq(Nat) /\ merging.reasons = Len(merging.rejected)
        /\ ToSet(merging.rejected) \subseteq Known
    BY <2>1 DEF MemoryOK
  <2>3. Quarantined = merging.rejected
    <3>1. finalRep.rejected = Len(merging.rejected) BY <2>1
    <3>2. Len(merging.rejected) \in Nat /\ (Len(merging.rejected) = 0 <=> merging.rejected = <<>>)
      BY <2>2
    <3> QED BY <2>1, <3>1, <3>2 DEF Quarantined
  <2>5. \A x \in ToSet(final) : x \in Known \/ - x \in Known BY <2>1 DEF MemoryOK
  <2>6. ASSUME NEW r \in Rows
        PROVE  LET times == Times(r, final) + Times(r, Quarantined) IN
               times = 1 \/ (times = 0 /\ MayDrop(r, final))
    BY <2>1, <2>3 DEF MemoryOK, MergedRow
  <2> QED BY <2>1, <2>2, <2>3, <2>5, <2>6
<1>2. ShardInv => RowsOnceThroughShards BY <1>1, PartitionsAreEven DEF RowsOnceThroughShards
<1> QED BY <1>2, ShardsInvariant, PTL

=============================================================================
