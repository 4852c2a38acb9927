----------------------------- MODULE MCRunStages -----------------------------
(* Three rows, one validator, one recognizer; two chunks of a stage.       *)
EXTENDS RunStages, TLC

CONSTANTS v1, p1

MCValidators == {v1}
MCRecognizers == {p1}
Plain == [approved |-> {}, installed |-> {}, broken |-> {}, presidio |-> TRUE, anonymizer |-> "local"]
Both == [Plain EXCEPT !.approved = {v1, p1}, !.installed = {v1, p1}]
MCSetups ==
  {Plain, Both,
   [Both EXCEPT !.anonymizer = "boxed"],
   [Both EXCEPT !.anonymizer = "absent"],
   [Both EXCEPT !.presidio = FALSE],
   [Both EXCEPT !.broken = {p1}],
   [Both EXCEPT !.broken = {v1}],
   [Both EXCEPT !.approved = {}],
   [Both EXCEPT !.approved = {p1}],
   [Both EXCEPT !.installed = {p1}]}
Approved == {Both}
MCOwn == {{}, {2}}
MCConfs == [provider : {"gemini", "cloud", "bedrock", "azure", "compatible", "preset"},
            policy : {"unrestricted", "local", "strict"}, url : {"private", "public", None},
            key : BOOLEAN, model : {TRUE}, managed : BOOLEAN, approved : {TRUE}]
           \cup
           [provider : {"cloud", "compatible"}, policy : {"unrestricted"}, url : {"private"},
            key : {TRUE}, model : BOOLEAN, managed : {TRUE}, approved : BOOLEAN]

(* The stage is followed after the plain installation, and every           *)
(* configuration up to its client: those that send are followed further    *)
(* once per kind of client.                                                *)
Representative(f) ==
  \/ f.policy = "local" /\ f.provider = "preset" /\ f.managed
  \/ f.policy = "unrestricted" /\ f.provider = "gemini" /\ f.url = None /\ f.key /\ ~f.managed
  \/ f.policy = "unrestricted" /\ f.provider = "cloud" /\ f.url = None /\ f.key /\ ~f.managed
MCExplored ==
  stage # "new" =>
    /\ setup = Plain
    /\ (\E c \in AllChunks : attempts[c] > 0) =>
          /\ Representative(conf)
          /\ kind \in {"evolve", "dpo"} => conf.provider = "gemini"
=============================================================================
