------------------------------ MODULE MC_AlarmJob ------------------------------
(* Instances of AlarmJob for TLC. *)
EXTENDS AlarmJob

CONSTANTS u1, u2, t1, t2, open, concluded

OneUser  == {u1}
TwoUsers == {u1, u2}
MCTenders == {t1}
TwoTenders == {t1, t2}
MCJobs == {alarm}
NoJobs == {}
MCCallers == [k \in AlarmKeys |-> {alarm}]
MCAddressees == [k \in AlarmKeys |-> KeyUsers(k)]
MCPhrases == {open, concluded}
MCConcluded == {concluded}

Absent == [date |-> None, status |-> None, phrase |-> None, docs |-> None]
Answer(day_, status_, phrase_, docs_) ==
  [top |-> [date |-> day_, status |-> status_, phrase |-> phrase_,
            docs |-> docs_],
   ihaleBilgi |-> Absent]

(* The tender takes place on day 1.  It is open, has its documents         *)
(* replaced, and is completed by description only.                         *)
MCAnswers == {Answer(1, 2, open, 1), Answer(1, 2, concluded, 2)}

AllTicked == {Kinds}
OverDays  == {{"reminderDay", "completed"}}
OverUsers == {{"documentChange"}}

(* Bounds of the runs: how many dispatches fail and keys slip. *)
SlippedKeys == {k \in Keys : slips[k] > 0}
OneFault == Cardinality(failed) + Cardinality(SlippedKeys) <= 1

(* Where nothing is pushed, tokens do not matter. *)
PhonesUntouched == UNCHANGED tokenVars
===============================================================================
