--------------------------- MODULE MC_TenderHistory ---------------------------
(* Instances of TenderHistory for TLC. *)
EXTENDS TenderHistory

CONSTANTS open, concluded

MCPhrases == {open, concluded}
MCConcluded == {concluded}

Absent == [date |-> None, status |-> None, phrase |-> None, docs |-> None]

(* A tender open or completed, by id or by description only, with its      *)
(* count missing, zero, one or two, and the fields at either place.        *)
FieldChoices ==
  [date : {1}, status : {None, 2, 4, 15}, phrase : {None, open, concluded},
   docs : {None, 0, 1, 2}]

MCAnswers == [top : FieldChoices, ihaleBilgi : {Absent}]
               \union [top : {Absent}, ihaleBilgi : FieldChoices]
===============================================================================
