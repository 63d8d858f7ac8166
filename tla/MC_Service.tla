------------------------------ MODULE MC_Service ------------------------------
(* An instance of Service for TLC. *)
EXTENDS Service

CONSTANTS u1, alarm, interest, reminder, tip

OneUser      == {u1}
TwoJobs      == {alarm, interest}
TwoKeys      == {reminder, tip}
MCCallers    == [k \in TwoKeys |-> IF k = reminder THEN {alarm} ELSE {interest}]
MCAddressees == [k \in TwoKeys |-> OneUser]

(* Bounds of the run: one dispatch fails or one key slips, none expires.   *)
OneFault ==
  Cardinality({k \in Keys : slips[k] > 0} \union {p[2] : p \in failed}) <= 1

KeysKept == idem \subseteq idem'

(* Where nothing is pushed, tokens do not matter. *)
PhonesUntouched == UNCHANGED tokenVars
===============================================================================
