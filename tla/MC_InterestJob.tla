---------------------------- MODULE MC_InterestJob ----------------------------
(* Instances of InterestJob for TLC. *)
EXTENDS InterestJob, TLC

CONSTANTS u1, u2, u3, i1, i2, works, izmir, bridge, open

OneUser    == {u1}
ThreeUsers == {u1, u2, u3}
TwoIkns    == {i1, i2}
NoBridge   == {i2}
MCJobs     == {interest}
NoJobs     == {}

MCLists == {"ihaleTuruIdList", "ihaleIlIdList"}
MCTerms == {works, izmir, bridge, open}
MCOpen  == {open}

(* A filter, or a tender, with these terms and no others. *)
With(terms) == [f \in Fields |-> IF f \in DOMAIN terms THEN terms[f] ELSE {}]

(* Tenders of works in Izmir, the first one for a bridge. *)
Project == ("ihaleTuruIdList" :> {works}) @@ ("ihaleIlIdList" :> {izmir})
             @@ ("ihaleDurumIdList" :> {open})
MCNotice == [i \in Ikns |->
  With(IF i = i1 THEN ("searchText" :> {bridge}) @@ Project ELSE Project)]

(* Works of any kind for u1 and u3, whose searches are equal; for u2       *)
(* bridges only, which is another search by its text alone.                *)
Works      == With("ihaleTuruIdList" :> {works})
Bridges    == With("searchText" :> {bridge})
MCSaved    == [u \in Users |-> IF u = u2 THEN <<Works, Bridges>> ELSE <<Works>>]

MCPools      == {<<i1, i2>>, <<i2>>}
CachePools   == {<<>>, <<i2>>}
MCCallers    == [k \in InterestKeys |-> {interest}]
MCAddressees == [k \in InterestKeys |-> {k[1]}]

(* Bounds of the runs: how many dispatches fail and keys slip. *)
OneFault ==
  Cardinality(failed) + Cardinality({k \in Keys : slips[k] > 0}) <= 1

(* One mark or one day's count is missed or lost. *)
OneLoss ==
  Cardinality(unmarked) + Cardinality({<<k[1], k[3]>> : k \in uncounted}) <= 1

(* Where nothing is pushed, tokens do not matter. *)
PhonesUntouched == UNCHANGED tokenVars

(* Users leave their tenders alone. *)
NoEdits == UNCHANGED userVars

(* One user registers tenders. *)
OnlyFirst == \A u \in Users \ {u1} :
  savedIkns[u] = {} /\ \A i \in Ikns : alarms[u][i] = "absent"
===============================================================================
