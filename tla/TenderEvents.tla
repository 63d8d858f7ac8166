----------------------------- MODULE TenderEvents -----------------------------
(***************************************************************************)
(* What AlarmJob reads out of an EKAP answer and how it compares it with   *)
(* the snapshot of the previous run (app/ekap/models.py,                   *)
(* app/state/redis_store.py, app/jobs/alarm_job.py).  Operators only.      *)
(*                                                                         *)
(* Days, status ids and document counts are numbers; a status description  *)
(* is a member of Phrases, Concluding being those that contain one of the  *)
(* keywords once lowercased.                                               *)
(***************************************************************************)
EXTENDS Naturals

CONSTANTS None,        \* Python's None: an absent field
          Phrases,     \* the descriptions EKAP gives a status
          Concluding   \* those _is_completed recognises by keyword

(* The fields of an item that matter, at its top level or in ihaleBilgi. *)
Fields == [date : Nat \union {None}, status : Nat \union {None},
           phrase : Phrases \union {None}, docs : Nat \union {None}]

Items == [top : Fields, ihaleBilgi : Fields]

Snapshots == [date : Nat \union {None}, status : Nat \union {None},
              docs : Nat \union {None}]

ASSUME TenderEventsAssumption ==
  /\ None \notin Nat \union Items \union Snapshots
  /\ Concluding \subseteq Phrases

(* Python's "a or b": 0 is as false as None. *)
Or(a, b) == IF a \in {None, 0} THEN b ELSE a

(* TenderDetail.from_api_response: each field falls back to the nested one. *)
FromApiResponse(item) ==
  [f \in {"date", "status", "phrase", "docs"} |->
     Or(item.top[f], item.ihaleBilgi[f])]

(* Mutant: the description stored in the place of the count. *)
SnapshotMixedUp(detail) ==
  [date |-> detail.date, status |-> detail.status, docs |-> detail.phrase]

(* The snapshot set_tender_state writes and get_tender_state reads back:   *)
(* None travels as the empty string.  A status is stored as text, so that  *)
(* 0 survives although it is false as a number.                            *)
Snapshot(detail) ==
  [date |-> detail.date, status |-> detail.status, docs |-> detail.docs]

CompletedStatusIds == {4, 5, 10, 15, 20}

IsCompleted(detail) ==
  \/ detail.status \in CompletedStatusIds
  \/ detail.phrase \in Concluding

(* Mutant: only added documents count. *)
DocsAdded(prev, detail) ==
  prev.docs # None /\ detail.docs # None /\ prev.docs < detail.docs

DocsDiffer(prev, detail) ==
  prev.docs # None /\ detail.docs # None /\ prev.docs # detail.docs

(* Mutant: nothing at all on first sight. *)
DetectAfterFirstSight(prev, detail) ==
  {e \in {"documentChange", "completed"} :
     /\ prev # None
     /\ \/ e = "documentChange" /\ DocsDiffer(prev, detail)
        \/ /\ e = "completed"
           /\ IsCompleted(detail)
           /\ prev.status \notin CompletedStatusIds}

(* prev is None when no snapshot is stored. *)
DetectEvents(prev, detail) ==
  {e \in {"documentChange", "completed"} :
     \/ /\ e = "documentChange"
        /\ prev # None
        /\ DocsDiffer(prev, detail)
     \/ /\ e = "completed"
        /\ IsCompleted(detail)
        /\ prev # None => prev.status \notin CompletedStatusIds}
===============================================================================
