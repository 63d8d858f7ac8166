----------------------------- MODULE TenderHistory -----------------------------
(***************************************************************************)
(* One tender over many runs of AlarmJob: EKAP publishes changes, each run *)
(* compares what it fetches with the snapshot of the last run that got     *)
(* that far, and replaces the snapshot.  Detection only: what happens to   *)
(* the events afterwards is in AlarmJob.                                   *)
(***************************************************************************)
EXTENDS TenderEvents

CONSTANT Answers   \* the items EKAP may answer with

ASSUME AnswersAssumption == Answers \subseteq Items

VARIABLES
  item,       \* EKAP: what it would answer now
  snapshot,   \* Redis: tender_state, None when there is none
  events,     \* the events of the last run that compared
  seen,       \* history: the answer the snapshot was made of, None if none
  announced,  \* history: some run since the last eviction told "completed"
  lost        \* history: some run since then found it and told nobody

historyVars == <<item, snapshot, events, seen, announced, lost>>

HistoryInit ==
  /\ item \in Answers
  /\ snapshot = None
  /\ events = {}
  /\ seen = None
  /\ announced = FALSE
  /\ lost = FALSE

(* EKAP changes the tender, or answers with other fields filled in. *)
Publish ==
  /\ item' \in Answers
  /\ UNCHANGED <<snapshot, events, seen, announced, lost>>

(* Mutant: the snapshot is only taken once. *)
CompareOnce ==
  LET detail == FromApiResponse(item) IN
    /\ events' = DetectEvents(snapshot, detail)
    /\ snapshot' = IF snapshot = None THEN Snapshot(detail) ELSE snapshot
    /\ seen' = item
    /\ UNCHANGED item

(* get_tender_state, get_tender_detail, _detect_events, set_tender_state:  *)
(* one run of the job works on a tender at a time.  A run that fails       *)
(* before that, or finds no tender, leaves everything as it was.           *)
Compare ==
  LET detail == FromApiResponse(item) IN
    /\ events' = DetectEvents(snapshot, detail)
    /\ snapshot' = Snapshot(detail)
    /\ seen' = item
    /\ UNCHANGED item

(* The run goes on to the subscribers. *)
Observe ==
  /\ Compare
  /\ announced' = (announced \/ "completed" \in events')
  /\ UNCHANGED lost

(* The process dies with the snapshot saved, or set_tender_state raises    *)
(* although Redis has it: the subscribers are not told of these events.    *)
ObserveInVain ==
  /\ Compare
  /\ lost' = (lost \/ "completed" \in events')
  /\ UNCHANGED announced

(* Redis drops the snapshot (it has no TTL, but allkeys-lru may evict it). *)
Evict ==
  /\ snapshot # None
  /\ snapshot' = None
  /\ seen' = None
  /\ announced' = FALSE
  /\ lost' = FALSE
  /\ UNCHANGED <<item, events>>

HistoryNext == Publish \/ Observe \/ ObserveInVain \/ Evict

HistorySpec == HistoryInit /\ [][HistoryNext]_historyVars

-------------------------------------------------------------------------------
(* Properties. *)

(* The document count an answer states, whatever the code makes of it. *)
StatedDocs(a) == IF a.top.docs # None THEN a.top.docs ELSE a.ihaleBilgi.docs

HistoryTypeOK ==
  /\ item \in Answers
  /\ snapshot \in Snapshots \union {None}
  /\ events \subseteq {"documentChange", "completed"}
  /\ seen \in Answers \union {None}
  /\ announced \in BOOLEAN
  /\ lost \in BOOLEAN

(* No answer states a count of zero at its top level and another count     *)
(* below: `or` would take the one below.                                   *)
ZeroStandsAlone == \A a \in Answers : a.top.docs = 0 => a.ihaleBilgi.docs = None

(* No false alarm: a run reports changed documents only if the count of    *)
(* this answer differs from that of the answer before.  (If zeros stand    *)
(* alone, as they do where each field has one place.)                      *)
NoFalseChange ==
  [][Observe /\ "documentChange" \in events'
       => seen # None /\ StatedDocs(seen) # StatedDocs(item)]_historyVars

(* As long as every answer states a count other than zero at one place, no *)
(* change between two observations goes unreported.                        *)
CountedChangeReported ==
  [][Observe /\ seen # None /\ StatedDocs(seen) \notin {None, 0}
             /\ StatedDocs(item) \notin {None, 0}
             /\ StatedDocs(seen) # StatedDocs(item)
       => "documentChange" \in events']_historyVars

(* A tender that stands as completed in the snapshot was announced as such *)
(* by this run or by an earlier one, unless a run found it completed and   *)
(* broke off: silence later on loses nothing else.                         *)
CompletionAnnounced ==
  snapshot # None /\ IsCompleted(FromApiResponse(seen))
    => announced \/ lost

(* README.md:7 has the alarm job detect changes of the documents: then one *)
(* whose count differs from the previous answer's is reported.             *)
EveryChangeReported ==
  [][Observe /\ seen # None
             /\ StatedDocs(seen) # None /\ StatedDocs(item) # None
             /\ StatedDocs(seen) # StatedDocs(item)
       => "documentChange" \in events']_historyVars
================================================================================
