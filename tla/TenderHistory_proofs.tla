-------------------------- MODULE TenderHistory_proofs --------------------------
(***************************************************************************)
(* Proofs about TenderHistory, for any answers EKAP may give: what event   *)
(* detection makes of a tender's history, run after run.                   *)
(***************************************************************************)
EXTENDS TenderHistory, TLAPS

USE TenderEventsAssumption, AnswersAssumption

(* The fields of an answer keep their types, wherever they are read from.  *)
LEMMA DetailTyped ==
  ASSUME NEW a \in Answers
  PROVE  /\ Snapshot(FromApiResponse(a)) \in Snapshots
         /\ a # None
         /\ StatedDocs(a) \in Nat \union {None}
         /\ FromApiResponse(a).docs = Or(a.top.docs, a.ihaleBilgi.docs)
         /\ Snapshot(FromApiResponse(a)).docs = FromApiResponse(a).docs
         /\ Snapshot(FromApiResponse(a)).status = FromApiResponse(a).status
<1>1. a \in Items
  OBVIOUS
<1>2. a.top \in Fields /\ a.ihaleBilgi \in Fields
  BY <1>1 DEF Items
<1> QED
  BY <1>1, <1>2 DEF Snapshot, FromApiResponse, Or, Snapshots, Fields, StatedDocs

LEMMA EventsTyped ==
  ASSUME NEW prev, NEW detail
  PROVE  DetectEvents(prev, detail) \subseteq {"documentChange", "completed"}
BY DEF DetectEvents

-------------------------------------------------------------------------------
(* The snapshot is that of the answer seen last; and a completion that was *)
(* seen was an event once.                                                 *)
SnapshotOfSeen ==
  snapshot # None => seen # None /\ snapshot = Snapshot(FromApiResponse(seen))

History ==
  /\ HistoryTypeOK
  /\ SnapshotOfSeen
  /\ seen # None => snapshot # None
  /\ CompletionAnnounced

LEMMA HistoryInitial == HistoryInit => History
BY DEF HistoryInit, History, HistoryTypeOK, SnapshotOfSeen, CompletionAnnounced

(* What a comparison leaves behind. *)
LEMMA Compared ==
  ASSUME History, Compare
  PROVE  /\ item' = item /\ item \in Answers /\ seen' = item /\ seen' # None
         /\ snapshot' = Snapshot(FromApiResponse(item))
         /\ snapshot' \in Snapshots
         /\ events' = DetectEvents(snapshot, FromApiResponse(item))
         /\ events' \subseteq {"documentChange", "completed"}
<1>1. item \in Answers
  BY DEF History, HistoryTypeOK
<1> QED
  BY <1>1, DetailTyped, EventsTyped DEF Compare

(* A completed tender is news, or it was completed by its status before.   *)
LEMMA CompletionIsNews ==
  ASSUME History, Compare, IsCompleted(FromApiResponse(item))
  PROVE  "completed" \in events' \/ announced \/ lost
<1> SUFFICES ASSUME "completed" \notin events' PROVE announced \/ lost
  OBVIOUS
<1>1. snapshot # None /\ snapshot.status \in CompletedStatusIds
  BY Compared DEF DetectEvents
<1>2. seen \in Answers /\ snapshot = Snapshot(FromApiResponse(seen))
  BY <1>1 DEF History, HistoryTypeOK, SnapshotOfSeen
<1>3. IsCompleted(FromApiResponse(seen))
  BY <1>1, <1>2, DetailTyped DEF IsCompleted
<1> QED
  BY <1>1, <1>3 DEF History, CompletionAnnounced

LEMMA HistoryStep == History /\ [HistoryNext]_historyVars => History'
<1> SUFFICES ASSUME History, [HistoryNext]_historyVars PROVE History'
  OBVIOUS
<1>1. CASE Publish
  BY <1>1 DEF Publish, History, HistoryTypeOK, SnapshotOfSeen, CompletionAnnounced
<1>2. ASSUME Compare, announced' \in BOOLEAN, lost' \in BOOLEAN,
             announced \/ lost \/ "completed" \in events' => announced' \/ lost'
      PROVE  History'
  <2>1. HistoryTypeOK'
    BY <1>2, Compared DEF HistoryTypeOK
  <2>2. SnapshotOfSeen' /\ (seen # None => snapshot # None)'
    BY <1>2, Compared DEF SnapshotOfSeen
  <2>3. CompletionAnnounced'
    BY <1>2, Compared, CompletionIsNews DEF CompletionAnnounced
  <2> QED
    BY <2>1, <2>2, <2>3 DEF History
<1>3. CASE Observe
  BY <1>2, <1>3 DEF Observe, History, HistoryTypeOK
<1>4. CASE ObserveInVain
  BY <1>2, <1>4 DEF ObserveInVain, History, HistoryTypeOK
<1>5. CASE Evict
  BY <1>5 DEF Evict, History, HistoryTypeOK, SnapshotOfSeen, CompletionAnnounced
<1>6. CASE UNCHANGED historyVars
  BY <1>6 DEF historyVars, History, HistoryTypeOK, SnapshotOfSeen, CompletionAnnounced
<1> QED
  BY <1>1, <1>3, <1>4, <1>5, <1>6 DEF HistoryNext

LEMMA HistoryHolds == HistorySpec => []History
BY HistoryInitial, HistoryStep, PTL DEF HistorySpec

(* Type correctness. *)
THEOREM HistoryTyped == HistorySpec => []HistoryTypeOK
<1>1. History => HistoryTypeOK
  BY DEF History
<1> QED  BY <1>1, HistoryHolds, PTL

(* A completion is never lost silently: whatever EKAP answers in between,  *)
(* by id or by description, a run announced it or broke off over it.       *)
THEOREM CompletionsAnnounced == HistorySpec => []CompletionAnnounced
<1>1. History => CompletionAnnounced
  BY DEF History
<1> QED  BY <1>1, HistoryHolds, PTL

-------------------------------------------------------------------------------
(* Document counts. *)

(* Without zeros above other counts the code reads what the answer states, *)
(* or nothing; and it always reads a stated count that is not zero.        *)
LEMMA DocsRead ==
  ASSUME NEW a \in Answers, NEW d, d = FromApiResponse(a).docs
  PROVE  /\ ZeroStandsAlone /\ d # None => d = StatedDocs(a)
         /\ StatedDocs(a) \notin {None, 0} => d = StatedDocs(a)
BY DetailTyped DEF ZeroStandsAlone, StatedDocs, Or

(* The comparison is that of the counts read from both answers. *)
LEMMA DocsCompared ==
  ASSUME History, Observe
  PROVE  "documentChange" \in events' <=>
           /\ seen # None
           /\ FromApiResponse(seen).docs # None
           /\ FromApiResponse(item).docs # None
           /\ FromApiResponse(seen).docs # FromApiResponse(item).docs
<1>1. events' = DetectEvents(snapshot, FromApiResponse(item))
  BY Compared DEF Observe
<1>2. "documentChange" \in events' <=>
        snapshot # None /\ DocsDiffer(snapshot, FromApiResponse(item))
  BY <1>1 DEF DetectEvents
<1>3. CASE snapshot = None
  BY <1>2, <1>3 DEF History
<1>4. CASE snapshot # None
  <2>1. seen \in Answers /\ seen # None /\ snapshot = Snapshot(FromApiResponse(seen))
    BY <1>4 DEF History, HistoryTypeOK, SnapshotOfSeen
  <2>2. snapshot.docs = FromApiResponse(seen).docs
    BY <2>1, DetailTyped
  <2> QED
    BY <1>2, <1>4, <2>1, <2>2 DEF DocsDiffer
<1> QED  BY <1>3, <1>4

LEMMA ReportIsTrue ==
  ASSUME ZeroStandsAlone, History, Observe, "documentChange" \in events'
  PROVE  seen # None /\ StatedDocs(seen) # StatedDocs(item)
<1>1. seen # None /\ seen \in Answers /\ item \in Answers
  BY DocsCompared DEF History, HistoryTypeOK
<1> QED
  BY <1>1, DocsCompared, DocsRead

LEMMA ChangeIsReported ==
  ASSUME History, Observe, seen # None,
         StatedDocs(seen) \notin {None, 0}, StatedDocs(item) \notin {None, 0},
         StatedDocs(seen) # StatedDocs(item)
  PROVE  "documentChange" \in events'
<1>1. seen \in Answers /\ item \in Answers
  BY DEF History, HistoryTypeOK
<1>2. /\ FromApiResponse(seen).docs = StatedDocs(seen)
      /\ FromApiResponse(item).docs = StatedDocs(item)
  BY <1>1, DocsRead
<1> QED
  BY <1>2, DocsCompared

(* Subscribers are not told of a change of the documents that was none,    *)
(* over any sequence of answers, failed runs and evictions.                *)
THEOREM ReportsAreTrue == ZeroStandsAlone => (HistorySpec => NoFalseChange)
<1> SUFFICES ASSUME ZeroStandsAlone PROVE HistorySpec => NoFalseChange
  OBVIOUS
<1>1. History /\ [HistoryNext]_historyVars
        => [Observe /\ "documentChange" \in events'
              => seen # None /\ StatedDocs(seen) # StatedDocs(item)]_historyVars
  BY ReportIsTrue
<1> QED
  BY <1>1, HistoryHolds, PTL DEF HistorySpec, NoFalseChange

(* And no change between two counts other than zero escapes. *)
THEOREM ChangesAreReported == HistorySpec => CountedChangeReported
<1>1. History /\ [HistoryNext]_historyVars
        => [Observe /\ seen # None /\ StatedDocs(seen) \notin {None, 0}
                    /\ StatedDocs(item) \notin {None, 0}
                    /\ StatedDocs(seen) # StatedDocs(item)
              => "documentChange" \in events']_historyVars
  BY ChangeIsReported
<1> QED
  BY <1>1, HistoryHolds, PTL DEF HistorySpec, CountedChangeReported
===============================================================================
