--------------------------- MODULE MC_SavedFilterJob ---------------------------
(* Instances of SavedFilterJob for TLC. *)
EXTENDS SavedFilterJob

CONSTANTS u1, u2, f1, f2, t1, t2, works, yes, soon, late, open

TwoUsers    == {u1, u2}

TwoTenders  == {t1, t2}
MCJobs      == {saved}
TwoIds      == {f1, f2}
MCLists     == {"ihaleTuruIdList"}
MCOthers    == {"eIhale"}
MCTerms     == {works, yes, soon, late, open} \union Days
MCOpen      == {open}

(* Firestore makes the ids of the filters, no two users have the same. *)
MCOwners     == (f1 :> {u1}) @@ (f2 :> {u2})
MCCallers    == [k \in MatchKeys |-> {saved}]
MCAddressees == [k \in MatchKeys |-> Owners[k[1]]]

(* A filter, or a tender, with these terms and no others. *)
With(terms) == [f \in Fields |-> IF f \in DOMAIN terms THEN terms[f] ELSE {}]

Works       == With("ihaleTuruIdList" :> {works})
WorksSoon   == With(("ihaleTuruIdList" :> {works}) @@ (TenderDate :> {soon}))
WorksOnline == With(("ihaleTuruIdList" :> {works}) @@ ("eIhale" :> {yes}))

ByKind == {Works, WorksOnline}
ByDate == {Works, WorksSoon}

(* Two tenders of works, announced today and to be held soon and late, the *)
(* second one online.                                                      *)
MCNoticeDay == [t \in Tenders |-> 0]
MCNotice ==
  (t1 :> With(("ihaleTuruIdList" :> {works}) @@ (TenderDate :> {soon})
              @@ (NoticeDate :> {0})))
  @@ (t2 :> With(("ihaleTuruIdList" :> {works}) @@ (TenderDate :> {late})
                 @@ ("eIhale" :> {yes}) @@ (NoticeDate :> {0})))

(* Bounds of the runs.  One dispatch fails, and one key may slip. *)
OneFault ==
  /\ Cardinality(failed) <= 1
  /\ \A k \in Keys : slips[k] > 0 => k = <<f2, t2>> /\ failed \subseteq {<<u2, k>>}

(* u1 keeps the filter for all works, u2 changes to and fro. *)
OnlyU2Edits == filters[u1][f1] = Works /\ filters[u2][f2] # None

(* Each run finds both users eligible, or u1 alone. *)
U1Eligible == DOMAIN job'.tokens \in {{}, {u1}, TwoUsers}

(* Where nothing is pushed, tokens do not matter. *)
PhonesUntouched == UNCHANGED tokenVars

(* A run reads each filter once and each group's tenders once: what comes  *)
(* later is for the next run.                                              *)
NewsBetweenRuns == <<filters, published>>' # <<filters, published>> => job.pc = "idle"
================================================================================
