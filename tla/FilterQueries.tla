---------------------------- MODULE FilterQueries ----------------------------
(***************************************************************************)
(* Saved filters and the EKAP searches the jobs build from them            *)
(* (app/dedup/grouper.py, app/jobs/interest_job.py:_merge_filters and the  *)
(* bodies of the two searches).                                            *)
(*                                                                         *)
(* A filter is a function that gives each search field the set of terms it *)
(* asks for.  The empty set stands for a field that is absent or holds     *)
(* None, [] or "": the fingerprint drops these, and they are what          *)
(* DEFAULT_SEARCH_BODY puts there.  A search text or a flag is a set of    *)
(* one term.  Left out are the fields whose default is not empty           *)
(* (ikNdeAra, searchType, ordering), which say how to search and not what  *)
(* for, and the order of a list.                                           *)
(***************************************************************************)
EXTENDS Naturals, Sequences, FiniteSets

CONSTANTS
  ListFields,   \* the list_keys of _merge_filters
  TextField,    \* searchText
  OtherFields,  \* flags, and the lists that are not among list_keys
  StatusField,  \* ihaleDurumIdList
  TenderDate,   \* ihaleTarihSaatBaslangic and -Bitis
  NoticeDate,   \* ilanTarihSaatBaslangic and -Bitis
  Terms,        \* what may be asked for in any field
  OpenStatus    \* _OPEN_STATUS_IDS

DateFields == {TenderDate, NoticeDate}
Fields == ListFields \union OtherFields \union DateFields
            \union {TextField, StatusField}

ASSUME FieldsAssumption ==
  /\ TextField \notin ListFields
  /\ DateFields \intersect (ListFields \union {TextField}) = {}
  /\ StatusField \notin ListFields \union DateFields \union {TextField}
  /\ OtherFields \intersect (ListFields \union DateFields
                               \union {TextField, StatusField}) = {}
  /\ TenderDate # NoticeDate
  /\ OpenStatus \in (SUBSET Terms) \ {{}}

Filters == [Fields -> SUBSET Terms]

(* A tender has terms too, in each field; EKAP lists it for a search if it *)
(* has a term of every field the search asks for.                          *)
MatchesIn(fields, filter, tender) ==
  \A f \in fields : filter[f] = {} \/ filter[f] \intersect tender[f] # {}

Matches(filter, tender) == MatchesIn(Fields, filter, tender)

-------------------------------------------------------------------------------
(* filter_fingerprint: what is left after dropping dates and empty fields. *)
(* A mutant keeps nothing but the lists.                                   *)
FingerprintOfLists(filter) ==
  [f \in Fields |-> IF f \in ListFields THEN filter[f] ELSE {}]

Fingerprint(filter) ==
  [f \in Fields |-> IF f \in DateFields THEN {} ELSE filter[f]]

(* The body of the saved-filter job's search.  Its two notice dates are    *)
(* overridden, the tender dates of base_filter stay.                       *)
NoticesOf(filter, day) == [filter EXCEPT ![NoticeDate] = {day}]

-------------------------------------------------------------------------------
(* _merge_filters: the lists are unioned field by field, of the texts only *)
(* the first is kept, everything else is dropped.                          *)
FirstText(filters) ==
  LET texts == SelectSeq(filters, LAMBDA b : b[TextField] # {})
  IN IF texts = <<>> THEN {} ELSE Head(texts)[TextField]

MergeFilters(filters) ==
  [f \in Fields |->
     CASE f \in ListFields -> UNION {filters[n][f] : n \in DOMAIN filters}
       [] f = TextField    -> FirstText(filters)
       [] OTHER            -> {}]

(* The body of the interest job's search. *)
OpenSearch(filters) ==
  [MergeFilters(filters) EXCEPT ![StatusField] = OpenStatus]
==============================================================================
