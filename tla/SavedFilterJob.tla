---------------------------- MODULE SavedFilterJob ----------------------------
(***************************************************************************)
(* The daily job for saved filters (app/jobs/saved_filter_job.py) over the *)
(* dispatcher: load the users, gather their filters, group equal filters,  *)
(* search EKAP once for each group, and tell every member of the group of  *)
(* the matches that member was not told of before.                         *)
(*                                                                         *)
(* Same conventions as AlarmJob: job.pc is the await the run stands at,    *)
(* pc = "calling" is the await of dispatch.                                *)
(***************************************************************************)
EXTENDS Dispatcher, FilterQueries, SequencesExt

CONSTANTS
  saved,       \* the job, as a caller of dispatch
  FilterIds,   \* document ids of saved filters
  Owners,      \* Owners[f]: the users that may have a filter with id f
  Saveable,    \* the filters users may save
  Tenders,
  Notice,      \* Notice[t]: the terms of tender t in each field
  NoticeDay,   \* NoticeDay[t]: the day EKAP publishes t
  PageSize,    \* paginationTake
  MaxDay,      \* bound: days
  None

MatchKeys == FilterIds \X Tenders
Days      == 0 .. MaxDay

ASSUME SavedFilterAssumption ==
  /\ Jobs = {saved}
  /\ Keys = MatchKeys
  /\ Callers = [k \in Keys |-> {saved}]
  /\ Owners \in [FilterIds -> SUBSET Users]
  /\ Addressees = [k \in Keys |-> Owners[k[1]]]
  /\ Saveable \subseteq Filters
  /\ NoticeDay \in [Tenders -> Days]
  /\ Notice \in [Tenders -> Filters]
  /\ \A t \in Tenders : Notice[t][NoticeDate] = {NoticeDay[t]}
  /\ PageSize \in Nat \ {0} /\ MaxDay \in Nat
  /\ IsFiniteSet(Users) /\ IsFiniteSet(FilterIds) /\ IsFiniteSet(Tenders)

VARIABLES
  filters,    \* Firestore: filters[u][f], None if missing or without alarm
  published,  \* EKAP: the tenders it lists by now
  day,        \* the current day
  notified,   \* Redis: triples <<u, f, t>>, t in notified_tenders:{u}:{f}
  job         \* the local variables of the run

filterVars == <<filters, published, day>>
savedVars  == <<dispatchVars, filterVars, notified, job>>

(* found: the members <<uid, filter>> in the order they were gathered;     *)
(* todo, group: positions in found, of the members that are in no group    *)
(* the loop has come to yet, and of those left in the group at hand.       *)
Idle == [pc |-> "idle", tokens |-> <<>>, waiting |-> <<>>, found |-> <<>>,
         todo |-> {}, today |-> 0, group |-> {}, page |-> <<>>, left |-> <<>>,
         seen |-> {}]

Member    == job.found[Min(job.group)]
Candidate == Head(job.left)

(* What is added to notified_tenders; a mutant mixes up the arguments. *)
TripleMixedUp == <<Member.uid, Candidate, Member.id>>
Triple        == <<Member.uid, Member.id, Candidate>>

(* The loop goes on with the next group; after an exception the rest of    *)
(* this one is given up.                                                   *)
LeaveGroup ==
  job' = [job EXCEPT !.pc = "loop", !.group = {}, !.page = <<>>,
                     !.left = <<>>, !.seen = {}]

-------------------------------------------------------------------------------
Start ==
  /\ job.pc = "idle"
  /\ job' = [Idle EXCEPT !.pc = "users"]
  /\ UNCHANGED <<dispatchVars, filterVars, notified>>

(* Everything is gathered: today is fixed and the groups are made. *)
AfterGather(run) ==
  IF run.waiting = <<>>
  THEN [run EXCEPT !.pc = "loop", !.today = day, !.todo = DOMAIN run.found]
  ELSE run

(* list_active_users_with_fcm: some of the users with a stored token. *)
LoadUsers ==
  /\ job.pc = "users"
  /\ \E eligible \in SUBSET {u \in Users : stored[u] # NoToken} :
     \E order \in SetToSeqs(eligible) :
       job' = AfterGather([job EXCEPT !.pc = "gather", !.waiting = order,
                                      !.tokens = [u \in eligible |-> stored[u]]])
  /\ UNCHANGED <<dispatchVars, filterVars, notified>>

(* One user's filters with an alarm, in the order Firestore gives them. *)
FiltersOf(u) ==
  {[uid |-> u, id |-> f, body |-> filters[u][f]] :
     f \in {g \in FilterIds : filters[u][g] # None}}

Gather ==
  /\ job.pc = "gather"
  /\ \E order \in SetToSeqs(FiltersOf(Head(job.waiting))) :
       job' = AfterGather([job EXCEPT !.waiting = Tail(@), !.found = @ \o order])
  /\ UNCHANGED <<dispatchVars, filterVars, notified>>

(* group_filters_by_fingerprint: groups in the order of their first        *)
(* members, whose filter is the group's base_filter.                       *)
InGroupOf(first, member) == Fingerprint(member.body) = Fingerprint(first.body)

NextGroup ==
  /\ job.pc = "loop"
  /\ job.todo # {}
  /\ LET first == job.found[Min(job.todo)]
         same  == {n \in job.todo : InGroupOf(first, job.found[n])}
     IN job' = [job EXCEPT !.pc = "search", !.group = same, !.todo = @ \ same]
  /\ UNCHANGED <<dispatchVars, filterVars, notified>>

(* The tenders the search may list, and its first page in any order. *)
Hits == {t \in published :
           Matches(NoticesOf(Member.body, job.today), Notice[t])}

Pages ==
  UNION {SetToSeqs(s) :
           s \in {r \in SUBSET Hits :
                    \/ r = Hits /\ Cardinality(r) <= PageSize
                    \/ r # Hits /\ Cardinality(r) = PageSize}}

Search ==
  /\ job.pc = "search"
  /\ \E page \in Pages :
       IF page = <<>> THEN LeaveGroup
       ELSE job' = [job EXCEPT !.pc = "seen", !.page = page]
  /\ UNCHANGED <<dispatchVars, filterVars, notified>>

(* get_notified_tenders of the first member left *)
Seen == {t \in Tenders : <<Member.uid, Member.id, t>> \in notified}

ReadSeen ==
  /\ job.pc = "seen"
  /\ job' = [job EXCEPT !.pc = "match", !.left = job.page, !.seen = Seen]
  /\ UNCHANGED <<dispatchVars, filterVars, notified>>

(* "tid in seen", and a mutant that forgets to look. *)
NeverTold == FALSE
Told      == Candidate \in job.seen

PassOver ==
  /\ job.pc = "match"
  /\ job.left # <<>>
  /\ Told
  /\ job' = [job EXCEPT !.left = Tail(@)]
  /\ UNCHANGED <<dispatchVars, filterVars, notified>>

(* The member is done; after the last one so is the group. *)
NextMember ==
  /\ job.pc = "match"
  /\ job.left = <<>>
  /\ LET rest == job.group \ {Min(job.group)} IN
       IF rest = {} THEN LeaveGroup
       ELSE job' = [job EXCEPT !.pc = "seen", !.group = rest, !.seen = {}]
  /\ UNCHANGED <<dispatchVars, filterVars, notified>>

(* idem_key: filter and tender, not the user.  A mutant leaves the tender  *)
(* out: one message for each filter.                                       *)
IdemKeyOfFilter == <<Member.id, CHOOSE t \in Tenders : TRUE>>
IdemKey         == <<Member.id, Candidate>>

(* Mutant: a late-bound uid, that of the last member. *)
DispatchToLast ==
  /\ job.pc = "match"
  /\ job.left # <<>>
  /\ ~Told
  /\ LET uid == job.found[Max(job.group)].uid IN Call(saved, uid, job.tokens[uid], IdemKey)
  /\ job' = [job EXCEPT !.pc = "calling"]
  /\ UNCHANGED <<filterVars, notified>>

DispatchMatch ==
  /\ job.pc = "match"
  /\ job.left # <<>>
  /\ ~Told
  /\ Call(saved, Member.uid, job.tokens[Member.uid], IdemKey)
  /\ job' = [job EXCEPT !.pc = "calling"]
  /\ UNCHANGED <<filterVars, notified>>

DispatchReturned ==
  /\ job.pc = "calling"
  /\ frame[saved].end = "returned"
  /\ Resume(saved)
  /\ job' = [job EXCEPT !.pc = "mark"]
  /\ UNCHANGED <<filterVars, notified>>

(* add_notified_tender *)
Mark ==
  /\ job.pc = "mark"
  /\ notified' = notified \union {Triple}
  /\ job' = [job EXCEPT !.pc = "match", !.left = Tail(@)]
  /\ UNCHANGED <<dispatchVars, filterVars>>

Finish ==
  /\ job.pc = "loop"
  /\ job.todo = {}
  /\ job' = Idle
  /\ UNCHANGED <<dispatchVars, filterVars, notified>>

-------------------------------------------------------------------------------
(* Failures. *)

(* An await before the loop raises: the run is over. *)
LoadFails ==
  /\ job.pc \in {"users", "gather"}
  /\ job' = Idle
  /\ UNCHANGED <<dispatchVars, filterVars, notified>>

(* An await of the loop other than dispatch raises; that of the mark       *)
(* possibly after Redis has set it.                                        *)
GroupFails ==
  /\ job.pc \in {"search", "seen", "mark"}
  /\ \/ UNCHANGED notified
     \/ job.pc = "mark" /\ notified' = notified \union {Triple}
  /\ LeaveGroup
  /\ UNCHANGED <<dispatchVars, filterVars>>

DispatchRaised ==
  /\ job.pc = "calling"
  /\ frame[saved].end = "raised"
  /\ Resume(saved)
  /\ LeaveGroup
  /\ UNCHANGED <<filterVars, notified>>

JobDies ==
  /\ job.pc # "idle"
  /\ job' = Idle
  /\ IF InCall(saved) THEN Crash({saved}) ELSE UNCHANGED dispatchVars
  /\ UNCHANGED <<filterVars, notified>>

-------------------------------------------------------------------------------
(* The surroundings. *)

(* The user saves, edits or deletes a filter in the app. *)
EditFilter(u, f) ==
  /\ u \in Owners[f]
  /\ \E body \in Saveable \union {None} :
       /\ body # filters[u][f]
       /\ filters' = [filters EXCEPT ![u][f] = body]
  /\ UNCHANGED <<dispatchVars, published, day, notified, job>>

Publish(t) ==
  /\ NoticeDay[t] = day
  /\ published' = published \union {t}
  /\ UNCHANGED <<dispatchVars, filters, day, notified, job>>

NextDay ==
  /\ day < MaxDay
  /\ day' = day + 1
  /\ UNCHANGED <<dispatchVars, filters, published, notified, job>>

(* The set's ninety days are over, or Redis evicts it. *)
DropNotified(u, f) ==
  LET lost == {n \in notified : n[1] = u /\ n[2] = f}
  IN /\ lost # {}
     /\ notified' = notified \ lost
     /\ UNCHANGED <<dispatchVars, filterVars, job>>

Surroundings ==
  \/ Environment /\ UNCHANGED <<filterVars, notified, job>>
  \/ NextDay
  \/ \E t \in Tenders : Publish(t)
  \/ \E u \in Users, f \in FilterIds : EditFilter(u, f) \/ DropNotified(u, f)

SavedInit ==
  /\ DispatchInit
  /\ \E g \in [Users -> [FilterIds -> Saveable]] :
       filters = [u \in Users |-> [f \in FilterIds |->
                    IF u \in Owners[f] THEN g[u][f] ELSE None]]
  /\ published = {}
  /\ day = 0
  /\ notified = {}
  /\ job = Idle

SavedNext ==
  \/ Start \/ LoadUsers \/ Gather \/ NextGroup \/ Search \/ ReadSeen
  \/ PassOver \/ NextMember \/ DispatchMatch \/ DispatchReturned \/ Mark
  \/ Finish
  \/ (Progress(saved) \/ Failure(saved)) /\ UNCHANGED <<filterVars, notified, job>>
  \/ LoadFails \/ GroupFails \/ DispatchRaised \/ JobDies
  \/ Surroundings

SavedSpec == SavedInit /\ [][SavedNext]_savedVars

-------------------------------------------------------------------------------
(* Properties. *)

SavedTypeOK ==
  /\ filters \in [Users -> [FilterIds -> Saveable \union {None}]]
  /\ published \subseteq Tenders
  /\ day \in Days
  /\ notified \subseteq Users \X FilterIds \X Tenders
  /\ job.pc \in {"idle", "users", "gather", "loop", "search", "seen", "match",
                 "calling", "mark"}
  /\ \A u \in DOMAIN job.tokens : u \in Users /\ job.tokens[u] \in 1 .. issued[u]
  /\ job.today \in Days
  /\ job.page \in Seq(Tenders) /\ Len(job.page) <= PageSize
  /\ job.pc \in {"search", "seen", "match", "calling", "mark"} => job.group # {}
  /\ job.group \union job.todo \subseteq DOMAIN job.found
  /\ \A n \in DOMAIN job.found : job.found[n].uid \in DOMAIN job.tokens

ToldOf(u, f, t) == \E n \in DOMAIN inbox[<<f, t>>] : inbox[<<f, t>>][n] = u

(* The matches of the current member that the run is through with. *)
Handled ==
  {<<Member.uid, Member.id, job.page[n]>> :
     n \in IF job.pc = "match" THEN 1 .. Len(job.page) - Len(job.left) ELSE {}}

(* What a run reaches it serves: of every match that is marked, or that    *)
(* the run has left behind it, the user has a document, or a dispatch of   *)
(* it failed, or the filter has an id that several users have and another  *)
(* of them was told.                                                       *)
MatchServed ==
  \A n \in Handled \union notified :
    LET u == n[1]  f == n[2]  t == n[3] IN
      \/ ToldOf(u, f, t)
      \/ <<u, <<f, t>>>> \in failed
      \/ Owners[f] # {u} /\ inbox[<<f, t>>] # <<>>

(* A document for u is written under <<f, t>>. *)
Tells(u, f, t) ==
  inbox'[<<f, t>>] # inbox[<<f, t>>] /\ Last(inbox'[<<f, t>>]) = u

(* A mark holds, though the marks are read before a member's matches and   *)
(* not again, and the idempotency key may be gone: no user is told once    *)
(* more of a tender that is marked as told.                                *)
NoneAfterMark ==
  [][inbox' # inbox => \A u \in Users, f \in FilterIds, t \in Tenders :
       Tells(u, f, t) => <<u, f, t>> \notin notified]_savedVars

(* The user gets what the user's own filter asks for, of today, although   *)
(* the search was made with the filter of the group's first member; but    *)
(* only up to the tender date, see ToldMatchesFilter.                      *)
FitsOwnFilter ==
  [][inbox' # inbox => \A u \in Users, f \in FilterIds, t \in Tenders :
       Tells(u, f, t) =>
         /\ Member.uid = u /\ Member.id = f
         /\ MatchesIn(Fields \ {TenderDate},
                      NoticesOf(Member.body, job.today), Notice[t])]_savedVars

(* The docstring of filter_fingerprint lets it ignore the dates the job    *)
(* overrides: so the user's whole filter decides what the user is told of. *)
ToldMatchesFilter ==
  [][inbox' # inbox => \A u \in Users, f \in FilterIds, t \in Tenders :
       Tells(u, f, t) =>
         Matches(NoticesOf(Member.body, job.today), Notice[t])]_savedVars

(* The job is a lawful caller of dispatch, as the alarm job is. *)
LawfulCaller ==
  DispatchInit /\ [][UNCHANGED dispatchVars \/ DispatchNext]_dispatchVars
================================================================================
