------------------------------ MODULE InterestJob ------------------------------
(***************************************************************************)
(* The hourly suggestion job (app/jobs/interest_job.py) over the           *)
(* dispatcher: for each user with saved filters, and below the daily cap,  *)
(* search once, leave out what the user registered or was told of before,  *)
(* and dispatch the first candidate that is left.                          *)
(*                                                                         *)
(* Same conventions as AlarmJob: job.pc is the await the run stands at,    *)
(* pc = "calling" is the await of dispatch.  Time is counted in slots.     *)
(***************************************************************************)
EXTENDS Dispatcher, FilterQueries

CONSTANTS
  interest,    \* the job, as a caller of dispatch
  Ikns,        \* tenders, by their registration number
  Pools,       \* the sequences of Ikns an EKAP search may return
  Saved,       \* Saved[u]: the filters u has saved, in order
  Notice,      \* Notice[i]: the terms of tender i in each field
  None,
  Cap,         \* settings.interest_daily_cap
  DedupSlots,  \* settings.interest_dedup_days, in slots
  SlotsPerDay,
  MaxNow       \* bound: the last slot

DayOf(slot) == slot \div SlotsPerDay
Days        == {DayOf(slot) : slot \in 0 .. MaxNow}
Forever     == MaxNow + DedupSlots + 1   \* the expiry of a key without TTL

(* idem_key: user, tender and date. *)
InterestKeys == Users \X Ikns \X Days

ASSUME InterestAssumption ==
  /\ Jobs = {interest}
  /\ Keys = InterestKeys
  /\ Callers = [k \in Keys |-> {interest}]
  /\ Addressees = [k \in Keys |-> {k[1]}]
  /\ Pools \subseteq Seq(Ikns)
  /\ Saved \in [Users -> Seq(Filters)]
  /\ Notice \in [Ikns -> Filters]
  /\ Cap \in Nat /\ DedupSlots \in Nat /\ MaxNow \in Nat
  /\ SlotsPerDay \in Nat \ {0}

VARIABLES
  alarms,      \* Firestore: alarms[u][i], u's alarm on tender i
  savedIkns,   \* Firestore: the IKNs in their savedTenders
  suggested,   \* Redis: interest_notified:{uid}, a set with one TTL
  expiry,      \* Redis: the slot in which that set expires, 0 if there is none
  daily,       \* Redis: daily[u][d], interest_daily:{uid}:{date}
  now,         \* the current slot
  job,         \* the local variables of the run
  shownAt,     \* history: the slot of the last document on <<u, ikn>>
  unmarked,    \* history: pairs <<u, ikn>> whose mark was missed or lost
  uncounted,   \* history: keys whose count was missed or lost
  late         \* history: what the user at hand registered, and where, after
               \* the run had read that collection

redisVars    == <<suggested, expiry, daily>>
userVars     == <<alarms, savedIkns>>
historyVars  == <<shownAt, unmarked, uncounted, late>>
interestVars == <<dispatchVars, userVars, redisVars, now, job, historyVars>>

(* An alarm document is kept under the tender's id and may, but need not,  *)
(* name its IKN: mark_alarm_completed creates one without.                 *)
AlarmDocs   == {"absent", "named", "unnamed"}
Collections == {"alarms", "savedTenders"}

Idle == [pc |-> "idle", tokens |-> <<>>, users |-> {}, today |-> 0,
         cache |-> <<>>, uid |-> None, pool |-> <<>>, excluded |-> {}]

(* The loop goes on with the next user. *)
Skip == job' = [job EXCEPT !.pc = "loop", !.pool = <<>>, !.excluded = {}]

Candidate == Head(job.pool)

(* A mutant leaves the user out of the key. *)
IdemKeyOfNobody == <<CHOOSE u \in Users : TRUE, Candidate, job.today>>
IdemKey         == <<job.uid, Candidate, job.today>>

-------------------------------------------------------------------------------
Start ==
  /\ job.pc = "idle"
  /\ job' = [Idle EXCEPT !.pc = "users"]
  /\ UNCHANGED <<dispatchVars, userVars, redisVars, now, historyVars>>

(* list_active_users_with_fcm: some of the users with a stored token. *)
LoadUsers ==
  /\ job.pc = "users"
  /\ \E eligible \in SUBSET {u \in Users : stored[u] # NoToken} :
       job' = [job EXCEPT !.pc = "filters",
                          !.tokens = [u \in eligible |-> stored[u]]]
  /\ UNCHANGED <<dispatchVars, userVars, redisVars, now, historyVars>>

(* iter_user_saved_filters for everybody; then today is fixed. *)
LoadFilters ==
  /\ job.pc = "filters"
  /\ job' = [job EXCEPT !.pc = "loop", !.today = DayOf(now),
                        !.users = {u \in DOMAIN job.tokens : Saved[u] # <<>>}]
  /\ UNCHANGED <<dispatchVars, userVars, redisVars, now, historyVars>>

(* The mutant is one too late. *)
PastCap(u) == daily[u][job.today] > Cap
AtCap(u)   == daily[u][job.today] >= Cap

(* get_interest_sent_today; at the cap the user is passed over. *)
NextUser(u) ==
  /\ job.pc = "loop"
  /\ u \in job.users
  /\ job' = [job EXCEPT !.users = @ \ {u}, !.uid = u,
                        !.pc = IF AtCap(u) THEN "loop" ELSE "search"]
  /\ UNCHANGED <<dispatchVars, userVars, redisVars, now, historyVars>>

(* Without any result the loop goes on at once. *)
AfterSearch(pool) == IF pool = <<>> THEN "loop" ELSE "alarms"

(* The search of the user at hand, which is also the key of the cache; a   *)
(* mutant leaves what is no list out of the key.                           *)
Query == OpenSearch(Saved[job.uid])

CacheKeyOfLists == FingerprintOfLists(Query)
CacheKey        == Query

UseCache ==
  /\ job.pc = "search"
  /\ CacheKey \in DOMAIN job.cache
  /\ LET pool == job.cache[CacheKey] IN
       job' = [job EXCEPT !.pc = AfterSearch(pool), !.pool = pool]
  /\ UNCHANGED <<dispatchVars, userVars, redisVars, now, historyVars>>

(* search_cache with the answer to the query added. *)
WithAnswer(pool) ==
  [q \in DOMAIN job.cache \union {CacheKey} |->
     IF q = CacheKey THEN pool ELSE job.cache[q]]

(* search_tenders: EKAP lists tenders that match the query. *)
Search ==
  /\ job.pc = "search"
  /\ CacheKey \notin DOMAIN job.cache
  /\ \E pool \in Pools :
       /\ \A n \in DOMAIN pool : Matches(Query, Notice[pool[n]])
       /\ job' = [job EXCEPT !.pc = AfterSearch(pool), !.pool = pool,
                             !.cache = WithAnswer(pool)]
  /\ UNCHANGED <<dispatchVars, userVars, redisVars, now, historyVars>>

(* get_user_alarm_ikns: an alarm that names no IKN gives its document id,  *)
(* which is no tender's IKN.                                               *)
AlarmIkns(u) == {i \in Ikns : alarms[u][i] = "named"}

ExcludeAlarms ==
  /\ job.pc = "alarms"
  /\ job' = [job EXCEPT !.pc = "saved", !.excluded = AlarmIkns(job.uid)]
  /\ late' = {}
  /\ UNCHANGED <<dispatchVars, userVars, redisVars, now, shownAt, unmarked, uncounted>>

(* Mutant: "=" for "|=". *)
ExcludeOnlySaved ==
  /\ job.pc = "saved"
  /\ job' = [job EXCEPT !.pc = "choose", !.excluded = savedIkns[job.uid]]
  /\ UNCHANGED <<dispatchVars, userVars, redisVars, now, historyVars>>

ExcludeSaved ==
  /\ job.pc = "saved"
  /\ job' = [job EXCEPT !.pc = "choose", !.excluded = @ \union savedIkns[job.uid]]
  /\ UNCHANGED <<dispatchVars, userVars, redisVars, now, historyVars>>

(* was_interest_notified; a mutant trusts the idempotency key instead. *)
NotSuggested == FALSE
Suggested    == Candidate \in suggested[job.uid]

Unsuitable == Candidate \in job.excluded \/ Suggested

PassOver ==
  /\ job.pc = "choose"
  /\ job.pool # <<>>
  /\ Unsuitable
  /\ job' = [job EXCEPT !.pool = Tail(@)]
  /\ UNCHANGED <<dispatchVars, userVars, redisVars, now, historyVars>>

NoneLeft ==
  /\ job.pc = "choose"
  /\ job.pool = <<>>
  /\ Skip
  /\ UNCHANGED <<dispatchVars, userVars, redisVars, now, historyVars>>

Choose ==
  /\ job.pc = "choose"
  /\ job.pool # <<>>
  /\ ~Unsuitable
  /\ Call(interest, job.uid, job.tokens[job.uid], IdemKey)
  /\ job' = [job EXCEPT !.pc = "calling", !.excluded = {}]
  /\ UNCHANGED <<userVars, redisVars, now, historyVars>>

(* A step of dispatch; the history notes when a document was written. *)
DispatchStep ==
  /\ Progress(interest) \/ Failure(interest)
  /\ shownAt' = IF inbox' = inbox THEN shownAt
                ELSE [shownAt EXCEPT ![<<job.uid, Candidate>>] = now]
  /\ UNCHANGED <<userVars, redisVars, now, job, unmarked, uncounted, late>>

DispatchReturned ==
  /\ job.pc = "calling"
  /\ frame[interest].end = "returned"
  /\ Resume(interest)
  /\ job' = [job EXCEPT !.pc = "mark"]
  /\ UNCHANGED <<userVars, redisVars, now, historyVars>>

AddSuggested ==
  suggested' = [suggested EXCEPT ![job.uid] = @ \union {Candidate}]

(* dedup_ttl, and a mutant in the wrong unit. *)
WrongTtl == DedupSlots * SlotsPerDay
DedupTtl == DedupSlots

(* mark_interest_notified: SADD, then EXPIRE for the whole set. *)
MarkInFull ==
  /\ job.pc = "mark"
  /\ AddSuggested
  /\ expiry' = [expiry EXCEPT ![job.uid] = now + DedupTtl]
  /\ unmarked' = unmarked \ {<<job.uid, Candidate>>}

Mark ==
  /\ MarkInFull
  /\ job' = [job EXCEPT !.pc = "incr"]
  /\ UNCHANGED <<dispatchVars, userVars, daily, now, shownAt, uncounted, late>>

(* incr_interest_sent_today; its 36 hours outlast the day it counts. *)
Incr ==
  /\ job.pc = "incr"
  /\ daily' = [daily EXCEPT ![job.uid][job.today] = @ + 1]
  /\ Skip
  /\ uncounted' = uncounted \ {IdemKey}
  /\ UNCHANGED <<dispatchVars, userVars, suggested, expiry, now, shownAt, unmarked,
                 late>>

Finish ==
  /\ job.pc = "loop"
  /\ job.users = {}
  /\ job' = Idle
  /\ UNCHANGED <<dispatchVars, userVars, redisVars, now, historyVars>>

-------------------------------------------------------------------------------
(* Failures. *)

(* What a run misses that leaves off with a document shown, before the     *)
(* mark or before the count.                                               *)
LeftOff(pcs) == job.pc \in pcs /\ inbox[IdemKey] # <<>>

MissedCount ==
  uncounted' = IF LeftOff({"calling", "mark", "incr"})
               THEN uncounted \union {IdemKey} ELSE uncounted

Missed ==
  /\ unmarked' = IF LeftOff({"calling", "mark"})
                 THEN unmarked \union {<<job.uid, Candidate>>} ELSE unmarked
  /\ MissedCount
  /\ UNCHANGED <<shownAt, late>>

(* An await before the loop raises: the run is over. *)
LoadFails ==
  /\ job.pc \in {"users", "filters"}
  /\ job' = Idle
  /\ UNCHANGED <<dispatchVars, userVars, redisVars, now, historyVars>>

(* An await of the loop other than dispatch raises without any effect (one *)
(* that raises in get_interest_sent_today is as good as one in the search);*)
(* the two writes that take effect and then raise have actions below.      *)
UserFails ==
  /\ job.pc \in {"search", "alarms", "saved", "choose", "mark", "incr"}
  /\ Skip
  /\ Missed
  /\ UNCHANGED <<dispatchVars, userVars, redisVars, now>>

DispatchRaised ==
  /\ job.pc = "calling"
  /\ frame[interest].end = "raised"
  /\ Resume(interest)
  /\ Skip
  /\ Missed
  /\ UNCHANGED <<userVars, redisVars, now>>

(* The pipeline is no transaction: the SADD is done, then the connection   *)
(* breaks.  A set that existed keeps its old TTL, a new one has none.      *)
MarkHalfDone ==
  /\ job.pc = "mark"
  /\ AddSuggested
  /\ expiry' = IF suggested[job.uid] = {}
               THEN [expiry EXCEPT ![job.uid] = Forever] ELSE expiry
  /\ Skip
  /\ Missed
  /\ UNCHANGED <<dispatchVars, userVars, daily, now>>

(* The mark is made, but the answer is lost. *)
MarkUnacknowledged ==
  /\ MarkInFull
  /\ Skip
  /\ MissedCount
  /\ UNCHANGED <<dispatchVars, userVars, daily, now, shownAt, late>>

(* The count is made, but the answer is lost. *)
IncrUnacknowledged ==
  /\ job.pc = "incr"
  /\ daily' = [daily EXCEPT ![job.uid][job.today] = @ + 1]
  /\ Skip
  /\ uncounted' = uncounted \ {IdemKey}
  /\ UNCHANGED <<dispatchVars, userVars, suggested, expiry, now, shownAt, unmarked,
                 late>>

JobDies ==
  /\ job.pc # "idle"
  /\ job' = Idle
  /\ Missed
  /\ IF InCall(interest) THEN Crash({interest}) ELSE UNCHANGED dispatchVars
  /\ UNCHANGED <<userVars, redisVars, now>>

-------------------------------------------------------------------------------
(* The surroundings. *)

(* Time passes; a set whose TTL is over is gone. *)
Over(u) == expiry[u] <= now + 1

Tick ==
  /\ now < MaxNow
  /\ now' = now + 1
  /\ suggested' = [u \in Users |-> IF Over(u) THEN {} ELSE suggested[u]]
  /\ expiry' = [u \in Users |-> IF Over(u) THEN 0 ELSE expiry[u]]
  /\ UNCHANGED <<dispatchVars, userVars, daily, job, historyVars>>

(* The run has read that collection of u and not written the document yet. *)
AfterRead(u, collection) ==
  /\ job.uid = u
  /\ job.pc \in IF collection = "alarms" THEN {"saved", "choose", "calling"}
                                        ELSE {"choose", "calling"}

Notes(u, i, collection) ==
  late' = IF AfterRead(u, collection) THEN late \union {<<collection, i>>} ELSE late

(* The user registers a tender in the app, or drops it; or the alarm job   *)
(* makes an alarm anew that the user dropped, by its completed flag alone. *)
EditAlarm(u, i, doc) ==
  /\ alarms[u][i] # doc
  /\ alarms' = [alarms EXCEPT ![u][i] = doc]
  /\ IF doc = "absent" THEN UNCHANGED late ELSE Notes(u, i, "alarms")
  /\ UNCHANGED <<dispatchVars, savedIkns, redisVars, now, job, shownAt, unmarked,
                 uncounted>>

EditSaved(u, i) ==
  /\ \/ /\ i \notin savedIkns[u]
        /\ savedIkns' = [savedIkns EXCEPT ![u] = @ \union {i}]
        /\ Notes(u, i, "savedTenders")
     \/ /\ i \in savedIkns[u]
        /\ savedIkns' = [savedIkns EXCEPT ![u] = @ \ {i}]
        /\ UNCHANGED late
  /\ UNCHANGED <<dispatchVars, alarms, redisVars, now, job, shownAt, unmarked,
                 uncounted>>

Edit(u, i) == EditSaved(u, i) \/ \E doc \in AlarmDocs : EditAlarm(u, i, doc)

(* Redis evicts what it keeps for u. *)
EvictSuggested(u) ==
  /\ suggested[u] # {}
  /\ suggested' = [suggested EXCEPT ![u] = {}]
  /\ expiry' = [expiry EXCEPT ![u] = 0]
  /\ unmarked' = unmarked \union ({u} \X suggested[u])
  /\ UNCHANGED <<dispatchVars, userVars, daily, now, job, shownAt, uncounted, late>>

EvictDaily(u, d) ==
  /\ daily[u][d] > 0
  /\ daily' = [daily EXCEPT ![u][d] = 0]
  /\ uncounted' = uncounted \union {k \in Keys : k[1] = u /\ k[3] = d}
  /\ UNCHANGED <<dispatchVars, userVars, suggested, expiry, now, job, shownAt, unmarked,
                 late>>

Surroundings ==
  \/ Environment /\ UNCHANGED <<userVars, redisVars, now, job, historyVars>>
  \/ Tick
  \/ \E u \in Users :
       \/ EvictSuggested(u)
       \/ \E i \in Ikns : Edit(u, i)
       \/ \E d \in Days : EvictDaily(u, d)

InterestInit ==
  /\ DispatchInit
  /\ alarms = [u \in Users |-> [i \in Ikns |-> "absent"]]
  /\ savedIkns = [u \in Users |-> {}]
  /\ suggested = [u \in Users |-> {}]
  /\ expiry = [u \in Users |-> 0]
  /\ daily = [u \in Users |-> [d \in Days |-> 0]]
  /\ now = 0
  /\ job = Idle
  /\ shownAt = [p \in Users \X Ikns |-> None]
  /\ unmarked = {}
  /\ uncounted = {}
  /\ late = {}

InterestNext ==
  \/ Start \/ LoadUsers \/ LoadFilters \/ UseCache \/ Search \/ ExcludeAlarms
  \/ ExcludeSaved \/ PassOver \/ NoneLeft \/ Choose \/ DispatchReturned
  \/ Mark \/ Incr \/ Finish
  \/ \E u \in Users : NextUser(u)
  \/ DispatchStep
  \/ LoadFails \/ UserFails \/ DispatchRaised \/ MarkHalfDone
  \/ MarkUnacknowledged \/ IncrUnacknowledged \/ JobDies
  \/ Surroundings

InterestSpec == InterestInit /\ [][InterestNext]_interestVars

-------------------------------------------------------------------------------
(* Properties. *)

InterestTypeOK ==
  /\ alarms \in [Users -> [Ikns -> AlarmDocs]]
  /\ savedIkns \in [Users -> SUBSET Ikns]
  /\ suggested \in [Users -> SUBSET Ikns]
  /\ expiry \in [Users -> 0 .. Forever]
  /\ daily \in [Users -> [Days -> Nat]]
  /\ now \in 0 .. MaxNow
  /\ shownAt \in [Users \X Ikns -> (0 .. MaxNow) \union {None}]
  /\ unmarked \subseteq Users \X Ikns
  /\ uncounted \subseteq Keys
  /\ late \subseteq Collections \X Ikns
  /\ job.pc \in {"idle", "users", "filters", "loop", "search", "alarms",
                 "saved", "choose", "calling", "mark", "incr"}
  /\ \A u \in DOMAIN job.tokens : u \in Users /\ job.tokens[u] \in 1 .. issued[u]
  /\ job.users \subseteq DOMAIN job.tokens
  /\ job.today \in Days
  /\ job.pool \in Seq(Ikns)

Dispatching == job.pc \in {"calling", "mark", "incr"}

(* The tenders u was told of under the date of day d, except one that is   *)
(* being dealt with and those whose count a failure or an eviction ate.    *)
Counted(u, d) ==
  {i \in Ikns :
     /\ inbox[<<u, i, d>>] # <<>>
     /\ <<u, i, d>> \notin uncounted
     /\ ~(Dispatching /\ IdemKey = <<u, i, d>>)}

(* The cap of line 9 survives retries, slips and runs at any hour: nobody  *)
(* is told of more tenders in a day than the counter says, nor is the      *)
(* counter driven past the cap, but for the counts that were lost.         *)
CapKept ==
  \A u \in Users, d \in Days :
    Cardinality(Counted(u, d)) <= daily[u][d] /\ daily[u][d] <= Cap

(* A document of <<u, i>> is being written. *)
Shows(u, i) == \E d \in Days : inbox'[<<u, i, d>>] # inbox[<<u, i, d>>]

TooSoon(u, i) == shownAt[<<u, i>>] # None /\ now < shownAt[<<u, i>>] + DedupSlots

(* The rule of line 10 across days, although the idempotency key holds the *)
(* date and all of a user's marks share one TTL: a tender comes again      *)
(* early only after its mark was missed or lost.                           *)
RepeatOnlyUnmarked ==
  [][inbox' # inbox => \A u \in Users, i \in Ikns :
       Shows(u, i) /\ TooSoon(u, i) => <<u, i>> \in unmarked]_interestVars

(* The job is a lawful caller of dispatch, as the alarm job is. *)
LawfulCaller ==
  DispatchInit /\ [][UNCHANGED dispatchVars \/ DispatchNext]_dispatchVars

(* The rule of line 12: nobody is told of a tender among their saved       *)
(* tenders, or in an alarm that names it, though the search result may be  *)
(* another user's and the two collections are read one after the other.    *)
(* The gaps: what is registered in a collection after it was read, and an  *)
(* alarm that names no IKN, which excludes the id of its document instead. *)
RegisteredLeftOut ==
  [][inbox' # inbox => \A u \in Users, i \in Ikns :
       Shows(u, i) =>
         /\ alarms[u][i] = "named" => <<"alarms", i>> \in late
         /\ i \in savedIkns[u] => <<"savedTenders", i>> \in late]_interestVars

(* What a user is told of answers the user's own search, though the result *)
(* may be one that was cached for somebody else.                           *)
FitsOwnSearch ==
  [][inbox' # inbox => \A u \in Users, i \in Ikns :
       Shows(u, i) => Matches(OpenSearch(Saved[u]), Notice[i])]_interestVars
================================================================================
