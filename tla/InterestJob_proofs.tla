--------------------------- MODULE InterestJob_proofs ---------------------------
(***************************************************************************)
(* Proofs about InterestJob, for any users, tenders, searches, cap and     *)
(* dedup time: it is a lawful caller of dispatch, it keeps the daily cap   *)
(* and the distance between suggestions but for what was missed or lost,   *)
(* and it answers each user's own search.                                  *)
(***************************************************************************)
EXTENDS InterestJob, Dispatcher_proofs, FiniteSetTheorems

-------------------------------------------------------------------------------
(* The course of a run: what is bound at which await. *)

JobFields == {"pc", "tokens", "users", "today", "cache", "uid", "pool", "excluded"}

(* The run is at a user, and below that user's cap. *)
AtUser ==
  job.pc \in {"search", "alarms", "saved", "choose", "calling", "mark", "incr"}

BelowCap ==
  AtUser => /\ job.uid \in DOMAIN job.tokens
            /\ daily[job.uid][job.today] < Cap

(* A search result answers its query, be it from the cache. *)
Answers(pool, query) ==
  /\ pool \in Seq(Ikns)
  /\ \A n \in 1 .. Len(pool) : Matches(query, Notice[pool[n]])

Fitting ==
  /\ \A query \in DOMAIN job.cache : Answers(job.cache[query], query)
  /\ AtUser /\ job.pc # "search" => Answers(job.pool, Query)

(* The call in progress is for the user and the tender at hand, which was  *)
(* not suggested before.                                                   *)
OnCall ==
  /\ Dispatching => job.pool # <<>>
  /\ job.pc \in {"calling", "mark"} => ~Suggested
  /\ job.pc = "calling" => /\ frame[interest].uid = job.uid
                           /\ frame[interest].key = IdemKey
  /\ job.pc # "calling" => ~InCall(interest)

Course ==
  /\ DOMAIN job = JobFields
  /\ job.pc \in {"idle", "users", "filters"} => job.users = {}
  /\ BelowCap /\ Fitting /\ OnCall

Standing == Dispatch /\ InterestTypeOK /\ Course

(* The counter of a day stands for all that was counted. *)
Capped ==
  \A u \in Users, d \in Days :
    /\ IsFiniteSet(Counted(u, d))
    /\ Cardinality(Counted(u, d)) <= daily[u][d]
    /\ daily[u][d] <= Cap

(* The run has written the document of the tender at hand.                 *)
JustShown ==
  /\ \/ job.pc = "mark"
     \/ job.pc = "calling" /\ frame[interest].at \notin {"exists", "write"}
  /\ inbox[IdemKey] # <<>>

(* What was shown a short time ago has a mark that lives long enough, or   *)
(* is about to get it, or is known to have lost it.                        *)
Spaced ==
  \A u \in Users, i \in Ikns :
    /\ shownAt[<<u, i>>] # None => shownAt[<<u, i>>] <= now
    /\ TooSoon(u, i) /\ <<u, i>> \notin unmarked =>
         \/ /\ i \in suggested[u]
            /\ shownAt[<<u, i>>] + DedupSlots <= expiry[u]
         \/ JustShown /\ u = job.uid /\ i = Candidate

(* What is among the user's tenders by now was excluded, or came late.     *)
LateAlarm(i) == <<"alarms", i>> \in late
LateSaved(i) == <<"savedTenders", i>> \in late

LeftOut ==
  /\ job.pc \in {"saved", "choose"} =>
       \A i \in AlarmIkns(job.uid) : i \in job.excluded \/ LateAlarm(i)
  /\ job.pc = "choose" =>
       \A i \in savedIkns[job.uid] : i \in job.excluded \/ LateSaved(i)
  /\ job.pc = "calling" =>
       /\ Candidate \in AlarmIkns(job.uid) => LateAlarm(Candidate)
       /\ Candidate \in savedIkns[job.uid] => LateSaved(Candidate)

-------------------------------------------------------------------------------
(* Shapes. *)

LEMMA OneCaller == Sole = Keys /\ interest \in Jobs
BY InterestAssumption DEF Sole

LEMMA DayTyped == 0 \in Days /\ \A slot \in 0 .. MaxNow : DayOf(slot) \in Days
<1>1. DayOf(0) = 0
  BY InterestAssumption DEF DayOf
<1>2. 0 \in 0 .. MaxNow
  BY InterestAssumption
<1> QED
  BY <1>1, <1>2 DEF Days

LEMMA UserShape ==
  ASSUME InterestTypeOK, BelowCap, AtUser
  PROVE  /\ job.uid \in Users /\ job.uid \in DOMAIN job.tokens
         /\ job.tokens[job.uid] \in 1 .. issued[job.uid]
         /\ job.today \in Days
BY DEF InterestTypeOK, BelowCap

LEMMA PoolShape ==
  ASSUME NEW pool \in Seq(Ikns), pool # <<>>
  PROVE  /\ Head(pool) = pool[1] /\ Head(pool) \in Ikns
         /\ Len(pool) \in Nat \ {0} /\ 1 \in 1 .. Len(pool)
         /\ Tail(pool) \in Seq(Ikns) /\ Len(Tail(pool)) = Len(pool) - 1
         /\ \A n \in 1 .. Len(Tail(pool)) :
              Tail(pool)[n] = pool[n + 1] /\ n + 1 \in 1 .. Len(pool)
<1>1. /\ Head(pool) = pool[1]
      /\ Len(pool) \in Nat \ {0} /\ Tail(pool) \in Seq(Ikns)
      /\ Len(Tail(pool)) = Len(pool) - 1
      /\ \A n \in 1 .. Len(Tail(pool)) : Tail(pool)[n] = pool[n + 1]
  BY HeadTailProperties, LenProperties, EmptySeq
<1>2. 1 \in 1 .. Len(pool)
  BY <1>1
<1>3. Head(pool) \in Ikns
  BY <1>1, <1>2, ElementOfSeq
<1>4. \A n \in 1 .. Len(Tail(pool)) : n + 1 \in 1 .. Len(pool)
  BY <1>1
<1> QED
  BY <1>1, <1>2, <1>3, <1>4

(* The key of the user and the tender at hand is one the job may use for   *)
(* that user.                                                              *)
LEMMA KeyTyped ==
  ASSUME Standing, AtUser, job.pool # <<>>
  PROVE  /\ IdemKey \in Keys /\ interest \in Callers[IdemKey]
         /\ job.uid \in Addressees[IdemKey] /\ job.uid \in Users
         /\ Candidate \in Ikns /\ job.today \in Days
<1>1. job.uid \in Users /\ job.today \in Days
  BY UserShape DEF Standing, Course
<1>2. Candidate \in Ikns
  BY PoolShape DEF Standing, InterestTypeOK, Candidate
<1>3. IdemKey \in Keys /\ IdemKey[1] = job.uid
  BY <1>1, <1>2, InterestAssumption DEF IdemKey, InterestKeys
<1> QED
  BY <1>1, <1>2, <1>3, InterestAssumption

LEMMA StepLawful ==
  ASSUME Standing, [InterestNext]_interestVars
  PROVE  [DispatchNext]_dispatchVars
<1>1. ASSUME Choose PROVE DispatchNext
  <2>1. /\ job.pc = "choose" /\ job.pool # <<>>
        /\ Call(interest, job.uid, job.tokens[job.uid], IdemKey)
    BY <1>1 DEF Choose
  <2>2. AtUser
    BY <2>1 DEF AtUser
  <2>3. job.tokens[job.uid] \in 1 .. issued[job.uid]
    BY <2>2, UserShape DEF Standing, Course
  <2> QED
    BY <2>1, <2>2, <2>3, KeyTyped DEF DispatchNext
<1>2. ASSUME \/ Start \/ LoadUsers \/ LoadFilters \/ UseCache \/ Search
             \/ ExcludeAlarms \/ ExcludeSaved \/ PassOver \/ NoneLeft \/ Mark
             \/ Incr \/ Finish \/ LoadFails \/ UserFails \/ MarkHalfDone
             \/ MarkUnacknowledged \/ IncrUnacknowledged
             \/ \E u \in Users : NextUser(u)
      PROVE  UNCHANGED dispatchVars
  BY <1>2 DEF Start, LoadUsers, LoadFilters, UseCache, Search, ExcludeAlarms,
     ExcludeSaved, PassOver, NoneLeft, Mark, Incr, Finish, LoadFails, UserFails,
     MarkHalfDone, MarkUnacknowledged, IncrUnacknowledged, NextUser
<1>3. ASSUME DispatchReturned \/ DispatchRaised \/ DispatchStep PROVE DispatchNext
  BY <1>3, OneCaller DEF DispatchReturned, DispatchRaised, DispatchStep, DispatchNext
<1>4. ASSUME JobDies PROVE [DispatchNext]_dispatchVars
  <2>1. {interest} \in SUBSET Jobs
    BY OneCaller
  <2> QED
    BY <1>4, <2>1 DEF JobDies, DispatchNext
<1>5. ASSUME Surroundings PROVE [DispatchNext]_dispatchVars
  BY <1>5 DEF Surroundings, Tick, Edit, EditAlarm,
     EditSaved, EvictSuggested, EvictDaily, DispatchNext
<1>6. CASE UNCHANGED interestVars
  BY <1>6 DEF interestVars
<1> QED
  BY <1>1, <1>2, <1>3, <1>4, <1>5, <1>6 DEF InterestNext

-------------------------------------------------------------------------------
(* The stores keep their types. *)

StoresTyped ==
  /\ alarms \in [Users -> [Ikns -> AlarmDocs]]
  /\ savedIkns \in [Users -> SUBSET Ikns]
  /\ suggested \in [Users -> SUBSET Ikns]
  /\ expiry \in [Users -> 0 .. Forever]
  /\ daily \in [Users -> [Days -> Nat]]
  /\ now \in 0 .. MaxNow
  /\ shownAt \in [Users \X Ikns -> (0 .. MaxNow) \union {None}]
  /\ unmarked \subseteq Users \X Ikns
  /\ uncounted \subseteq Keys
  /\ late \subseteq Collections \X Ikns

JobTyped ==
  /\ job.pc \in {"idle", "users", "filters", "loop", "search", "alarms",
                 "saved", "choose", "calling", "mark", "incr"}
  /\ \A u \in DOMAIN job.tokens : u \in Users /\ job.tokens[u] \in 1 .. issued[u]
  /\ job.users \subseteq DOMAIN job.tokens
  /\ job.today \in Days
  /\ job.pool \in Seq(Ikns)

LEMMA TypeParts == InterestTypeOK <=> StoresTyped /\ JobTyped
BY DEF InterestTypeOK, StoresTyped, JobTyped

(* Where a run stands that has a document to miss. *)
LEMMA AtHand ==
  ASSUME Standing, job.pc \in {"calling", "mark", "incr"}
  PROVE  /\ AtUser /\ Dispatching /\ job.pool # <<>>
         /\ IdemKey \in Keys /\ job.uid \in Users /\ Candidate \in Ikns
         /\ job.today \in Days
BY KeyTyped DEF AtUser, Dispatching, Standing, Course, OnCall

LEMMA StoresStep ==
  ASSUME Standing, [InterestNext]_interestVars
  PROVE  StoresTyped'
<1>0. StoresTyped /\ JobTyped
  BY TypeParts DEF Standing
<1>1. CASE UNCHANGED <<userVars, redisVars, now, historyVars>>
  BY <1>0, <1>1 DEF StoresTyped, userVars, redisVars, historyVars
<1>2. ASSUME DispatchStep PROVE StoresTyped'
  BY <1>0, <1>2 DEF DispatchStep, StoresTyped, userVars, redisVars
<1>3. ASSUME job.pc = "mark", AddSuggested,
             \/ expiry' = [expiry EXCEPT ![job.uid] = now + DedupTtl]
             \/ expiry' = [expiry EXCEPT ![job.uid] = Forever]
             \/ expiry' = expiry
      PROVE  suggested' \in [Users -> SUBSET Ikns] /\ expiry' \in [Users -> 0 .. Forever]
  <2>1. Candidate \in Ikns /\ job.uid \in Users
    BY <1>3, AtHand
  <2>2. now + DedupTtl \in 0 .. Forever /\ Forever \in 0 .. Forever
    BY <1>0, InterestAssumption DEF StoresTyped, DedupTtl, Forever
  <2>3. suggested' = [suggested EXCEPT ![job.uid] = suggested[job.uid] \union {Candidate}]
    BY <1>3 DEF AddSuggested
  <2> QED
    BY <1>0, <1>3, <2>1, <2>2, <2>3 DEF StoresTyped
<1>4. ASSUME Missed
      PROVE  /\ shownAt' = shownAt /\ late' = late
             /\ unmarked' \subseteq Users \X Ikns /\ uncounted' \subseteq Keys
  <2>1. LeftOff({"calling", "mark", "incr"}) \/ LeftOff({"calling", "mark"})
          => job.uid \in Users /\ Candidate \in Ikns /\ IdemKey \in Keys
    BY AtHand DEF LeftOff
  <2> QED
    BY <1>0, <1>4, <2>1 DEF Missed, MissedCount, StoresTyped
<1>5. ASSUME job.pc = "incr", daily' = [daily EXCEPT ![job.uid][job.today] = @ + 1]
      PROVE  daily' \in [Users -> [Days -> Nat]]
  <2>1. job.uid \in Users /\ job.today \in Days
    BY <1>5, AtHand
  <2>2. daily' = [daily EXCEPT ![job.uid] =
                    [daily[job.uid] EXCEPT ![job.today] = daily[job.uid][job.today] + 1]]
    BY <1>5
  <2> QED
    BY <1>0, <2>1, <2>2 DEF StoresTyped
<1>6. ASSUME Mark \/ MarkUnacknowledged PROVE StoresTyped'
  <2>1. suggested' \in [Users -> SUBSET Ikns] /\ expiry' \in [Users -> 0 .. Forever]
    BY <1>3, <1>6 DEF Mark, MarkUnacknowledged, MarkInFull
  <2>2. uncounted' \subseteq Keys /\ unmarked' \subseteq unmarked
    <3>1. LeftOff({"calling", "mark", "incr"}) => IdemKey \in Keys
      BY AtHand DEF LeftOff
    <3> QED
      BY <1>0, <1>6, <3>1
         DEF Mark, MarkUnacknowledged, MarkInFull, MissedCount, StoresTyped
  <2> QED
    BY <1>0, <1>6, <2>1, <2>2 DEF Mark, MarkUnacknowledged, StoresTyped, userVars
<1>7. ASSUME Incr \/ IncrUnacknowledged PROVE StoresTyped'
  <2>1. daily' \in [Users -> [Days -> Nat]]
    BY <1>5, <1>7 DEF Incr, IncrUnacknowledged
  <2> QED
    BY <1>0, <1>7, <2>1 DEF Incr, IncrUnacknowledged, StoresTyped, userVars
<1>8. ASSUME UserFails \/ DispatchRaised \/ JobDies PROVE StoresTyped'
  BY <1>0, <1>4, <1>8 DEF UserFails, DispatchRaised, JobDies, StoresTyped, userVars,
     redisVars
<1>9. ASSUME MarkHalfDone PROVE StoresTyped'
  <2>1. suggested' \in [Users -> SUBSET Ikns] /\ expiry' \in [Users -> 0 .. Forever]
    BY <1>3, <1>9 DEF MarkHalfDone
  <2> QED
    BY <1>0, <1>4, <1>9, <2>1 DEF MarkHalfDone, StoresTyped, userVars
<1>10. ASSUME Tick PROVE StoresTyped'
  <2>1. now' \in 0 .. MaxNow /\ 0 \in 0 .. Forever
    BY <1>0, <1>10, InterestAssumption DEF Tick, StoresTyped, Forever
  <2> QED
    BY <1>0, <1>10, <2>1 DEF Tick, StoresTyped, userVars, historyVars
<1>11. ASSUME NEW u \in Users, NEW i \in Ikns, Edit(u, i) PROVE StoresTyped'
  <2>1. late' \subseteq Collections \X Ikns
    BY <1>0, <1>11 DEF Edit, EditAlarm, EditSaved, Notes, StoresTyped, Collections
  <2>2. CASE EditSaved(u, i)
    <3>1. \/ savedIkns' = [savedIkns EXCEPT ![u] = savedIkns[u] \union {i}]
          \/ savedIkns' = [savedIkns EXCEPT ![u] = savedIkns[u] \ {i}]
      BY <2>2 DEF EditSaved
    <3>2. savedIkns' \in [Users -> SUBSET Ikns]
      <4>1. savedIkns \in [Users -> SUBSET Ikns]
        BY <1>0 DEF StoresTyped
      <4>2. savedIkns[u] \union {i} \in SUBSET Ikns /\ savedIkns[u] \ {i} \in SUBSET Ikns
        BY <4>1
      <4> QED
        BY <3>1, <4>1, <4>2
    <3> QED
      BY <1>0, <2>1, <2>2, <3>2 DEF EditSaved, StoresTyped, redisVars
  <2>3. ASSUME NEW doc \in AlarmDocs, EditAlarm(u, i, doc) PROVE StoresTyped'
    <3>1. alarms' = [alarms EXCEPT ![u] = [alarms[u] EXCEPT ![i] = doc]]
      BY <2>3 DEF EditAlarm
    <3>2. alarms' \in [Users -> [Ikns -> AlarmDocs]]
      BY <1>0, <3>1 DEF StoresTyped
    <3> QED
      BY <1>0, <2>1, <2>3, <3>2 DEF EditAlarm, StoresTyped, redisVars
  <2> QED
    BY <1>11, <2>2, <2>3 DEF Edit
<1>12. ASSUME NEW u \in Users, EvictSuggested(u) PROVE StoresTyped'
  <2>1. 0 \in 0 .. Forever /\ {u} \X suggested[u] \subseteq Users \X Ikns
    BY <1>0, InterestAssumption DEF StoresTyped, Forever
  <2> QED
    BY <1>0, <1>12, <2>1 DEF EvictSuggested, StoresTyped, userVars
<1>13. ASSUME NEW u \in Users, NEW d \in Days, EvictDaily(u, d) PROVE StoresTyped'
  <2>1. daily' = [daily EXCEPT ![u] = [daily[u] EXCEPT ![d] = 0]]
    BY <1>13 DEF EvictDaily
  <2> QED
    BY <1>0, <1>13, <2>1 DEF EvictDaily, StoresTyped, userVars
<1>14. ASSUME \/ Start \/ LoadUsers \/ LoadFilters \/ UseCache \/ Search
              \/ ExcludeSaved \/ PassOver \/ NoneLeft \/ Choose
              \/ DispatchReturned \/ Finish \/ LoadFails
              \/ \E u \in Users : NextUser(u)
              \/ Environment /\ UNCHANGED <<userVars, redisVars, now, job, historyVars>>
              \/ UNCHANGED interestVars
       PROVE  UNCHANGED <<userVars, redisVars, now, historyVars>>
  BY <1>14 DEF Start, LoadUsers, LoadFilters, UseCache, Search,
     ExcludeSaved, PassOver, NoneLeft, Choose, DispatchReturned, Finish, LoadFails,
     NextUser, interestVars
<1>15. ASSUME ExcludeAlarms PROVE StoresTyped'
  BY <1>0, <1>15 DEF ExcludeAlarms, StoresTyped, userVars, redisVars
<1> QED
  BY <1>1, <1>2, <1>6, <1>7, <1>8, <1>9, <1>10, <1>11, <1>12, <1>13, <1>14, <1>15
     DEF InterestNext, Surroundings

-------------------------------------------------------------------------------
(* The run keeps to its course.                                            *)

(* Tokens that a run has loaded stay among those issued. *)
LEMMA TokensStay ==
  ASSUME Standing, [DispatchNext]_dispatchVars, job'.tokens = job.tokens
  PROVE  \A u \in DOMAIN job'.tokens :
           u \in Users /\ job'.tokens[u] \in 1 .. issued'[u]
BY IssuedGrows DEF Standing, Dispatch, Ledger, InterestTypeOK

LEMMA IdleKeeps ==
  ASSUME job' = Idle \/ (job' = [Idle EXCEPT !.pc = "users"]), ~InCall(interest)'
  PROVE  JobTyped' /\ Course'
<1>1. /\ DOMAIN job' = JobFields
      /\ job'.pc \in {"idle", "users"} /\ job'.tokens = <<>> /\ job'.users = {}
      /\ job'.today = 0 /\ job'.cache = <<>> /\ job'.pool = <<>>
  BY DEF Idle, JobFields
<1>2. DOMAIN <<>> = {} /\ <<>> \in Seq(Ikns) /\ 0 \in Days
  BY EmptySeq, DayTyped
<1>3. JobTyped'
  BY <1>1, <1>2 DEF JobTyped
<1>4. BelowCap' /\ Fitting' /\ OnCall'
  BY <1>1, <1>2 DEF BelowCap, Fitting, OnCall, AtUser, Dispatching, InCall
<1> QED
  BY <1>1, <1>3, <1>4 DEF Course

(* The steps of the loop leave alone what was loaded before it. *)
LoopStep ==
  /\ DOMAIN job' = JobFields
  /\ job'.tokens = job.tokens /\ job'.today = job.today
  /\ job'.users \subseteq job.users

LEMMA SkipKeeps ==
  ASSUME Standing, [DispatchNext]_dispatchVars, Skip, ~InCall(interest)'
  PROVE  JobTyped' /\ Course'
<1>1. /\ LoopStep /\ job'.pc = "loop" /\ job'.pool = <<>> /\ job'.cache = job.cache
  BY DEF Skip, LoopStep, JobFields, Standing, Course
<1>2. <<>> \in Seq(Ikns)
  OBVIOUS
<1>3. JobTyped'
  BY <1>1, <1>2, TokensStay DEF JobTyped, LoopStep, Standing, InterestTypeOK
<1>4. BelowCap' /\ OnCall'
  BY <1>1 DEF BelowCap, OnCall, AtUser, Dispatching, InCall
<1>5. Fitting'
  BY <1>1 DEF Fitting, AtUser, Answers, Standing, Course
<1> QED
  BY <1>1, <1>3, <1>4, <1>5 DEF Course, LoopStep

(* So do those of a user, who stays below the cap. *)
LEMMA UserKeeps ==
  ASSUME Standing, [DispatchNext]_dispatchVars, LoopStep, AtUser,
         AtUser' \/ job'.pc = "loop", job'.uid = job.uid,
         UNCHANGED daily,
         Answers(job'.pool, Query),
         \A query \in DOMAIN job'.cache : Answers(job'.cache[query], query)
  PROVE  JobTyped' /\ BelowCap' /\ Fitting'
<1>1. JobTyped'
  BY TokensStay DEF JobTyped, LoopStep, Standing, InterestTypeOK, Answers, AtUser
<1>2. BelowCap'
  BY DEF BelowCap, LoopStep, Standing, Course, AtUser
<1>3. Query' = Query
  BY DEF Query
<1>4. Fitting'
  BY <1>3 DEF Fitting, Answers
<1> QED
  BY <1>1, <1>2, <1>4

LEMMA LoadKeeps ==
  ASSUME Standing, LoadUsers \/ LoadFilters
  PROVE  JobTyped' /\ Course'
<1>0. /\ DOMAIN job = JobFields /\ ~InCall(interest) /\ ~InCall(interest)'
      /\ issued' = issued /\ job.users = {}
      /\ \A query \in DOMAIN job.cache : Answers(job.cache[query], query)
      /\ InterestTypeOK
  BY DEF LoadUsers, LoadFilters, Standing, Course, OnCall, Fitting, dispatchVars,
     tokenVars, InCall
<1>1. CASE LoadUsers
  <2>1. PICK eligible \in SUBSET {u \in Users : stored[u] # NoToken} :
          job' = [job EXCEPT !.pc = "filters", !.tokens = [u \in eligible |-> stored[u]]]
    BY <1>1 DEF LoadUsers
  <2>2. /\ DOMAIN job' = JobFields /\ job'.pc = "filters"
        /\ job'.tokens = [u \in eligible |-> stored[u]]
        /\ job'.users = {} /\ job'.today = job.today
        /\ job'.pool = job.pool /\ job'.cache = job.cache
    BY <1>0, <2>1 DEF JobFields
  <2>3. \A u \in eligible : u \in Users /\ stored[u] \in 1 .. issued[u]
    BY StoredToken DEF Standing, Dispatch
  <2>4. JobTyped'
    BY <1>0, <2>2, <2>3 DEF JobTyped, InterestTypeOK
  <2>5. Course'
    BY <1>0, <2>2 DEF Course, BelowCap, Fitting, OnCall, AtUser, Dispatching, Answers
  <2> QED
    BY <2>4, <2>5
<1>2. CASE LoadFilters
  <2>1. /\ DOMAIN job' = JobFields /\ job'.pc = "loop" /\ job'.tokens = job.tokens
        /\ job'.users \subseteq DOMAIN job.tokens /\ job'.today = DayOf(now)
        /\ job'.pool = job.pool /\ job'.cache = job.cache
    BY <1>0, <1>2 DEF LoadFilters, JobFields
  <2>2. JobTyped'
    BY <1>0, <2>1, DayTyped DEF JobTyped, InterestTypeOK
  <2>3. Course'
    BY <1>0, <2>1 DEF Course, BelowCap, Fitting, OnCall, AtUser, Dispatching, Answers
  <2> QED
    BY <2>2, <2>3
<1> QED
  BY <1>1, <1>2

LEMMA NextUserKeeps ==
  ASSUME Standing, NEW u \in Users, NextUser(u)
  PROVE  JobTyped' /\ Course'
<1>1. /\ DOMAIN job = JobFields /\ ~InCall(interest) /\ ~InCall(interest)'
      /\ issued' = issued /\ daily' = daily
      /\ u \in job.users /\ job.users \subseteq DOMAIN job.tokens
      /\ \A query \in DOMAIN job.cache : Answers(job.cache[query], query)
      /\ InterestTypeOK
  BY DEF NextUser, Standing, Course, OnCall, Fitting, dispatchVars, tokenVars,
     InCall, redisVars, InterestTypeOK
<1>2. /\ LoopStep /\ job'.uid = u /\ job'.pool = job.pool /\ job'.cache = job.cache
      /\ job'.pc = IF AtCap(u) THEN "loop" ELSE "search"
  BY <1>1 DEF NextUser, LoopStep, JobFields
<1>3. ~AtCap(u) => daily[u][job.today] < Cap
  BY <1>1, InterestAssumption DEF AtCap, InterestTypeOK
<1>4. JobTyped'
  BY <1>1, <1>2 DEF JobTyped, InterestTypeOK, LoopStep
<1>5. BelowCap'
  BY <1>1, <1>2, <1>3 DEF BelowCap, AtUser, LoopStep
<1>6. Fitting' /\ OnCall'
  BY <1>1, <1>2 DEF Fitting, OnCall, AtUser, Dispatching, Answers
<1> QED
  BY <1>1, <1>2, <1>4, <1>5, <1>6 DEF Course, LoopStep

(* A search result, cached or not, answers the search. *)
LEMMA SearchKeeps ==
  ASSUME Standing, UseCache \/ Search
  PROVE  JobTyped' /\ Course'
<1>1. /\ DOMAIN job = JobFields /\ job.pc = "search" /\ AtUser
      /\ ~InCall(interest) /\ ~InCall(interest)'
      /\ UNCHANGED dispatchVars /\ daily' = daily
      /\ \A query \in DOMAIN job.cache : Answers(job.cache[query], query)
  BY DEF UseCache, Search, Standing, Course, OnCall, Fitting, dispatchVars, AtUser,
     InCall, redisVars
<1>2. ASSUME NEW pool, NEW cache, Answers(pool, Query),
             \A query \in DOMAIN cache : Answers(cache[query], query),
             job' = [job EXCEPT !.pc = AfterSearch(pool), !.pool = pool, !.cache = cache]
      PROVE  JobTyped' /\ Course'
  <2>1. /\ LoopStep /\ job'.uid = job.uid /\ job'.pool = pool /\ job'.cache = cache
        /\ job'.pc = AfterSearch(pool) /\ job'.pc \in {"loop", "alarms"}
    BY <1>1, <1>2 DEF LoopStep, JobFields, AfterSearch
  <2>2. JobTyped' /\ BelowCap' /\ Fitting'
    BY <1>1, <1>2, <2>1, UserKeeps DEF AtUser
  <2>3. OnCall'
    BY <1>1, <2>1 DEF OnCall, Dispatching
  <2> QED
    BY <2>1, <2>2, <2>3 DEF Course, LoopStep
<1>3. CASE UseCache
  <2> DEFINE pool == job.cache[CacheKey]
  <2>1. /\ Answers(pool, Query)
        /\ job' = [job EXCEPT !.pc = AfterSearch(pool), !.pool = pool]
    BY <1>1, <1>3 DEF UseCache, CacheKey
  <2> HIDE DEF pool
  <2>2. job' = [job EXCEPT !.pc = AfterSearch(pool), !.pool = pool, !.cache = job.cache]
    BY <1>1, <2>1 DEF JobFields
  <2> QED
    BY <1>1, <1>2, <2>1, <2>2
<1>4. CASE Search
  <2>1. PICK pool \in Pools :
          /\ \A n \in DOMAIN pool : Matches(Query, Notice[pool[n]])
          /\ job' = [job EXCEPT !.pc = AfterSearch(pool), !.pool = pool,
                                !.cache = WithAnswer(pool)]
    BY <1>4 DEF Search
  <2>2. pool \in Seq(Ikns) /\ DOMAIN pool = 1 .. Len(pool)
    BY InterestAssumption
  <2>3. Answers(pool, Query)
    BY <2>1, <2>2 DEF Answers
  <2>4. \A query \in DOMAIN WithAnswer(pool) : Answers(WithAnswer(pool)[query], query)
    BY <1>1, <2>3 DEF WithAnswer, CacheKey
  <2> QED
    BY <1>2, <2>1, <2>3, <2>4
<1> QED
  BY <1>3, <1>4

LEMMA ExcludeKeeps ==
  ASSUME Standing, ExcludeAlarms \/ ExcludeSaved \/ PassOver
  PROVE  JobTyped' /\ Course'
<1>1. /\ DOMAIN job = JobFields /\ AtUser /\ Answers(job.pool, Query)
      /\ ~InCall(interest) /\ ~InCall(interest)'
      /\ UNCHANGED dispatchVars /\ daily' = daily
      /\ \A query \in DOMAIN job.cache : Answers(job.cache[query], query)
  BY DEF ExcludeAlarms, ExcludeSaved, PassOver, Standing, Course, OnCall, Fitting,
     dispatchVars, AtUser, InCall, redisVars
<1>2. /\ LoopStep /\ job'.uid = job.uid /\ job'.cache = job.cache
      /\ job'.pc \in {"saved", "choose"}
      /\ job'.pool \in {job.pool, Tail(job.pool)}
  BY <1>1 DEF ExcludeAlarms, ExcludeSaved, PassOver, LoopStep, JobFields
<1>3. Answers(job'.pool, Query)
  <2>1. CASE PassOver
    <3>1. job.pool # <<>> /\ job'.pool = Tail(job.pool) /\ job.pool \in Seq(Ikns)
      BY <1>1, <2>1 DEF PassOver, JobFields, Answers
    <3>2. /\ Tail(job.pool) \in Seq(Ikns)
          /\ \A n \in 1 .. Len(Tail(job.pool)) :
               Tail(job.pool)[n] = job.pool[n + 1] /\ n + 1 \in 1 .. Len(job.pool)
      BY <3>1, PoolShape
    <3> QED
      BY <1>1, <3>1, <3>2 DEF Answers
  <2>2. CASE ExcludeAlarms \/ ExcludeSaved
    BY <1>1, <2>2 DEF ExcludeAlarms, ExcludeSaved, JobFields
  <2> QED
    BY <2>1, <2>2
<1>4. JobTyped' /\ BelowCap' /\ Fitting'
  BY <1>1, <1>2, <1>3, UserKeeps DEF AtUser
<1>5. OnCall'
  BY <1>1, <1>2 DEF OnCall, Dispatching
<1> QED
  BY <1>2, <1>4, <1>5 DEF Course, LoopStep

LEMMA CallKeeps ==
  ASSUME Standing, Choose \/ DispatchReturned \/ Mark
  PROVE  JobTyped' /\ Course'
<1>1. /\ DOMAIN job = JobFields /\ AtUser /\ job.pool # <<>>
      /\ Answers(job.pool, Query) /\ daily' = daily
      /\ \A query \in DOMAIN job.cache : Answers(job.cache[query], query)
      /\ frame \in [Jobs -> Frames \union {NoFrame}]
  BY DEF Choose, DispatchReturned, Mark, MarkInFull, Standing, Course, OnCall, Fitting,
     AtUser, Dispatching, redisVars, Dispatch, Ledger, TypeOK
<1>2. [DispatchNext]_dispatchVars
  BY StepLawful DEF InterestNext
<1>3. /\ LoopStep /\ job'.uid = job.uid /\ job'.cache = job.cache /\ job'.pool = job.pool
      /\ job'.pc \in {"calling", "mark", "incr"}
  BY <1>1 DEF Choose, DispatchReturned, Mark, LoopStep, JobFields
<1>4. JobTyped' /\ BelowCap' /\ Fitting'
  BY <1>1, <1>2, <1>3, UserKeeps DEF AtUser
<1>5. Candidate' = Candidate /\ IdemKey' = IdemKey
  BY <1>3 DEF Candidate, IdemKey, LoopStep
<1>6. CASE Choose
  <2>1. /\ job'.pc = "calling" /\ ~Suggested /\ suggested' = suggested
    BY <1>1, <1>6 DEF Choose, Unsuitable, JobFields, redisVars
  <2>2. frame'[interest].uid = job.uid /\ frame'[interest].key = IdemKey
    BY <1>1, <1>6, OneCaller DEF Choose, Call
  <2> QED
    BY <1>1, <1>3, <1>4, <1>5, <2>1, <2>2
       DEF Course, OnCall, Dispatching, Suggested, LoopStep
<1>7. CASE DispatchReturned
  <2>1. /\ job.pc = "calling" /\ job'.pc = "mark" /\ ~Suggested /\ suggested' = suggested
    BY <1>1, <1>7 DEF DispatchReturned, JobFields, redisVars, Standing, Course, OnCall
  <2>2. ~InCall(interest)'
    BY <1>1, <1>7, OneCaller DEF DispatchReturned, Resume, InCall, NoFrame
  <2> QED
    BY <1>1, <1>3, <1>4, <1>5, <2>1, <2>2
       DEF Course, OnCall, Dispatching, Suggested, LoopStep
<1>8. CASE Mark
  <2>1. job'.pc = "incr" /\ ~InCall(interest)'
    BY <1>1, <1>8 DEF Mark, MarkInFull, JobFields, Standing, Course, OnCall, InCall,
       dispatchVars
  <2> QED
    BY <1>1, <1>3, <1>4, <2>1 DEF Course, OnCall, Dispatching, LoopStep
<1> QED
  BY <1>6, <1>7, <1>8

(* The surroundings do not take part in the call, nor does a step of the   *)
(* call make it another one.                                               *)
LEMMA StayKeeps ==
  ASSUME Standing, DispatchStep \/ Surroundings \/ UNCHANGED interestVars
  PROVE  JobTyped' /\ Course'
<1>1. job' = job /\ [DispatchNext]_dispatchVars
  BY StepLawful DEF DispatchStep, Surroundings, Tick, Edit, EditAlarm,
     EditSaved, EvictSuggested, EvictDaily,
     interestVars, InterestNext
<1>2. /\ InterestTypeOK /\ BelowCap /\ Fitting /\ OnCall /\ TypeOK
      /\ frame \in [Jobs -> Frames \union {NoFrame}]
  BY DEF Standing, Course, Dispatch, Ledger, TypeOK
<1>3. JobTyped'
  BY <1>1, <1>2, TokensStay DEF JobTyped, InterestTypeOK
<1>4. ASSUME AtUser PROVE daily'[job.uid][job.today] < Cap
  <2>1. /\ job.uid \in Users /\ job.today \in Days /\ daily[job.uid][job.today] < Cap
        /\ daily \in [Users -> [Days -> Nat]]
    BY <1>2, <1>4, UserShape DEF BelowCap, InterestTypeOK
  <2>2. ASSUME NEW u \in Users, NEW d \in Days, EvictDaily(u, d)
        PROVE  daily'[job.uid][job.today] \in {0, daily[job.uid][job.today]}
    <3>1. daily' = [daily EXCEPT ![u] = [daily[u] EXCEPT ![d] = 0]]
      BY <2>2 DEF EvictDaily
    <3> QED
      BY <2>1, <3>1
  <2>3. daily' = daily \/ \E u \in Users, d \in Days : EvictDaily(u, d)
    BY DEF DispatchStep, Surroundings, Tick, Edit, EditAlarm,
     EditSaved, EvictSuggested, interestVars, redisVars
  <2>4. daily'[job.uid][job.today] \in {0, daily[job.uid][job.today]}
    BY <2>2, <2>3
  <2>5. daily[job.uid][job.today] \in Nat
    BY <2>1
  <2> QED
    BY <2>1, <2>4, <2>5, InterestAssumption
<1>5. BelowCap'
  BY <1>1, <1>2, <1>4 DEF BelowCap, AtUser
<1>6. Fitting'
  BY <1>1, <1>2 DEF Fitting, AtUser, Query, Answers
<1>7. ASSUME job.pc \in {"calling", "mark"} PROVE ~Suggested'
  <2>1. job.uid \in Users /\ ~Suggested
    BY <1>2, <1>7, UserShape DEF OnCall, AtUser
  <2>2. suggested'[job.uid] \subseteq suggested[job.uid]
    BY <1>2, <2>1 DEF DispatchStep, Surroundings, Tick, Edit, EditAlarm,
     EditSaved, EvictSuggested, EvictDaily,
       interestVars, redisVars, InterestTypeOK
  <2> QED
    BY <1>1, <2>1, <2>2 DEF Suggested, Candidate
<1>8. /\ InCall(interest)' => InCall(interest)
      /\ job.pc = "calling" =>
           frame'[interest].uid = frame[interest].uid
             /\ frame'[interest].key = frame[interest].key
  <2>1. CASE DispatchStep
    BY <1>2, <2>1, SameCall, OneCaller DEF DispatchStep
  <2>2. CASE Surroundings \/ UNCHANGED interestVars
    <3>1. frame' = frame
      BY <2>2 DEF Surroundings, Tick, Edit, EditAlarm,
     EditSaved, EvictSuggested, EvictDaily, interestVars,
         dispatchVars, Environment, Forget, Register, Uninstall
    <3> QED
      BY <3>1 DEF InCall
  <2> QED
    BY <2>1, <2>2
<1>9. OnCall'
  <2>1. Dispatching' <=> Dispatching
    BY <1>1 DEF Dispatching
  <2>2. IdemKey' = IdemKey
    BY <1>1 DEF IdemKey, Candidate
  <2> QED
    BY <1>1, <1>2, <1>7, <1>8, <2>1, <2>2 DEF OnCall
<1> QED
  BY <1>1, <1>3, <1>5, <1>6, <1>9 DEF Course, Standing

LEMMA StandingStep ==
  ASSUME Standing, [InterestNext]_interestVars
  PROVE  Standing'
<1>1. Dispatch' /\ [DispatchNext]_dispatchVars
  BY StepLawful, DispatchKeeps, OneCaller DEF Standing
<1>2. frame \in [Jobs -> Frames \union {NoFrame}] /\ DOMAIN job = JobFields /\ OnCall
  BY DEF Standing, Course, Dispatch, Ledger, TypeOK
<1>3. ASSUME \/ NoneLeft \/ Incr \/ UserFails \/ DispatchRaised \/ MarkHalfDone
             \/ MarkUnacknowledged \/ IncrUnacknowledged
      PROVE  JobTyped' /\ Course'
  <2>1. Skip
    BY <1>3 DEF NoneLeft, Incr, UserFails, DispatchRaised, MarkHalfDone,
       MarkUnacknowledged, IncrUnacknowledged
  <2>2. ~InCall(interest)'
    <3>1. CASE DispatchRaised
      BY <1>2, <3>1, OneCaller DEF DispatchRaised, Resume, InCall, NoFrame
    <3>2. CASE ~DispatchRaised
      BY <1>2, <1>3, <3>2 DEF NoneLeft, Incr, UserFails, MarkHalfDone,
         MarkUnacknowledged, MarkInFull, IncrUnacknowledged, OnCall, InCall, dispatchVars
    <3> QED
      BY <3>1, <3>2
  <2> QED
    BY <1>1, <2>1, <2>2, SkipKeeps
<1>4. ASSUME Start \/ Finish \/ LoadFails \/ JobDies PROVE JobTyped' /\ Course'
  <2>1. job' = Idle \/ job' = [Idle EXCEPT !.pc = "users"]
    BY <1>4 DEF Start, Finish, LoadFails, JobDies
  <2>2. ~InCall(interest)'
    <3>1. CASE InCall(interest) /\ Crash({interest})
      <4>1. frame'[interest] = [frame[interest] EXCEPT !.at = "over", !.end = "killed"]
        BY <3>1, OneCaller DEF Crash
      <4>2. frame[interest] \in Frames
        BY <3>1, OneCaller, FrameOfCall DEF Standing, Dispatch, Ledger
      <4> QED
        BY <4>1, <4>2 DEF InCall, Frames
    <3>2. CASE ~InCall(interest) /\ UNCHANGED dispatchVars
      BY <3>2 DEF InCall, dispatchVars
    <3>3. CASE Start \/ Finish \/ LoadFails
      BY <1>2, <3>3 DEF Start, Finish, LoadFails, OnCall, InCall, dispatchVars
    <3> QED
      BY <1>4, <3>1, <3>2, <3>3 DEF JobDies
  <2> QED
    BY <2>1, <2>2, IdleKeeps
<1>5. JobTyped' /\ Course'
  BY <1>3, <1>4, LoadKeeps, NextUserKeeps, SearchKeeps, ExcludeKeeps, CallKeeps,
     StayKeeps DEF InterestNext
<1>6. StoresTyped'
  BY StoresStep
<1>7. InterestTypeOK'
  BY <1>5, <1>6 DEF InterestTypeOK, StoresTyped, JobTyped
<1> QED
  BY <1>1, <1>5, <1>7 DEF Standing

LEMMA StandingInit == InterestInit => Standing
<1> SUFFICES ASSUME InterestInit PROVE Standing
  OBVIOUS
<1>1. Dispatch /\ ~InCall(interest)
  BY DispatchStart, OneCaller DEF InterestInit, DispatchInit, InCall, NoFrame
<1>2. /\ DOMAIN job = JobFields
      /\ job.pc = "idle" /\ job.tokens = <<>> /\ job.users = {} /\ job.today = 0
      /\ job.cache = <<>> /\ job.pool = <<>>
  BY DEF InterestInit, Idle, JobFields
<1>3. DOMAIN <<>> = {} /\ <<>> \in Seq(Ikns) /\ 0 \in Days
      /\ 0 \in 0 .. MaxNow /\ 0 \in 0 .. Forever
  BY EmptySeq, DayTyped, InterestAssumption DEF Forever
<1>4. InterestTypeOK
  BY <1>2, <1>3 DEF InterestInit, InterestTypeOK, AlarmDocs
<1>5. Course
  BY <1>1, <1>2, <1>3 DEF Course, BelowCap, Fitting, OnCall, AtUser, Dispatching
<1> QED
  BY <1>1, <1>4, <1>5 DEF Standing

(* The variables of the job, the Redis counters and sets among them, keep  *)
(* their types over every failure of interest_job.py's run.                *)
THEOREM InterestTyped == InterestSpec => []InterestTypeOK
<1>1. Standing => InterestTypeOK
  BY DEF Standing
<1> QED
  BY <1>1, StandingInit, StandingStep, PTL DEF InterestSpec

(* Whatever the job does, dispatch sees a lawful caller: so what is proved *)
(* of DispatchSpec holds under the suggestion job.                         *)
THEOREM InterestLawful == InterestSpec => LawfulCaller
<1>1. InterestInit => DispatchInit
  BY DEF InterestInit
<1>2. Standing /\ [InterestNext]_interestVars
        => [UNCHANGED dispatchVars \/ DispatchNext]_dispatchVars
  BY StepLawful
<1> QED
  BY <1>1, <1>2, StandingInit, StandingStep, PTL DEF InterestSpec, LawfulCaller

(* Under its keys the suggestion job tells each thing once, but for        *)
(* slips, and records only what it told, as IdempotentDelivery says.       *)
THEOREM InterestDelivers == InterestSpec => DeliverySpec /\ []Accounting
<1>1. DispatchSpec => DeliverySpec
  BY Implements
<1>2. DispatchSpec => []Accounting
  BY Accounted
<1>3. [UNCHANGED dispatchVars \/ DispatchNext]_dispatchVars
        => [DispatchNext]_dispatchVars
  OBVIOUS
<1>4. InterestSpec => DispatchSpec
  BY <1>3, InterestLawful, PTL DEF LawfulCaller, DispatchSpec
<1> QED
  BY <1>1, <1>2, <1>4

-------------------------------------------------------------------------------
(* What users are told of.                                                 *)

(* A document is written for the user and the tender at hand. *)
LEMMA ShowsOwn ==
  ASSUME Standing, [InterestNext]_interestVars, inbox' # inbox
  PROVE  /\ DispatchStep
         /\ job.pc = "calling" /\ AtUser /\ job.pool # <<>> /\ ~Suggested
         /\ IdemKey \in Keys /\ job.uid \in Users /\ Candidate \in Ikns
         /\ frame[interest].at = "write"
         /\ \A k \in Keys : inbox'[k] # inbox[k] => k = IdemKey
         /\ inbox'[IdemKey] # <<>>
<1>1. PICK j \in Jobs : WritesOwn(j)
  BY StepLawful, Writes
<1>2. /\ InCall(interest) /\ frame[interest].at = "write" /\ AppendDoc(interest)
  BY <1>1, InterestAssumption DEF WritesOwn
<1>3. /\ job.pc = "calling" /\ job.pool # <<>> /\ ~Suggested
      /\ frame[interest].uid = job.uid /\ frame[interest].key = IdemKey
  BY <1>2 DEF Standing, Course, OnCall, Dispatching
<1>4. AtUser /\ IdemKey \in Keys /\ job.uid \in Users /\ Candidate \in Ikns
  BY <1>3, AtHand
<1>5. /\ inbox \in [Keys -> Seq(Users)]
      /\ inbox' = [inbox EXCEPT ![IdemKey] = Append(inbox[IdemKey], job.uid)]
  BY <1>2, <1>3 DEF AppendDoc, Standing, Dispatch, Ledger, TypeOK
<1>6. \A k \in Keys : inbox'[k] # inbox[k] => k = IdemKey
  BY <1>4, <1>5
<1>7. inbox'[IdemKey] # <<>>
  <2>1. inbox'[IdemKey] = Append(inbox[IdemKey], job.uid) /\ inbox[IdemKey] \in Seq(Users)
    BY <1>4, <1>5
  <2>2. Len(Append(inbox[IdemKey], job.uid)) # 0
    BY <1>4, <2>1, AppendProperties, LenProperties
  <2> QED
    BY <2>1, <2>2, EmptySeq
<1>8. DispatchStep
  BY DEF InterestNext, Start, LoadUsers, LoadFilters, UseCache, Search, ExcludeAlarms,
     ExcludeSaved, PassOver, NoneLeft, Choose, Call, DispatchReturned, Resume, Mark, Incr,
     Finish, NextUser, LoadFails, UserFails, DispatchRaised, MarkHalfDone,
     MarkUnacknowledged, IncrUnacknowledged, JobDies, Crash, Surroundings, Environment, Forget, Register,
     Uninstall, Tick, Edit, EditAlarm,
     EditSaved, EvictSuggested, EvictDaily, interestVars, dispatchVars
<1> QED
  BY <1>2, <1>3, <1>4, <1>6, <1>7, <1>8

LEMMA ShownAtHand ==
  ASSUME Standing, [InterestNext]_interestVars, inbox' # inbox,
         NEW u \in Users, NEW i \in Ikns, Shows(u, i)
  PROVE  u = job.uid /\ i = Candidate
<1>1. PICK d \in Days : inbox'[<<u, i, d>>] # inbox[<<u, i, d>>]
  BY DEF Shows
<1>2. <<u, i, d>> \in Keys
  BY InterestAssumption DEF InterestKeys
<1> QED
  BY <1>1, <1>2, ShowsOwn DEF IdemKey

(* What a user is told of answers the user's own search, though the result *)
(* may be one that was cached for another user of the run                  *)
(* (interest_job.py:133-138).                                              *)
THEOREM OwnSearchFits == InterestSpec => FitsOwnSearch
<1>1. ASSUME Standing, [InterestNext]_interestVars, inbox' # inbox,
             NEW u \in Users, NEW i \in Ikns, Shows(u, i)
      PROVE  Matches(OpenSearch(Saved[u]), Notice[i])
  <2>1. u = job.uid /\ i = Candidate /\ job.pc = "calling" /\ AtUser /\ job.pool # <<>>
    BY <1>1, ShownAtHand, ShowsOwn
  <2>2. Answers(job.pool, Query)
    BY <1>1, <2>1 DEF Standing, Course, Fitting
  <2>3. Candidate = job.pool[1] /\ 1 \in 1 .. Len(job.pool)
    BY <2>1, <2>2, PoolShape DEF Answers, Candidate
  <2> QED
    BY <2>1, <2>2, <2>3 DEF Answers, Query
<1>2. Standing /\ [InterestNext]_interestVars
        => [inbox' # inbox => \A u \in Users, i \in Ikns :
              Shows(u, i) => Matches(OpenSearch(Saved[u]), Notice[i])]_interestVars
  BY <1>1
<1> QED
  BY <1>2, StandingInit, StandingStep, PTL DEF InterestSpec, FitsOwnSearch

-------------------------------------------------------------------------------
(* The daily cap.                                                          *)

(* What is counted is written, and written for no other reason. *)
Uncertain(k) == k \in uncounted \/ (Dispatching /\ IdemKey = k)

LEMMA CountedIs ==
  ASSUME NEW u \in Users, NEW d \in Days, NEW i \in Ikns
  PROVE  /\ <<u, i, d>> \in Keys
         /\ i \in Counted(u, d)
              <=> inbox[<<u, i, d>>] # <<>> /\ ~Uncertain(<<u, i, d>>)
BY InterestAssumption DEF InterestKeys, Counted, Uncertain

(* But for the two steps that count, nothing comes to be counted. *)
LEMMA CountedShrinks ==
  ASSUME \A k \in Keys : inbox'[k] # <<>> /\ ~Uncertain(k)'
                           => inbox[k] # <<>> /\ ~Uncertain(k),
         NEW u \in Users, NEW d \in Days
  PROVE  Counted(u, d)' \subseteq Counted(u, d)
<1> SUFFICES ASSUME NEW i \in Counted(u, d)' PROVE i \in Counted(u, d)
  OBVIOUS
<1>1. i \in Ikns
  BY DEF Counted
<1>2. PICK k \in Keys : k = <<u, i, d>>
  BY <1>1, CountedIs
<1>3. inbox'[k] # <<>> /\ ~Uncertain(k)'
  BY <1>2 DEF Counted, Uncertain
<1> QED
  BY <1>1, <1>2, <1>3, CountedIs

LEMMA CountedStep ==
  ASSUME Standing, [InterestNext]_interestVars, ~Incr, ~IncrUnacknowledged
  PROVE  \A k \in Keys : inbox'[k] # <<>> /\ ~Uncertain(k)'
                           => inbox[k] # <<>> /\ ~Uncertain(k)
<1>1. DOMAIN job = JobFields
  BY DEF Standing, Course
<1>2. CASE inbox' # inbox
  <2>1. job' = job /\ uncounted' = uncounted /\ job.pc = "calling"
        /\ \A k \in Keys : inbox'[k] # inbox[k] => k = IdemKey
    BY <1>2, ShowsOwn DEF DispatchStep
  <2>2. Dispatching /\ Dispatching' /\ IdemKey' = IdemKey
    BY <2>1 DEF Dispatching, IdemKey, Candidate
  <2> QED
    BY <2>1, <2>2 DEF Uncertain
<1>3. CASE inbox' = inbox /\ job' = job /\ uncounted \subseteq uncounted'
  <2>1. Dispatching' = Dispatching /\ IdemKey' = IdemKey
    BY <1>3 DEF Dispatching, IdemKey, Candidate
  <2> QED
    BY <1>3, <2>1 DEF Uncertain
<1>4. CASE inbox' = inbox /\ ~Dispatching /\ uncounted' = uncounted
  BY <1>4 DEF Uncertain
<1>5. ASSUME DispatchReturned \/ Mark
      PROVE  \A k \in Keys : inbox'[k] # <<>> /\ ~Uncertain(k)'
                               => inbox[k] # <<>> /\ ~Uncertain(k)
  <2>1. /\ inbox' = inbox /\ uncounted' = uncounted
        /\ job'.pc \in {"mark", "incr"} /\ job'.uid = job.uid /\ job'.pool = job.pool
        /\ job'.today = job.today
    BY <1>1, <1>5 DEF DispatchReturned, Resume, Mark, MarkInFull, dispatchVars,
       historyVars, JobFields
  <2>2. Dispatching' /\ IdemKey' = IdemKey
    BY <2>1 DEF Dispatching, IdemKey, Candidate
  <2> QED
    BY <2>1, <2>2 DEF Uncertain
<1>6. ASSUME UserFails \/ DispatchRaised \/ MarkHalfDone \/ MarkUnacknowledged
             \/ JobDies
      PROVE  \A k \in Keys : inbox'[k] # <<>> /\ ~Uncertain(k)'
                               => inbox[k] # <<>> /\ ~Uncertain(k)
  <2>1. inbox' = inbox /\ MissedCount
    BY <1>6 DEF UserFails, DispatchRaised, MarkHalfDone, MarkUnacknowledged, JobDies,
       Resume, Crash, dispatchVars, Missed
  <2>2. /\ uncounted \subseteq uncounted'
        /\ Dispatching /\ inbox[IdemKey] # <<>> => IdemKey \in uncounted'
    BY <2>1 DEF MissedCount, LeftOff, Dispatching
  <2> QED
    BY <2>1, <2>2 DEF Uncertain
<1>7. ASSUME \/ Start \/ LoadUsers \/ LoadFilters \/ UseCache \/ Search
             \/ ExcludeAlarms \/ ExcludeSaved \/ PassOver \/ NoneLeft \/ Choose
             \/ Finish \/ LoadFails \/ \E u \in Users : NextUser(u)
      PROVE  inbox' = inbox /\ ~Dispatching /\ uncounted' = uncounted
  BY <1>7 DEF Start, LoadUsers, LoadFilters, UseCache, Search, ExcludeAlarms,
     ExcludeSaved, PassOver, NoneLeft, Choose, Call, Finish, LoadFails, NextUser,
     dispatchVars, historyVars, Dispatching
<1>8. ASSUME DispatchStep \/ Surroundings \/ UNCHANGED interestVars, inbox' = inbox
      PROVE  inbox' = inbox /\ job' = job /\ uncounted \subseteq uncounted'
  BY <1>8 DEF DispatchStep, Surroundings, Tick, Edit, EditAlarm,
     EditSaved, EvictSuggested, EvictDaily,
     interestVars, historyVars
<1> QED
  BY <1>2, <1>3, <1>4, <1>5, <1>6, <1>7, <1>8 DEF InterestNext

LEMMA OneMore ==
  ASSUME NEW S, NEW x, IsFiniteSet(S)
  PROVE  /\ IsFiniteSet(S \union {x})
         /\ Cardinality(S \union {x}) <= Cardinality(S) + 1
<1>1. Cardinality(S) \in Nat
  BY FS_CardinalityType
<1>2. /\ IsFiniteSet(S \union {x})
      /\ Cardinality(S \union {x}) =
           IF x \in S THEN Cardinality(S) ELSE Cardinality(S) + 1
  BY FS_AddElement
<1> QED
  BY <1>1, <1>2

LEMMA CappedStep ==
  ASSUME Standing, Capped, [InterestNext]_interestVars
  PROVE  Capped'
<1>0. daily \in [Users -> [Days -> Nat]] /\ Cap \in Nat
  BY InterestAssumption DEF Standing, InterestTypeOK
<1> SUFFICES ASSUME NEW u \in Users, NEW d \in Days
             PROVE  /\ IsFiniteSet(Counted(u, d)')
                    /\ Cardinality(Counted(u, d)') <= daily'[u][d]
                    /\ daily'[u][d] <= Cap
  BY DEF Capped
<1> DEFINE before == Counted(u, d)
           after  == Counted(u, d)'
<1>1. /\ IsFiniteSet(before) /\ Cardinality(before) \in Nat
      /\ Cardinality(before) <= daily[u][d] /\ daily[u][d] <= Cap /\ daily[u][d] \in Nat
  BY <1>0, FS_CardinalityType DEF Capped
<1>2. CASE Incr \/ IncrUnacknowledged
  <2>1. /\ job.pc = "incr" /\ AtUser /\ Dispatching
        /\ job.uid \in Users /\ job.today \in Days /\ Candidate \in Ikns
        /\ inbox' = inbox /\ uncounted' = uncounted \ {IdemKey}
        /\ daily' = [daily EXCEPT ![job.uid] =
                       [daily[job.uid] EXCEPT ![job.today] = daily[job.uid][job.today] + 1]]
    BY <1>2, AtHand DEF Incr, IncrUnacknowledged, dispatchVars
  <2>2. daily[job.uid][job.today] < Cap
    BY <2>1 DEF Standing, Course, BelowCap
  <2>3. after \subseteq before \union {Candidate}
        /\ (u # job.uid \/ d # job.today => after \subseteq before)
    <3> SUFFICES ASSUME NEW i \in after
                 PROVE  i \in before \/ (i = Candidate /\ u = job.uid /\ d = job.today)
      OBVIOUS
    <3>1. i \in Ikns /\ inbox'[<<u, i, d>>] # <<>> /\ <<u, i, d>> \notin uncounted'
      BY DEF Counted
    <3>2. CASE <<u, i, d>> = IdemKey
      BY <3>2 DEF IdemKey
    <3>3. CASE <<u, i, d>> # IdemKey
      <4>1. inbox[<<u, i, d>>] # <<>> /\ <<u, i, d>> \notin uncounted
        BY <2>1, <3>1, <3>3
      <4> QED
        BY <3>1, <3>3, <4>1 DEF Counted
    <3> QED
      BY <3>2, <3>3
  <2> HIDE DEF before, after
  <2>4. CASE u = job.uid /\ d = job.today
    <3>1. daily'[u][d] = daily[u][d] + 1
      BY <1>0, <2>1, <2>4
    <3>2. /\ IsFiniteSet(before \union {Candidate})
          /\ Cardinality(before \union {Candidate}) <= Cardinality(before) + 1
      BY <1>1, OneMore
    <3>3. /\ IsFiniteSet(after) /\ Cardinality(after) \in Nat
          /\ Cardinality(after) <= Cardinality(before \union {Candidate})
      BY <2>3, <3>2, FS_Subset, FS_CardinalityType
    <3>4. Cardinality(before \union {Candidate}) \in Nat
      BY <3>2, FS_CardinalityType
    <3>5. Cardinality(after) <= daily'[u][d]
      BY <1>1, <3>1, <3>2, <3>3, <3>4
    <3>6. daily'[u][d] <= Cap
      BY <1>0, <1>1, <2>2, <2>4, <3>1
    <3> QED
      BY <3>3, <3>5, <3>6 DEF after
  <2>5. CASE u # job.uid \/ d # job.today
    <3>1. daily'[u][d] = daily[u][d]
      BY <1>0, <2>1, <2>5
    <3>2. /\ IsFiniteSet(after) /\ Cardinality(after) \in Nat
          /\ Cardinality(after) <= Cardinality(before)
      BY <1>1, <2>3, <2>5, FS_Subset, FS_CardinalityType
    <3>3. Cardinality(after) <= daily'[u][d] /\ daily'[u][d] <= Cap
      BY <1>0, <1>1, <3>1, <3>2
    <3> QED
      BY <3>2, <3>3 DEF after
  <2> QED
    BY <2>4, <2>5
<1>3. CASE ~Incr /\ ~IncrUnacknowledged
  <2>1. after \subseteq before
    BY <1>3, CountedStep, CountedShrinks
  <2>2. ASSUME NEW v \in Users, NEW e \in Days, EvictDaily(v, e)
        PROVE  \/ daily'[u][d] = daily[u][d]
               \/ daily'[u][d] = 0 /\ after = {}
    <3>1. daily' = [daily EXCEPT ![v] = [daily[v] EXCEPT ![e] = 0]]
      BY <2>2 DEF EvictDaily
    <3>2. CASE u = v /\ d = e
      <4>1. \A i \in Ikns : <<u, i, d>> \in uncounted'
        BY <2>2, <3>2, InterestAssumption DEF EvictDaily, InterestKeys
      <4>2. after = {}
        BY <4>1 DEF Counted
      <4> QED
        BY <1>0, <3>1, <3>2, <4>2
    <3>3. CASE u # v \/ d # e
      BY <1>0, <3>1, <3>3
    <3> QED
      BY <3>2, <3>3
  <2>3. daily' = daily \/ \E v \in Users, e \in Days : EvictDaily(v, e)
    BY <1>3 DEF InterestNext, Start, LoadUsers, LoadFilters, UseCache, Search,
       ExcludeAlarms, ExcludeSaved, PassOver, NoneLeft, Choose, DispatchReturned, Mark,
       Finish, NextUser, DispatchStep, LoadFails, UserFails, DispatchRaised,
       MarkHalfDone, MarkUnacknowledged, MarkInFull, JobDies, Surroundings, Tick, Edit, EditAlarm,
     EditSaved, EvictSuggested, redisVars,
       interestVars
  <2> HIDE DEF before, after
  <2>4. /\ IsFiniteSet(after) /\ Cardinality(after) \in Nat
        /\ Cardinality(after) <= Cardinality(before)
    BY <1>1, <2>1, FS_Subset, FS_CardinalityType
  <2>5. after = {} => Cardinality(after) = 0
    BY FS_EmptySet
  <2>6. daily'[u][d] = daily[u][d] \/ (daily'[u][d] = 0 /\ after = {})
    BY <2>2, <2>3
  <2>7. Cardinality(after) <= daily'[u][d] /\ daily'[u][d] <= Cap
    BY <1>0, <1>1, <2>4, <2>5, <2>6
  <2> QED
    BY <2>4, <2>7 DEF after
<1> QED
  BY <1>2, <1>3

LEMMA CappedInit == InterestInit => Capped
<1> SUFFICES ASSUME InterestInit, NEW u \in Users, NEW d \in Days
             PROVE  /\ IsFiniteSet(Counted(u, d))
                    /\ Cardinality(Counted(u, d)) <= daily[u][d]
                    /\ daily[u][d] <= Cap
  BY DEF Capped
<1>1. \A i \in Ikns : inbox[<<u, i, d>>] = <<>>
  BY InterestAssumption DEF InterestInit, DispatchInit, InterestKeys
<1>2. Counted(u, d) = {}
  BY <1>1 DEF Counted
<1> QED
  BY <1>2, FS_EmptySet, InterestAssumption DEF InterestInit

(* Nobody is told of more tenders in a day than the counter of that day    *)
(* says, and the counter never passes the cap, over retries, crashes and   *)
(* lost answers (interest_job.py:117-119, 165-172).                        *)
THEOREM CapHolds == InterestSpec => []CapKept
<1>1. Capped => CapKept
  BY DEF Capped, CapKept
<1> QED
  BY <1>1, StandingInit, StandingStep, CappedInit, CappedStep, PTL DEF InterestSpec

-------------------------------------------------------------------------------
(* The distance between suggestions.                                       *)

(* A call that has written, or writes, does not come back to its write. *)
LEMMA PastWrite ==
  ASSUME Standing, DispatchStep,
         inbox' # inbox \/ frame[interest].at \notin {"exists", "write"}
  PROVE  frame'[interest].at \notin {"exists", "write"}
<1>1. TypeOK /\ InCall(interest)
  BY SameCall, OneCaller DEF DispatchStep, Standing, Dispatch, Ledger
<1>2. \E place \in {"push", "clear", "record"} : Goto(interest, place)
        \/ \E how \in Endings : End(interest, how)
  BY DEF DispatchStep, Progress, Failure, SkipRecorded, FindUnrecorded, WriteDoc,
     PushAccepted, PushRejected, ClearToken, Record, CheckRaises, WriteFails,
     WriteUnacknowledged, PushFails, RecordRaises, Endings
<1>3. ASSUME NEW place \in {"push", "clear", "record"}, Goto(interest, place)
      PROVE  frame'[interest].at = place
  <2>1. "none" \in Endings /\ place \in Awaits \union {"over"}
    BY DEF Endings, Awaits
  <2> QED
    BY <1>1, <1>3, <2>1, FrameMoves, OneCaller
<1>4. ASSUME NEW how \in Endings, End(interest, how)
      PROVE  frame'[interest].at = "over"
  <2>1. "over" \in Awaits \union {"over"}
    OBVIOUS
  <2> QED
    BY <1>1, <1>4, <2>1, FrameMoves, OneCaller
<1> QED
  BY <1>2, <1>3, <1>4

LEMMA SpacedStep ==
  ASSUME Standing, Spaced, [InterestNext]_interestVars
  PROVE  Spaced'
<1> SUFFICES ASSUME NEW u \in Users, NEW i \in Ikns
             PROVE  /\ shownAt'[<<u, i>>] # None => shownAt'[<<u, i>>] <= now'
                    /\ TooSoon(u, i)' /\ <<u, i>> \notin unmarked' =>
                         \/ /\ i \in suggested'[u]
                            /\ shownAt'[<<u, i>>] + DedupSlots <= expiry'[u]
                         \/ JustShown' /\ u = job'.uid /\ i = Candidate'
  BY DEF Spaced
<1> DEFINE
      Noted  == shownAt'[<<u, i>>] # None => shownAt'[<<u, i>>] <= now'
      Kept   == TooSoon(u, i)' /\ <<u, i>> \notin unmarked' =>
                  \/ /\ i \in suggested'[u]
                     /\ shownAt'[<<u, i>>] + DedupSlots <= expiry'[u]
                  \/ JustShown' /\ u = job'.uid /\ i = Candidate'
      Marked == /\ i \in suggested[u]
                /\ shownAt[<<u, i>>] + DedupSlots <= expiry[u]
      AtIt   == JustShown /\ u = job.uid /\ i = Candidate
<1>0. /\ shownAt \in [Users \X Ikns -> (0 .. MaxNow) \union {None}]
      /\ suggested \in [Users -> SUBSET Ikns] /\ expiry \in [Users -> 0 .. Forever]
      /\ now \in 0 .. MaxNow /\ now \in Nat /\ expiry[u] \in Nat
      /\ MaxNow \in Nat /\ DedupSlots \in Nat
      /\ DOMAIN job = JobFields
  BY InterestAssumption DEF Standing, InterestTypeOK, Course, Forever
<1>1. /\ shownAt[<<u, i>>] # None => shownAt[<<u, i>>] \in Nat /\ shownAt[<<u, i>>] <= now
      /\ TooSoon(u, i) /\ <<u, i>> \notin unmarked => Marked \/ AtIt
  BY <1>0 DEF Spaced
<1>2. ASSUME UNCHANGED <<shownAt, suggested, expiry, now, unmarked>>, AtIt => JustShown',
             AtIt => job'.uid = job.uid /\ Candidate' = Candidate
      PROVE  Noted /\ Kept
  BY <1>1, <1>2 DEF TooSoon
<1>3. ASSUME UNCHANGED <<shownAt, suggested, expiry, now, unmarked>>, ~JustShown
      PROVE  Noted /\ Kept
  BY <1>2, <1>3
<1>4. ASSUME DispatchStep, inbox' # inbox PROVE Noted /\ Kept
  <2>1. /\ job.pc = "calling" /\ job' = job /\ now' = now
        /\ shownAt' = [shownAt EXCEPT ![<<job.uid, Candidate>>] = now]
        /\ UNCHANGED <<suggested, expiry, unmarked>>
        /\ frame[interest].at = "write" /\ inbox'[IdemKey] # <<>>
        /\ job.uid \in Users /\ Candidate \in Ikns
    BY <1>4, ShowsOwn DEF DispatchStep, redisVars
  <2>2. Candidate' = Candidate /\ IdemKey' = IdemKey
    BY <2>1 DEF Candidate, IdemKey
  <2>3. JustShown' /\ ~JustShown
    BY <1>4, <2>1, <2>2, PastWrite DEF JustShown
  <2>4. CASE <<u, i>> = <<job.uid, Candidate>>
    <3>1. shownAt'[<<u, i>>] = now
      BY <1>0, <2>1, <2>4
    <3> QED
      BY <1>0, <2>1, <2>2, <2>3, <2>4, <3>1
  <2>5. CASE <<u, i>> # <<job.uid, Candidate>>
    <3>1. shownAt'[<<u, i>>] = shownAt[<<u, i>>]
      BY <1>0, <2>1, <2>5
    <3> QED
      BY <1>1, <2>1, <2>3, <3>1 DEF TooSoon
  <2> QED
    BY <2>4, <2>5
<1>5. ASSUME DispatchStep, inbox' = inbox PROVE Noted /\ Kept
  <2>1. job' = job /\ UNCHANGED <<shownAt, suggested, expiry, now, unmarked>>
    BY <1>5 DEF DispatchStep, redisVars
  <2>2. Candidate' = Candidate /\ IdemKey' = IdemKey
    BY <2>1 DEF Candidate, IdemKey
  <2>3. JustShown => JustShown'
    BY <1>5, <2>1, <2>2, PastWrite DEF JustShown
  <2> QED
    BY <1>2, <2>1, <2>2, <2>3
<1>6. ASSUME DispatchReturned PROVE Noted /\ Kept
  <2>1. /\ UNCHANGED <<inbox, shownAt, suggested, expiry, now, unmarked>>
        /\ job'.pc = "mark" /\ job'.uid = job.uid /\ job'.pool = job.pool
        /\ job'.today = job.today
    BY <1>0, <1>6 DEF DispatchReturned, Resume, redisVars, historyVars, JobFields
  <2>2. Candidate' = Candidate /\ IdemKey' = IdemKey
    BY <2>1 DEF Candidate, IdemKey
  <2>3. JustShown => JustShown'
    BY <2>1, <2>2 DEF JustShown
  <2> QED
    BY <1>2, <2>1, <2>2, <2>3
<1>7. ASSUME Mark \/ MarkUnacknowledged PROVE Noted /\ Kept
  <2>1. /\ shownAt' = shownAt /\ now' = now
        /\ unmarked' = unmarked \ {<<job.uid, Candidate>>}
        /\ suggested' = [suggested EXCEPT ![job.uid] = suggested[job.uid] \union {Candidate}]
        /\ expiry' = [expiry EXCEPT ![job.uid] = now + DedupSlots]
        /\ job.uid \in Users /\ Candidate \in Ikns
    BY <1>7, AtHand DEF Mark, MarkUnacknowledged, MarkInFull, AddSuggested, DedupTtl
  <2>2. /\ u = job.uid => /\ expiry'[u] = now + DedupSlots
                          /\ suggested'[u] = suggested[u] \union {Candidate}
        /\ u # job.uid => expiry'[u] = expiry[u] /\ suggested'[u] = suggested[u]
    BY <1>0, <2>1
  <2>3. ASSUME TooSoon(u, i) PROVE shownAt[<<u, i>>] + DedupSlots <= now + DedupSlots
    BY <1>0, <1>1, <2>3 DEF TooSoon
  <2> QED
    BY <1>1, <2>1, <2>2, <2>3 DEF TooSoon
<1>8. ASSUME Missed, AtIt PROVE <<u, i>> \in unmarked'
  BY <1>8 DEF Missed, LeftOff, JustShown
<1>9. ASSUME Missed PROVE shownAt' = shownAt /\ unmarked \subseteq unmarked'
  BY <1>9 DEF Missed
<1>10. ASSUME UserFails \/ DispatchRaised \/ JobDies PROVE Noted /\ Kept
  <2>1. Missed /\ UNCHANGED <<suggested, expiry, now>>
    BY <1>10 DEF UserFails, DispatchRaised, JobDies, redisVars
  <2> QED
    BY <1>1, <1>8, <1>9, <2>1 DEF TooSoon
<1>11. ASSUME MarkHalfDone PROVE Noted /\ Kept
  <2>1. /\ Missed /\ now' = now /\ job.uid \in Users
        /\ suggested' = [suggested EXCEPT ![job.uid] = suggested[job.uid] \union {Candidate}]
        /\ expiry' = IF suggested[job.uid] = {}
                     THEN [expiry EXCEPT ![job.uid] = Forever] ELSE expiry
    BY <1>11, AtHand DEF MarkHalfDone, AddSuggested
  <2>2. ASSUME Marked PROVE i \in suggested'[u] /\ expiry'[u] = expiry[u]
    BY <1>0, <2>1, <2>2
  <2> QED
    BY <1>1, <1>8, <1>9, <2>1, <2>2 DEF TooSoon
<1>12. ASSUME Tick PROVE Noted /\ Kept
  <2>1. /\ now' = now + 1 /\ shownAt' = shownAt /\ unmarked' = unmarked /\ job' = job
        /\ suggested'[u] = (IF Over(u) THEN {} ELSE suggested[u])
        /\ expiry'[u] = (IF Over(u) THEN 0 ELSE expiry[u])
        /\ inbox' = inbox /\ frame' = frame
    BY <1>12 DEF Tick, historyVars, dispatchVars
  <2>2. JustShown' = JustShown /\ Candidate' = Candidate
    BY <2>1 DEF JustShown, IdemKey, Candidate
  <2>3. Noted
    BY <1>0, <1>1, <2>1
  <2>4. ASSUME TooSoon(u, i)' PROVE TooSoon(u, i) /\ (Marked => ~Over(u))
    <3>1. /\ shownAt[<<u, i>>] # None /\ shownAt[<<u, i>>] \in Nat
          /\ now + 1 < shownAt[<<u, i>>] + DedupSlots
      BY <1>1, <2>1, <2>4 DEF TooSoon
    <3>2. now < shownAt[<<u, i>>] + DedupSlots
      BY <1>0, <3>1
    <3>3. shownAt[<<u, i>>] + DedupSlots <= expiry[u] => ~(expiry[u] <= now + 1)
      BY <1>0, <3>1
    <3> QED
      BY <3>1, <3>2, <3>3 DEF TooSoon, Over
  <2> QED
    BY <1>1, <2>1, <2>2, <2>3, <2>4
<1>13. ASSUME NEW v \in Users, EvictSuggested(v) PROVE Noted /\ Kept
  <2>1. /\ shownAt' = shownAt /\ now' = now /\ job' = job
        /\ unmarked' = unmarked \union ({v} \X suggested[v])
        /\ suggested' = [suggested EXCEPT ![v] = {}]
        /\ expiry' = [expiry EXCEPT ![v] = 0]
        /\ inbox' = inbox /\ frame' = frame
    BY <1>13 DEF EvictSuggested, dispatchVars
  <2>2. JustShown' = JustShown /\ Candidate' = Candidate
    BY <2>1 DEF JustShown, IdemKey, Candidate
  <2>3. CASE u = v
    <3>1. Marked => <<u, i>> \in unmarked'
      BY <2>1, <2>3
    <3> QED
      BY <1>1, <2>1, <2>2, <3>1 DEF TooSoon
  <2>4. CASE u # v
    <3>1. suggested'[u] = suggested[u] /\ expiry'[u] = expiry[u]
      BY <1>0, <2>1, <2>4
    <3> QED
      BY <1>1, <2>1, <2>2, <3>1 DEF TooSoon
  <2> QED
    BY <2>3, <2>4
<1>14. ASSUME \/ Environment /\ UNCHANGED <<userVars, redisVars, now, job, historyVars>>
              \/ UNCHANGED interestVars
              \/ \E v \in Users, n \in Ikns : Edit(v, n)
              \/ \E v \in Users, d \in Days : EvictDaily(v, d)
       PROVE  Noted /\ Kept
  <2>1. /\ UNCHANGED <<shownAt, suggested, expiry, now, unmarked, job>>
        /\ inbox' = inbox /\ frame' = frame
    BY <1>14 DEF Edit, EditAlarm, EditSaved, EvictDaily, interestVars, redisVars, historyVars, dispatchVars,
       Environment, Forget, Register, Uninstall
  <2>2. JustShown' = JustShown /\ Candidate' = Candidate
    BY <2>1 DEF JustShown, IdemKey, Candidate
  <2> QED
    BY <1>2, <2>1, <2>2
<1>15. ASSUME \/ Start \/ LoadUsers \/ LoadFilters \/ UseCache \/ Search
              \/ ExcludeAlarms \/ ExcludeSaved \/ PassOver \/ NoneLeft \/ Choose
              \/ Incr \/ Finish \/ LoadFails \/ IncrUnacknowledged
              \/ \E v \in Users : NextUser(v)
       PROVE  Noted /\ Kept
  <2>1. UNCHANGED <<shownAt, suggested, expiry, now, unmarked>>
        /\ job.pc \notin {"calling", "mark"}
    BY <1>15 DEF Start, LoadUsers, LoadFilters, UseCache, Search, ExcludeAlarms,
       ExcludeSaved, PassOver, NoneLeft, Choose, Incr, Finish, LoadFails,
       IncrUnacknowledged, NextUser, redisVars, historyVars
  <2> QED
    BY <1>3, <2>1 DEF JustShown
<1> HIDE DEF Noted, Kept
<1>16. Noted /\ Kept
  BY <1>4, <1>5, <1>6, <1>7, <1>10, <1>11, <1>12, <1>13, <1>14, <1>15
     DEF InterestNext, Surroundings
<1> QED
  BY <1>16 DEF Noted, Kept

LEMMA SpacedInit == InterestInit => Spaced
BY DEF InterestInit, Spaced, TooSoon

(* A tender comes again before the dedup time is over only after its mark  *)
(* was missed or lost, though the idempotency key holds the date, all the  *)
(* marks of a user share one TTL, and the run's day and the slot of its    *)
(* mark may differ (interest_job.py:106, 156-171).                         *)
THEOREM RepeatsAreUnmarked == InterestSpec => RepeatOnlyUnmarked
<1>1. ASSUME Standing, Spaced, [InterestNext]_interestVars, inbox' # inbox,
             NEW u \in Users, NEW i \in Ikns, Shows(u, i), TooSoon(u, i)
      PROVE  <<u, i>> \in unmarked
  <2>1. u = job.uid /\ i = Candidate /\ ~Suggested /\ job.pc = "calling"
        /\ frame[interest].at = "write"
    BY <1>1, ShownAtHand, ShowsOwn
  <2>2. ~JustShown
    BY <2>1 DEF JustShown
  <2> QED
    BY <1>1, <2>1, <2>2 DEF Spaced, Suggested
<1>2. Standing /\ Spaced /\ [InterestNext]_interestVars
        => [inbox' # inbox => \A u \in Users, i \in Ikns :
              Shows(u, i) /\ TooSoon(u, i) => <<u, i>> \in unmarked]_interestVars
  BY <1>1
<1> QED
  BY <1>2, StandingInit, StandingStep, SpacedInit, SpacedStep, PTL
     DEF InterestSpec, RepeatOnlyUnmarked

-------------------------------------------------------------------------------
(* Registered tenders.                                                     *)

(* While the run stands, the user's collections change by late additions.  *)
LEMMA EditIsLate ==
  ASSUME Standing, LeftOut, NEW u \in Users, NEW i \in Ikns, Edit(u, i)
  PROVE  LeftOut'
<1>1. /\ alarms \in [Users -> [Ikns -> AlarmDocs]]
      /\ savedIkns \in [Users -> SUBSET Ikns]
      /\ job' = job /\ Candidate' = Candidate
      /\ late \subseteq late'
  BY DEF Standing, InterestTypeOK, Edit, EditAlarm, EditSaved, Notes, Candidate
<1>2. /\ \A x \in Ikns : LateAlarm(x) => LateAlarm(x)'
      /\ \A x \in Ikns : LateSaved(x) => LateSaved(x)'
  BY <1>1 DEF LateAlarm, LateSaved
<1>3. CASE job.pc \notin {"saved", "choose", "calling"}
  BY <1>1, <1>3 DEF LeftOut
<1>4. CASE job.pc \in {"saved", "choose", "calling"}
  <2>1. job.uid \in Users
    BY <1>4, UserShape DEF Standing, Course, AtUser
  <2>2. ASSUME NEW doc \in AlarmDocs, EditAlarm(u, i, doc)
        PROVE  /\ savedIkns' = savedIkns
               /\ \A x \in AlarmIkns(job.uid)' : x \in AlarmIkns(job.uid) \/ LateAlarm(x)'
    <3>1. alarms' = [alarms EXCEPT ![u] = [alarms[u] EXCEPT ![i] = doc]]
      BY <2>2 DEF EditAlarm
    <3>2. job.uid = u /\ doc # "absent" => LateAlarm(i)'
      BY <1>4, <2>2 DEF EditAlarm, Notes, AfterRead, LateAlarm
    <3> QED
      BY <1>1, <2>1, <2>2, <3>1, <3>2 DEF AlarmIkns, EditAlarm
  <2>3. ASSUME EditSaved(u, i)
        PROVE  /\ AlarmIkns(job.uid)' = AlarmIkns(job.uid)
               /\ job.pc \in {"choose", "calling"} =>
                    \A x \in savedIkns'[job.uid] : x \in savedIkns[job.uid] \/ LateSaved(x)'
    <3>1. job.uid = u /\ i \in savedIkns'[u] /\ job.pc \in {"choose", "calling"}
            => i \in savedIkns[u] \/ LateSaved(i)'
      BY <1>1, <2>3 DEF EditSaved, Notes, AfterRead, LateSaved
    <3>2. \A x \in savedIkns'[job.uid] : x \in savedIkns[job.uid] \/ (x = i /\ job.uid = u)
      BY <1>1, <2>1, <2>3 DEF EditSaved
    <3>3. AlarmIkns(job.uid)' = AlarmIkns(job.uid)
      BY <1>1, <2>3 DEF EditSaved, AlarmIkns
    <3> QED
      BY <3>1, <3>2, <3>3
  <2>4. /\ \A x \in AlarmIkns(job.uid)' : x \in AlarmIkns(job.uid) \/ LateAlarm(x)'
        /\ job.pc \in {"choose", "calling"} =>
             \A x \in savedIkns'[job.uid] : x \in savedIkns[job.uid] \/ LateSaved(x)'
    BY <2>2, <2>3 DEF Edit
  <2>5. AlarmIkns(job.uid) \subseteq Ikns /\ savedIkns[job.uid] \subseteq Ikns
    BY <1>1, <2>1 DEF AlarmIkns
  <2> HIDE DEF LateAlarm, LateSaved, AlarmIkns
  <2>7. job.pc \in {"saved", "choose"} =>
          \A x \in AlarmIkns(job.uid)' : x \in job.excluded \/ LateAlarm(x)'
    BY <1>2, <2>4, <2>5 DEF LeftOut
  <2>8. job.pc = "choose" =>
          \A x \in savedIkns'[job.uid] : x \in job.excluded \/ LateSaved(x)'
    BY <1>2, <2>4, <2>5 DEF LeftOut
  <2>9. job.pc = "calling" =>
          /\ Candidate \in AlarmIkns(job.uid)' => LateAlarm(Candidate)'
          /\ Candidate \in savedIkns'[job.uid] => LateSaved(Candidate)'
    BY <1>1, <1>2, <2>4, <2>5 DEF LeftOut, LateAlarm, LateSaved
  <2> QED
    BY <1>1, <2>7, <2>8, <2>9 DEF LeftOut, AlarmIkns, LateAlarm, LateSaved
<1> QED
  BY <1>3, <1>4

LEMMA LeftOutStep ==
  ASSUME Standing, LeftOut, [InterestNext]_interestVars
  PROVE  LeftOut'
<1>0. DOMAIN job = JobFields
  BY DEF Standing, Course
<1>1. ASSUME job'.pc \notin {"saved", "choose", "calling"} PROVE LeftOut'
  BY <1>1 DEF LeftOut
<1>2. ASSUME job' = job, UNCHANGED <<userVars, late>> PROVE LeftOut'
  BY <1>2 DEF LeftOut, userVars, Candidate, AlarmIkns, LateAlarm, LateSaved
<1>3. CASE ExcludeAlarms
  <2>1. /\ job'.pc = "saved" /\ job'.uid = job.uid
        /\ job'.excluded = AlarmIkns(job.uid) /\ alarms' = alarms
    BY <1>0, <1>3 DEF ExcludeAlarms, userVars, JobFields
  <2> QED
    BY <2>1 DEF LeftOut, AlarmIkns
<1>4. CASE ExcludeSaved
  <2>1. /\ job.pc = "saved" /\ job'.pc = "choose" /\ job'.uid = job.uid
        /\ job'.excluded = job.excluded \union savedIkns[job.uid]
        /\ alarms' = alarms /\ savedIkns' = savedIkns /\ late' = late
    BY <1>0, <1>4 DEF ExcludeSaved, userVars, historyVars, JobFields
  <2> QED
    BY <2>1 DEF LeftOut, AlarmIkns, LateAlarm, LateSaved
<1>5. CASE PassOver
  <2>1. /\ job.pc = "choose" /\ job'.pc = "choose" /\ job'.uid = job.uid
        /\ job'.excluded = job.excluded
        /\ alarms' = alarms /\ savedIkns' = savedIkns /\ late' = late
    BY <1>0, <1>5 DEF PassOver, userVars, historyVars, JobFields
  <2> QED
    BY <2>1 DEF LeftOut, AlarmIkns, LateAlarm, LateSaved
<1>6. CASE Choose
  <2>1. /\ job.pc = "choose" /\ job'.pc = "calling" /\ job'.uid = job.uid
        /\ job'.pool = job.pool /\ Candidate \notin job.excluded
        /\ alarms' = alarms /\ savedIkns' = savedIkns /\ late' = late
    BY <1>0, <1>6 DEF Choose, Unsuitable, userVars, historyVars, JobFields
  <2> QED
    BY <2>1 DEF LeftOut, Candidate, AlarmIkns, LateAlarm, LateSaved
<1>7. CASE DispatchStep \/ Surroundings \/ UNCHANGED interestVars
  <2>1. CASE \E u \in Users, i \in Ikns : Edit(u, i)
    BY <2>1, EditIsLate
  <2>2. CASE ~ \E u \in Users, i \in Ikns : Edit(u, i)
    <3>1. job' = job /\ UNCHANGED <<userVars, late>>
      BY <1>7, <2>2 DEF DispatchStep, Surroundings, Tick, EvictSuggested, EvictDaily,
         interestVars, historyVars
    <3> QED
      BY <1>2, <3>1
  <2> QED
    BY <2>1, <2>2
<1>8. CASE Start \/ LoadUsers \/ LoadFilters \/ UseCache \/ Search \/ DispatchReturned
             \/ Mark \/ Finish \/ LoadFails \/ JobDies
  <2>1. job'.pc \notin {"saved", "choose", "calling"}
    <3>1. CASE Start
      BY <3>1 DEF Start, Idle
    <3>2. CASE Finish \/ LoadFails \/ JobDies
      BY <3>2 DEF Finish, LoadFails, JobDies, Idle
    <3>3. CASE LoadUsers
      BY <1>0, <3>3 DEF LoadUsers, JobFields
    <3>4. CASE LoadFilters
      BY <1>0, <3>4 DEF LoadFilters, JobFields
    <3>5. CASE UseCache
      BY <1>0, <3>5 DEF UseCache, AfterSearch, JobFields
    <3>6. CASE Search
      BY <1>0, <3>6 DEF Search, AfterSearch, JobFields
    <3>7. CASE DispatchReturned \/ Mark
      BY <1>0, <3>7 DEF DispatchReturned, Mark, JobFields
    <3> QED
      BY <1>8, <3>1, <3>2, <3>3, <3>4, <3>5, <3>6, <3>7
  <2> QED
    BY <1>1, <2>1
<1>9. CASE NoneLeft \/ Incr \/ UserFails \/ DispatchRaised \/ MarkHalfDone
             \/ MarkUnacknowledged \/ IncrUnacknowledged \/ \E u \in Users : NextUser(u)
  <2>1. job'.pc \notin {"saved", "choose", "calling"}
    BY <1>0, <1>9 DEF NoneLeft, Incr, UserFails, DispatchRaised, MarkHalfDone,
       MarkUnacknowledged, IncrUnacknowledged, NextUser, Skip, JobFields
  <2> QED
    BY <1>1, <2>1
<1> QED
  BY <1>3, <1>4, <1>5, <1>6, <1>7, <1>8, <1>9 DEF InterestNext

LEMMA LeftOutInit == InterestInit => LeftOut
BY DEF InterestInit, Idle, LeftOut

(* Nobody is told of a tender among their saved tenders, or in an alarm    *)
(* that names it, unless it was registered there after the run had read    *)
(* that collection (interest_job.py:144-170, firestore_repo.py:163-191).   *)
THEOREM RegistrationsHold == InterestSpec => RegisteredLeftOut
<1>1. ASSUME Standing, LeftOut, [InterestNext]_interestVars, inbox' # inbox,
             NEW u \in Users, NEW i \in Ikns, Shows(u, i)
      PROVE  /\ alarms[u][i] = "named" => <<"alarms", i>> \in late
             /\ i \in savedIkns[u] => <<"savedTenders", i>> \in late
  <2>1. u = job.uid /\ i = Candidate /\ job.pc = "calling"
    BY <1>1, ShownAtHand, ShowsOwn
  <2> QED
    BY <1>1, <2>1 DEF LeftOut, AlarmIkns, LateAlarm, LateSaved
<1>2. Standing /\ LeftOut /\ [InterestNext]_interestVars
        => [inbox' # inbox => \A u \in Users, i \in Ikns :
              Shows(u, i) =>
                /\ alarms[u][i] = "named" => <<"alarms", i>> \in late
                /\ i \in savedIkns[u] => <<"savedTenders", i>> \in late]_interestVars
  BY <1>1
<1> QED
  BY <1>2, StandingInit, StandingStep, LeftOutInit, LeftOutStep, PTL
     DEF InterestSpec, RegisteredLeftOut

-------------------------------------------------------------------------------
(* One search for all filters of a user.                                   *)

(* In a list field the merge has the terms of all filters. *)
LEMMA MergedTerms ==
  ASSUME NEW filters \in Seq(Filters), NEW x \in ListFields
  PROVE  MergeFilters(filters)[x] = UNION {filters[m][x] : m \in DOMAIN filters}
<1>1. x \in Fields /\ x # TextField
  BY FieldsAssumption DEF Fields
<1> QED
  BY <1>1 DEF MergeFilters

(* The merged search finds what a user's single filter finds in a list     *)
(* field, provided that the filter asks for something there whenever one   *)
(* of the user's filters does.  (A filter that leaves the field open, next *)
(* to one that does not, is narrowed.)                                     *)
THEOREM MergeCovers ==
  ASSUME NEW filters \in Seq(Filters), NEW n \in DOMAIN filters, NEW tender,
         \A x \in ListFields, m \in DOMAIN filters :
           filters[m][x] # {} => filters[n][x] # {},
         MatchesIn(ListFields, filters[n], tender)
  PROVE  MatchesIn(ListFields, MergeFilters(filters), tender)
<1> SUFFICES ASSUME NEW x \in ListFields, MergeFilters(filters)[x] # {}
             PROVE  MergeFilters(filters)[x] \intersect tender[x] # {}
  BY DEF MatchesIn
<1>1. MergeFilters(filters)[x] = UNION {filters[m][x] : m \in DOMAIN filters}
  BY MergedTerms
<1>2. filters[n][x] # {}
  BY <1>1
<1>3. filters[n][x] \intersect tender[x] # {}
  BY <1>2 DEF MatchesIn
<1>4. filters[n][x] \subseteq MergeFilters(filters)[x]
  BY <1>1
<1> QED
  BY <1>3, <1>4

(* What a merged search lists has, in each list field some filter asks     *)
(* for, a term some filter asked for there.                                *)
THEOREM MergeAsked ==
  ASSUME NEW filters \in Seq(Filters), NEW tender, NEW x \in ListFields,
         Matches(OpenSearch(filters), tender),
         NEW m \in DOMAIN filters, filters[m][x] # {}
  PROVE  \E n \in DOMAIN filters : filters[n][x] \intersect tender[x] # {}
<1>1. x \in Fields /\ x # StatusField /\ StatusField \in Fields
  BY FieldsAssumption DEF Fields
<1>2. OpenSearch(filters)[x] = UNION {filters[k][x] : k \in DOMAIN filters}
  BY <1>1, MergedTerms DEF OpenSearch, MergeFilters
<1>3. OpenSearch(filters)[x] \intersect tender[x] # {}
  BY <1>1, <1>2 DEF Matches, MatchesIn
<1> QED
  BY <1>2, <1>3

(* A user is told of tenders that are open for offers, and that have, in   *)
(* each list field some filter of the user asks for, a term one of the     *)
(* user's filters asked for (interest_job.py:11, 35-67, 125-132).          *)
THEOREM ShownWasAsked ==
  InterestSpec => [][inbox' # inbox => \A u \in Users, i \in Ikns : Shows(u, i) =>
    /\ Notice[i][StatusField] \intersect OpenStatus # {}
    /\ \A x \in ListFields, m \in DOMAIN Saved[u] :
         Saved[u][m][x] # {} =>
           \E n \in DOMAIN Saved[u] : Saved[u][n][x] \intersect Notice[i][x] # {}]_interestVars
<1> DEFINE Asked(u, i) ==
      /\ Notice[i][StatusField] \intersect OpenStatus # {}
      /\ \A x \in ListFields, m \in DOMAIN Saved[u] :
           Saved[u][m][x] # {} =>
             \E n \in DOMAIN Saved[u] : Saved[u][n][x] \intersect Notice[i][x] # {}
<1>1. ASSUME NEW u \in Users, NEW i \in Ikns,
             Matches(OpenSearch(Saved[u]), Notice[i])
      PROVE  Asked(u, i)
  <2>1. Saved[u] \in Seq(Filters)
    BY InterestAssumption
  <2>2. StatusField \in Fields /\ OpenStatus # {}
        /\ OpenSearch(Saved[u])[StatusField] = OpenStatus
    BY FieldsAssumption DEF Fields, OpenSearch, MergeFilters
  <2>3. Notice[i][StatusField] \intersect OpenStatus # {}
    BY <1>1, <2>2 DEF Matches, MatchesIn
  <2> QED
    BY <1>1, <2>1, <2>3, MergeAsked
<1>2. FitsOwnSearch => [][inbox' # inbox => \A u \in Users, i \in Ikns :
                            Shows(u, i) => Asked(u, i)]_interestVars
  <2>1. [inbox' # inbox => \A u \in Users, i \in Ikns :
           Shows(u, i) => Matches(OpenSearch(Saved[u]), Notice[i])]_interestVars
        => [inbox' # inbox => \A u \in Users, i \in Ikns :
              Shows(u, i) => Asked(u, i)]_interestVars
    BY <1>1
  <2> QED
    BY <2>1, PTL DEF FitsOwnSearch
<1> QED
  BY <1>2, OwnSearchFits, PTL
===============================================================================
