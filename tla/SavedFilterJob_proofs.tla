------------------------- MODULE SavedFilterJob_proofs -------------------------
(***************************************************************************)
(* Proofs about SavedFilterJob, for any users, filters and tenders: the    *)
(* job is a lawful caller of dispatch, tells nobody of a marked tender,    *)
(* tells each member what the member's own filter asks for, and serves     *)
(* whom it reaches.                                                        *)
(***************************************************************************)
EXTENDS SavedFilterJob, Dispatcher_proofs, FiniteSetTheorems

(* What the search of a group finds for its members. *)

(* Filters with one fingerprint differ in dates only. *)
LEMMA SameFingerprint ==
  ASSUME NEW f \in Filters, NEW g \in Filters, Fingerprint(f) = Fingerprint(g),
         NEW x \in Fields \ DateFields
  PROVE  f[x] = g[x]
<1>1. Fingerprint(f)[x] = f[x] /\ Fingerprint(g)[x] = g[x]
  BY DEF Fingerprint
<1> QED
  BY <1>1

(* A group's search stands for each of its filters that has the tender     *)
(* dates of the first: it finds exactly what a search for that filter      *)
(* alone would have found.                                                 *)
THEOREM GroupSearchExact ==
  ASSUME NEW f \in Filters, NEW g \in Filters, Fingerprint(f) = Fingerprint(g),
         f[TenderDate] = g[TenderDate], NEW today, NEW tender
  PROVE  Matches(NoticesOf(f, today), tender) <=> Matches(NoticesOf(g, today), tender)
<1>1. ASSUME NEW x \in Fields PROVE NoticesOf(f, today)[x] = NoticesOf(g, today)[x]
  <2>1. CASE x = NoticeDate
    BY <2>1 DEF NoticesOf, Filters
  <2>2. CASE x = TenderDate
    BY <2>2, FieldsAssumption DEF NoticesOf, Filters
  <2>3. CASE x \notin DateFields
    BY <2>3, SameFingerprint DEF NoticesOf, Filters, DateFields
  <2> QED
    BY <2>1, <2>2, <2>3 DEF DateFields
<1> QED
  BY <1>1 DEF Matches, MatchesIn

(* Without that condition it is right in every field but the tender dates. *)
THEOREM GroupSearchFits ==
  ASSUME NEW f \in Filters, NEW g \in Filters, Fingerprint(f) = Fingerprint(g),
         NEW today, NEW tender, Matches(NoticesOf(f, today), tender)
  PROVE  MatchesIn(Fields \ {TenderDate}, NoticesOf(g, today), tender)
<1>1. ASSUME NEW x \in Fields \ {TenderDate}
      PROVE  NoticesOf(f, today)[x] = NoticesOf(g, today)[x]
  <2>1. CASE x = NoticeDate
    BY <2>1 DEF NoticesOf, Filters
  <2>2. CASE x # NoticeDate
    BY <2>2, SameFingerprint DEF NoticesOf, Filters, DateFields
  <2> QED
    BY <2>1, <2>2
<1> QED
  BY <1>1 DEF Matches, MatchesIn

-------------------------------------------------------------------------------
(* Orders and positions. *)

LEMMA LeastPosition ==
  ASSUME NEW s \in SUBSET Nat, s # {}
  PROVE  Min(s) \in s /\ \A n \in s : Min(s) <= n
<1> DEFINE Below == OpToRel(<, Nat)
<1>1. Below = {p \in Nat \X Nat : p[1] < p[2]}
  BY DEF OpToRel
<1>2. \E x \in s : \A y \in s : ~(<<y, x>> \in Below)
  BY WFMin, NatLessThanWellFounded
<1> HIDE DEF Below
<1>3. PICK x \in s : \A y \in s : ~(<<y, x>> \in Below)
  BY <1>2
<1>4. \A y \in s : <<y, x>> \in Nat \X Nat
  OBVIOUS
<1>5. \A y \in s : ~(y < x)
  BY <1>1, <1>3, <1>4
<1>6. \A y \in s : x <= y
  BY <1>5
<1> QED
  BY <1>6 DEF Min

LEMMA AnyOrder ==
  ASSUME NEW s, IsFiniteSet(s), NEW order \in SetToSeqs(s)
  PROVE  /\ order \in Seq(s) /\ Len(order) = Cardinality(s)
         /\ \A m, n \in 1 .. Len(order) : order[m] = order[n] => m = n
<1>1. Cardinality(s) \in Nat
  BY FS_CardinalityType
<1>2. /\ order \in [1 .. Cardinality(s) -> s]
      /\ \A m, n \in 1 .. Cardinality(s) : m # n => order[m] # order[n]
  BY DEF SetToSeqs
<1>3. order \in Seq(s) /\ Len(order) = Cardinality(s)
  BY <1>1, <1>2
<1> QED
  BY <1>2, <1>3

-------------------------------------------------------------------------------
(* The course of a run: what is bound at which await, and how the lists    *)
(* the run keeps hang together.                                            *)
JobFields == {"pc", "tokens", "waiting", "found", "todo", "today", "group",
              "page", "left", "seen"}

Members == [uid : Users, id : FilterIds, body : Saveable]

(* Filters belong to the users their ids are made for. *)
OwnersKept ==
  \A u \in Users, f \in FilterIds : filters[u][f] # None => u \in Owners[f]

AtMember == job.pc \in {"match", "calling", "mark"}

(* The members gathered, of users who are in the run. *)
Gathered ==
  /\ job.waiting \in Seq(DOMAIN job.tokens)
  /\ job.pc = "gather" => job.waiting # <<>>
  /\ job.found \in Seq(Members)
  /\ \A n \in DOMAIN job.found : job.found[n].uid \in Owners[job.found[n].id]
  /\ job.pc \in {"idle", "users"} => job.found = <<>>
  /\ job.pc \in {"idle", "users", "gather"} => job.group = {} /\ job.todo = {}

(* The members of the group, and its page of tenders. *)
Grouped ==
  /\ \A m, n \in job.group :
       Fingerprint(job.found[m].body) = Fingerprint(job.found[n].body)
  /\ job.pc \in {"idle", "users", "gather", "loop", "search"} => job.page = <<>>
  /\ \A m, n \in 1 .. Len(job.page) : job.page[m] = job.page[n] => m = n
  /\ \A m \in job.group, n \in 1 .. Len(job.page) :
       MatchesIn(Fields \ {TenderDate}, NoticesOf(job.found[m].body, job.today),
                 Notice[job.page[n]])

(* What is left for the member at hand: the end of the page.  Of these a   *)
(* tender is marked only if it was when the marks were read.               *)
LeftOver ==
  /\ job.left \in Seq(Tenders) /\ Len(job.left) <= Len(job.page)
  /\ \A n \in 1 .. Len(job.left) :
       job.left[n] = job.page[Len(job.page) - Len(job.left) + n]
  /\ ~AtMember => job.left = <<>>
  /\ AtMember => \A n \in 1 .. Len(job.left) :
       <<Member.uid, Member.id, job.left[n]>> \in notified => job.left[n] \in job.seen

(* The call in progress is for the member and the tender at hand. *)
OnCall ==
  /\ job.pc \in {"calling", "mark"} => job.left # <<>>
  /\ job.pc = "calling" => /\ ~Told
                           /\ frame[saved].uid = Member.uid
                           /\ frame[saved].key = IdemKey
  /\ job.pc # "calling" => ~InCall(saved)

Course ==
  DOMAIN job = JobFields /\ OwnersKept /\ Gathered /\ Grouped /\ LeftOver /\ OnCall

Standing == Dispatch /\ SavedTypeOK /\ Course

Done(u, k) ==
  \/ u \in Recipients[k]
  \/ <<u, k>> \in failed
  \/ Owners[k[1]] # {u} /\ Recipients[k] # {}

(* Whoever is marked, was found marked or is dealt with, was told. *)
Facts ==
  /\ \A u \in Users, f \in FilterIds, t \in Tenders :
       <<u, f, t>> \in notified => Done(u, <<f, t>>)
  /\ AtMember =>
       /\ \A t \in Tenders : t \in job.seen => Done(Member.uid, <<Member.id, t>>)
       /\ \A n \in 1 .. Len(job.page) - Len(job.left) :
            Done(Member.uid, <<Member.id, job.page[n]>>)
  /\ job.pc = "mark" => Done(Member.uid, IdemKey)

-------------------------------------------------------------------------------
(* Every step keeps what stands. *)

LEMMA OneCaller == Sole = Keys /\ saved \in Jobs
BY SavedFilterAssumption DEF Sole

LEMMA MemberShape ==
  ASSUME Standing, job.group # {}
  PROVE  /\ Min(job.group) \in job.group /\ Min(job.group) \in DOMAIN job.found
         /\ Member \in Members /\ Member.uid \in Users /\ Member.id \in FilterIds
         /\ Member.uid \in DOMAIN job.tokens /\ Member.uid \in Owners[Member.id]
<1>1. /\ job.found \in Seq(Members) /\ job.group \subseteq DOMAIN job.found
      /\ DOMAIN job.found = 1 .. Len(job.found)
  BY DEF Standing, Course, Gathered, SavedTypeOK
<1>2. Min(job.group) \in job.group
  BY <1>1, LeastPosition
<1>3. Member \in Members
  BY <1>1, <1>2, ElementOfSeq DEF Member
<1>4. /\ Member.uid \in DOMAIN job.tokens
      /\ Member.uid \in Owners[Member.id]
  BY <1>1, <1>2 DEF Standing, Course, Gathered, SavedTypeOK, Member
<1> QED
  BY <1>1, <1>2, <1>3, <1>4 DEF Members

LEMMA LeftShape ==
  ASSUME Standing, job.left # <<>>
  PROVE  /\ AtMember /\ job.group # {}
         /\ Candidate \in Tenders /\ Candidate = job.left[1]
         /\ Len(job.left) \in Nat \ {0} /\ Tail(job.left) \in Seq(Tenders)
         /\ Len(Tail(job.left)) = Len(job.left) - 1
         /\ \A n \in 1 .. Len(Tail(job.left)) : Tail(job.left)[n] = job.left[n + 1]
         /\ Len(job.page) \in Nat
<1>1. job.left \in Seq(Tenders) /\ job.page \in Seq(Tenders) /\ AtMember
  BY DEF Standing, Course, LeftOver, SavedTypeOK
<1>2. /\ Candidate = job.left[1]
      /\ Len(job.left) \in Nat \ {0} /\ Tail(job.left) \in Seq(Tenders)
      /\ Len(Tail(job.left)) = Len(job.left) - 1
      /\ \A n \in 1 .. Len(Tail(job.left)) : Tail(job.left)[n] = job.left[n + 1]
  BY <1>1, HeadTailProperties, LenProperties, EmptySeq DEF Candidate
<1>3. Candidate \in Tenders
  BY <1>1, <1>2, ElementOfSeq
<1>4. job.group # {}
  BY <1>1 DEF AtMember, Standing, SavedTypeOK
<1> QED
  BY <1>1, <1>2, <1>3, <1>4, LenProperties

(* The key of the member and the tender at hand is one the job may use for *)
(* that member.                                                            *)
LEMMA KeyTyped ==
  ASSUME Standing, job.left # <<>>
  PROVE  /\ IdemKey \in Keys /\ saved \in Callers[IdemKey]
         /\ Member.uid \in Addressees[IdemKey] /\ IdemKey[1] = Member.id
         /\ Addressees[IdemKey] = Owners[Member.id]
<1>1. Member.id \in FilterIds /\ Candidate \in Tenders /\ Member.uid \in Owners[Member.id]
  BY MemberShape, LeftShape
<1>2. IdemKey \in Keys
  BY <1>1, SavedFilterAssumption DEF IdemKey, MatchKeys
<1>3. IdemKey[1] = Member.id
  BY DEF IdemKey
<1> QED
  BY <1>1, <1>2, <1>3, SavedFilterAssumption

LEMMA StepLawful ==
  ASSUME Standing, [SavedNext]_savedVars
  PROVE  [DispatchNext]_dispatchVars
<1>1. ASSUME DispatchMatch PROVE DispatchNext
  <2>1. /\ job.left # <<>>
        /\ Call(saved, Member.uid, job.tokens[Member.uid], IdemKey)
    BY <1>1 DEF DispatchMatch
  <2>2. job.tokens[Member.uid] \in 1 .. issued[Member.uid]
    BY <2>1, MemberShape, LeftShape DEF Standing, SavedTypeOK
  <2> QED
    BY <2>1, <2>2, KeyTyped DEF DispatchNext
<1>2. ASSUME \/ Start \/ LoadUsers \/ Gather \/ NextGroup \/ Search \/ ReadSeen
             \/ PassOver \/ NextMember \/ Mark \/ Finish \/ LoadFails \/ GroupFails
      PROVE  UNCHANGED dispatchVars
  BY <1>2 DEF Start, LoadUsers, Gather, NextGroup, Search, ReadSeen, PassOver,
     NextMember, Mark, Finish, LoadFails, GroupFails
<1>3. ASSUME DispatchReturned \/ DispatchRaised PROVE DispatchNext
  BY <1>3, OneCaller DEF DispatchReturned, DispatchRaised, DispatchNext
<1>4. ASSUME JobDies PROVE [DispatchNext]_dispatchVars
  <2>1. {saved} \in SUBSET Jobs
    BY OneCaller
  <2> QED
    BY <1>4, <2>1 DEF JobDies, DispatchNext
<1>5. ASSUME Progress(saved) \/ Failure(saved) PROVE DispatchNext
  BY <1>5, OneCaller DEF DispatchNext
<1>6. ASSUME Surroundings PROVE [DispatchNext]_dispatchVars
  BY <1>6 DEF Surroundings, NextDay, Publish, EditFilter, DropNotified, DispatchNext
<1>7. CASE UNCHANGED savedVars
  BY <1>7 DEF savedVars
<1> QED
  BY <1>1, <1>2, <1>3, <1>4, <1>5, <1>6, <1>7 DEF SavedNext

LEMMA IdleStands ==
  ASSUME Standing, job' = Idle \/ (job' = [Idle EXCEPT !.pc = "users"]),
         ~InCall(saved)', UNCHANGED <<filterVars, notified>>, issued' = issued
  PROVE  SavedTypeOK' /\ Course'
<1>1. /\ DOMAIN job' = JobFields
      /\ job'.pc \in {"idle", "users"} /\ job'.tokens = <<>> /\ job'.waiting = <<>>
      /\ job'.found = <<>> /\ job'.todo = {} /\ job'.today = 0 /\ job'.group = {}
      /\ job'.page = <<>> /\ job'.left = <<>> /\ job'.seen = {}
  BY DEF Idle, JobFields
<1>2. DOMAIN <<>> = {} /\ Len(<<>>) = 0 /\ <<>> \in Seq({}) /\ <<>> \in Seq(Tenders)
      /\ <<>> \in Seq(Members) /\ 0 \in Days /\ 0 <= PageSize
  BY EmptySeq, SavedFilterAssumption DEF Days
<1>3. SavedTypeOK'
  BY <1>1, <1>2 DEF SavedTypeOK, Standing, filterVars
<1>4. OwnersKept'
  BY DEF Standing, Course, OwnersKept, filterVars
<1>5. Gathered' /\ Grouped'
  BY <1>1, <1>2 DEF Gathered, Grouped
<1>6. LeftOver' /\ OnCall'
  BY <1>1, <1>2 DEF LeftOver, OnCall, AtMember, InCall
<1> QED
  BY <1>1, <1>3, <1>4, <1>5, <1>6 DEF Course

LEMMA FiltersFinite ==
  ASSUME Standing, NEW u \in Users
  PROVE  /\ IsFiniteSet(FiltersOf(u)) /\ FiltersOf(u) \subseteq Members
         /\ \A m \in FiltersOf(u) : m.uid = u /\ u \in Owners[m.id]
<1> DEFINE ids == {g \in FilterIds : filters[u][g] # None}
           doc == [f \in ids |-> [uid |-> u, id |-> f, body |-> filters[u][f]]]
<1>1. IsFiniteSet(ids)
  BY FS_Subset, SavedFilterAssumption
<1>2. doc \in Surjection(ids, FiltersOf(u))
  BY DEF FiltersOf, Surjection
<1>3. IsFiniteSet(FiltersOf(u))
  BY <1>1, <1>2, FS_Surjection
<1>4. filters \in [Users -> [FilterIds -> Saveable \union {None}]] /\ OwnersKept
  BY DEF Standing, SavedTypeOK, Course
<1>5. ASSUME NEW m \in FiltersOf(u)
      PROVE  m \in Members /\ m.uid = u /\ u \in Owners[m.id]
  <2>1. PICK f \in ids : m = [uid |-> u, id |-> f, body |-> filters[u][f]]
    BY DEF FiltersOf
  <2> QED
    BY <1>4, <2>1 DEF Members, OwnersKept
<1> QED
  BY <1>3, <1>5

LEMMA StandingLoad ==
  ASSUME Standing, LoadUsers
  PROVE  SavedTypeOK' /\ Course'
<1>0. PICK eligible \in SUBSET {u \in Users : stored[u] # NoToken} :
        \E order \in SetToSeqs(eligible) :
          job' = AfterGather([job EXCEPT !.pc = "gather", !.waiting = order,
                                         !.tokens = [u \in eligible |-> stored[u]]])
  BY DEF LoadUsers
<1>1. PICK order \in SetToSeqs(eligible) :
        job' = AfterGather([job EXCEPT !.pc = "gather", !.waiting = order,
                                       !.tokens = [u \in eligible |-> stored[u]]])
  BY <1>0
<1>2. /\ job.pc = "users" /\ DOMAIN job = JobFields
      /\ UNCHANGED <<filters, published, day, notified, frame, issued>>
      /\ job.found = <<>> /\ job.todo = {} /\ job.group = {} /\ job.page = <<>>
      /\ job.left = <<>> /\ job.today \in Days /\ day \in Days
  BY DEF LoadUsers, filterVars, dispatchVars, tokenVars, Standing, Course, Gathered,
     Grouped, LeftOver, AtMember, SavedTypeOK
<1>3. DOMAIN <<>> = {} /\ Len(<<>>) = 0 /\ <<>> \in Seq(Tenders) /\ <<>> \in Seq(Members)
      /\ 0 <= PageSize
  BY EmptySeq, SavedFilterAssumption
<1>4. /\ DOMAIN job' = JobFields
      /\ job'.pc = IF order = <<>> THEN "loop" ELSE "gather"
      /\ job'.tokens = [u \in eligible |-> stored[u]] /\ job'.waiting = order
      /\ job'.found = job.found /\ job'.todo = {} /\ job'.today \in {job.today, day}
      /\ job'.group = job.group /\ job'.page = job.page /\ job'.left = job.left
  BY <1>1, <1>2, <1>3 DEF AfterGather, JobFields
<1>5. \A u \in eligible : u \in Users /\ stored[u] \in 1 .. issued[u]
  BY StoredToken DEF Standing, Dispatch, NoToken
<1>6. order \in Seq(eligible)
  BY AnyOrder, FS_Subset, SavedFilterAssumption
<1>7. SavedTypeOK'
  BY <1>2, <1>3, <1>4, <1>5 DEF SavedTypeOK, Standing
<1>8. OwnersKept'
  BY <1>2 DEF Standing, Course, OwnersKept
<1>9. Gathered' /\ Grouped'
  BY <1>2, <1>3, <1>4, <1>6 DEF Gathered, Grouped
<1>10. LeftOver' /\ OnCall'
  BY <1>2, <1>3, <1>4 DEF LeftOver, OnCall, AtMember, InCall, Standing, Course
<1> QED
  BY <1>4, <1>7, <1>8, <1>9, <1>10 DEF Course

LEMMA StandingGather ==
  ASSUME Standing, Gather
  PROVE  SavedTypeOK' /\ Course'
<1> DEFINE u == Head(job.waiting)
<1>1. PICK order \in SetToSeqs(FiltersOf(u)) :
        job' = AfterGather([job EXCEPT !.waiting = Tail(job.waiting),
                                       !.found = job.found \o order])
  BY DEF Gather
<1>2. /\ job.pc = "gather" /\ DOMAIN job = JobFields
      /\ UNCHANGED <<filters, published, day, notified, frame, issued>>
      /\ job.todo = {} /\ job.group = {} /\ job.page = <<>>
      /\ job.left = <<>> /\ job.today \in Days /\ day \in Days
      /\ job.waiting \in Seq(DOMAIN job.tokens) /\ job.waiting # <<>>
      /\ job.found \in Seq(Members)
      /\ \A n \in DOMAIN job.found : job.found[n].uid \in Owners[job.found[n].id]
      /\ \A n \in DOMAIN job.found : job.found[n].uid \in DOMAIN job.tokens
      /\ \A v \in DOMAIN job.tokens : v \in Users /\ job.tokens[v] \in 1 .. issued[v]
  BY DEF Gather, filterVars, dispatchVars, tokenVars, Standing, Course, Gathered,
     Grouped, LeftOver, AtMember, SavedTypeOK
<1>3. DOMAIN <<>> = {} /\ Len(<<>>) = 0 /\ <<>> \in Seq(Tenders) /\ 0 <= PageSize
  BY EmptySeq, SavedFilterAssumption
<1>4. /\ u \in DOMAIN job.tokens /\ u \in Users
      /\ Tail(job.waiting) \in Seq(DOMAIN job.tokens)
  BY <1>2, HeadTailProperties
<1>5. /\ order \in Seq(FiltersOf(u)) /\ FiltersOf(u) \subseteq Members
      /\ \A m \in FiltersOf(u) : m.uid = u /\ u \in Owners[m.id]
  BY <1>4, AnyOrder, FiltersFinite
<1> DEFINE found == job.found \o order
<1>6. /\ found \in Seq(Members)
      /\ \A n \in DOMAIN found : /\ found[n].uid \in Owners[found[n].id]
                                 /\ found[n].uid \in DOMAIN job.tokens
  <2>1. /\ order \in Seq(Members) /\ Len(order) \in Nat
        /\ \A n \in 1 .. Len(order) : order[n] \in FiltersOf(u)
    BY <1>5, ElementOfSeq, LenProperties
  <2>2. /\ found \in Seq(Members) /\ DOMAIN found = 1 .. Len(found)
        /\ Len(found) = Len(job.found) + Len(order)
        /\ \A n \in 1 .. Len(job.found) + Len(order) :
             found[n] = IF n <= Len(job.found) THEN job.found[n]
                        ELSE order[n - Len(job.found)]
    BY <1>2, <2>1, ConcatProperties, LenProperties
  <2>3. ASSUME NEW n \in DOMAIN found
        PROVE  \/ n \in DOMAIN job.found /\ found[n] = job.found[n]
               \/ found[n] \in FiltersOf(u)
    <3>1. Len(job.found) \in Nat /\ DOMAIN job.found = 1 .. Len(job.found)
      BY <1>2, LenProperties
    <3>2. CASE n <= Len(job.found)
      BY <2>2, <2>3, <3>1, <3>2
    <3>3. CASE ~(n <= Len(job.found))
      <4>1. n - Len(job.found) \in 1 .. Len(order)
        BY <2>1, <2>2, <2>3, <3>1, <3>3
      <4> QED
        BY <2>1, <2>2, <2>3, <3>1, <3>3, <4>1
    <3> QED
      BY <3>2, <3>3
  <2>4. ASSUME NEW n \in DOMAIN found
        PROVE  found[n].uid \in Owners[found[n].id] /\ found[n].uid \in DOMAIN job.tokens
    BY <1>2, <1>4, <1>5, <2>3, <2>4
  <2> QED
    BY <2>2, <2>4
<1> HIDE DEF found
<1>7. /\ DOMAIN job' = JobFields
      /\ job'.pc = IF Tail(job.waiting) = <<>> THEN "loop" ELSE "gather"
      /\ job'.tokens = job.tokens /\ job'.waiting = Tail(job.waiting)
      /\ job'.found = found /\ job'.todo \in {{}, DOMAIN found}
      /\ job'.pc = "gather" => job'.todo = {}
      /\ job'.today \in {job.today, day}
      /\ job'.group = job.group /\ job'.page = job.page /\ job'.left = job.left
  BY <1>1, <1>2 DEF AfterGather, JobFields, found
<1>8. SavedTypeOK'
  BY <1>2, <1>3, <1>6, <1>7 DEF SavedTypeOK, Standing
<1>9. OwnersKept'
  BY <1>2 DEF Standing, Course, OwnersKept
<1>10. Gathered' /\ Grouped'
  <2>1. Gathered'
    BY <1>2, <1>3, <1>4, <1>6, <1>7 DEF Gathered
  <2>2. Grouped'
    BY <1>2, <1>3, <1>4, <1>6, <1>7 DEF Grouped
  <2> QED
    BY <2>1, <2>2
<1>11. LeftOver' /\ OnCall'
  <2>1. LeftOver'
    BY <1>2, <1>3, <1>7 DEF LeftOver, AtMember, Standing, Course
  <2>2. OnCall'
    BY <1>2, <1>3, <1>7 DEF OnCall, InCall, Standing, Course
  <2> QED
    BY <2>1, <2>2
<1> QED
  BY <1>7, <1>8, <1>9, <1>10, <1>11 DEF Course

(* The steps of the loop leave what was gathered alone. *)
LoopStep ==
  /\ DOMAIN job' = JobFields
  /\ job'.tokens = job.tokens /\ job'.waiting = job.waiting
  /\ job'.found = job.found /\ job'.today = job.today

LEMMA LoopKeeps ==
  ASSUME Standing, LoopStep, UNCHANGED filterVars,
         job'.todo \subseteq job.todo, job'.group \subseteq DOMAIN job.found,
         job'.pc \in {"loop", "search", "seen", "match", "calling", "mark"}
  PROVE  OwnersKept' /\ Gathered'
<1>1. OwnersKept'
  BY DEF Standing, Course, OwnersKept, filterVars
<1>2. Gathered'
  BY DEF Standing, Course, Gathered, LoopStep
<1> QED
  BY <1>1, <1>2

LEMMA StandingNextGroup ==
  ASSUME Standing, NextGroup
  PROVE  SavedTypeOK' /\ Course'
<1> DEFINE first == job.found[Min(job.todo)]
           same == {n \in job.todo : InGroupOf(first, job.found[n])}
<1>1. /\ job.pc = "loop" /\ job.todo # {} /\ DOMAIN job = JobFields
      /\ job' = [job EXCEPT !.pc = "search", !.group = same, !.todo = job.todo \ same]
      /\ UNCHANGED filterVars
      /\ UNCHANGED <<filters, published, day, notified, frame, issued>>
  BY DEF NextGroup, filterVars, dispatchVars, tokenVars, Standing, Course
<1>2. Min(job.todo) \in same /\ same \subseteq job.todo /\ same \subseteq DOMAIN job.found
  <2>1. job.todo \subseteq DOMAIN job.found /\ DOMAIN job.found = 1 .. Len(job.found)
    BY DEF Standing, SavedTypeOK, Course, Gathered
  <2>2. Min(job.todo) \in job.todo
    BY <1>1, <2>1, LeastPosition
  <2> QED
    BY <2>1, <2>2 DEF InGroupOf
<1>3. \A m, n \in same :
        Fingerprint(job.found[m].body) = Fingerprint(job.found[n].body)
  BY DEF InGroupOf
<1> HIDE DEF same
<1>4. /\ LoopStep /\ job'.pc = "search" /\ job'.group = same
      /\ job'.todo = job.todo \ same /\ job'.page = job.page /\ job'.left = job.left
  BY <1>1 DEF LoopStep, JobFields
<1>5. SavedTypeOK'
  BY <1>1, <1>2, <1>4 DEF SavedTypeOK, Standing, LoopStep
<1>6. job.page = <<>> /\ job.left = <<>> /\ ~InCall(saved) /\ Len(<<>>) = 0
  BY <1>1, EmptySeq DEF Standing, Course, Grouped, LeftOver, OnCall, AtMember
<1>7. Grouped' /\ LeftOver' /\ OnCall'
  <2>1. job'.page = <<>> /\ job'.left = <<>> /\ frame' = frame
        /\ job'.found = job.found
    BY <1>1, <1>4, <1>6 DEF LoopStep
  <2>2. Grouped'
    BY <1>3, <1>4, <1>6, <2>1 DEF Grouped
  <2>3. LeftOver' /\ OnCall'
    BY <1>4, <1>6, <2>1, EmptySeq DEF LeftOver, OnCall, AtMember, InCall
  <2> QED
    BY <2>2, <2>3
<1> QED
  BY <1>1, <1>2, <1>4, <1>5, <1>7, LoopKeeps DEF Course, LoopStep

LEMMA StandingLeave ==
  ASSUME Standing, LeaveGroup, ~InCall(saved)', UNCHANGED filterVars,
         issued' = issued, notified' \subseteq Users \X FilterIds \X Tenders,
         job.pc \in {"search", "seen", "match", "calling", "mark"}
  PROVE  SavedTypeOK' /\ Course'
<1>1. /\ LoopStep /\ job'.pc = "loop" /\ job'.group = {} /\ job'.todo = job.todo
      /\ job'.page = <<>> /\ job'.left = <<>>
  BY DEF LeaveGroup, JobFields, LoopStep, Standing, Course
<1>2. Len(<<>>) = 0 /\ <<>> \in Seq(Tenders) /\ 0 <= PageSize
  BY EmptySeq, SavedFilterAssumption
<1>3. SavedTypeOK'
  BY <1>1, <1>2 DEF SavedTypeOK, Standing, LoopStep, filterVars
<1>4. Grouped' /\ LeftOver' /\ OnCall'
  BY <1>1, <1>2 DEF Grouped, LeftOver, OnCall, AtMember, InCall
<1> QED
  BY <1>1, <1>3, <1>4, LoopKeeps DEF Course, LoopStep

(* What the search lists suits every member of the group in all fields but *)
(* the tender dates.                                                       *)
LEMMA PageFits ==
  ASSUME Standing, job.pc = "search", NEW page \in Pages
  PROVE  /\ page \in Seq(Tenders) /\ Len(page) <= PageSize
         /\ \A m, n \in 1 .. Len(page) : page[m] = page[n] => m = n
         /\ \A m \in job.group, n \in 1 .. Len(page) :
              MatchesIn(Fields \ {TenderDate},
                        NoticesOf(job.found[m].body, job.today), Notice[page[n]])
<1>1. PICK hits \in SUBSET Hits : page \in SetToSeqs(hits) /\ Cardinality(hits) <= PageSize
  BY SavedFilterAssumption DEF Pages
<1>2. hits \subseteq Tenders /\ IsFiniteSet(hits)
  BY <1>1, FS_Subset, SavedFilterAssumption DEF Hits, Standing, SavedTypeOK
<1>3. /\ page \in Seq(hits) /\ Len(page) = Cardinality(hits)
      /\ \A m, n \in 1 .. Len(page) : page[m] = page[n] => m = n
  BY <1>1, <1>2, AnyOrder
<1>4. \A n \in 1 .. Len(page) : page[n] \in hits
  BY <1>3, ElementOfSeq
<1>5. page \in Seq(Tenders)
  <2>1. page \in Seq(hits) => page \in Seq(Tenders)
    BY <1>2
  <2> QED
    BY <1>3, <2>1
<1>6. ASSUME NEW m \in job.group, NEW n \in 1 .. Len(page)
      PROVE  MatchesIn(Fields \ {TenderDate},
                       NoticesOf(job.found[m].body, job.today), Notice[page[n]])
  <2>1. /\ Min(job.group) \in job.group /\ Member \in Members
        /\ job.found[m] \in Members
    BY <1>6, MemberShape, ElementOfSeq DEF Standing, SavedTypeOK, Course, Gathered
  <2>2. Member.body \in Filters /\ job.found[m].body \in Filters
    BY <2>1, SavedFilterAssumption DEF Members
  <2>3. Fingerprint(Member.body) = Fingerprint(job.found[m].body)
    BY <2>1 DEF Standing, Course, Grouped, Member
  <2>4. Matches(NoticesOf(Member.body, job.today), Notice[page[n]])
    BY <1>1, <1>4 DEF Hits
  <2> QED
    BY <2>2, <2>3, <2>4, GroupSearchFits
<1> QED
  BY <1>1, <1>3, <1>5, <1>6

LEMMA StandingSearch ==
  ASSUME Standing, Search
  PROVE  SavedTypeOK' /\ Course'
<1>1. PICK page \in Pages :
        IF page = <<>> THEN LeaveGroup
        ELSE job' = [job EXCEPT !.pc = "seen", !.page = page]
  BY DEF Search
<1>2. /\ job.pc = "search" /\ DOMAIN job = JobFields /\ UNCHANGED filterVars
      /\ UNCHANGED <<filters, published, day, notified, frame, issued>>
      /\ job.left = <<>> /\ ~InCall(saved) /\ ~InCall(saved)'
      /\ notified \in SUBSET (Users \X FilterIds \X Tenders)
  BY DEF Search, filterVars, dispatchVars, tokenVars, Standing, Course, LeftOver,
     OnCall, AtMember, InCall, SavedTypeOK
<1>3. CASE page = <<>>
  BY <1>1, <1>2, <1>3, StandingLeave
<1>4. CASE page # <<>>
  <2>1. /\ LoopStep /\ job'.pc = "seen" /\ job'.group = job.group
        /\ job'.todo = job.todo /\ job'.page = page /\ job'.left = <<>>
    BY <1>1, <1>2, <1>4 DEF LoopStep, JobFields
  <2>2. page \in Seq(Tenders) /\ Len(page) <= PageSize /\ Len(page) \in Nat
    BY <1>2, PageFits, LenProperties
  <2>3. SavedTypeOK'
    BY <1>2, <2>1, <2>2 DEF SavedTypeOK, Standing, LoopStep
  <2>4. Grouped'
    BY <1>2, <2>1, PageFits DEF Grouped, LoopStep, Standing, Course
  <2>5. LeftOver' /\ OnCall'
    BY <1>2, <2>1, <2>2, EmptySeq DEF LeftOver, OnCall, AtMember, InCall
  <2>6. job.group \subseteq DOMAIN job.found
    BY DEF Standing, SavedTypeOK
  <2> QED
    BY <1>2, <2>1, <2>3, <2>4, <2>5, <2>6, LoopKeeps DEF Course, LoopStep
<1> QED
  BY <1>3, <1>4

(* The steps within a group change neither the page nor who is in it, but  *)
(* for the members that are done.                                          *)
GroupStep ==
  /\ LoopStep /\ job'.todo = job.todo /\ job'.page = job.page
  /\ job'.group \subseteq job.group /\ job'.group # {}
  /\ job'.pc \in {"seen", "match", "calling", "mark"}

LEMMA GroupKeeps ==
  ASSUME Standing, GroupStep, UNCHANGED filterVars, issued' = issued,
         notified' \subseteq Users \X FilterIds \X Tenders
  PROVE  SavedTypeOK' /\ OwnersKept' /\ Gathered' /\ Grouped'
<1>1. SavedTypeOK'
  BY DEF SavedTypeOK, Standing, GroupStep, LoopStep, filterVars
<1>2. Grouped'
  BY DEF Standing, Course, Grouped, GroupStep, LoopStep
<1>3. job'.group \subseteq DOMAIN job.found
  BY DEF Standing, SavedTypeOK, GroupStep
<1> QED
  BY <1>1, <1>2, <1>3, LoopKeeps DEF GroupStep

LEMMA StandingReadSeen ==
  ASSUME Standing, ReadSeen
  PROVE  SavedTypeOK' /\ Course'
<1>1. /\ job.pc = "seen" /\ DOMAIN job = JobFields /\ UNCHANGED filterVars
      /\ issued' = issued /\ frame' = frame /\ notified' = notified
      /\ job' = [job EXCEPT !.pc = "match", !.left = job.page, !.seen = Seen]
      /\ ~InCall(saved) /\ job.group # {}
  BY DEF ReadSeen, dispatchVars, tokenVars, Standing, Course, OnCall, SavedTypeOK
<1>2. /\ GroupStep /\ job'.pc = "match" /\ job'.group = job.group
      /\ job'.left = job.page /\ job'.seen = Seen
  BY <1>1 DEF GroupStep, LoopStep, JobFields
<1>3. /\ job.page \in Seq(Tenders) /\ Len(job.page) \in Nat
      /\ notified \subseteq Users \X FilterIds \X Tenders
  BY LenProperties DEF Standing, SavedTypeOK
<1>4. Member' = Member
  BY <1>2 DEF Member, GroupStep, LoopStep
<1>5. ASSUME NEW n \in 1 .. Len(job.page),
             <<Member.uid, Member.id, job.page[n]>> \in notified
      PROVE  job.page[n] \in Seen
  <2>1. job.page[n] \in Tenders
    BY <1>3, ElementOfSeq
  <2> QED
    BY <1>5, <2>1 DEF Seen
<1>6. LeftOver'
  <2>1. \A n \in 1 .. Len(job.page) :
          job.page[n] = job.page[Len(job.page) - Len(job.page) + n]
    BY <1>3
  <2>2. /\ job'.page = job.page /\ job'.left = job.page /\ AtMember'
        /\ Len(job.page) <= Len(job.page)
    BY <1>2, <1>3 DEF GroupStep, AtMember
  <2> QED
    BY <1>1, <1>2, <1>3, <1>4, <1>5, <2>1, <2>2 DEF LeftOver
<1>7. OnCall'
  BY <1>1, <1>2 DEF OnCall, InCall
<1> QED
  BY <1>1, <1>2, <1>3, <1>6, <1>7, GroupKeeps DEF Course, GroupStep, LoopStep

(* The first tender that is left is dealt with, and marked or not. *)
LEMMA StandingAdvance ==
  ASSUME Standing, job.left # <<>>, UNCHANGED filterVars, issued' = issued,
         job' = [job EXCEPT !.pc = "match", !.left = Tail(job.left)],
         notified' \in {notified, notified \union {Triple}}, ~InCall(saved)'
  PROVE  SavedTypeOK' /\ Course'
<1>1. /\ AtMember /\ job.group # {}
      /\ Candidate \in Tenders /\ Candidate = job.left[1]
      /\ Len(job.left) \in Nat \ {0} /\ Tail(job.left) \in Seq(Tenders)
      /\ Len(Tail(job.left)) = Len(job.left) - 1
      /\ \A n \in 1 .. Len(Tail(job.left)) : Tail(job.left)[n] = job.left[n + 1]
      /\ Len(job.page) \in Nat /\ Len(job.left) <= Len(job.page)
  BY LeftShape DEF Standing, Course, LeftOver
<1>2. /\ GroupStep /\ job'.pc = "match" /\ job'.group = job.group
      /\ job'.left = Tail(job.left) /\ job'.seen = job.seen
  BY <1>1 DEF GroupStep, LoopStep, JobFields, Standing, Course
<1>3. notified' \subseteq Users \X FilterIds \X Tenders
  BY <1>1, MemberShape DEF Triple, Standing, SavedTypeOK
<1>4. Member' = Member
  BY <1>2 DEF Member, GroupStep, LoopStep
<1> DEFINE l == Len(job.left)  p == Len(job.page)
<1>5. /\ l \in Nat \ {0} /\ p \in Nat /\ l <= p /\ Len(Tail(job.left)) = l - 1
      /\ \A n \in 1 .. l : job.left[n] = job.page[p - l + n]
      /\ \A n \in 1 .. l - 1 : Tail(job.left)[n] = job.left[n + 1]
      /\ \A m, n \in 1 .. p : job.page[m] = job.page[n] => m = n
  BY <1>1 DEF Standing, Course, LeftOver, Grouped
<1>6. \A n \in 1 .. l :
        <<Member.uid, Member.id, job.left[n]>> \in notified => job.left[n] \in job.seen
  BY <1>1 DEF Standing, Course, LeftOver
<1> HIDE DEF l, p
<1>7. ASSUME NEW n \in 1 .. l - 1
      PROVE  /\ Tail(job.left)[n] = job.page[p - (l - 1) + n]
             /\ Tail(job.left)[n] # Candidate
             /\ <<Member.uid, Member.id, Tail(job.left)[n]>> \in notified'
                  => Tail(job.left)[n] \in job.seen
  <2>1. /\ n + 1 \in 1 .. l /\ 1 \in 1 .. l
        /\ p - l + (n + 1) = p - (l - 1) + n
        /\ p - l + (n + 1) \in 1 .. p /\ p - l + 1 \in 1 .. p
        /\ p - l + (n + 1) # p - l + 1
    <3>1. l \in Nat /\ p \in Nat /\ l <= p /\ n \in Nat /\ 1 <= n /\ n <= l - 1
      BY <1>5
    <3> QED
      BY <3>1
  <2>2. Tail(job.left)[n] = job.left[n + 1]
    BY <1>5
  <2>3. Tail(job.left)[n] = job.page[p - (l - 1) + n]
    BY <1>5, <2>1, <2>2
  <2>4. job.left[1] = job.page[p - l + 1] /\ job.left[n + 1] = job.page[p - l + (n + 1)]
    BY <1>5, <2>1
  <2>5. Tail(job.left)[n] # Candidate
    <3> DEFINE here == p - l + (n + 1)  head == p - l + 1
    <3>1. here \in 1 .. p /\ head \in 1 .. p /\ here # head
      BY <2>1
    <3>2. job.left[1] = job.page[head] /\ job.left[n + 1] = job.page[here]
      BY <2>4
    <3> HIDE DEF here, head
    <3>3. job.page[here] # job.page[head]
      BY <1>5, <3>1
    <3> QED
      BY <1>1, <2>2, <3>2, <3>3
  <2>6. <<Member.uid, Member.id, Tail(job.left)[n]>> # Triple
    BY <2>5 DEF Triple
  <2> QED
    BY <1>6, <2>1, <2>2, <2>3, <2>5, <2>6
<1>8. LeftOver'
  <2>1. /\ job'.page = job.page /\ AtMember' /\ l - 1 <= p
        /\ Len(job'.left) = l - 1 /\ Len(job'.page) = p
    BY <1>2, <1>5 DEF GroupStep, AtMember, p
  <2>2. \A n \in 1 .. Len(job'.left) :
          job'.left[n] = job'.page[Len(job'.page) - Len(job'.left) + n]
    BY <1>2, <1>7, <2>1
  <2>3. \A n \in 1 .. Len(job'.left) :
          <<Member.uid, Member.id, job'.left[n]>> \in notified' => job'.left[n] \in job'.seen
    BY <1>2, <1>7, <2>1
  <2> QED
    BY <1>1, <1>2, <1>4, <2>1, <2>2, <2>3 DEF LeftOver
<1>9. OnCall'
  BY <1>2 DEF OnCall
<1> QED
  BY <1>1, <1>2, <1>3, <1>8, <1>9, GroupKeeps DEF Course, GroupStep, LoopStep

LEMMA StandingNextMember ==
  ASSUME Standing, NextMember
  PROVE  SavedTypeOK' /\ Course'
<1> DEFINE rest == job.group \ {Min(job.group)}
<1>1. /\ job.pc = "match" /\ job.left = <<>> /\ DOMAIN job = JobFields
      /\ UNCHANGED filterVars /\ issued' = issued /\ frame' = frame
      /\ notified' = notified /\ ~InCall(saved)
      /\ notified \subseteq Users \X FilterIds \X Tenders
  BY DEF NextMember, dispatchVars, tokenVars, Standing, Course, OnCall, SavedTypeOK
<1>2. CASE LeaveGroup
  BY <1>1, <1>2, StandingLeave DEF InCall
<1>3. CASE /\ rest # {}
           /\ job' = [job EXCEPT !.pc = "seen", !.group = rest, !.seen = {}]
  <2>1. /\ GroupStep /\ job'.pc = "seen" /\ job'.left = <<>>
    BY <1>1, <1>3 DEF GroupStep, LoopStep, JobFields
  <2>2. Len(<<>>) = 0 /\ <<>> \in Seq(Tenders) /\ Len(job.page) \in Nat
    BY EmptySeq, LenProperties DEF Standing, SavedTypeOK
  <2>3. LeftOver' /\ OnCall'
    BY <1>1, <2>1, <2>2 DEF LeftOver, OnCall, InCall, AtMember, GroupStep
  <2> QED
    BY <1>1, <2>1, <2>3, GroupKeeps DEF Course, GroupStep, LoopStep
<1> QED
  BY <1>2, <1>3 DEF NextMember

(* dispatch is called, and returns. *)
LEMMA StandingCall ==
  ASSUME Standing, DispatchMatch \/ DispatchReturned
  PROVE  SavedTypeOK' /\ Course'
<1> DEFINE pc == IF job.pc = "match" THEN "calling" ELSE "mark"
<1>1. /\ AtMember /\ job.left # <<>> /\ DOMAIN job = JobFields /\ UNCHANGED filterVars
      /\ issued' = issued /\ notified' = notified
      /\ notified \subseteq Users \X FilterIds \X Tenders
      /\ DispatchMatch => job.pc = "match"
      /\ DispatchReturned => job.pc = "calling"
      /\ job' = [job EXCEPT !.pc = pc]
  <2>1. CASE DispatchMatch
    BY <2>1 DEF DispatchMatch, DispatchReturned, Call, tokenVars, Standing, Course,
       SavedTypeOK, AtMember
  <2>2. CASE DispatchReturned
    BY <2>2 DEF DispatchReturned, DispatchMatch, Resume, tokenVars, Standing, Course,
       OnCall, SavedTypeOK, AtMember
  <2> QED
    BY <2>1, <2>2
<1> HIDE DEF pc
<1>2. /\ pc \in {"calling", "mark"} /\ job.group # {}
  BY <1>1, LeftShape DEF pc
<1>3. /\ GroupStep /\ job'.pc = pc /\ job'.group = job.group
      /\ job'.left = job.left /\ job'.seen = job.seen
  BY <1>1, <1>2 DEF GroupStep, LoopStep, JobFields
<1>4. Member' = Member /\ IdemKey' = IdemKey /\ (Told <=> Told')
  BY <1>3 DEF Member, IdemKey, Candidate, Told, GroupStep, LoopStep
<1>5. LeftOver'
  BY <1>1, <1>2, <1>3, <1>4 DEF LeftOver, GroupStep, AtMember, Standing, Course
<1>6. frame \in [Jobs -> Frames \union {NoFrame}]
  BY DEF Standing, Dispatch, Ledger, TypeOK
<1>7. CASE DispatchMatch
  <2>1. /\ frame'[saved].uid = Member.uid /\ frame'[saved].key = IdemKey /\ ~Told
    BY <1>6, <1>7, OneCaller DEF DispatchMatch, Call
  <2>2. OnCall'
    BY <1>1, <1>3, <1>4, <1>7, <2>1 DEF OnCall, pc
  <2> QED
    BY <1>1, <1>3, <1>5, <2>2, GroupKeeps DEF Course, GroupStep, LoopStep
<1>8. CASE DispatchReturned
  <2>1. ~InCall(saved)' /\ job'.pc = "mark"
    BY <1>1, <1>3, <1>6, <1>8, OneCaller DEF DispatchReturned, Resume,
       InCall, NoFrame, pc
  <2>2. OnCall'
    BY <1>1, <1>3, <2>1 DEF OnCall
  <2> QED
    BY <1>1, <1>3, <1>5, <2>2, GroupKeeps DEF Course, GroupStep, LoopStep
<1> QED
  BY <1>7, <1>8

(* What happens while the job waits: for dispatch, or for nothing.         *)
LEMMA StandingDispatch ==
  ASSUME Standing, Progress(saved) \/ Failure(saved),
         UNCHANGED <<filterVars, notified, job>>
  PROVE  SavedTypeOK' /\ Course'
<1>1. TypeOK /\ saved \in Jobs /\ [DispatchNext]_dispatchVars
  BY OneCaller DEF Standing, Dispatch, Ledger, DispatchNext
<1>2. /\ InCall(saved)
      /\ frame'[saved].uid = frame[saved].uid /\ frame'[saved].key = frame[saved].key
  BY <1>1, SameCall
<1>3. SavedTypeOK'
  BY <1>1, IssuedGrows DEF SavedTypeOK, Standing, filterVars
<1>4. job.pc = "calling"
  BY <1>2 DEF Standing, Course, OnCall
<1>5. Member' = Member /\ IdemKey' = IdemKey /\ (Told <=> Told')
  BY DEF Member, IdemKey, Candidate, Told
<1>6. OnCall'
  BY <1>2, <1>4, <1>5 DEF Standing, Course, OnCall
<1>7. OwnersKept' /\ Gathered' /\ Grouped' /\ LeftOver'
  BY <1>5 DEF Standing, Course, OwnersKept, Gathered, Grouped, LeftOver, AtMember,
     filterVars
<1> QED
  BY <1>3, <1>6, <1>7 DEF Standing, Course

LEMMA StandingSurroundings ==
  ASSUME Standing, Surroundings \/ UNCHANGED savedVars
  PROVE  SavedTypeOK' /\ Course'
<1>1. /\ UNCHANGED <<job, frame>> /\ notified' \subseteq notified
      /\ [DispatchNext]_dispatchVars
  BY DEF Surroundings, Environment, Forget, Register, Uninstall, NextDay, Publish,
     EditFilter, DropNotified, filterVars, savedVars, dispatchVars, DispatchNext
<1>2. \A u \in Users : \A t \in 1 .. issued[u] : t \in 1 .. issued'[u]
  BY <1>1, IssuedGrows DEF Standing, Dispatch, Ledger
<1>3. /\ filters' \in [Users -> [FilterIds -> Saveable \union {None}]]
      /\ published' \subseteq Tenders /\ day' \in Days /\ OwnersKept'
  <2> USE DEF Standing, SavedTypeOK, Course, OwnersKept
  <2>1. CASE UNCHANGED filterVars
    BY <2>1 DEF filterVars
  <2>2. CASE NextDay
    BY <2>2, SavedFilterAssumption DEF NextDay, Days
  <2>3. ASSUME NEW t \in Tenders, Publish(t)
        PROVE  UNCHANGED <<filters, day>> /\ published' \subseteq Tenders
    BY <2>3 DEF Publish
  <2>4. ASSUME NEW u \in Users, NEW f \in FilterIds, EditFilter(u, f)
        PROVE  /\ UNCHANGED <<published, day>> /\ OwnersKept'
               /\ filters' \in [Users -> [FilterIds -> Saveable \union {None}]]
    <3>1. PICK body \in Saveable \union {None} :
            filters' = [filters EXCEPT ![u] = [filters[u] EXCEPT ![f] = body]]
      BY <2>4 DEF EditFilter
    <3>2. /\ u \in Owners[f]
          /\ [filters[u] EXCEPT ![f] = body] \in [FilterIds -> Saveable \union {None}]
      BY <2>4 DEF EditFilter
    <3>3. filters' \in [Users -> [FilterIds -> Saveable \union {None}]]
      BY <3>1, <3>2
    <3>4. ASSUME NEW v \in Users, NEW g \in FilterIds, filters'[v][g] # None
          PROVE  v \in Owners[g]
      BY <3>1, <3>2, <3>4
    <3> QED
      BY <2>4, <3>3, <3>4 DEF EditFilter
  <2> QED
    BY <2>1, <2>2, <2>3, <2>4
       DEF Surroundings, DropNotified, NextDay, Publish, savedVars, filterVars
<1>4. SavedTypeOK'
  BY <1>1, <1>2, <1>3 DEF SavedTypeOK, Standing
<1>5. Member' = Member /\ IdemKey' = IdemKey /\ (Told <=> Told')
  BY <1>1 DEF Member, IdemKey, Candidate, Told
<1>6. Gathered' /\ Grouped' /\ LeftOver' /\ OnCall'
  BY <1>1, <1>5 DEF Standing, Course, Gathered, Grouped, LeftOver, AtMember, OnCall,
     InCall
<1> QED
  BY <1>1, <1>3, <1>4, <1>6 DEF Standing, Course

LEMMA StandingStep ==
  ASSUME Standing, [SavedNext]_savedVars
  PROVE  Standing'
<1>1. Dispatch'
  BY StepLawful, DispatchKeeps, OneCaller DEF Standing
<1>2. frame \in [Jobs -> Frames \union {NoFrame}]
  BY DEF Standing, Dispatch, Ledger, TypeOK
<1>3. ASSUME DispatchRaised \/ GroupFails PROVE SavedTypeOK' /\ Course'
  <2>1. /\ LeaveGroup /\ UNCHANGED filterVars /\ issued' = issued
        /\ job.pc \in {"search", "seen", "calling", "mark"}
    BY <1>3 DEF DispatchRaised, GroupFails, dispatchVars, tokenVars, Resume
  <2>2. ~InCall(saved)'
    BY <1>2, <1>3, OneCaller DEF DispatchRaised, GroupFails, dispatchVars, Standing,
       Course, OnCall, InCall, Resume, NoFrame
  <2>3. notified' \subseteq Users \X FilterIds \X Tenders
    <3>1. job.pc = "mark" => Triple \in Users \X FilterIds \X Tenders
      BY MemberShape, LeftShape DEF Triple, Standing, Course, OnCall
    <3> QED
      BY <1>3, <3>1 DEF DispatchRaised, GroupFails, Standing, SavedTypeOK
  <2> QED
    BY <2>1, <2>2, <2>3, StandingLeave
<1>4. ASSUME Start \/ Finish \/ LoadFails \/ JobDies PROVE SavedTypeOK' /\ Course'
  <2>1. /\ job' = Idle \/ job' = [Idle EXCEPT !.pc = "users"]
        /\ UNCHANGED <<filterVars, notified>> /\ issued' = issued
    BY <1>4 DEF Start, Finish, LoadFails, JobDies, Crash, dispatchVars, tokenVars
  <2>2. ~InCall(saved)'
    <3>1. CASE InCall(saved) /\ Crash({saved})
      <4>1. frame'[saved] = [frame[saved] EXCEPT !.at = "over", !.end = "killed"]
        BY <3>1, OneCaller DEF Crash
      <4>2. frame[saved] \in Frames
        BY <3>1, OneCaller, FrameOfCall DEF Standing, Dispatch, Ledger
      <4> QED
        BY <4>1, <4>2 DEF InCall, Frames
    <3>2. CASE ~InCall(saved) /\ UNCHANGED dispatchVars
      BY <3>2 DEF InCall, dispatchVars
    <3>3. CASE Start \/ Finish \/ LoadFails
      BY <3>3 DEF Start, Finish, LoadFails, Standing, Course, OnCall, InCall, dispatchVars
    <3> QED
      BY <1>4, <3>1, <3>2, <3>3 DEF JobDies
  <2> QED
    BY <2>1, <2>2, IdleStands
<1>5. ASSUME PassOver \/ Mark PROVE SavedTypeOK' /\ Course'
  <2>1. /\ job.left # <<>> /\ UNCHANGED filterVars /\ issued' = issued
        /\ job' = [job EXCEPT !.pc = "match", !.left = Tail(job.left)]
        /\ notified' \in {notified, notified \union {Triple}}
        /\ ~InCall(saved)'
    <3>1. CASE PassOver
      <4>1. job.pc = "match" /\ DOMAIN job = JobFields /\ ~InCall(saved)
        BY <3>1 DEF PassOver, Standing, Course, OnCall
      <4>2. [job EXCEPT !.left = Tail(job.left)]
              = [job EXCEPT !.pc = "match", !.left = Tail(job.left)]
        BY <4>1 DEF JobFields
      <4> QED
        BY <3>1, <4>1, <4>2 DEF PassOver, dispatchVars, tokenVars, InCall
    <3>2. CASE Mark
      BY <3>2 DEF Mark, dispatchVars, tokenVars, Standing, Course, OnCall, InCall
    <3> QED
      BY <1>5, <3>1, <3>2
  <2> QED
    BY <2>1, StandingAdvance
<1>6. SavedTypeOK' /\ Course'
  BY <1>3, <1>4, <1>5, StandingLoad, StandingGather, StandingNextGroup, StandingSearch,
     StandingReadSeen, StandingNextMember, StandingCall, StandingDispatch,
     StandingSurroundings DEF SavedNext
<1> QED
  BY <1>1, <1>6 DEF Standing

LEMMA StandingInit == SavedInit => Standing
<1> SUFFICES ASSUME SavedInit PROVE Standing
  OBVIOUS
<1>1. Dispatch /\ ~InCall(saved)
  BY DispatchStart, OneCaller DEF SavedInit, DispatchInit, InCall, NoFrame
<1>2. /\ DOMAIN job = JobFields
      /\ job.pc = "idle" /\ job.tokens = <<>> /\ job.waiting = <<>>
      /\ job.found = <<>> /\ job.todo = {} /\ job.today = 0 /\ job.group = {}
      /\ job.page = <<>> /\ job.left = <<>>
  BY DEF SavedInit, Idle, JobFields
<1>3. DOMAIN <<>> = {} /\ Len(<<>>) = 0 /\ <<>> \in Seq({}) /\ <<>> \in Seq(Tenders)
      /\ <<>> \in Seq(Members) /\ 0 \in Days /\ 0 <= PageSize
  BY EmptySeq, SavedFilterAssumption DEF Days
<1>4. filters \in [Users -> [FilterIds -> Saveable \union {None}]] /\ OwnersKept
  <2>1. PICK g \in [Users -> [FilterIds -> Saveable]] :
          filters = [u \in Users |-> [f \in FilterIds |->
                       IF u \in Owners[f] THEN g[u][f] ELSE None]]
    BY DEF SavedInit
  <2> QED
    BY <2>1 DEF OwnersKept
<1>5. SavedTypeOK
  BY <1>2, <1>3, <1>4 DEF SavedInit, SavedTypeOK
<1>6. Gathered /\ Grouped /\ LeftOver /\ OnCall
  BY <1>1, <1>2, <1>3 DEF Gathered, Grouped, LeftOver, OnCall, AtMember
<1> QED
  BY <1>1, <1>2, <1>4, <1>5, <1>6 DEF Standing, Course

(* The variables of the job keep their types, at every await and over all  *)
(* failures of saved_filter_job.py's run.                                  *)
THEOREM SavedTyped == SavedSpec => []SavedTypeOK
<1>1. Standing => SavedTypeOK
  BY DEF Standing
<1> QED
  BY <1>1, StandingInit, StandingStep, PTL DEF SavedSpec

(* Whatever the job does, dispatch sees a lawful caller: so what is proved *)
(* of DispatchSpec holds under the saved-filter job.                       *)
THEOREM SavedLawful == SavedSpec => LawfulCaller
<1>1. SavedInit => DispatchInit
  BY DEF SavedInit
<1>2. Standing /\ [SavedNext]_savedVars
        => [UNCHANGED dispatchVars \/ DispatchNext]_dispatchVars
  BY StepLawful
<1> QED
  BY <1>1, <1>2, StandingInit, StandingStep, PTL DEF SavedSpec, LawfulCaller

(* Under its keys the saved-filter job tells each thing once, but for      *)
(* slips, and records only what it told, as IdempotentDelivery says.       *)
THEOREM SavedDelivers == SavedSpec => DeliverySpec /\ []Accounting
<1>1. DispatchSpec => DeliverySpec
  BY Implements
<1>2. DispatchSpec => []Accounting
  BY Accounted
<1>3. [UNCHANGED dispatchVars \/ DispatchNext]_dispatchVars
        => [DispatchNext]_dispatchVars
  OBVIOUS
<1>4. SavedSpec => DispatchSpec
  BY <1>3, SavedLawful, PTL DEF LawfulCaller, DispatchSpec
<1> QED
  BY <1>1, <1>2, <1>4

-------------------------------------------------------------------------------
(* What users are told of.                                                 *)

(* A document is written for the member and the tender at hand. *)
LEMMA TellsOwn ==
  ASSUME Standing, [SavedNext]_savedVars,
         NEW u \in Users, NEW f \in FilterIds, NEW t \in Tenders, Tells(u, f, t)
  PROVE  /\ job.left # <<>> /\ AtMember /\ ~Told
         /\ Member.uid = u /\ Member.id = f /\ Candidate = t
<1> DEFINE k == <<f, t>>
<1>1. k \in Keys
  BY SavedFilterAssumption DEF MatchKeys
<1>2. PICK j \in Jobs : WritesOwn(j)
  BY StepLawful, Writes DEF Tells
<1>3. j = saved /\ WritesOwn(saved) /\ InCall(saved) /\ inbox' # inbox
  BY <1>2, SavedFilterAssumption DEF Tells, WritesOwn
<1>4. /\ job.left # <<>> /\ AtMember /\ ~Told
      /\ frame[saved].uid = Member.uid /\ frame[saved].key = IdemKey
  BY <1>3 DEF Standing, Course, OnCall, AtMember
<1>5. /\ inbox \in [Keys -> Seq(Users)] /\ IdemKey \in Keys /\ Member.uid \in Users
      /\ inbox' = [inbox EXCEPT ![IdemKey] = Append(inbox[IdemKey], Member.uid)]
  BY <1>3, <1>4, KeyTyped, MemberShape, LeftShape
     DEF WritesOwn, AppendDoc, Standing, Dispatch, Ledger, TypeOK
<1>6. k = IdemKey
  BY <1>1, <1>5 DEF Tells
<1>7. inbox'[k] = Append(inbox[k], Member.uid)
  BY <1>1, <1>5, <1>6
<1>8. Last(inbox'[k]) = Member.uid
  BY <1>1, <1>5, <1>7, AppendProperties DEF Last
<1> QED
  BY <1>4, <1>6, <1>8 DEF Tells, IdemKey

(* Nobody is told of a tender that is marked for the filter, though the    *)
(* marks are read once for each member and the idempotency key may be gone *)
(* (saved_filter_job.py:80-91).                                            *)
THEOREM MarksHold == SavedSpec => NoneAfterMark
<1>1. ASSUME Standing, [SavedNext]_savedVars,
             NEW u \in Users, NEW f \in FilterIds, NEW t \in Tenders, Tells(u, f, t)
      PROVE  <<u, f, t>> \notin notified
  <2>1. /\ job.left # <<>> /\ AtMember /\ ~Told
        /\ Member.uid = u /\ Member.id = f /\ Candidate = t
    BY <1>1, TellsOwn
  <2>2. Candidate = job.left[1] /\ 1 \in 1 .. Len(job.left)
    BY <1>1, <2>1, LeftShape
  <2> QED
    BY <1>1, <2>1, <2>2 DEF Standing, Course, LeftOver, Told
<1>2. Standing /\ [SavedNext]_savedVars
        => [inbox' # inbox => \A u \in Users, f \in FilterIds, t \in Tenders :
              Tells(u, f, t) => <<u, f, t>> \notin notified]_savedVars
  BY <1>1
<1> QED
  BY <1>2, StandingInit, StandingStep, PTL DEF SavedSpec, NoneAfterMark

(* Each member of a group is told of what that member's own filter asks    *)
(* for, but for the tender dates, though the search was made with the      *)
(* first member's filter (saved_filter_job.py:64-79).                      *)
THEOREM OwnFilterFits == SavedSpec => FitsOwnFilter
<1>1. ASSUME Standing, [SavedNext]_savedVars,
             NEW u \in Users, NEW f \in FilterIds, NEW t \in Tenders, Tells(u, f, t)
      PROVE  /\ Member.uid = u /\ Member.id = f
             /\ MatchesIn(Fields \ {TenderDate},
                          NoticesOf(Member.body, job.today), Notice[t])
  <2>1. /\ job.left # <<>> /\ AtMember
        /\ Member.uid = u /\ Member.id = f /\ Candidate = t
    BY <1>1, TellsOwn
  <2>2. /\ Candidate = job.left[1] /\ Len(job.left) \in Nat \ {0}
        /\ Len(job.page) \in Nat /\ job.group # {}
    BY <1>1, <2>1, LeftShape
  <2> DEFINE n == Len(job.page) - Len(job.left) + 1
  <2>3. /\ n \in 1 .. Len(job.page) /\ 1 \in 1 .. Len(job.left)
        /\ job.left[1] = job.page[Len(job.page) - Len(job.left) + 1]
    <3>1. /\ Len(job.left) <= Len(job.page)
          /\ \A i \in 1 .. Len(job.left) :
               job.left[i] = job.page[Len(job.page) - Len(job.left) + i]
      BY <1>1 DEF Standing, Course, LeftOver
    <3>2. 1 \in 1 .. Len(job.left) /\ n \in 1 .. Len(job.page)
      <4>1. ASSUME NEW l \in Nat \ {0}, NEW m \in Nat, l <= m
            PROVE  1 \in 1 .. l /\ m - l + 1 \in 1 .. m
        BY <4>1
      <4> QED
        BY <2>2, <3>1, <4>1
    <3> QED
      BY <3>1, <3>2
  <2>4. Min(job.group) \in job.group
    BY <1>1, <2>2, MemberShape
  <2> HIDE DEF n
  <2>5. MatchesIn(Fields \ {TenderDate}, NoticesOf(Member.body, job.today),
                  Notice[job.page[n]])
    BY <1>1, <2>3, <2>4 DEF Standing, Course, Grouped, Member
  <2>6. job.page[n] = t
    BY <2>1, <2>2, <2>3 DEF n
  <2> QED
    BY <2>1, <2>5, <2>6
<1>2. Standing /\ [SavedNext]_savedVars
        => [inbox' # inbox => \A u \in Users, f \in FilterIds, t \in Tenders :
              Tells(u, f, t) =>
                /\ Member.uid = u /\ Member.id = f
                /\ MatchesIn(Fields \ {TenderDate},
                             NoticesOf(Member.body, job.today), Notice[t])]_savedVars
  BY <1>1
<1> QED
  BY <1>2, StandingInit, StandingStep, PTL DEF SavedSpec, FitsOwnFilter

-------------------------------------------------------------------------------
(* Whoever the run is through with was told. *)

LEMMA DoneStays ==
  ASSUME Standing, [DispatchNext]_dispatchVars, NEW u \in Users, NEW k \in Keys,
         Done(u, k)
  PROVE  Done(u, k)'
<1>1. TypeOK /\ Grown /\ failed \subseteq failed'
  BY HasGrows, FailedGrows DEF Standing, Dispatch, Ledger
<1>2. Recipients[k] # {} => Recipients'[k] # {}
  <2>1. Recipients[k] \subseteq Users
    BY <1>1 DEF Recipients, TypeOK
  <2> QED
    BY <1>1, <2>1 DEF Grown
<1> QED
  BY <1>1, <1>2 DEF Done, Grown

LEMMA ReturnDone ==
  ASSUME Standing, job.pc = "calling", frame[saved].end = "returned"
  PROVE  Done(Member.uid, IdemKey)
<1>1. /\ job.left # <<>> /\ frame[saved].uid = Member.uid /\ frame[saved].key = IdemKey
  BY DEF Standing, Course, OnCall
<1>2. Addressees[IdemKey] = Owners[IdemKey[1]] /\ IdemKey \in Keys
  BY <1>1, KeyTyped
<1>3. CASE Owners[IdemKey[1]] = {Member.uid}
  <2>1. \/ <<Member.uid, IdemKey>> \in failed
        \/ \E n \in 1 .. Len(inbox[IdemKey]) : inbox[IdemKey][n] = Member.uid
    BY <1>1, <1>2, <1>3, OneCaller DEF Standing, Dispatch, Telling, ReturnMeansServed
  <2> QED
    BY <1>2, <2>1 DEF Done, Recipients
<1>4. CASE Owners[IdemKey[1]] # {Member.uid}
  <2>1. <<Member.uid, IdemKey>> \in failed \/ Recipients[IdemKey] # {}
    BY <1>1, OneCaller DEF Standing, Dispatch, ReturnShown
  <2> QED
    BY <1>4, <2>1 DEF Done
<1> QED
  BY <1>3, <1>4

(* The facts stay, if what is settled by a step was done before it.        *)
LEMMA FactsMove ==
  ASSUME Standing, [DispatchNext]_dispatchVars,
         \A u \in Users, f \in FilterIds, t \in Tenders :
           <<u, f, t>> \in notified' => Done(u, <<f, t>>),
         AtMember' =>
           \E u \in Users, f \in FilterIds :
             /\ Member'.uid = u /\ Member'.id = f
             /\ \A t \in Tenders : t \in job'.seen => Done(u, <<f, t>>)
             /\ \A n \in 1 .. Len(job'.page) - Len(job'.left) :
                  job'.page[n] \in Tenders /\ Done(u, <<f, job'.page[n]>>),
         job'.pc = "mark" =>
           \E u \in Users, k \in Keys : Member'.uid = u /\ IdemKey' = k /\ Done(u, k)
  PROVE  Facts'
<1>1. ASSUME NEW u \in Users, NEW f \in FilterIds, NEW t \in Tenders,
             Done(u, <<f, t>>)
      PROVE  Done(u, <<f, t>>)'
  <2>1. PICK k \in Keys : k = <<f, t>>
    BY SavedFilterAssumption DEF MatchKeys
  <2>2. Done(u, k)'
    BY <1>1, <2>1, DoneStays
  <2> QED
    BY <2>1, <2>2 DEF Done
<1>2. ASSUME AtMember'
      PROVE  /\ \A t \in Tenders :
                  t \in job'.seen => Done(Member.uid, <<Member.id, t>>)'
             /\ \A n \in 1 .. Len(job'.page) - Len(job'.left) :
                  Done(Member.uid, <<Member.id, job.page[n]>>)'
  <2>1. PICK u \in Users, f \in FilterIds :
             /\ Member'.uid = u /\ Member'.id = f
             /\ \A t \in Tenders : t \in job'.seen => Done(u, <<f, t>>)
             /\ \A n \in 1 .. Len(job'.page) - Len(job'.left) :
                  job'.page[n] \in Tenders /\ Done(u, <<f, job'.page[n]>>)
    BY <1>2
  <2>2. ASSUME NEW t \in Tenders, Done(u, <<f, t>>)
        PROVE  Done(Member.uid, <<Member.id, t>>)'
    BY <1>1, <2>1, <2>2 DEF Done
  <2>3. ASSUME NEW n \in 1 .. Len(job'.page) - Len(job'.left)
        PROVE  Done(Member.uid, <<Member.id, job.page[n]>>)'
    <3>1. PICK t \in Tenders : t = job'.page[n] /\ Done(u, <<f, t>>)
      BY <2>1, <2>3
    <3>2. Done(u, <<f, t>>)'
      BY <1>1, <3>1
    <3> QED
      BY <2>1, <3>1, <3>2 DEF Done
  <2> QED
    BY <2>1, <2>2, <2>3
<1>3. ASSUME job'.pc = "mark" PROVE Done(Member.uid, IdemKey)'
  <2>1. PICK u \in Users, k \in Keys : Member'.uid = u /\ IdemKey' = k /\ Done(u, k)
    BY <1>3
  <2>2. Done(u, k)'
    BY <2>1, DoneStays
  <2> QED
    BY <2>1, <2>2 DEF Done
<1> QED
  BY <1>1, <1>2, <1>3 DEF Facts

LEMMA FactsStep ==
  ASSUME Standing, Facts, [SavedNext]_savedVars
  PROVE  Facts'
<1> DEFINE
      MarksSettled ==
        \A u \in Users, f \in FilterIds, t \in Tenders :
          <<u, f, t>> \in notified' => Done(u, <<f, t>>)
      MemberSettled ==
        AtMember' =>
          \E u \in Users, f \in FilterIds :
            /\ Member'.uid = u /\ Member'.id = f
            /\ \A t \in Tenders : t \in job'.seen => Done(u, <<f, t>>)
            /\ \A n \in 1 .. Len(job'.page) - Len(job'.left) :
                 job'.page[n] \in Tenders /\ Done(u, <<f, job'.page[n]>>)
      TenderSettled ==
        job'.pc = "mark" =>
          \E u \in Users, k \in Keys : Member'.uid = u /\ IdemKey' = k /\ Done(u, k)
      Kept == MarksSettled /\ MemberSettled /\ TenderSettled
<1>0. /\ DOMAIN job = JobFields /\ job.page \in Seq(Tenders) /\ job.left \in Seq(Tenders)
      /\ Len(job.page) \in Nat /\ Len(job.left) \in Nat
      /\ \A n \in 1 .. Len(job.page) : job.page[n] \in Tenders
  <2>1. /\ DOMAIN job = JobFields
        /\ job.page \in Seq(Tenders) /\ job.left \in Seq(Tenders)
    BY DEF Standing, Course, SavedTypeOK, LeftOver
  <2> QED
    BY <2>1, LenProperties, ElementOfSeq
<1>1. AtMember => /\ Member.uid \in Users /\ Member.id \in FilterIds
                  /\ Min(job.group) \in DOMAIN job.found
  BY MemberShape DEF AtMember, Standing, SavedTypeOK
<1>2. AtMember =>
        /\ \A t \in Tenders : t \in job.seen => Done(Member.uid, <<Member.id, t>>)
        /\ \A n \in 1 .. Len(job.page) - Len(job.left) :
             job.page[n] \in Tenders /\ Done(Member.uid, <<Member.id, job.page[n]>>)
  <2>1. \A n \in 1 .. Len(job.page) - Len(job.left) : n \in 1 .. Len(job.page)
    BY <1>0
  <2> QED
    BY <1>0, <2>1 DEF Facts
<1>3. job.pc = "mark" =>
        Member.uid \in Users /\ IdemKey \in Keys /\ Done(Member.uid, IdemKey)
  <2>1. job.pc = "mark" => job.left # <<>> /\ AtMember
    BY DEF Standing, Course, OnCall, AtMember
  <2> QED
    BY <1>1, <2>1, KeyTyped DEF Facts
<1>4. ASSUME notified' \subseteq notified PROVE MarksSettled
  BY <1>4 DEF Facts
<1>5. ASSUME job.pc = "mark", notified' = notified \union {Triple} PROVE MarksSettled
  BY <1>5, <1>3 DEF Facts, Triple, IdemKey
<1>6. ASSUME UNCHANGED job, notified' \subseteq notified PROVE Kept
  <2>1. Member' = Member /\ IdemKey' = IdemKey
    BY <1>6 DEF Member, IdemKey, Candidate
  <2>2. MemberSettled
    BY <1>1, <1>2, <1>6, <2>1 DEF AtMember
  <2>3. TenderSettled
    BY <1>3, <1>6, <2>1
  <2> QED
    BY <1>4, <1>6, <2>2, <2>3
<1>7. ASSUME job'.pc \notin {"match", "calling", "mark"}, MarksSettled PROVE Kept
  BY <1>7 DEF AtMember
<1>8. ASSUME ReadSeen PROVE Kept
  <2>1. /\ job'.pc = "match" /\ job'.left = job.page /\ job'.seen = Seen
        /\ job'.page = job.page /\ job'.group = job.group /\ job'.found = job.found
        /\ notified' = notified /\ job.group # {}
    BY <1>0, <1>8 DEF ReadSeen, JobFields, Standing, SavedTypeOK
  <2>2. Member' = Member /\ Member.uid \in Users /\ Member.id \in FilterIds
    BY <2>1, MemberShape DEF Member
  <2>3. \A t \in Seen : Done(Member.uid, <<Member.id, t>>)
    BY <2>2 DEF Seen, Facts
  <2>4. Len(job'.page) - Len(job'.left) = 0
    BY <1>0, <2>1
  <2>5. MemberSettled
    BY <2>1, <2>2, <2>3, <2>4
  <2> QED
    BY <1>4, <2>1, <2>5
<1>9. ASSUME job.left # <<>>, job' = [job EXCEPT !.pc = "match", !.left = Tail(job.left)],
             Done(Member.uid, IdemKey), MarksSettled
      PROVE  Kept
  <2>1. /\ job'.pc = "match" /\ job'.left = Tail(job.left) /\ job'.seen = job.seen
        /\ job'.page = job.page /\ job'.group = job.group /\ job'.found = job.found
    BY <1>0, <1>9 DEF JobFields
  <2>2. /\ Member' = Member /\ AtMember /\ Candidate = job.left[1]
        /\ Len(job.left) \in Nat \ {0} /\ Len(Tail(job.left)) = Len(job.left) - 1
    BY <1>9, <2>1, LeftShape DEF Member
  <2> DEFINE l == Len(job.left)  p == Len(job.page)
  <2>3. /\ l \in Nat \ {0} /\ p \in Nat /\ l <= p
        /\ Len(job'.page) = p /\ Len(job'.left) = l - 1
        /\ \A n \in 1 .. l : job.left[n] = job.page[p - l + n]
        /\ \A n \in 1 .. p - l : Done(Member.uid, <<Member.id, job.page[n]>>)
        /\ \A n \in 1 .. p : job.page[n] \in Tenders
    BY <1>0, <1>2, <2>1, <2>2 DEF Standing, Course, LeftOver
  <2> HIDE DEF l, p
  <2>4. ASSUME NEW n \in 1 .. p - (l - 1)
        PROVE  job.page[n] \in Tenders /\ Done(Member.uid, <<Member.id, job.page[n]>>)
    <3>1. /\ n \in 1 .. p /\ 1 \in 1 .. l
          /\ n \in 1 .. p - l \/ n = p - l + 1
      BY <2>3
    <3>2. CASE n \in 1 .. p - l
      BY <2>3, <3>1, <3>2
    <3>3. CASE n = p - l + 1
      <4>1. job.page[n] = Candidate
        BY <2>2, <2>3, <3>1, <3>3
      <4> QED
        BY <1>9, <2>3, <3>1, <4>1 DEF IdemKey
    <3> QED
      BY <3>1, <3>2, <3>3
  <2>5. MemberSettled
    <3>1. \A t \in Tenders : t \in job'.seen => Done(Member.uid, <<Member.id, t>>)
      BY <1>2, <2>1, <2>2
    <3>2. \A n \in 1 .. Len(job'.page) - Len(job'.left) :
            job'.page[n] \in Tenders /\ Done(Member.uid, <<Member.id, job'.page[n]>>)
      BY <2>1, <2>3, <2>4
    <3> QED
      BY <1>1, <2>2, <3>1, <3>2
  <2> QED
    BY <1>9, <2>1, <2>5
<1>10. ASSUME PassOver PROVE Kept
  <2>1. /\ job.pc = "match" /\ job.left # <<>> /\ Candidate \in job.seen
        /\ notified' = notified
    BY <1>10 DEF PassOver, Told
  <2>2. [job EXCEPT !.left = Tail(job.left)]
          = [job EXCEPT !.pc = "match", !.left = Tail(job.left)]
    BY <1>0, <2>1 DEF JobFields
  <2>3. Candidate \in Tenders /\ AtMember
    BY <2>1, LeftShape
  <2>4. Done(Member.uid, IdemKey)
    BY <1>2, <2>1, <2>3 DEF IdemKey
  <2> QED
    BY <1>4, <1>9, <1>10, <2>1, <2>2, <2>4 DEF PassOver
<1>11. ASSUME Mark PROVE Kept
  <2>1. /\ job.pc = "mark" /\ job.left # <<>>
        /\ job' = [job EXCEPT !.pc = "match", !.left = Tail(job.left)]
        /\ notified' = notified \union {Triple}
    BY <1>11 DEF Mark, Standing, Course, OnCall
  <2> QED
    BY <1>3, <1>5, <1>9, <2>1
<1>12. ASSUME NEW pc \in {"calling", "mark"}, AtMember, job' = [job EXCEPT !.pc = pc],
              notified' = notified,
              pc = "mark" => IdemKey \in Keys /\ Done(Member.uid, IdemKey)
       PROVE  Kept
  <2>1. /\ job'.pc = pc /\ job'.left = job.left /\ job'.seen = job.seen
        /\ job'.page = job.page /\ job'.group = job.group /\ job'.found = job.found
    BY <1>0, <1>12 DEF JobFields
  <2>2. Member' = Member /\ IdemKey' = IdemKey
    BY <2>1 DEF Member, IdemKey, Candidate
  <2>3. MemberSettled
    BY <1>1, <1>2, <1>12, <2>1, <2>2
  <2>4. TenderSettled
    BY <1>1, <1>12, <2>1, <2>2
  <2> QED
    BY <1>4, <1>12, <2>3, <2>4
<1>13. ASSUME DispatchMatch PROVE Kept
  <2>1. job.pc = "match" /\ job' = [job EXCEPT !.pc = "calling"] /\ notified' = notified
    BY <1>13 DEF DispatchMatch
  <2> QED
    BY <1>12, <2>1 DEF AtMember
<1>14. ASSUME DispatchReturned PROVE Kept
  <2>1. /\ job.pc = "calling" /\ frame[saved].end = "returned"
        /\ job' = [job EXCEPT !.pc = "mark"] /\ notified' = notified
    BY <1>14 DEF DispatchReturned
  <2>2. IdemKey \in Keys /\ Done(Member.uid, IdemKey)
    BY <2>1, ReturnDone, KeyTyped DEF Standing, Course, OnCall
  <2> QED
    BY <1>12, <2>1, <2>2 DEF AtMember
<1>15. ASSUME \/ Start \/ LoadUsers \/ Gather \/ NextGroup \/ Search \/ NextMember
              \/ Finish \/ LoadFails \/ DispatchRaised \/ JobDies
       PROVE  Kept
  <2>1. notified' = notified
    BY <1>15 DEF Start, LoadUsers, Gather, NextGroup, Search, NextMember, Finish,
       LoadFails, DispatchRaised, JobDies
  <2>2. job'.pc \notin {"match", "calling", "mark"}
    <3>1. CASE Start \/ Finish \/ LoadFails \/ JobDies
      BY <3>1 DEF Start, Finish, LoadFails, JobDies, Idle
    <3>2. CASE LoadUsers \/ Gather
      BY <1>0, <3>2 DEF LoadUsers, Gather, AfterGather, JobFields
    <3>3. CASE NextGroup \/ Search \/ NextMember \/ DispatchRaised
      BY <1>0, <3>3 DEF NextGroup, Search, NextMember, DispatchRaised, LeaveGroup,
         JobFields
    <3> QED
      BY <1>15, <3>1, <3>2, <3>3
  <2> QED
    BY <1>4, <1>7, <2>1, <2>2
<1>16. ASSUME GroupFails PROVE Kept
  <2>1. job'.pc = "loop"
    BY <1>0, <1>16 DEF GroupFails, LeaveGroup, JobFields
  <2>2. MarksSettled
    BY <1>4, <1>5, <1>16 DEF GroupFails
  <2> QED
    BY <1>7, <2>1, <2>2
<1>17. ASSUME \/ Surroundings \/ UNCHANGED savedVars
              \/ (Progress(saved) \/ Failure(saved))
                   /\ UNCHANGED <<filterVars, notified, job>>
       PROVE  Kept
  <2>1. UNCHANGED job /\ notified' \subseteq notified
    BY <1>17 DEF Surroundings, NextDay, Publish, EditFilter, DropNotified, savedVars
  <2> QED
    BY <1>6, <2>1
<1> HIDE DEF Kept
<1>18. Kept
  BY <1>8, <1>10, <1>11, <1>13, <1>14, <1>15, <1>16, <1>17 DEF SavedNext
<1> QED
  BY <1>18, FactsMove, StepLawful DEF Kept

LEMMA FactsInit == SavedInit => Facts
BY DEF SavedInit, Idle, Facts, AtMember

(* What a run reaches it serves: of every match that is marked, or that    *)
(* the loop over the page has left behind it, the user was told, or the    *)
(* dispatch failed; under an id that several users have for a filter it    *)
(* may have been another of them (saved_filter_job.py:75-91).              *)
THEOREM MatchesServed == SavedSpec => []MatchServed
<1>1. ASSUME Standing, NEW u \in Users, NEW f \in FilterIds, NEW t \in Tenders,
             Done(u, <<f, t>>)
      PROVE  \/ ToldOf(u, f, t)
             \/ <<u, <<f, t>>>> \in failed
             \/ Owners[f] # {u} /\ inbox[<<f, t>>] # <<>>
  <2>1. PICK k \in Keys : k = <<f, t>>
    BY SavedFilterAssumption DEF MatchKeys
  <2>2. inbox[k] \in Seq(Users)
    BY <1>1 DEF Standing, Dispatch, Ledger, TypeOK
  <2>3. Recipients[k] # {} => inbox[k] # <<>>
    BY EmptySeq DEF Recipients
  <2>4. DOMAIN inbox[k] = 1 .. Len(inbox[k])
    BY <2>2
  <2>5. u \in Recipients[k] => ToldOf(u, f, t)
    BY <2>1, <2>4 DEF Recipients, ToldOf
  <2>6. k[1] = f
    BY <2>1
  <2> QED
    BY <1>1, <2>1, <2>3, <2>5, <2>6 DEF Done
<1>2. Standing /\ Facts => MatchServed
  <2> SUFFICES ASSUME Standing, Facts, NEW n \in Handled \union notified
               PROVE  \/ ToldOf(n[1], n[2], n[3])
                      \/ <<n[1], <<n[2], n[3]>>>> \in failed
                      \/ Owners[n[2]] # {n[1]} /\ inbox[<<n[2], n[3]>>] # <<>>
    BY DEF MatchServed
  <2>1. CASE n \in notified
    <3>1. PICK u \in Users, f \in FilterIds, t \in Tenders : n = <<u, f, t>>
      BY <2>1 DEF Standing, SavedTypeOK
    <3>2. Done(u, <<f, t>>)
      BY <2>1, <3>1 DEF Facts
    <3>3. n[1] = u /\ n[2] = f /\ n[3] = t
      BY <3>1
    <3> QED
      BY <1>1, <3>2, <3>3
  <2>2. CASE n \in Handled
    <3>1. /\ job.pc = "match" /\ AtMember /\ job.group # {}
          /\ job.page \in Seq(Tenders) /\ job.left \in Seq(Tenders)
      <4>1. job.pc = "match"
        BY <2>2 DEF Handled
      <4> QED
        BY <4>1 DEF AtMember, Standing, Course, LeftOver, SavedTypeOK
    <3>2. PICK i \in 1 .. Len(job.page) - Len(job.left) :
            n = <<Member.uid, Member.id, job.page[i]>>
      BY <2>2, <3>1 DEF Handled
    <3>3. i \in 1 .. Len(job.page)
      BY <3>1, LenProperties
    <3>4. job.page[i] \in Tenders
      BY <3>1, <3>3, ElementOfSeq
    <3>5. Member.uid \in Users /\ Member.id \in FilterIds
      BY <3>1, MemberShape
    <3>6. Done(Member.uid, <<Member.id, job.page[i]>>)
      BY <3>1 DEF Facts
    <3>7. n[1] = Member.uid /\ n[2] = Member.id /\ n[3] = job.page[i]
      BY <3>2
    <3> QED
      BY <1>1, <3>4, <3>5, <3>6, <3>7
  <2> QED
    BY <2>1, <2>2
<1> QED
  BY <1>2, StandingInit, StandingStep, FactsInit, FactsStep, PTL DEF SavedSpec
===============================================================================
