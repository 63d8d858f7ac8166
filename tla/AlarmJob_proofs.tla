---------------------------- MODULE AlarmJob_proofs ----------------------------
(***************************************************************************)
(* Proofs about AlarmJob, for any users, tenders and answers of EKAP: the  *)
(* job is a lawful caller of dispatch, whoever it has dealt with was told, *)
(* and nobody is told of a completion that is marked as told.              *)
(***************************************************************************)
EXTENDS AlarmJob, Dispatcher_proofs

(* Nobody but the job builds its keys. *)
LEMMA OneCaller == Sole = Keys /\ alarm \in Jobs
BY AlarmAssumption DEF Sole

(* A key names its kind and its tender, that of a completion also the user *)
(* and no day.                                                             *)
LEMMA KeyTyped ==
  ASSUME NEW kind \in Kinds, NEW t \in Tenders, NEW u \in Users, NEW d \in Days
  PROVE  /\ KeyOf(kind, t, u, d) \in Keys
         /\ alarm \in Callers[KeyOf(kind, t, u, d)]
         /\ u \in Addressees[KeyOf(kind, t, u, d)]
         /\ KeyOf(kind, t, u, d)[1] = kind
<1>1. KeyOf(kind, t, u, d) \in Keys
  BY AlarmAssumption DEF AlarmKeys
<1> QED
  BY <1>1, AlarmAssumption DEF KeyOf, KeyUsers

CompletedKey(u, t) == KeyOf("completed", t, u, 1)

LEMMA CompletedKeys ==
  ASSUME NEW t \in Tenders, NEW u \in Users, NEW d \in Days
  PROVE  /\ KeyOf("completed", t, u, d) = CompletedKey(u, t)
         /\ CompletedKey(u, t) \in Keys
         /\ Addressees[CompletedKey(u, t)] = {u}
         /\ \A kind \in Kinds : \A s, v, e :
              KeyOf(kind, s, v, e) = CompletedKey(u, t)
                => kind = "completed" /\ s = t /\ v = u
<1>1. "completed" \in Kinds /\ 1 \in Days
  BY AlarmAssumption DEF Kinds, Days
<1>2. CompletedKey(u, t) \in Keys
  BY <1>1, KeyTyped DEF CompletedKey
<1> QED
  BY <1>2, AlarmAssumption DEF KeyOf, KeyUsers, CompletedKey

(* What a subscriber is due comes in an order with the completion last.    *)
CompletedLast(duties) ==
  \A n \in 1 .. Len(duties) : duties[n] = "completed" => n = Len(duties)

LEMMA OneDuty ==
  ASSUME NEW u, NEW kind \in Kinds
  PROVE  /\ IfDue(u, kind) \in Seq(Kinds) /\ Len(IfDue(u, kind)) \in 0 .. 1
         /\ \A n \in 1 .. Len(IfDue(u, kind)) : IfDue(u, kind)[n] = kind
<1>1. CASE Due(u, kind)
  BY <1>1 DEF IfDue
<1>2. CASE ~Due(u, kind)
  BY <1>2, EmptySeq DEF IfDue
<1> QED
  BY <1>1, <1>2

LEMMA DutiesShape ==
  ASSUME NEW u
  PROVE  DutiesOf(u) \in Seq(Kinds) /\ CompletedLast(DutiesOf(u))
<1> DEFINE one == IfDue(u, "reminderDay")
           two == IfDue(u, "documentChange")
           three == IfDue(u, "completed")
<1>1. /\ one \in Seq(Kinds) /\ two \in Seq(Kinds) /\ three \in Seq(Kinds)
      /\ \A n \in 1 .. Len(one) : one[n] # "completed"
      /\ \A n \in 1 .. Len(two) : two[n] # "completed"
      /\ Len(three) \in 0 .. 1
  BY OneDuty DEF Kinds
<1> HIDE DEF one, two, three
<1> DEFINE both == one \o two
<1>2. /\ both \in Seq(Kinds) /\ Len(both) \in Nat
      /\ \A n \in 1 .. Len(both) : both[n] # "completed"
  <2>1. /\ both \in Seq(Kinds) /\ Len(both) = Len(one) + Len(two)
        /\ Len(one) \in Nat /\ Len(two) \in Nat
        /\ \A n \in 1 .. Len(one) + Len(two) :
             both[n] = IF n <= Len(one) THEN one[n] ELSE two[n - Len(one)]
    BY <1>1, ConcatProperties, LenProperties
  <2> QED
    BY <1>1, <2>1
<1> HIDE DEF both
<1>3. /\ both \o three \in Seq(Kinds)
      /\ Len(both \o three) = Len(both) + Len(three)
      /\ \A n \in 1 .. Len(both \o three) :
           (both \o three)[n] = IF n <= Len(both) THEN both[n] ELSE three[n - Len(both)]
  BY <1>1, <1>2, ConcatProperties
<1>4. ASSUME NEW n \in 1 .. Len(both \o three), (both \o three)[n] = "completed"
      PROVE  n = Len(both \o three)
  <2> DEFINE l == Len(both)  m == Len(three)
  <2>1. ~(n <= l) /\ n \in Nat /\ l \in Nat
    BY <1>2, <1>3, <1>4
  <2>2. n <= l + m /\ m \in 0 .. 1 /\ Len(both \o three) = l + m
    BY <1>1, <1>3, <1>4
  <2> HIDE DEF l, m
  <2> QED
    BY <2>1, <2>2
<1>5. DutiesOf(u) = both \o three
  BY DEF DutiesOf, both, one, two, three
<1> QED
  BY <1>3, <1>4, <1>5 DEF CompletedLast

LEMMA DutiesLeft ==
  ASSUME NEW duties \in Seq(Kinds), duties # <<>>, CompletedLast(duties)
  PROVE  /\ Head(duties) \in Kinds /\ Head(duties) = duties[1]
         /\ Tail(duties) \in Seq(Kinds) /\ CompletedLast(Tail(duties))
         /\ Len(duties) \in Nat \ {0} /\ Len(Tail(duties)) = Len(duties) - 1
         /\ \A n \in 1 .. Len(Tail(duties)) : Tail(duties)[n] = duties[n + 1]
         /\ Head(duties) = "completed" <=> duties = <<"completed">>
<1>1. /\ Head(duties) = duties[1] /\ Tail(duties) \in Seq(Kinds)
      /\ Len(duties) \in Nat \ {0} /\ Len(Tail(duties)) = Len(duties) - 1
      /\ \A n \in 1 .. Len(Tail(duties)) : Tail(duties)[n] = duties[n + 1]
  BY HeadTailProperties, LenProperties, EmptySeq
<1>2. duties[1] \in Kinds
  BY <1>1, ElementOfSeq
<1>3. ASSUME NEW n \in 1 .. Len(Tail(duties)), Tail(duties)[n] = "completed"
      PROVE  n = Len(Tail(duties))
  <2>1. n + 1 \in 1 .. Len(duties) /\ duties[n + 1] = "completed"
    BY <1>1, <1>3
  <2>2. n + 1 = Len(duties)
    BY <2>1 DEF CompletedLast
  <2> DEFINE l == Len(duties)  m == Len(Tail(duties))
  <2>3. m = l - 1 /\ l \in Nat /\ n + 1 = l
    BY <1>1, <2>2
  <2>5. n \in Nat
    BY <1>3
  <2> HIDE DEF l, m
  <2>4. n = m
    BY <2>3, <2>5
  <2> QED
    BY <2>4 DEF m
<1>4. ASSUME Head(duties) = "completed" PROVE duties = <<"completed">>
  <2>1. 1 \in 1 .. Len(duties) /\ duties[1] = "completed"
    BY <1>1, <1>4
  <2>3. Len(duties) = 1
    BY <2>1 DEF CompletedLast
  <2>2. <<"completed">> \in Seq(Kinds) /\ Len(<<"completed">>) = 1
    BY DEF Kinds
  <2> QED
    BY <2>1, <2>2, <2>3, SeqEqual
<1>5. duties = <<"completed">> => Head(duties) = "completed"
  OBVIOUS
<1>6. CompletedLast(Tail(duties))
  BY <1>3 DEF CompletedLast
<1> QED
  BY <1>1, <1>2, <1>4, <1>5, <1>6

-------------------------------------------------------------------------------
(* The course of a run.  What the program text makes obvious has to be     *)
(* said here: which variables are bound at which await, and that the call  *)
(* in progress is the one for the duty at hand.                            *)
JobFields == {"pc", "tokens", "read", "toRead", "today", "tenders", "tender",
              "prev", "detail", "events", "subs", "uid", "duties"}

Details == [date : Nat \union {None}, status : Nat \union {None},
            phrase : Phrases \union {None}, docs : Nat \union {None}]

InLoop == job.pc \in {"subs", "calling", "mark", "flag"}

(* The call in progress, or just over, is for the first duty; a completion *)
(* is dispatched only to a user who is not marked.                         *)
OnCall ==
  /\ job.duties # <<>>
  /\ frame[alarm].uid = job.uid
  /\ frame[alarm].key = KeyOf(Head(job.duties), job.tender, job.uid, job.today)
  /\ job.duties = <<"completed">> => <<job.uid, job.tender>> \notin marks

Course ==
  /\ DOMAIN job = JobFields
  /\ job.pc \in {"idle", "users"} => DOMAIN job.read = {}
  /\ ~InLoop => job.subs = {} /\ job.duties = <<>>
  /\ job.pc \in {"fetch", "save"} \/ job.subs # {} \/ job.duties # <<>>
       => job.tender \in Tenders
  /\ job.pc = "save" => job.detail \in Details
  /\ job.duties # <<>> => job.uid \in DOMAIN job.tokens
  /\ CompletedLast(job.duties)
  /\ job.pc \in {"mark", "flag"} => job.duties = <<"completed">>
  /\ job.pc = "calling" => OnCall
  /\ job.pc # "calling" => ~InCall(alarm)

Standing == Dispatch /\ AlarmTypeOK /\ Course

(* The call for a duty is lawful. *)
LEMMA CallLawful ==
  ASSUME Standing, NEW kind \in Kinds, job.duties # <<>>, CallFor(kind)
  PROVE  DispatchNext
<1>1. /\ job.uid \in DOMAIN job.tokens /\ job.uid \in Users
      /\ job.tender \in Tenders /\ job.today \in Days
      /\ job.tokens[job.uid] \in 1 .. issued[job.uid]
  BY DEF Standing, Course, AlarmTypeOK
<1> DEFINE k == KeyOf(kind, job.tender, job.uid, job.today)
<1>2. k \in Keys /\ alarm \in Callers[k] /\ job.uid \in Addressees[k]
  BY <1>1, KeyTyped
<1>3. Call(alarm, job.uid, job.tokens[job.uid], k)
  BY DEF CallFor
<1> HIDE DEF k
<1> QED
  BY <1>1, <1>2, <1>3 DEF DispatchNext

LEMMA StepLawful ==
  ASSUME Standing, [AlarmNext]_alarmVars
  PROVE  [DispatchNext]_dispatchVars
<1>1. ASSUME DispatchDuty \/ DispatchCompleted PROVE DispatchNext
  <2>1. job.duties # <<>> /\ job.duties \in Seq(Kinds) /\ CompletedLast(job.duties)
    BY <1>1 DEF DispatchDuty, DispatchCompleted, Standing, AlarmTypeOK, Course
  <2>2. Head(job.duties) \in Kinds /\ "completed" \in Kinds
    BY <2>1, DutiesLeft DEF Kinds
  <2> QED
    BY <1>1, <2>1, <2>2, CallLawful DEF DispatchDuty, DispatchCompleted
<1>2. ASSUME \/ Start \/ LoadUsers \/ FetchDetail \/ SaveState \/ SkipCompleted
             \/ MarkCompleted \/ FlagAlarm \/ Finish \/ LoadFails \/ TenderFails
             \/ \E u \in Users : GatherAlarms(u) \/ NextSub(u)
             \/ \E t \in Tenders : NextTender(t)
      PROVE  UNCHANGED dispatchVars
  BY <1>2 DEF Start, LoadUsers, FetchDetail, SaveState, SkipCompleted,
     MarkCompleted, FlagAlarm, Finish, LoadFails, TenderFails, GatherAlarms,
     NextSub, NextTender, StoreSnapshot, StoreMark
<1>3. ASSUME DispatchReturned \/ DispatchRaised PROVE DispatchNext
  BY <1>3, OneCaller DEF DispatchReturned, DispatchRaised, DispatchNext
<1>4. ASSUME JobDies PROVE [DispatchNext]_dispatchVars
  <2>1. {alarm} \in SUBSET Jobs
    BY OneCaller
  <2> QED
    BY <1>4, <2>1 DEF JobDies, DispatchNext
<1>5. ASSUME Progress(alarm) \/ Failure(alarm) PROVE DispatchNext
  BY <1>5, OneCaller DEF DispatchNext
<1>6. ASSUME Surroundings PROVE [DispatchNext]_dispatchVars
  BY <1>6 DEF Surroundings, NextDay, DropState, EditAlarm, DropMark, DispatchNext
<1>7. CASE UNCHANGED alarmVars
  BY <1>7 DEF alarmVars
<1> QED
  BY <1>1, <1>2, <1>3, <1>4, <1>5, <1>6, <1>7 DEF AlarmNext, RunStep

LEMMA IdleStands ==
  ASSUME Standing, job' = Idle, ~InCall(alarm)', UNCHANGED <<stores>>,
         owed' \subseteq owed
  PROVE  AlarmTypeOK' /\ Course'
<1>1. /\ DOMAIN Idle = JobFields
      /\ Idle.pc = "idle" /\ Idle.tokens = <<>> /\ Idle.read = <<>>
      /\ Idle.toRead = {} /\ Idle.today = 1 /\ Idle.tenders = {}
      /\ Idle.subs = {} /\ Idle.events = {} /\ Idle.duties = <<>>
  BY DEF Idle, JobFields
<1>2. DOMAIN <<>> = {} /\ <<>> \in Seq(Kinds) /\ Len(<<>>) = 0 /\ 1 \in Days
  BY EmptySeq, AlarmAssumption DEF Days
<1>3. AlarmTypeOK'
  BY <1>1, <1>2 DEF AlarmTypeOK, Standing, stores
<1>4. Course'
  BY <1>1, <1>2 DEF Course, Standing, InLoop, CompletedLast
<1> QED
  BY <1>3, <1>4

LEMMA StandingStart ==
  ASSUME Standing, Start
  PROVE  AlarmTypeOK' /\ Course'
<1> USE DEF Start, Idle, stores, dispatchVars
<1>1. /\ DOMAIN job' = JobFields
      /\ job'.pc = "users" /\ job'.tokens = <<>> /\ job'.read = <<>>
      /\ job'.toRead = {} /\ job'.today = 1 /\ job'.tenders = {}
      /\ job'.subs = {} /\ job'.events = {} /\ job'.duties = <<>>
  BY DEF JobFields
<1>2. DOMAIN <<>> = {} /\ <<>> \in Seq(Kinds) /\ Len(<<>>) = 0 /\ 1 \in Days
  BY EmptySeq, AlarmAssumption DEF Days
<1>3. AlarmTypeOK'
  BY <1>1, <1>2 DEF AlarmTypeOK, Standing
<1>4. Course'
  BY <1>1, <1>2 DEF Course, Standing, InLoop, CompletedLast, InCall
<1> QED
  BY <1>3, <1>4

LEMMA StandingLoad ==
  ASSUME Standing, LoadUsers
  PROVE  AlarmTypeOK' /\ Course'
<1>1. PICK eligible \in SUBSET {u \in Users : HasToken(u)} :
        job' = [job EXCEPT !.pc = IF eligible = {} THEN "subs" ELSE "gather",
                           !.tokens = [u \in eligible |-> stored[u]],
                           !.toRead = eligible, !.today = day]
  BY DEF LoadUsers
<1>2. /\ job.pc = "users" /\ DOMAIN job = JobFields
      /\ UNCHANGED <<alarms, tstate, marks, day, owed, frame, issued>>
  BY DEF LoadUsers, stores, dispatchVars, tokenVars, Standing, Course
<1>3. /\ DOMAIN job' = JobFields
      /\ job'.pc \in {"subs", "gather"} /\ job'.tokens = [u \in eligible |-> stored[u]]
      /\ job'.toRead = eligible /\ job'.today = day
      /\ job'.read = job.read /\ job'.tenders = job.tenders
      /\ job'.subs = job.subs /\ job'.events = job.events
      /\ job'.duties = job.duties
  BY <1>1, <1>2 DEF JobFields
<1>4. \A u \in eligible : u \in Users /\ stored[u] \in 1 .. issued[u]
  BY StoredToken DEF HasToken, Standing, Dispatch
<1>5. /\ AlarmTypeOK /\ DOMAIN job.read = {} /\ job.subs = {} /\ job.duties = <<>>
      /\ ~InCall(alarm) /\ CompletedLast(job.duties)
  BY <1>2 DEF Standing, Course, InLoop
<1>6. AlarmTypeOK'
  BY <1>2, <1>3, <1>4, <1>5 DEF AlarmTypeOK
<1>7. Course'
  BY <1>2, <1>3, <1>5 DEF Course, InLoop, InCall
<1> QED
  BY <1>6, <1>7

LEMMA StandingGather ==
  ASSUME Standing, NEW u \in Users, GatherAlarms(u)
  PROVE  AlarmTypeOK' /\ Course'
<1>1. /\ job.pc = "gather" /\ DOMAIN job = JobFields
      /\ UNCHANGED <<alarms, tstate, marks, day, owed, frame, issued>>
  BY DEF GatherAlarms, stores, dispatchVars, tokenVars, Standing, Course
<1>2. /\ DOMAIN job' = JobFields
      /\ job'.pc \in {"subs", "gather"} /\ job'.tokens = job.tokens
      /\ job'.toRead = job.toRead \ {u} /\ job'.today = day
      /\ job'.read = [v \in {u} \union DOMAIN job.read |->
                        IF v = u THEN alarms[u] ELSE job.read[v]]
      /\ job'.tenders \subseteq Tenders
      /\ job'.subs = job.subs /\ job'.events = job.events
      /\ job'.duties = job.duties
  BY <1>1 DEF GatherAlarms, JobFields
<1>3. /\ AlarmTypeOK /\ job.subs = {} /\ job.duties = <<>> /\ u \in job.toRead
      /\ ~InCall(alarm) /\ CompletedLast(job.duties)
  BY <1>1 DEF Standing, Course, InLoop, GatherAlarms
<1>4. AlarmTypeOK'
  BY <1>1, <1>2, <1>3 DEF AlarmTypeOK
<1>5. Course'
  BY <1>1, <1>2, <1>3 DEF Course, InLoop, InCall
<1> QED
  BY <1>4, <1>5

(* The steps of the loop leave what was gathered alone. *)
LoopStep ==
  /\ DOMAIN job' = JobFields
  /\ job'.tokens = job.tokens /\ job'.read = job.read
  /\ job'.toRead = job.toRead /\ job'.today = job.today

LEMMA StandingNextTender ==
  ASSUME Standing, NEW t \in Tenders, NextTender(t)
  PROVE  AlarmTypeOK' /\ Course'
<1>1. /\ job.pc = "subs" /\ job.subs = {} /\ job.duties = <<>>
      /\ DOMAIN job = JobFields /\ owed' = {}
      /\ UNCHANGED <<alarms, tstate, marks, day, frame, issued>>
  BY DEF NextTender, BetweenTenders, stores, dispatchVars, tokenVars, Standing, Course
<1>2. /\ LoopStep /\ job'.pc = "fetch"
      /\ job'.tenders = job.tenders \ {t} /\ job'.tender = t
      /\ job'.subs = job.subs /\ job'.events = job.events
      /\ job'.duties = job.duties
  BY <1>1 DEF NextTender, JobFields, LoopStep
<1>3. AlarmTypeOK'
  BY <1>1, <1>2 DEF AlarmTypeOK, Standing, LoopStep
<1>4. Course'
  BY <1>1, <1>2 DEF Course, Standing, InLoop, InCall, LoopStep
<1> QED
  BY <1>3, <1>4

LEMMA DetailTyped ==
  ASSUME NEW item \in Answers
  PROVE  FromApiResponse(item) \in Details
<1>1. item \in Items
  BY AlarmAssumption
<1>2. item.top \in Fields /\ item.ihaleBilgi \in Fields
  BY <1>1 DEF Items
<1> QED
  BY <1>2 DEF FromApiResponse, Or, Details, Fields

LEMMA StandingFetch ==
  ASSUME Standing, FetchDetail
  PROVE  AlarmTypeOK' /\ Course'
<1>1. PICK item \in Answers :
        LET detail == FromApiResponse(item) IN
          job' = [job EXCEPT !.pc = "save", !.detail = detail, !.prev = None,
                             !.events = DetectEvents(job.prev, detail)]
  BY DEF FetchDetail
<1>2. /\ job.pc = "fetch" /\ DOMAIN job = JobFields
      /\ UNCHANGED <<alarms, tstate, marks, day, owed, frame, issued>>
  BY DEF FetchDetail, stores, dispatchVars, tokenVars, Standing, Course
<1>3. /\ LoopStep /\ job'.pc = "save" /\ job'.detail = FromApiResponse(item)
      /\ job'.tenders = job.tenders /\ job'.tender = job.tender
      /\ job'.subs = job.subs /\ job'.duties = job.duties
      /\ job'.events = DetectEvents(job.prev, FromApiResponse(item))
  BY <1>1, <1>2 DEF JobFields, LoopStep
<1>4. job'.events \subseteq Kinds
  BY <1>3 DEF DetectEvents, Kinds
<1>5. AlarmTypeOK'
  BY <1>2, <1>3, <1>4 DEF AlarmTypeOK, Standing, LoopStep
<1>6. Course'
  BY <1>2, <1>3, DetailTyped DEF Course, Standing, InLoop, InCall, LoopStep
<1> QED
  BY <1>5, <1>6

(* What the two writes of the loop leave behind, answered or not.          *)
LEMMA SnapshotStored ==
  ASSUME Standing, StoreSnapshot
  PROVE  /\ tstate' \in [Tenders -> Snapshots \union {None}]
         /\ job.pc = "save" /\ UNCHANGED <<dispatchVars, alarms, marks, day>>
<1>1. job.pc = "save" /\ job.detail \in Details /\ job.tender \in Tenders
  BY DEF StoreSnapshot, Standing, Course
<1>2. Snapshot(job.detail) \in Snapshots
  BY <1>1 DEF Snapshot, Snapshots, Details
<1> QED
  BY <1>1, <1>2 DEF StoreSnapshot, AlarmTypeOK, Standing

LEMMA MarkStored ==
  ASSUME Standing, StoreMark
  PROVE  /\ marks' = marks \union {<<job.uid, job.tender>>}
         /\ job.uid \in Users /\ job.tender \in Tenders
         /\ job.pc = "mark" /\ UNCHANGED <<dispatchVars, alarms, tstate, day>>
<1>1. job.pc = "mark" /\ job.duties = <<"completed">>
  BY DEF StoreMark, Standing, Course
<1>2. job.uid \in Users /\ job.tender \in Tenders
  BY <1>1 DEF Standing, Course, AlarmTypeOK
<1> QED
  BY <1>1, <1>2 DEF StoreMark

LEMMA StandingSave ==
  ASSUME Standing, SaveState
  PROVE  AlarmTypeOK' /\ Course'
<1>1. /\ job.pc = "save" /\ DOMAIN job = JobFields /\ job.detail \in Details
      /\ job.tender \in Tenders /\ job.duties = <<>>
      /\ UNCHANGED <<alarms, marks, day, owed, frame, issued>>
  BY SnapshotStored DEF SaveState, dispatchVars, tokenVars, Standing, Course, InLoop
<1>2. /\ LoopStep /\ job'.pc = "subs"
      /\ job'.tenders = job.tenders /\ job'.tender = job.tender
      /\ job'.subs \subseteq DOMAIN job.read
      /\ job'.events = job.events /\ job'.duties = job.duties
  BY <1>1 DEF SaveState, JobFields, LoopStep
<1>3. AlarmTypeOK'
  BY <1>1, <1>2, SnapshotStored DEF SaveState, AlarmTypeOK, Standing, LoopStep
<1>4. Course'
  BY <1>1, <1>2 DEF Course, Standing, InLoop, InCall, LoopStep
<1> QED
  BY <1>3, <1>4

LEMMA StandingNextSub ==
  ASSUME Standing, NEW u \in Users, NextSub(u)
  PROVE  AlarmTypeOK' /\ Course'
<1>1. /\ job.pc = "subs" /\ u \in job.subs /\ job.duties = <<>>
      /\ DOMAIN job = JobFields /\ job.tender \in Tenders
      /\ u \in DOMAIN job.tokens /\ job.today \in Days
      /\ UNCHANGED <<alarms, tstate, marks, day, frame, issued>>
  BY DEF NextSub, stores, dispatchVars, tokenVars, Standing, Course, AlarmTypeOK
<1>2. /\ LoopStep /\ job'.pc = "subs" /\ job'.uid = u
      /\ job'.tenders = job.tenders /\ job'.tender = job.tender
      /\ job'.subs = job.subs \ {u}
      /\ job'.events = job.events /\ job'.duties = DutiesOf(u)
  BY <1>1 DEF NextSub, JobFields, LoopStep
<1>3. job'.duties \in Seq(Kinds) /\ CompletedLast(job'.duties)
  BY <1>2, DutiesShape
<1>4. owed' \subseteq Users \X Keys
  <2>1. ASSUME NEW n \in 1 .. Len(job'.duties)
        PROVE  KeyOf(job'.duties[n], job'.tender, job'.uid, job'.today) \in Keys
    BY <1>1, <1>2, <1>3, <2>1, ElementOfSeq, KeyTyped DEF LoopStep
  <2>2. Pending' \subseteq Users \X Keys
    BY <1>2, <2>1 DEF Pending
  <2> QED
    BY <2>2 DEF NextSub, Standing, AlarmTypeOK
<1>5. AlarmTypeOK'
  BY <1>1, <1>2, <1>3, <1>4 DEF AlarmTypeOK, Standing, LoopStep
<1>6. Course'
  BY <1>1, <1>2, <1>3 DEF Course, Standing, InLoop, InCall, LoopStep
<1> QED
  BY <1>5, <1>6

LEMMA StandingSkip ==
  ASSUME Standing, SkipCompleted
  PROVE  AlarmTypeOK' /\ Course'
<1>1. /\ job.pc = "subs" /\ DOMAIN job = JobFields
      /\ UNCHANGED <<alarms, tstate, marks, day, owed, frame, issued>>
  BY DEF SkipCompleted, stores, dispatchVars, tokenVars, Standing, Course
<1>2. /\ LoopStep /\ job'.pc = "subs"
      /\ job'.tenders = job.tenders /\ job'.tender = job.tender
      /\ job'.subs = job.subs /\ job'.events = job.events
      /\ job'.duties = <<>>
  BY <1>1 DEF SkipCompleted, JobFields, LoopStep
<1>3. <<>> \in Seq(Kinds) /\ CompletedLast(<<>>)
  BY EmptySeq DEF CompletedLast
<1>4. AlarmTypeOK'
  BY <1>1, <1>2, <1>3 DEF AlarmTypeOK, Standing, LoopStep
<1>5. Course'
  BY <1>1, <1>2, <1>3 DEF Course, Standing, InLoop, InCall, LoopStep
<1> QED
  BY <1>4, <1>5

LEMMA StandingCall ==
  ASSUME Standing, DispatchDuty \/ DispatchCompleted
  PROVE  AlarmTypeOK' /\ Course'
<1> DEFINE kind == Head(job.duties)
<1>1. /\ job.pc = "subs" /\ DOMAIN job = JobFields /\ job.duties # <<>>
      /\ job.duties \in Seq(Kinds) /\ CompletedLast(job.duties)
  BY DEF DispatchDuty, DispatchCompleted, Standing, Course, AlarmTypeOK
<1>2. kind = "completed" <=> job.duties = <<"completed">>
  BY <1>1, DutiesLeft
<1>3. CallFor(kind)
  BY <1>2 DEF DispatchDuty, DispatchCompleted
<1>4. job.duties = <<"completed">> => <<job.uid, job.tender>> \notin marks
  BY <1>2 DEF DispatchDuty, DispatchCompleted, Marked
<1>5. /\ UNCHANGED <<alarms, tstate, marks, day, owed, issued>>
      /\ frame' = [frame EXCEPT ![alarm] =
                     [at |-> "exists", uid |-> job.uid, token |-> job.tokens[job.uid],
                      key |-> KeyOf(kind, job.tender, job.uid, job.today),
                      end |-> "none"]]
  BY <1>3 DEF CallFor, Call, stores, tokenVars
<1>6. /\ frame'[alarm].uid = job.uid
      /\ frame'[alarm].key = KeyOf(kind, job.tender, job.uid, job.today)
  BY <1>5, OneCaller DEF Standing, Dispatch, Ledger, TypeOK
<1>7. /\ LoopStep /\ job'.pc = "calling" /\ job'.uid = job.uid
      /\ job'.tenders = job.tenders /\ job'.tender = job.tender
      /\ job'.subs = job.subs /\ job'.events = job.events
      /\ job'.duties = job.duties
  BY <1>1, <1>3 DEF CallFor, JobFields, LoopStep
<1>8. AlarmTypeOK'
  BY <1>5, <1>7 DEF AlarmTypeOK, Standing, LoopStep
<1>9. OnCall'
  BY <1>1, <1>4, <1>5, <1>6, <1>7 DEF OnCall, LoopStep
<1>10. Course'
  BY <1>1, <1>7, <1>9 DEF Course, Standing, InLoop, LoopStep
<1> QED
  BY <1>8, <1>10

LEMMA StandingReturned ==
  ASSUME Standing, DispatchReturned
  PROVE  AlarmTypeOK' /\ Course'
<1>1. /\ job.pc = "calling" /\ DOMAIN job = JobFields /\ OnCall
      /\ job.duties \in Seq(Kinds) /\ CompletedLast(job.duties)
      /\ UNCHANGED <<alarms, tstate, marks, day, owed, issued>>
      /\ frame' = [frame EXCEPT ![alarm] = NoFrame]
  BY DEF DispatchReturned, Resume, Standing, Course, AlarmTypeOK, stores, tokenVars
<1>2. ~InCall(alarm)'
  BY <1>1, OneCaller DEF InCall, NoFrame, Standing, Dispatch, Ledger, TypeOK
<1>3. /\ LoopStep /\ job'.uid = job.uid
      /\ job'.tenders = job.tenders /\ job'.tender = job.tender
      /\ job'.subs = job.subs /\ job'.events = job.events
      /\ \/ /\ job.duties = <<"completed">>
            /\ job'.pc = "mark" /\ job'.duties = job.duties
         \/ /\ job.duties # <<"completed">>
            /\ job'.pc = "subs" /\ job'.duties = Tail(job.duties)
  BY <1>1 DEF DispatchReturned, JobFields, LoopStep
<1>4. job'.duties \in Seq(Kinds) /\ CompletedLast(job'.duties)
  BY <1>1, <1>3, DutiesLeft DEF OnCall
<1>5. AlarmTypeOK'
  BY <1>1, <1>3, <1>4 DEF AlarmTypeOK, Standing, LoopStep
<1>6. job.tender \in Tenders /\ job.uid \in DOMAIN job.tokens
  BY <1>1 DEF Standing, Course, OnCall
<1>7. Course'
  BY <1>1, <1>2, <1>3, <1>4, <1>6 DEF Course, Standing, InLoop, LoopStep
<1> QED
  BY <1>5, <1>7

(* After an exception the loop goes on with the next tender. *)
LEMMA StandingGiveUp ==
  ASSUME Standing, job.pc # "idle", GiveUpTender, ~InCall(alarm)',
         tstate' \in [Tenders -> Snapshots \union {None}],
         marks' \subseteq Users \X Tenders,
         UNCHANGED <<alarms, day, issued>>
  PROVE  AlarmTypeOK' /\ Course'
<1>1. DOMAIN job = JobFields /\ owed' \subseteq owed
  BY DEF GiveUpTender, Standing, Course
<1>2. /\ LoopStep /\ job'.pc = "subs" /\ job'.tenders = job.tenders
      /\ job'.subs = {} /\ job'.events = job.events /\ job'.duties = <<>>
  BY <1>1 DEF GiveUpTender, JobFields, LoopStep
<1>3. <<>> \in Seq(Kinds) /\ CompletedLast(<<>>)
  BY EmptySeq DEF CompletedLast
<1>4. AlarmTypeOK'
  BY <1>1, <1>2, <1>3 DEF AlarmTypeOK, Standing, LoopStep
<1>5. Course'
  BY <1>1, <1>2, <1>3 DEF Course, Standing, InLoop, LoopStep
<1> QED
  BY <1>4, <1>5

LEMMA StandingMark ==
  ASSUME Standing, MarkCompleted
  PROVE  AlarmTypeOK' /\ Course'
<1>1. /\ job.pc = "mark" /\ DOMAIN job = JobFields /\ job.duties = <<"completed">>
      /\ job.uid \in DOMAIN job.tokens /\ job.tender \in Tenders
      /\ UNCHANGED <<alarms, tstate, day, owed, frame, issued>>
  BY MarkStored DEF MarkCompleted, dispatchVars, tokenVars, Standing, Course
<1>2. /\ LoopStep /\ job'.pc = "flag" /\ job'.uid = job.uid
      /\ job'.tenders = job.tenders /\ job'.tender = job.tender
      /\ job'.subs = job.subs /\ job'.events = job.events
      /\ job'.duties = job.duties
  BY <1>1 DEF MarkCompleted, JobFields, LoopStep
<1>3. marks' \subseteq Users \X Tenders
  BY MarkStored DEF MarkCompleted, Standing, AlarmTypeOK
<1>4. AlarmTypeOK'
  BY <1>1, <1>2, <1>3 DEF AlarmTypeOK, Standing, LoopStep
<1>5. Course'
  BY <1>1, <1>2 DEF Course, Standing, InLoop, InCall, LoopStep
<1> QED
  BY <1>4, <1>5

LEMMA StandingFlag ==
  ASSUME Standing, FlagAlarm
  PROVE  AlarmTypeOK' /\ Course'
<1>1. /\ job.pc = "flag" /\ DOMAIN job = JobFields
      /\ job.uid \in Users /\ job.tender \in Tenders
      /\ UNCHANGED <<tstate, marks, day, owed, frame, issued>>
  BY DEF FlagAlarm, dispatchVars, tokenVars, Standing, Course, AlarmTypeOK
<1>2. /\ LoopStep /\ job'.pc = "subs"
      /\ job'.tenders = job.tenders /\ job'.tender = job.tender
      /\ job'.subs = job.subs /\ job'.events = job.events
      /\ job'.duties = <<>>
  BY <1>1 DEF FlagAlarm, JobFields, LoopStep
<1>3. alarms' \in [Users -> Readings]
  <2> DEFINE old == alarms[job.uid][job.tender]
             new == (IF old = None THEN {} ELSE old) \union {"completed"}
  <2>1. alarms \in [Users -> Readings]
    BY DEF Standing, AlarmTypeOK
  <2>5. old \in (SUBSET Kinds) \union {None}
    BY <1>1, <2>1 DEF Readings
  <2> HIDE DEF old
  <2>2. new \in SUBSET Kinds
    BY <2>5 DEF Kinds
  <2> USE DEF old
  <2>3. \/ alarms' = [alarms EXCEPT ![job.uid] = [alarms[job.uid] EXCEPT ![job.tender] = new]]
        \/ alarms' = alarms
    BY <1>1, <2>1 DEF FlagAlarm, Readings
  <2> HIDE DEF new
  <2>4. [alarms[job.uid] EXCEPT ![job.tender] = new] \in Readings
    BY <1>1, <2>1, <2>2 DEF Readings
  <2> QED
    BY <1>1, <2>1, <2>3, <2>4
<1>4. <<>> \in Seq(Kinds) /\ CompletedLast(<<>>)
  BY EmptySeq DEF CompletedLast
<1>5. AlarmTypeOK'
  BY <1>1, <1>2, <1>3, <1>4 DEF AlarmTypeOK, Standing, LoopStep
<1>6. Course'
  BY <1>1, <1>2, <1>4 DEF Course, Standing, InLoop, InCall, LoopStep
<1> QED
  BY <1>5, <1>6

(* What happens while the job waits: for dispatch, or for nothing.         *)
LEMMA StandingDispatch ==
  ASSUME Standing, Progress(alarm) \/ Failure(alarm), UNCHANGED <<stores, job, owed>>
  PROVE  AlarmTypeOK' /\ Course'
<1>1. TypeOK /\ alarm \in Jobs /\ [DispatchNext]_dispatchVars
  BY OneCaller DEF Standing, Dispatch, Ledger, DispatchNext
<1>2. /\ InCall(alarm)
      /\ frame'[alarm].uid = frame[alarm].uid /\ frame'[alarm].key = frame[alarm].key
  BY <1>1, SameCall
<1>3. AlarmTypeOK'
  BY <1>1, IssuedGrows DEF AlarmTypeOK, Standing, stores
<1>4. OnCall'
  BY <1>2 DEF Standing, Course, OnCall, stores
<1>5. Course'
  BY <1>2, <1>4 DEF Standing, Course, InLoop
<1> QED
  BY <1>3, <1>5

LEMMA StandingSurroundings ==
  ASSUME Standing, Surroundings
  PROVE  AlarmTypeOK' /\ Course'
<1>1. /\ UNCHANGED <<job, owed, frame>> /\ marks' \subseteq marks
      /\ [DispatchNext]_dispatchVars
  BY DEF Surroundings, Environment, Forget, Register, Uninstall, NextDay, DropState,
     EditAlarm, DropMark, stores, dispatchVars, DispatchNext
<1>2. \A u \in Users : \A t \in 1 .. issued[u] : t \in 1 .. issued'[u]
  BY <1>1, IssuedGrows DEF Standing, Dispatch, Ledger
<1>3. /\ alarms' \in [Users -> Readings]
      /\ tstate' \in [Tenders -> Snapshots \union {None}]
      /\ day' \in Days
  <2> USE DEF Standing, AlarmTypeOK
  <2>1. CASE UNCHANGED <<alarms, tstate, day>>
    BY <2>1
  <2>2. CASE NextDay
    BY <2>2, AlarmAssumption DEF NextDay, Days
  <2>3. ASSUME NEW t \in Tenders, DropState(t)
        PROVE  UNCHANGED <<alarms, day>> /\ tstate' \in [Tenders -> Snapshots \union {None}]
    BY <2>3 DEF DropState
  <2>4. ASSUME NEW u \in Users, NEW t \in Tenders, EditAlarm(u, t)
        PROVE  UNCHANGED <<tstate, day>> /\ alarms' \in [Users -> Readings]
    <3>1. PICK choice \in AlarmChoices \union {None} :
            alarms' = [alarms EXCEPT ![u] = [alarms[u] EXCEPT ![t] = choice]]
      BY <2>4 DEF EditAlarm
    <3>2. [alarms[u] EXCEPT ![t] = choice] \in Readings
      <4>1. alarms[u] \in Readings /\ choice \in (SUBSET Kinds) \union {None}
        BY AlarmAssumption
      <4> QED
        BY <4>1 DEF Readings
    <3> QED
      BY <2>4, <3>1, <3>2 DEF EditAlarm
  <2> QED
    BY <2>1, <2>2, <2>3, <2>4 DEF Surroundings, DropMark, stores
<1>4. AlarmTypeOK'
  BY <1>1, <1>2, <1>3 DEF AlarmTypeOK, Standing
<1>5. OnCall => OnCall'
  BY <1>1 DEF OnCall
<1>6. Course'
  BY <1>1, <1>5 DEF Standing, Course, InLoop, InCall
<1> QED
  BY <1>4, <1>6

LEMMA StandingStep ==
  ASSUME Standing, [AlarmNext]_alarmVars
  PROVE  Standing'
<1>1. Dispatch'
  BY StepLawful, DispatchKeeps, OneCaller DEF Standing
<1>2. ASSUME DispatchRaised \/ TenderFails PROVE AlarmTypeOK' /\ Course'
  <2>1. AlarmTypeOK
    BY DEF Standing
  <2>2. CASE DispatchRaised
    <3>1. job.pc # "idle" /\ GiveUpTender /\ UNCHANGED stores /\ UNCHANGED issued
      BY <2>2 DEF DispatchRaised, Resume, tokenVars
    <3>2. ~InCall(alarm)'
      BY <2>2, OneCaller DEF DispatchRaised, Standing, Dispatch, Ledger, TypeOK, InCall,
         Resume, NoFrame
    <3> QED
      BY <2>1, <3>1, <3>2, StandingGiveUp DEF stores, AlarmTypeOK
  <2>3. CASE TenderFails
    <3>1. /\ job.pc \in {"fetch", "save", "mark", "subs"} /\ GiveUpTender
          /\ UNCHANGED <<dispatchVars, alarms, day>>
      BY <2>3, SnapshotStored, MarkStored DEF TenderFails, stores
    <3>2. /\ tstate' \in [Tenders -> Snapshots \union {None}]
          /\ marks' \subseteq Users \X Tenders
      BY <2>1, <2>3, SnapshotStored, MarkStored DEF TenderFails, stores, AlarmTypeOK
    <3>3. ~InCall(alarm)' /\ UNCHANGED issued
      BY <3>1 DEF Standing, Course, InCall, dispatchVars, tokenVars
    <3> QED
      BY <3>1, <3>2, <3>3, StandingGiveUp
  <2> QED
    BY <1>2, <2>2, <2>3
<1>3. ASSUME Finish \/ LoadFails \/ JobDies PROVE AlarmTypeOK' /\ Course'
  <2>1. job' = Idle /\ UNCHANGED stores /\ owed' \subseteq owed
    BY <1>3 DEF Finish, LoadFails, JobDies
  <2>2. ~InCall(alarm)'
    <3>1. CASE InCall(alarm) /\ Crash({alarm})
      <4>1. frame'[alarm] = [frame[alarm] EXCEPT !.at = "over", !.end = "killed"]
        BY <3>1, OneCaller DEF Crash
      <4>2. frame[alarm] \in Frames
        BY <3>1, OneCaller, FrameOfCall DEF Standing, Dispatch, Ledger
      <4> QED
        BY <4>1, <4>2 DEF InCall, Frames
    <3>2. CASE ~InCall(alarm) /\ UNCHANGED dispatchVars
      BY <3>2 DEF InCall, dispatchVars
    <3>3. CASE Finish \/ LoadFails
      BY <3>3 DEF Finish, LoadFails, BetweenTenders, Standing, Course, InCall, dispatchVars
    <3> QED
      BY <1>3, <3>1, <3>2, <3>3 DEF JobDies
  <2> QED
    BY <2>1, <2>2, IdleStands
<1>4. ASSUME Progress(alarm) \/ Failure(alarm), UNCHANGED <<stores, job, owed>>
      PROVE  AlarmTypeOK' /\ Course'
  BY <1>4, StandingDispatch
<1>5. ASSUME UNCHANGED alarmVars PROVE AlarmTypeOK' /\ Course'
  <2>1. UNCHANGED <<alarms, tstate, marks, day, owed, job, frame, issued>>
    BY <1>5 DEF alarmVars, stores, dispatchVars, tokenVars
  <2>2. AlarmTypeOK'
    BY <2>1 DEF Standing, AlarmTypeOK
  <2>3. OnCall => OnCall'
    BY <2>1 DEF OnCall
  <2> QED
    BY <2>1, <2>2, <2>3 DEF Standing, Course, InLoop, InCall
<1>6. ASSUME \/ Start \/ LoadUsers \/ \E u \in Users : GatherAlarms(u) \/ NextSub(u)
             \/ \E t \in Tenders : NextTender(t)
      PROVE  AlarmTypeOK' /\ Course'
  BY <1>6, StandingStart, StandingLoad, StandingGather, StandingNextTender,
     StandingNextSub
<1>7. ASSUME \/ FetchDetail \/ SaveState \/ SkipCompleted \/ DispatchDuty
             \/ DispatchCompleted \/ DispatchReturned \/ MarkCompleted \/ FlagAlarm
             \/ Surroundings
      PROVE  AlarmTypeOK' /\ Course'
  BY <1>7, StandingFetch, StandingSave, StandingSkip, StandingCall,
     StandingReturned, StandingMark, StandingFlag, StandingSurroundings
<1>8. AlarmTypeOK' /\ Course'
  BY <1>2, <1>3, <1>4, <1>5, <1>6, <1>7 DEF AlarmNext, RunStep
<1> QED
  BY <1>1, <1>8 DEF Standing

LEMMA StandingInit == AlarmInit => Standing
<1> SUFFICES ASSUME AlarmInit PROVE Standing
  OBVIOUS
<1>1. Dispatch /\ ~InCall(alarm)
  BY DispatchStart, OneCaller DEF AlarmInit, DispatchInit, InCall, NoFrame
<1>2. /\ DOMAIN job = JobFields
      /\ job.pc = "idle" /\ job.tokens = <<>> /\ job.read = <<>>
      /\ job.toRead = {} /\ job.today = 1 /\ job.tenders = {}
      /\ job.subs = {} /\ job.events = {} /\ job.duties = <<>>
  BY DEF AlarmInit, Idle, JobFields
<1>3. DOMAIN <<>> = {} /\ <<>> \in Seq(Kinds) /\ Len(<<>>) = 0 /\ 1 \in Days
  BY EmptySeq, AlarmAssumption DEF Days
<1>4. /\ alarms \in [Users -> Readings] /\ day \in Days /\ marks = {} /\ owed = {}
      /\ tstate \in [Tenders -> Snapshots \union {None}]
  <2>1. AlarmChoices \union {None} \subseteq (SUBSET Kinds) \union {None}
    BY AlarmAssumption
  <2> QED
    BY <1>3, <2>1 DEF AlarmInit, Readings
<1>5. AlarmTypeOK
  BY <1>2, <1>3, <1>4 DEF AlarmTypeOK
<1>6. Course
  BY <1>1, <1>2, <1>3 DEF Course, InLoop, CompletedLast
<1> QED
  BY <1>1, <1>5, <1>6 DEF Standing

(* The variables of the job keep their types, at every await and over all  *)
(* failures of alarm_job.py's run.                                         *)
THEOREM AlarmTyped == AlarmSpec => []AlarmTypeOK
<1>1. Standing => AlarmTypeOK
  BY DEF Standing
<1> QED
  BY <1>1, StandingInit, StandingStep, PTL DEF AlarmSpec

(* Whatever the job does, dispatch sees a lawful caller: so what is proved *)
(* of DispatchSpec holds under the alarm job.                              *)
THEOREM AlarmLawful == AlarmSpec => LawfulCaller
<1>1. AlarmInit => DispatchInit
  BY DEF AlarmInit
<1>2. Standing /\ [AlarmNext]_alarmVars
        => [UNCHANGED dispatchVars \/ DispatchNext]_dispatchVars
  BY StepLawful
<1> QED
  BY <1>1, <1>2, StandingInit, StandingStep, PTL DEF AlarmSpec, LawfulCaller

(* Under its keys the alarm job tells each thing once, but for             *)
(* slips, and records only what it told, as IdempotentDelivery says.       *)
THEOREM AlarmDelivers == AlarmSpec => DeliverySpec /\ []Accounting
<1>1. DispatchSpec => DeliverySpec
  BY Implements
<1>2. DispatchSpec => []Accounting
  BY Accounted
<1>3. [UNCHANGED dispatchVars \/ DispatchNext]_dispatchVars
        => [DispatchNext]_dispatchVars
  OBVIOUS
<1>4. AlarmSpec => DispatchSpec
  BY <1>3, AlarmLawful, PTL DEF LawfulCaller, DispatchSpec
<1> QED
  BY <1>1, <1>2, <1>4

-------------------------------------------------------------------------------
(* Nobody is told again of a completion that is marked as told.            *)
SilentOnMarks ==
  \/ UNCHANGED <<inbox, pushed>>
  \/ \A u \in Users, t \in Tenders, d \in Days :
       <<u, t>> \in marks =>
         LET k == KeyOf("completed", t, u, d)
         IN inbox'[k] = inbox[k] /\ <<u, k>> \notin pushed' \ pushed

LEMMA StepSilent ==
  ASSUME Standing, [AlarmNext]_alarmVars
  PROVE  SilentOnMarks
<1>1. CASE UNCHANGED <<inbox, pushed>>
  BY <1>1 DEF SilentOnMarks
<1>2. CASE WritesOwn(alarm)
  <2>1. /\ InCall(alarm) /\ OnCall /\ TypeOK
        /\ job.duties \in Seq(Kinds) /\ CompletedLast(job.duties)
    BY <1>2 DEF WritesOwn, Standing, Course, AlarmTypeOK, Dispatch, Ledger
  <2> SUFFICES ASSUME NEW u \in Users, NEW t \in Tenders, NEW d \in Days,
                      <<u, t>> \in marks
               PROVE  /\ inbox'[KeyOf("completed", t, u, d)]
                           = inbox[KeyOf("completed", t, u, d)]
                      /\ <<u, KeyOf("completed", t, u, d)>> \notin pushed' \ pushed
    BY DEF SilentOnMarks
  <2> DEFINE k == KeyOf("completed", t, u, d)
  <2>2. k \in Keys /\ k = CompletedKey(u, t)
    BY CompletedKeys
  <2>3. frame[alarm].key # k
    <3> SUFFICES ASSUME frame[alarm].key = k PROVE FALSE
      OBVIOUS
    <3>1. Head(job.duties) \in Kinds
      BY <2>1, DutiesLeft DEF OnCall
    <3>2. Head(job.duties) = "completed" /\ job.tender = t /\ job.uid = u
      BY <2>1, <2>2, <3>1, CompletedKeys DEF OnCall
    <3>3. job.duties = <<"completed">>
      BY <2>1, <3>2, DutiesLeft DEF OnCall
    <3> QED
      BY <2>1, <3>2, <3>3 DEF OnCall
  <2>4. inbox'[k] = inbox[k]
    BY <1>2, <2>1, <2>2, <2>3, InboxTyped, OneCaller DEF WritesOwn
  <2>5. <<u, k>> \notin pushed' \ pushed
    BY <1>2, <2>3 DEF WritesOwn
  <2> QED
    BY <2>4, <2>5
<1> QED
  BY <1>1, <1>2, StepLawful, Writes, OneCaller, AlarmAssumption

(* While the alarm_completed entry lives, no run tells that user of the    *)
(* completion again, by document or by push, though the mark is read       *)
(* before dispatch and written after it (alarm_job.py:142-149).            *)
THEOREM MarkedNotTold == AlarmSpec => NoCompletedAfterMark
<1>1. Standing /\ [AlarmNext]_alarmVars => [SilentOnMarks]_alarmVars
  BY StepSilent
<1> QED
  BY <1>1, StandingInit, StandingStep, PTL
     DEF AlarmSpec, NoCompletedAfterMark, SilentOnMarks

-------------------------------------------------------------------------------
(* Whoever the loop has dealt with was told.  To know it of a completion   *)
(* that is skipped, the marks have to be true as well.                     *)
Done(u, k) ==
  \/ u \in Recipients[k]
  \/ <<u, k>> \in failed
  \/ k[1] # "completed" /\ Recipients[k] # {}

Facts ==
  /\ \A u \in Users, t \in Tenders :
       <<u, t>> \in marks => Done(u, CompletedKey(u, t))
  /\ job.pc \in {"mark", "flag"} => Done(job.uid, CompletedKey(job.uid, job.tender))
  /\ \A u \in Users, k \in Keys : <<u, k>> \in owed \ Pending => Done(u, k)

LEMMA DoneStays ==
  ASSUME Standing, [DispatchNext]_dispatchVars, NEW u \in Users, NEW k \in Keys,
         Done(u, k)
  PROVE  Done(u, k)'
<1>1. TypeOK /\ Grown /\ failed \subseteq failed'
  BY HasGrows, FailedGrows DEF Standing, Dispatch, Ledger
<1>2. Recipients[k] # {} => Recipients'[k] # {}
  <2>1. Recipients[k] \subseteq Users
    BY <1>1 DEF Recipients, TypeOK
  <2> QED
    BY <1>1, <2>1 DEF Grown
<1> QED
  BY <1>1, <1>2 DEF Done, Grown

(* The facts stay, if what is settled by a step was done before it.        *)
LEMMA FactsMove ==
  ASSUME Standing, Facts, [DispatchNext]_dispatchVars,
         \A u \in Users, t \in Tenders :
           <<u, t>> \in marks' => <<u, t>> \in marks \/ Done(u, CompletedKey(u, t)),
         job'.pc \in {"mark", "flag"} =>
           \E u \in Users, t \in Tenders :
             /\ job'.uid = u /\ job'.tender = t /\ Done(u, CompletedKey(u, t)),
         \A u \in Users, k \in Keys :
           <<u, k>> \in owed' \ Pending' => <<u, k>> \in owed \ Pending \/ Done(u, k)
  PROVE  Facts'
<1>1. ASSUME NEW u \in Users, NEW t \in Tenders, <<u, t>> \in marks'
      PROVE  Done(u, CompletedKey(u, t))'
  <2>1. CompletedKey(u, t) \in Keys
    BY AlarmAssumption, CompletedKeys DEF Days
  <2>2. Done(u, CompletedKey(u, t))
    BY <1>1 DEF Facts
  <2>3. PICK k \in Keys : k = CompletedKey(u, t)
    BY <2>1
  <2>4. Done(u, k)'
    BY <2>2, <2>3, DoneStays
  <2> QED
    BY <2>3, <2>4 DEF CompletedKey
<1>2. ASSUME job'.pc \in {"mark", "flag"}
      PROVE  Done(job.uid, CompletedKey(job.uid, job.tender))'
  <2>1. PICK u \in Users, t \in Tenders :
          job'.uid = u /\ job'.tender = t /\ Done(u, CompletedKey(u, t))
    BY <1>2
  <2>2. PICK k \in Keys : k = CompletedKey(u, t)
    BY AlarmAssumption, CompletedKeys DEF Days
  <2>3. Done(u, k)'
    BY <2>1, <2>2, DoneStays
  <2> QED
    BY <2>1, <2>2, <2>3 DEF CompletedKey, Done
<1>3. ASSUME NEW u \in Users, NEW k \in Keys, <<u, k>> \in owed' \ Pending'
      PROVE  Done(u, k)'
  <2>1. Done(u, k)
    BY <1>3 DEF Facts
  <2> QED
    BY <2>1, DoneStays
<1> QED
  BY <1>1, <1>2, <1>3 DEF Facts

LEMMA ReturnDone ==
  ASSUME Standing, job.pc = "calling", frame[alarm].end = "returned",
         NEW k \in Keys, k = frame[alarm].key
  PROVE  Done(job.uid, k)
<1>1. /\ OnCall /\ job.duties \in Seq(Kinds) /\ CompletedLast(job.duties)
      /\ job.uid \in Users /\ job.tender \in Tenders /\ job.today \in Days
  BY DEF Standing, Course, OnCall, AlarmTypeOK
<1>2. /\ Head(job.duties) \in Kinds
      /\ k = KeyOf(Head(job.duties), job.tender, job.uid, job.today)
      /\ frame[alarm].uid = job.uid
  BY <1>1, DutiesLeft DEF OnCall
<1>3. k[1] = Head(job.duties)
  BY <1>1, <1>2, KeyTyped
<1>4. CASE Head(job.duties) = "completed"
  <2>1. Addressees[k] = {job.uid}
    BY <1>1, <1>2, <1>4, CompletedKeys
  <2>2. \/ <<job.uid, k>> \in failed
        \/ \E n \in 1 .. Len(inbox[k]) : inbox[k][n] = job.uid
    BY <1>2, <2>1, OneCaller DEF Standing, Dispatch, Telling, ReturnMeansServed
  <2> QED
    BY <2>2 DEF Done, Recipients
<1>5. CASE Head(job.duties) # "completed"
  <2>1. <<job.uid, k>> \in failed \/ Recipients[k] # {}
    BY <1>2, OneCaller DEF Standing, Dispatch, ReturnShown
  <2> QED
    BY <1>3, <1>5, <2>1 DEF Done
<1> QED
  BY <1>4, <1>5

LEMMA FactsStep ==
  ASSUME Standing, Facts, [AlarmNext]_alarmVars
  PROVE  Facts'
<1> DEFINE Kept ==
      /\ \A u \in Users, t \in Tenders :
           <<u, t>> \in marks' => <<u, t>> \in marks \/ Done(u, CompletedKey(u, t))
      /\ job'.pc \in {"mark", "flag"} =>
           \E u \in Users, t \in Tenders :
             /\ job'.uid = u /\ job'.tender = t /\ Done(u, CompletedKey(u, t))
      /\ \A u \in Users, k \in Keys :
           <<u, k>> \in owed' \ Pending' => <<u, k>> \in owed \ Pending \/ Done(u, k)
<1>0. /\ Len(<<>>) = 0 /\ DOMAIN job = JobFields
      /\ job.duties = <<>> => Pending = {}
      /\ job'.duties = <<>> => Pending' = {}
  BY EmptySeq DEF Pending, Standing, Course
<1>1. ASSUME UNCHANGED <<job, owed>>, marks' \subseteq marks PROVE Kept
  <2>1. Pending' = Pending
    BY <1>1 DEF Pending
  <2>2. job.pc \in {"mark", "flag"} =>
          /\ job.uid \in Users /\ job.tender \in Tenders
          /\ Done(job.uid, CompletedKey(job.uid, job.tender))
    <3>1. <<"completed">> # <<>>
      OBVIOUS
    <3> QED
      BY <3>1 DEF Facts, Standing, Course, AlarmTypeOK
  <2> QED
    BY <1>1, <2>1, <2>2
<1>2. ASSUME owed' = {}, marks' = marks, job'.pc \notin {"mark", "flag"} PROVE Kept
  BY <1>2
<1>3. ASSUME job.duties = <<>>, owed' = owed, marks' = marks,
             job'.pc \notin {"mark", "flag"}
      PROVE  Kept
  BY <1>0, <1>3
<1>4. ASSUME GiveUpTender,
             \A u \in Users, t \in Tenders :
               <<u, t>> \in marks' => <<u, t>> \in marks \/ Done(u, CompletedKey(u, t))
      PROVE  Kept
  <2>1. /\ job'.pc = "subs" /\ job'.duties = <<>> /\ owed' = owed \ Pending
    BY <1>0, <1>4 DEF GiveUpTender, JobFields
  <2> QED
    BY <1>0, <1>4, <2>1
<1>5. ASSUME NEW v \in Users, NextSub(v) PROVE Kept
  <2>1. /\ job'.pc = "subs" /\ job.duties = <<>> /\ owed' = owed \union Pending'
        /\ marks' = marks
    BY <1>0, <1>5 DEF NextSub, JobFields, stores
  <2> QED
    BY <1>0, <2>1
<1>6. ASSUME NEW kind, CallFor(kind) PROVE Kept
  <2>1. /\ job'.pc = "calling" /\ job'.duties = job.duties /\ job'.uid = job.uid
        /\ job'.tender = job.tender /\ job'.today = job.today
        /\ owed' = owed /\ marks' = marks
    BY <1>0, <1>6 DEF CallFor, JobFields, stores
  <2> QED
    BY <2>1 DEF Pending
<1>7. ASSUME job.duties = <<"completed">>, job'.duties = <<>>, owed' = owed,
             marks' = marks, job'.pc = "subs",
             Done(job.uid, CompletedKey(job.uid, job.tender))
      PROVE  Kept
  <2>1. /\ job.uid \in Users /\ job.tender \in Tenders /\ job.today \in Days
    BY <1>0, <1>7 DEF Standing, Course, AlarmTypeOK
  <2>2. KeyOf("completed", job.tender, job.uid, job.today)
          = CompletedKey(job.uid, job.tender)
    BY <2>1, CompletedKeys
  <2>3. Pending = {<<job.uid, CompletedKey(job.uid, job.tender)>>}
    BY <1>7, <2>2 DEF Pending
  <2> QED
    BY <1>0, <1>7, <2>3
<1>8. ASSUME DispatchReturned PROVE Kept
  <2> DEFINE k == KeyOf(Head(job.duties), job.tender, job.uid, job.today)
  <2>1. /\ OnCall /\ job.duties \in Seq(Kinds) /\ CompletedLast(job.duties)
        /\ job.duties # <<>> /\ job.pc = "calling" /\ frame[alarm].end = "returned"
        /\ job.uid \in Users /\ job.tender \in Tenders /\ job.today \in Days
        /\ owed' = owed /\ marks' = marks
    BY <1>8 DEF DispatchReturned, Standing, Course, OnCall, AlarmTypeOK, stores
  <2>2. k \in Keys /\ Done(job.uid, k)
    <3>1. k \in Keys /\ k = frame[alarm].key
      BY <2>1, DutiesLeft, KeyTyped DEF OnCall
    <3> QED
      BY <2>1, <3>1, ReturnDone
  <2>3. CASE job.duties = <<"completed">>
    <3>1. /\ job'.pc = "mark" /\ job'.duties = job.duties /\ job'.uid = job.uid
          /\ job'.tender = job.tender /\ job'.today = job.today
      BY <1>0, <1>8, <2>3 DEF DispatchReturned, JobFields
    <3>2. Pending' = Pending
      BY <3>1 DEF Pending
    <3>3. k = CompletedKey(job.uid, job.tender)
      BY <2>1, <2>3, CompletedKeys
    <3> QED
      BY <2>1, <2>2, <3>1, <3>2, <3>3
  <2>4. CASE job.duties # <<"completed">>
    <3>1. /\ job'.pc = "subs" /\ job'.duties = Tail(job.duties) /\ job'.uid = job.uid
          /\ job'.tender = job.tender /\ job'.today = job.today
      BY <1>0, <1>8, <2>4 DEF DispatchReturned, JobFields
    <3>2. ASSUME NEW p \in Pending PROVE p \in Pending' \/ p = <<job.uid, k>>
      <4>1. PICK n \in 1 .. Len(job.duties) :
              p = <<job.uid, KeyOf(job.duties[n], job.tender, job.uid, job.today)>>
        BY <3>2 DEF Pending
      <4>2. CASE n = 1
        BY <2>1, <4>1, <4>2, DutiesLeft
      <4>3. CASE n # 1
        <5>1. Len(job.duties) \in Nat /\ Len(Tail(job.duties)) = Len(job.duties) - 1
          BY <2>1, DutiesLeft
        <5>2. n - 1 \in 1 .. Len(Tail(job.duties)) /\ (n - 1) + 1 = n
          BY <4>3, <5>1
        <5>3. Tail(job.duties)[n - 1] = job.duties[n]
          BY <2>1, <5>2, DutiesLeft
        <5> QED
          BY <3>1, <4>1, <5>2, <5>3 DEF Pending
      <4> QED
        BY <4>2, <4>3
    <3> HIDE DEF k
    <3> QED
      BY <2>1, <2>2, <3>1, <3>2
  <2> QED
    BY <2>3, <2>4
<1>9. ASSUME MarkCompleted PROVE Kept
  <2>1. /\ job.pc = "mark" /\ job'.pc = "flag" /\ job'.duties = job.duties
        /\ job'.uid = job.uid /\ job'.tender = job.tender /\ job'.today = job.today
        /\ owed' = owed /\ marks' = marks \union {<<job.uid, job.tender>>}
    BY <1>0, <1>9, MarkStored DEF MarkCompleted, JobFields
  <2>2. Pending' = Pending
    BY <2>1 DEF Pending
  <2>3. job.duties = <<"completed">> /\ Done(job.uid, CompletedKey(job.uid, job.tender))
    BY <2>1 DEF Facts, Standing, Course
  <2>4. job.uid \in Users /\ job.tender \in Tenders
    BY <1>0, <2>3 DEF Standing, Course, AlarmTypeOK
  <2> QED
    BY <2>1, <2>2, <2>3, <2>4
<1> HIDE DEF Kept
<1>10. ASSUME \/ Start \/ LoadUsers \/ FetchDetail \/ SaveState
              \/ \E u \in Users : GatherAlarms(u)
       PROVE  Kept
  <2>1. job.duties = <<>>
    BY <1>10, SnapshotStored DEF Start, LoadUsers, FetchDetail, SaveState,
       GatherAlarms, Standing, Course, InLoop
  <2>2. owed' = owed /\ marks' = marks /\ job'.pc \notin {"mark", "flag"}
    BY <1>0, <1>10, SnapshotStored DEF Start, LoadUsers, FetchDetail, SaveState,
       GatherAlarms, Idle, JobFields, stores
  <2> QED
    BY <1>3, <2>1, <2>2
<1>11. ASSUME Finish \/ JobDies \/ \E t \in Tenders : NextTender(t) PROVE Kept
  <2>1. owed' = {} /\ marks' = marks /\ job'.pc \notin {"mark", "flag"}
    <3>1. CASE Finish \/ JobDies
      BY <3>1 DEF Finish, JobDies, Idle, stores
    <3>2. CASE \E t \in Tenders : NextTender(t)
      BY <1>0, <3>2 DEF NextTender, JobFields, stores
    <3> QED
      BY <1>11, <3>1, <3>2
  <2> QED
    BY <1>2, <2>1
<1>12. ASSUME LoadFails PROVE Kept
  <2>1. /\ job.duties = <<>> /\ owed' = owed /\ marks' = marks
        /\ job'.pc \notin {"mark", "flag"}
    BY <1>12 DEF LoadFails, Idle, stores, Standing, Course, InLoop
  <2> QED
    BY <1>3, <2>1
<1>13. ASSUME SkipCompleted \/ FlagAlarm PROVE Kept
  <2>1. /\ job.duties = <<"completed">> /\ job'.duties = <<>> /\ owed' = owed
        /\ marks' = marks /\ job'.pc = "subs"
    BY <1>0, <1>13 DEF SkipCompleted, FlagAlarm, JobFields, stores, Standing, Course
  <2>2. job.uid \in Users /\ job.tender \in Tenders
    BY <1>0, <2>1 DEF Standing, Course, AlarmTypeOK
  <2>3. Done(job.uid, CompletedKey(job.uid, job.tender))
    BY <1>13, <2>2 DEF SkipCompleted, FlagAlarm, Marked, Facts
  <2> QED
    BY <1>7, <2>1, <2>3
<1>14. ASSUME DispatchRaised \/ TenderFails PROVE Kept
  <2>1. GiveUpTender /\ (marks' = marks \/ StoreMark)
    BY <1>14, SnapshotStored DEF DispatchRaised, TenderFails, stores
  <2>2. CASE StoreMark
    <3>1. Done(job.uid, CompletedKey(job.uid, job.tender))
      BY <2>2, MarkStored DEF Facts
    <3> QED
      BY <1>4, <2>1, <2>2, <3>1, MarkStored
  <2> QED
    BY <1>4, <2>1, <2>2
<1>15. ASSUME Surroundings PROVE Kept
  <2>1. UNCHANGED <<job, owed>> /\ marks' \subseteq marks
    BY <1>15 DEF Surroundings, NextDay, DropState, EditAlarm, DropMark, stores
  <2> QED
    BY <1>1, <2>1
<1>16. ASSUME \/ (Progress(alarm) \/ Failure(alarm)) /\ UNCHANGED <<stores, job, owed>>
              \/ UNCHANGED alarmVars
       PROVE  Kept
  <2>1. UNCHANGED <<job, owed, marks>>
    BY <1>16 DEF alarmVars, stores
  <2> QED
    BY <1>1, <2>1
<1>17. ASSUME DispatchDuty \/ DispatchCompleted PROVE Kept
  BY <1>6, <1>17 DEF DispatchDuty, DispatchCompleted
<1>18. Kept
  BY <1>5, <1>8, <1>9, <1>10, <1>11, <1>12, <1>13, <1>14, <1>15, <1>16, <1>17
     DEF AlarmNext, RunStep
<1> QED
  BY <1>18, FactsMove, StepLawful DEF Kept

LEMMA FactsInit == AlarmInit => Facts
BY EmptySeq DEF AlarmInit, Idle, Facts, Pending

(* Whoever the loop over the subscribers has dealt with was told, or their *)
(* dispatch failed; under the keys that name no user it may have been      *)
(* another subscriber of that tender who was told (alarm_job.py:119-149).  *)
THEOREM DutiesServed == AlarmSpec => []DutyServed
<1>1. Standing /\ Facts => DutyServed
  <2> SUFFICES ASSUME Standing, Facts, NEW u \in Users, NEW k \in Keys,
                      <<u, k>> \in owed \ Pending
               PROVE  \/ Served(u, k) \/ FailedFor(u, k)
                      \/ k[1] # "completed" /\ inbox[k] # <<>>
    BY DEF DutyServed
  <2>1. Done(u, k)
    BY DEF Facts
  <2>2. Recipients[k] # {} => inbox[k] # <<>>
    BY EmptySeq DEF Recipients
  <2> QED
    BY <2>1, <2>2 DEF Done, Recipients, Served, FailedFor
<1> QED
  BY <1>1, StandingInit, StandingStep, FactsInit, FactsStep, PTL DEF AlarmSpec
===============================================================================
