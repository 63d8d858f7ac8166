------------------------------- MODULE AlarmJob -------------------------------
(***************************************************************************)
(* The daily alarm job (app/jobs/alarm_job.py) over the dispatcher: load   *)
(* the users, gather their alarms, then for each tender fetch it, detect   *)
(* events, save the snapshot and notify the subscribers one by one.        *)
(*                                                                         *)
(* The job is one coroutine.  job.pc is the await it stands at; between    *)
(* two awaits nothing else runs, so the code between them belongs to the   *)
(* action of the first.  pc = "calling" is the await of dispatch itself,   *)
(* during which the actions of Dispatcher take the steps.                  *)
(***************************************************************************)
EXTENDS Dispatcher, TenderEvents

CONSTANTS
  alarm,         \* the job, as a caller of dispatch
  Tenders,
  Answers,       \* the items EKAP may answer with
  AlarmChoices,  \* the notifications users tick on an alarm
  MaxDay         \* bound: days

Kinds == {"reminderDay", "documentChange", "completed"}
Days  == 1 .. MaxDay

(* idem_key: two of the three templates do not mention the user. *)
KeyOf(kind, t, u, d) == <<kind, t, IF kind = "completed" THEN u ELSE d>>

AlarmKeys == {KeyOf(kind, t, u, d) :
                kind \in Kinds, t \in Tenders, u \in Users, d \in Days}

KeyUsers(k) == IF k[1] = "completed" THEN {k[3]} ELSE Users

ASSUME AlarmAssumption ==
  /\ Jobs = {alarm}
  /\ Keys = AlarmKeys
  /\ Callers = [k \in Keys |-> {alarm}]
  /\ Addressees = [k \in Keys |-> KeyUsers(k)]
  /\ Answers \subseteq Items
  /\ AlarmChoices \subseteq SUBSET Kinds
  /\ MaxDay \in Nat \ {0}

VARIABLES
  alarms,   \* Firestore: alarms[u][t], the kinds ticked, None when no document
  tstate,   \* Redis: tender_state, None when there is none
  marks,    \* Redis: pairs <<u, t>> with a live alarm_completed entry
  day,      \* the date in Istanbul
  job,      \* the local variables of the run
  owed      \* history: pairs <<u, k>> reached for this tender and not given up

stores    == <<alarms, tstate, marks, day>>
alarmVars == <<dispatchVars, stores, job, owed>>

Idle == [pc |-> "idle", tokens |-> <<>>, read |-> <<>>, toRead |-> {},
         today |-> 1, tenders |-> {}, tender |-> None, prev |-> None,
         detail |-> None, events |-> {}, subs |-> {}, uid |-> None,
         duties |-> <<>>]

(* The pairs the current subscriber is still to be called for. *)
Pending ==
  {<<job.uid, KeyOf(job.duties[n], job.tender, job.uid, job.today)>> :
     n \in 1 .. Len(job.duties)}

(* The except clause around one tender: on to the next one. *)
GiveUpTender ==
  /\ owed' = owed \ Pending
  /\ job' = [job EXCEPT !.pc = "subs", !.subs = {}, !.duties = <<>>]

-------------------------------------------------------------------------------
Start ==
  /\ job.pc = "idle"
  /\ job' = [Idle EXCEPT !.pc = "users"]
  /\ UNCHANGED <<dispatchVars, stores, owed>>

(* A mutant lets users without a token pass. *)
AnyToken(u) == TRUE
HasToken(u) == stored[u] # NoToken

(* list_active_users_with_fcm: eligible are the paying, active (and, by    *)
(* setting, beta) users among those with a stored token.                   *)
LoadUsers ==
  /\ job.pc = "users"
  /\ \E eligible \in SUBSET {u \in Users : HasToken(u)} :
       job' = [job EXCEPT !.pc = IF eligible = {} THEN "subs" ELSE "gather",
                          !.tokens = [u \in eligible |-> stored[u]],
                          !.toRead = eligible, !.today = day]
  /\ UNCHANGED <<dispatchVars, stores, owed>>

(* _gather_alarms, one user at a time; after the last one the alarms are   *)
(* grouped by tender and today is fixed for the run.                       *)
GatherAlarms(u) ==
  /\ job.pc = "gather"
  /\ u \in job.toRead
  /\ LET read == [v \in {u} \union DOMAIN job.read |->
                    IF v = u THEN alarms[u] ELSE job.read[v]]
         rest == job.toRead \ {u}
     IN job' = [job EXCEPT
                  !.pc = IF rest = {} THEN "subs" ELSE "gather",
                  !.read = read, !.toRead = rest, !.today = day,
                  !.tenders = {t \in Tenders :
                                 \E v \in DOMAIN read : read[v][t] # None}]
  /\ UNCHANGED <<dispatchVars, stores, owed>>

BetweenTenders == job.pc = "subs" /\ job.subs = {} /\ job.duties = <<>>

(* get_tender_state *)
NextTender(t) ==
  /\ BetweenTenders
  /\ t \in job.tenders
  /\ job' = [job EXCEPT !.pc = "fetch", !.tenders = @ \ {t}, !.tender = t,
                        !.prev = tstate[t]]
  /\ owed' = {}
  /\ UNCHANGED <<dispatchVars, stores>>

(* get_tender_detail and _detect_events *)
FetchDetail ==
  /\ job.pc = "fetch"
  /\ \E item \in Answers :
       LET detail == FromApiResponse(item) IN
         job' = [job EXCEPT !.pc = "save", !.detail = detail, !.prev = None,
                            !.events = DetectEvents(job.prev, detail)]
  /\ UNCHANGED <<dispatchVars, stores, owed>>

(* set_tender_state, before anybody is told *)
StoreSnapshot ==
  /\ job.pc = "save"
  /\ tstate' = [tstate EXCEPT ![job.tender] = Snapshot(job.detail)]
  /\ UNCHANGED <<dispatchVars, alarms, marks, day>>

SaveState ==
  /\ StoreSnapshot
  /\ job' = [job EXCEPT !.pc = "subs",
                        !.subs = {u \in DOMAIN job.read :
                                    job.read[u][job.tender] # None}]
  /\ UNCHANGED owed

(* What the body of the loop over subs will dispatch to u, in its order. *)
Due(u, kind) ==
  /\ kind \in job.read[u][job.tender]
  /\ IF kind = "reminderDay" THEN job.detail.date = job.today
                             ELSE kind \in job.events

IfDue(u, kind) == IF Due(u, kind) THEN <<kind>> ELSE <<>>

DutiesOf(u) ==
  IfDue(u, "reminderDay") \o IfDue(u, "documentChange") \o IfDue(u, "completed")

NextSub(u) ==
  /\ job.pc = "subs"
  /\ job.duties = <<>>
  /\ u \in job.subs
  /\ job' = [job EXCEPT !.subs = @ \ {u}, !.uid = u, !.duties = DutiesOf(u)]
  /\ owed' = owed \union Pending'
  /\ UNCHANGED <<dispatchVars, stores>>

(* Mutant: the job writes without the idempotency check. *)
CallForUnchecked(kind) ==
  /\ frame' = [frame EXCEPT ![alarm] =
                 [at |-> "write", uid |-> job.uid, end |-> "none",
                  token |-> job.tokens[job.uid],
                  key |-> KeyOf(kind, job.tender, job.uid, job.today)]]
  /\ job' = [job EXCEPT !.pc = "calling"]
  /\ UNCHANGED <<idem, inbox, pushed, tokenVars, slips, failed, stores, owed>>

CallFor(kind) ==
  /\ Call(alarm, job.uid, job.tokens[job.uid],
          KeyOf(kind, job.tender, job.uid, job.today))
  /\ job' = [job EXCEPT !.pc = "calling"]
  /\ UNCHANGED <<stores, owed>>

DispatchDuty ==
  /\ job.pc = "subs"
  /\ job.duties # <<>>
  /\ Head(job.duties) # "completed"
  /\ CallFor(Head(job.duties))

(* was_completed_notified, with the two ways to get it wrong. *)
NeverMarked  == FALSE
AlwaysMarked == TRUE
Marked       == <<job.uid, job.tender>> \in marks

SkipCompleted ==
  /\ job.pc = "subs"
  /\ job.duties = <<"completed">>
  /\ Marked
  /\ job' = [job EXCEPT !.duties = <<>>]
  /\ UNCHANGED <<dispatchVars, stores, owed>>

DispatchCompleted ==
  /\ job.pc = "subs"
  /\ job.duties = <<"completed">>
  /\ ~Marked
  /\ CallFor("completed")

(* dispatch returned, which it also does after most failures *)
DispatchReturned ==
  /\ job.pc = "calling"
  /\ frame[alarm].end = "returned"
  /\ job' = IF job.duties = <<"completed">>
            THEN [job EXCEPT !.pc = "mark"]
            ELSE [job EXCEPT !.pc = "subs", !.duties = Tail(@)]
  /\ Resume(alarm)
  /\ UNCHANGED <<stores, owed>>

(* Mutant: the dispatch that raised is made again at once. *)
DispatchAgain ==
  /\ job.pc = "calling"
  /\ frame[alarm].end = "raised"
  /\ job' = [job EXCEPT !.pc = "subs"]
  /\ Resume(alarm)
  /\ UNCHANGED <<stores, owed>>

DispatchRaised ==
  /\ job.pc = "calling"
  /\ frame[alarm].end = "raised"
  /\ GiveUpTender
  /\ Resume(alarm)
  /\ UNCHANGED stores

(* mark_completed_notified *)
StoreMark ==
  /\ job.pc = "mark"
  /\ marks' = marks \union {<<job.uid, job.tender>>}
  /\ UNCHANGED <<dispatchVars, alarms, tstate, day>>

MarkCompleted ==
  /\ StoreMark
  /\ job' = [job EXCEPT !.pc = "flag"]
  /\ UNCHANGED owed

(* mark_alarm_completed merges completed = true into the document, making  *)
(* one if the user deleted it meanwhile; its failure is swallowed.         *)
FlagAlarm ==
  /\ job.pc = "flag"
  /\ \/ alarms' = [alarms EXCEPT ![job.uid][job.tender] =
                     (IF @ = None THEN {} ELSE @) \union {"completed"}]
     \/ UNCHANGED alarms
  /\ job' = [job EXCEPT !.pc = "subs", !.duties = <<>>]
  /\ UNCHANGED <<dispatchVars, tstate, marks, day, owed>>

Finish ==
  /\ BetweenTenders
  /\ job.tenders = {}
  /\ job' = Idle
  /\ owed' = {}
  /\ UNCHANGED <<dispatchVars, stores>>

(* An await outside the loop over tenders raises: the run is over. *)
LoadFails ==
  /\ job.pc \in {"users", "gather"}
  /\ job' = Idle
  /\ UNCHANGED <<dispatchVars, stores, owed>>

(* TenderNotFound, or an await inside the loop raises: in get_tender_state *)
(* or get_tender_detail, in set_tender_state, in was_completed_notified or *)
(* in mark_completed_notified.  Either write may have taken effect: its    *)
(* answer is lost.                                                         *)
TenderFails ==
  /\ GiveUpTender
  /\ \/ /\ \/ job.pc \in {"fetch", "save", "mark"}
           \/ job.pc = "subs" /\ job.duties = <<"completed">>
        /\ UNCHANGED <<dispatchVars, stores>>
     \/ StoreSnapshot
     \/ StoreMark

(* The process dies or the scheduler is shut down in the middle of a run. *)
JobDies ==
  /\ job.pc # "idle"
  /\ job' = Idle
  /\ owed' = {}
  /\ UNCHANGED stores
  /\ IF InCall(alarm) THEN Crash({alarm}) ELSE UNCHANGED dispatchVars

-------------------------------------------------------------------------------
(* The surroundings: users edit alarms, days pass, Redis drops entries. *)

EditAlarm(u, t) ==
  /\ \E choice \in AlarmChoices \union {None} :
       alarms' = [alarms EXCEPT ![u][t] = choice]
  /\ UNCHANGED <<dispatchVars, tstate, marks, day, job, owed>>

NextDay ==
  /\ day < MaxDay
  /\ day' = day + 1
  /\ UNCHANGED <<dispatchVars, alarms, tstate, marks, job, owed>>

DropState(t) ==
  /\ tstate' = [tstate EXCEPT ![t] = None]
  /\ UNCHANGED <<dispatchVars, alarms, marks, day, job, owed>>

DropMark(u, t) ==
  /\ marks' = marks \ {<<u, t>>}
  /\ UNCHANGED <<dispatchVars, alarms, tstate, day, job, owed>>

Surroundings ==
  \/ Environment /\ UNCHANGED <<stores, job, owed>>
  \/ NextDay
  \/ \E t \in Tenders : DropState(t)
  \/ \E u \in Users, t \in Tenders : EditAlarm(u, t) \/ DropMark(u, t)

-------------------------------------------------------------------------------
AlarmInit ==
  /\ DispatchInit
  /\ alarms \in [Users -> [Tenders -> AlarmChoices \union {None}]]
  /\ tstate = [t \in Tenders |-> None]
  /\ marks = {}
  /\ day = 1
  /\ job = Idle
  /\ owed = {}

(* One step of a run that meets no failure. *)
RunStep ==
  \/ LoadUsers \/ FetchDetail \/ SaveState \/ DispatchDuty \/ SkipCompleted
  \/ DispatchCompleted \/ DispatchReturned \/ DispatchRaised \/ MarkCompleted
  \/ FlagAlarm \/ Finish
  \/ \E u \in Users : GatherAlarms(u) \/ NextSub(u)
  \/ \E t \in Tenders : NextTender(t)
  \/ Progress(alarm) /\ UNCHANGED <<stores, job, owed>>

AlarmNext ==
  \/ Start \/ RunStep \/ LoadFails \/ TenderFails \/ JobDies
  \/ Failure(alarm) /\ UNCHANGED <<stores, job, owed>>
  \/ Surroundings

AlarmSpec == AlarmInit /\ [][AlarmNext]_alarmVars

(* Redis, Firestore, EKAP and FCM answer every call in the end. *)
AlarmFairSpec == AlarmSpec /\ WF_alarmVars(RunStep)
-------------------------------------------------------------------------------
(* Properties. *)

Readings == [Tenders -> (SUBSET Kinds) \union {None}]

AlarmTypeOK ==
  /\ alarms \in [Users -> Readings]
  /\ tstate \in [Tenders -> Snapshots \union {None}]
  /\ marks \subseteq Users \X Tenders
  /\ day \in Days
  /\ owed \subseteq Users \X Keys
  /\ job.pc \in {"idle", "users", "gather", "fetch", "save", "subs",
                 "calling", "mark", "flag"}
  /\ DOMAIN job.tokens \subseteq Users
  /\ job.toRead \union DOMAIN job.read \subseteq DOMAIN job.tokens
  /\ \A u \in DOMAIN job.tokens : job.tokens[u] \in 1 .. issued[u]
  /\ \A u \in DOMAIN job.read : job.read[u] \in Readings
  /\ job.today \in Days
  /\ job.tenders \subseteq Tenders
  /\ job.subs \subseteq DOMAIN job.read
  /\ job.events \subseteq Kinds
  /\ job.duties \in Seq(Kinds)

(* The user has a document under the key; the dispatch of the pair failed. *)
Served(u, k)  == \E n \in 1 .. Len(inbox[k]) : inbox[k][n] = u
FailedFor(u, k) == <<u, k>> \in failed

(* Whoever the loop has dealt with was told, or their dispatch failed; for *)
(* the kinds whose key names no user it may have been another subscriber   *)
(* of that tender on that day who was told.                                *)
DutyServed ==
  \A u \in Users, k \in Keys :
    <<u, k>> \in owed \ Pending =>
      \/ Served(u, k)
      \/ FailedFor(u, k)
      \/ k[1] # "completed" /\ inbox[k] # <<>>

(* While the alarm_completed entry lives, no run tells that user again     *)
(* that the tender is completed, though idempotency entries expire much    *)
(* sooner and EKAP may report the completion as news every day.            *)
NoCompletedAfterMark ==
  [][UNCHANGED <<inbox, pushed>> \/
     \A u \in Users, t \in Tenders, d \in Days :
       <<u, t>> \in marks =>
         LET k == KeyOf("completed", t, u, d)
         IN inbox'[k] = inbox[k] /\ <<u, k>> \notin pushed' \ pushed]_alarmVars

(* To its dispatcher the job is a caller that uses only its own keys, with *)
(* tokens their users once stored, one call at a time: all that is proved  *)
(* about DispatchSpec holds under this job.  (This is DispatchSpec; the    *)
(* first disjunct spares TLC the others on the steps that leave dispatch   *)
(* alone.)                                                                 *)
LawfulCaller ==
  DispatchInit /\ [][UNCHANGED dispatchVars \/ DispatchNext]_dispatchVars

(* A run that is started comes to its end. *)
RunEnds == job.pc # "idle" ~> job.pc = "idle"

(* alarm_job.py:3-5 has the job notify each subscribed user. *)
EverySubscriberServed ==
  \A u \in Users, k \in Keys :
    <<u, k>> \in owed \ Pending => Served(u, k) \/ FailedFor(u, k)
===============================================================================
