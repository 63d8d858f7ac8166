# ihaletakip-scheduler: TLA+ models, checks and proofs

ihaletakip-scheduler watches public tenders on EKAP for the users of a mobile
app. Three cron jobs read the users' data from Firestore, ask EKAP, and tell
users by a Firestore notification document plus an FCM push, remembering in
Redis what was done. This directory holds TLA+ models of that behaviour, the
TLC runs that check them, and TLAPS proofs about the dispatcher, the three jobs,
event detection, the EKAP client and the service that runs the jobs.

Paths and line numbers below are relative to the repository's source tree
(`src/` in `PROJECT.json`).

## 1. The system

| Component | State it keeps | Operations | What makes it correct |
|---|---|---|---|
| Dispatcher `app/notifications/dispatcher.py` | none of its own; Redis `idem:*`, Firestore notifications, FCM | `dispatch(uid, token, payload, idem_key)` | one document per key; no push without document; tokens cleared only when dead; return means served |
| AlarmJob `app/jobs/alarm_job.py` | Redis `tender_state`, `alarm_completed`; local variables of a run | daily run: load users, gather alarms, per tender get/fetch/compare/save/notify | each due subscriber told once; no false or lost event; a run ends |
| SavedFilterJob `app/jobs/saved_filter_job.py` | Redis `notified_tenders` | daily run: group filters by fingerprint, search once per group, notify every member | each match told, once per filter, and only what the user's own filter asks for |
| InterestJob `app/jobs/interest_job.py` | Redis `interest_notified`, `interest_daily` | hourly run: cap, merged search, exclude, choose, dispatch, mark, count | daily cap; no repeat within the dedup time; no registered tender; a result of the user's own search |
| Grouping and merging `app/dedup/grouper.py`, `_merge_filters` | none | pure functions on filters | equal fingerprints mean equal searches; the merged search covers the filters |
| RedisStateStore `app/state` | the keys above with their TTLs, under `allkeys-lru` | get/set/mark/incr | what it answers was true once, and is lost only by expiry or eviction |
| Firestore repository `app/firebase/firestore_repo.py` | users, alarms, savedFilters, savedTenders, notifications | reads by collection; `clear_fcm_token`, `mark_alarm_completed`, `write_notification` | single-document writes |
| FcmSender `app/firebase/fcm.py` | none | `send` | tells a dead token from other errors |
| EkapClient and retry policy `app/ekap/client.py`, `app/http/retry.py` | semaphore, requests under way | `_post` | no slot lost; every attempt paid for; all attempts made; every request ends |
| Token bucket `app/http/rate_limiter.py` | `_tokens`, `_updated_at` | `acquire` | no more than a full bucket and the rate |
| Scheduler `app/scheduler`, `app/main.py`, `app/jobs/base.py` | cron triggers, tasks of the runs | start, end and cancel runs | one instance per job (`max_instances=1`); one failing run hurts no other |
| Metrics `app/utils/metrics.py` | counters of a run | `attach_metrics`, the counters | counts go to the run they belong to |
| EKAP models, dates, templates | none | pure functions | see sections 2 and 5 |

**Interaction.** Each run is one coroutine; the jobs share one `Dispatcher`, one
`EkapClient` and one Redis connection, and interleave at every `await`. The alarm
and interest jobs start together at 09:00, the saved-filter and interest jobs at
10:00. The app changes Firestore at any time; `scripts/run_once.py` is a second
process with the same stores and a bucket of its own. All Firestore and FCM calls
run in threads (`asyncio.to_thread`), so that a call may take effect although its
caller never learns of it.

**What is hard here.** Check-then-act across awaits (idempotency, cap,
exclusions, marks, tokens); swallowed failures that look like success; crashes
and cancellation between a notification and its record; entries that expire or
are evicted while still needed; keys that identify too little (no user) or too
much (the date); one search made for several users; zero treated as absent; a
date read once for a long run; sleepers that compete for the same tokens and
sleep with a slot in hand; one object through which overlapping runs count. The
hazards are listed one by one in `PROJECT.json`.

## 2. The modules

```
IdempotentDelivery            what a dispatcher promises
      ^  implemented by (proved and checked)
Dispatcher                    dispatch, the stores, crashes, tokens
      ^ EXTENDS       ^ EXTENDS        ^ EXTENDS      ^ EXTENDS
AlarmJob        SavedFilterJob     InterestJob      Service
      | EXTENDS        | EXTENDS        | EXTENDS
TenderEvents           FilterQueries  <-+
      ^ EXTENDS
TenderHistory

Pacing                        what a token bucket promises
      ^  implemented by (proved and checked)      ^ EXTENDS
EkapClient                    _post, bucket, slots   PacedRate

Dispatcher_proofs             the theorems about dispatch, extended by
  AlarmJob_proofs, SavedFilterJob_proofs, InterestJob_proofs, Service_proofs
TenderHistory_proofs, EkapClient_proofs, PacedRate
                              the other theorems
MC_*                          instances for TLC
```

### Dispatcher

`frame[j]` is the call the caller `j` has in progress; `frame[j].at` names the
await it stands before: `exists` (line 38), `write` (45), `push` (60), `clear`
(64), `record` (73), or `over`. One action per outcome of each await:

| Await | Succeeds | Fails |
|---|---|---|
| `idempotency_exists` | `SkipRecorded`, `FindUnrecorded` | `CheckRaises` |
| `write_notification` | `WriteDoc` | `WriteFails`, `WriteUnacknowledged` (committed, answer lost) |
| `fcm.send` | `PushAccepted`, `PushRejected` (dead token) | `PushFails` (before or after FCM took it) |
| `clear_fcm_token` | `ClearToken` | `ClearToken`, leaving the field: line 65 swallows the error |
| `add_idempotency` | `Record` | `RecordRaises` (before or after the key was set) |

`Crash(js)` ends the calls of a dying process or of a scheduler that is shut
down. A write that a thread finishes after that is the order `WriteDoc`, `Crash`.
`Forget` is the seven-day TTL and the eviction policy of docker-compose.yml.
`Register` and `Uninstall` are the app. A registered token need not be one FCM takes:
`FcmSender.send` answers a token of another sender (`SenderIdMismatch`) or a malformed
one (`ValueError`, fcm.py:58-61) as it answers a dead one, so `Register` leaves open
whether the new token is live.

A key stands for its payload: the templates add nothing the properties could
tell apart. `Callers[k]` says who builds key `k`, `Addressees[k]` whom it may be
dispatched to. History variables: `slips[k]` counts the documents under `k` that
the store does not vouch for (push or record failed, crash in between, answer
lost, entry gone), `failed` the pairs a dispatch failed for.

`IdempotentDelivery` says the same without awaits: a document may be shown under
a key only while none is standing, and only a standing document can be recorded.
`Delivery == INSTANCE IdempotentDelivery WITH ...` is the refinement mapping.

### TenderEvents and TenderHistory

`TenderEvents` holds the pure parts of the alarm job: `FromApiResponse`
(`app/ekap/models.py:40`), `Snapshot` (the round trip through the Redis hash),
`IsCompleted`, `DetectEvents`. Python's `or` is `Or`, which treats 0 as absent. A
status id of 0 is kept by the code and the model alike once it is text. An
answer gives each field at top level, in `ihaleBilgi`, or not at all.

`TenderHistory` puts one tender through any sequence of published answers,
observations by runs, and evictions of the snapshot. It has no notifications: it
asks what detection makes of what EKAP said.

### The three jobs

Each extends `Dispatcher` with one caller. `job` holds the run's local variables
and `job.pc` the await it stands at; code between two awaits belongs to the
action of the first. `pc = "calling"` is the await of `dispatch`, during which the
actions of Dispatcher step; when the call is over the job takes its outcome,
returned or raised, and `Resume` clears the frame.

* **AlarmJob.** `job.duties` is what the body of the subscriber loop still has to
  dispatch for the current subscriber, `owed` the pairs of user and key it
  reached and did not give up. `TenderFails` is the except clause of line 159; the
  two writes to Redis (117, 149) may take effect and then raise.
* **SavedFilterJob.** `job.found` are the filters in the order they were gathered,
  `job.todo` the positions of those in no group yet, `job.group` the positions of
  those still to be dealt with in the group at hand; `NextGroup` takes the first of
  `job.todo` and all that have its fingerprint, which is
  `group_filters_by_fingerprint`; `Search` makes the
  search of the first member with today's notice date (line 67) and takes up to
  `PageSize` of the hits in any order; `ReadSeen`, `PassOver`, `DispatchMatch`,
  `Mark` and `NextMember` are the two inner loops; `GroupFails` and
  `DispatchRaised` are the except clause of line 93, which gives up the rest of
  the group.
* **InterestJob.** Time is counted in slots, `SlotsPerDay` of them a day;
  `unmarked` and `uncounted` are the marks and counts that a failure or an
  eviction ate, and `shownAt` the time of the last document on a tender. `Mark`
  gives the whole set of a user a new expiry, as EXPIRE does; its failure may
  fall before SADD (`UserFails`), between SADD and EXPIRE (`MarkHalfDone`), or after
  both with the answer lost (`MarkUnacknowledged`). `alarms[u][i]` is the user's alarm
  document on a tender: absent, or with its IKN (`named`), or without (`unnamed`), as
  `tenderIkn` is optional and `mark_alarm_completed` creates documents that have
  nothing but their completed flag. `get_user_alarm_ikns` takes the document's id for
  the IKN then, which is a tender id, so `AlarmIkns` has the named ones only. `late`
  is what the user at hand registered, and in which collection, after the run had
  read that collection. A search is the user's merged filter with the open
  statuses, its result is kept in the run's cache under that filter.

Abstractions: an early `return` over an empty set of users is a loop over
nobody; the order in which users, filters and tenders are taken is arbitrary (in
the code it is that of Firestore's or EKAP's answer); an alarm document is
identified by user and tender id (as `scripts/seed_test_data.py:72` writes them);
EKAP answers or raises, whatever retries that took; results without IKN are left
out of the pools.

All three state `LawfulCaller == DispatchSpec`: to its dispatcher the job
behaves as one of the callers `Dispatcher` allows, so what is proved there holds
under the jobs.

### FilterQueries

A filter is a function from search fields to sets of terms, the empty set being
a field that is absent; a tender has terms too, and EKAP lists it if it has a
term of every field asked for. `Fingerprint` is what `filter_fingerprint` hashes,
`NoticesOf` the body of the saved-filter search, `MergeFilters` and `OpenSearch`
those of the interest job. Left out: the fields that say how to search rather
than what for, and the order of a list (two filters that list the same values in
another order get two groups in the code and one here, which makes the model the
harder case).

### EkapClient, Pacing and PacedRate

`call[c]` is the request a coroutine has in progress, `call[c].at` the await of
`_post` it stands at:

| `at` | Code | Actions |
|---|---|---|
| `acquire` | `self._rate.acquire()`, client.py:101; its sleep at rate_limiter.py:34 | `Take`, `Wait` |
| `queue` | `async with self._sem`, client.py:102 | `Enter` |
| `jitter` | `jitter_sleep` | `Post` |
| `post` | the HTTP request | `Answer`, `Break` (transport error or timeout), `Busy` (429, 5xx) |
| `cool` | the sleep of Retry-After, inside the semaphore | `Leave` |
| `backoff` | tenacity's wait | `Attempt` |

Every sleep is a timer that `Tick` counts down. The bucket keeps `_tokens` at its
last refill and the time since (`age`); `Refilled` is `_refill`. Amounts are whole
parts of a token (`Cost` parts each), so that a rate of less than a token per unit
of time is a whole number. The check of the bucket and the payment are one step:
nothing is awaited between them under the lock. `Restart` is a new process.

`Pacing` is the bucket without laziness: an allowance that time fills and a grant
empties. `PacedRate` counts its grants.

### Service

`Service` is the process: `Begin` is a cron time that comes (`OneInstance` is
`max_instances=1`), with what a run does before its first await: `BaseJob.run`
makes a fresh `JobMetrics` and the job attaches it to the dispatcher and the client
that all jobs share. Of a run the module keeps what all jobs have in common: the
tokens, read once at its start (`Load`), requests (`Ask`, `Answered`), dispatches with
the tokens as they were then (`Tell`, `DispatchStep`, `DispatchReturned`, `DispatchRaised`), items that fail
(`ItemFails`), and the ways a run ends (`Finish`, `RunFails`, `Stop`). `Boot` starts
the next process. Counters that code reaches through the shared object go to
`metrics[attached]`, those of a job's own except clause to `metrics[j]`.
Triggers that APScheduler drops or coalesces are runs that do not begin.

## 3. The runs

Passing runs, with two workers:

| Run | Instance | Distinct states | What it shows |
|---|---|---|---|
| `dispatcher` | the service's alarm job and `run_once.py alarm --dry-run` beside it, one key that both build and one that the first builds alone, 1 user with 2 tokens, 1 slip per key | 380 k | types, `OncePerCaller`, `Accounting` of the second key, `PushFollowsDocument`, `ReturnMeansServed`, `LiveTokenClearedOnlyInRace`, refinement of IdempotentDelivery, `CallsEnd` |
| `tender_history` | 96 answers: status missing, open, completed; description missing, open, completed; count missing, 0, 1, 2; at either place | 80 k | `NoFalseChange`, `CountedChangeReported`, `CompletionAnnounced` |
| `alarm_job` | 1 user, 1 tender, reminder and completion, 2 days, one fault | 219 k | `DutyServed`, `NoCompletedAfterMark`, `LawfulCaller` |
| `alarm_job_users` | 2 users, document change, dry run, any number of failures | 226 k | `DutyServed` with a key that names no user, `RunEnds` |
| `saved_filter_job` | 2 users with filters of equal or different fingerprint, 2 tenders, 2 days, one failed dispatch, marks and keys that are lost | 676 k | `MatchServed`, `NoneAfterMark`, `FitsOwnFilter`, `LawfulCaller` |
| `interest_job` | 1 user, 2 tenders, cap 1, 3 slots in 2 days, one fault | 492 k | `CapKept`, `RepeatOnlyUnmarked` |
| `interest_job_users` | 3 users, two with equal searches and one whose search differs in the text only, 1 tender, 1 slot, one fault; one user registers tenders at any time | 626 k | types, `LawfulCaller`, `FitsOwnSearch`, `RegisteredLeftOut` |
| `ekap_client` | 3 coroutines, 2 slots, a bucket of 2 tokens, half a token per unit of time, jitter 0 or 1, Retry-After 0 or 2, 2 attempts | 229 k | `SlotsKept`, `PaidOnce`, `GivesUpLast`, refinement of Pacing, `RequestsEnd` |
| `service` | 2 jobs with keys of their own, one item a run, one fault, stops and boots | 364 k | types with at most one run of a job and none that outlives its process, `AloneMeansExact`, `RunsEnd` |

Runs that find a property violated, each a disagreement of the code with what it
says of itself (quoted under "findings"):

| Run | Violated | How |
|---|---|---|
| `tender_history_zero` | `EveryChangeReported` | a document count of 0 reads as absent |
| `alarm_job_shared` | `EverySubscriberServed` | reminder and document-change keys name no user: only one subscriber is told |
| `saved_filter_dates` | `ToldMatchesFilter` | filters that differ in the tender date share a fingerprint, but the job overrides only the notice date: the second user is told by the first one's dates |

For each there is a passing counterpart that says how far the promise does hold:
`CountedChangeReported` for `EveryChangeReported`, `DutyServed` for
`EverySubscriberServed`, `FitsOwnFilter` (every field but the tender date) for `ToldMatchesFilter`.

**What the properties do not promise.** Each weakening in a passing property
marks something the code does, and that a reader of the code should know:

* `Accounting` and `DeliverySpec` speak of the keys that one caller builds (`Sole`).
  `run_once.py` beside the service builds some a second time: both may pass the
  check of line 38 before either records, and two documents appear although
  nothing failed; a third does not, without a slip (`OncePerCaller`).
* `LiveTokenClearedOnlyInRace`: the token the app registers while its rejected
  predecessor is being cleared (line 64) is cleared with it.
* `DutyServed` and `MatchServed` allow for a failed dispatch: `dispatch` swallows
  failures, and the job marks the completion for a year, or the match for ninety
  days, as if it had been told: a user whose document could not be written (line
  50) is not told later either.
* `CompletionAnnounced` allows for a run that found the tender completed and broke
  off after the snapshot was saved (alarm_job.py:117) and before anybody was told:
  the next run compares with that snapshot, and the completion is used up.
* `RegisteredLeftOut` allows for what is registered in a collection after the run has
  read it, up to the write of the document, and speaks of alarms that name their
  IKN: one without `tenderIkn` excludes its document id (firestore_repo.py:170), and
  its tender is suggested.
* `RepeatOnlyUnmarked`: if the mark is missed, the same tender is suggested again
  the next day, because the key holds the date. `CapKept` likewise allows for
  counts that a failure or an eviction ate.
* `FitsOwnSearch` is about the search that is made, not about the user's filters:
  the merged search is the union of each field, so that a filter that leaves a
  field open is narrowed by another that fills it, and of several texts only the
  first is asked for (`MergeAsked` and `MergeCovers` say what is left).
* `AloneMeansExact` speaks of runs that overlapped with no other: at 09:00 and
  10:00 `attach_metrics` of the later run takes the counts of the earlier one.
* `MatchServed` speaks of what a run reaches. A tender beyond the page of 50, or
  published after the run of its day, or on a day whose trigger was missed by
  more than the grace time, is never found: the search asks for today only.
* `DutyServed` takes the date a run read at its start, which a run that crosses
  midnight keeps; and `FlagAlarm` brings back an alarm document that the user has
  deleted meanwhile (`mark_alarm_completed` merges). No document of the
  repository says what should happen.

**Bounds.** `MaxToken` bounds registrations (two are needed for a call to be
overtaken), `MaxSlips` slips per key (one suffices for a second document; a third
adds no new relation between the counters), `MaxDay` and `MaxNow` the calendar (one
midnight; one expiry of the dedup time), `MaxItems` the requests and dispatches of
a run of Service (one each way to count is enough for a count to go astray),
`MaxRequests` the requests of a client between two restarts (one, besides the
retries: a client that has ended starts as a fresh one does). `PageSize` is 2, the
number of tenders there are. `MaxAttempts` is 2 instead of 5: one retry and one
giving up; `AllAttemptsSent` proves the rest.

Constraints. `OneFault` limits the job runs and `service` to one failed dispatch or
slip, `OneLoss` the interest job to one missed mark or count: each run of a job
resumes from its stores alone, so faults meet only through those. `PhonesUntouched`
freezes tokens in dry runs, where nothing reads them after the users are loaded. `NoEdits`
freezes registered tenders in `interest_job`, which is about marks and counts;
in `interest_job_users` `OnlyFirst` lets one user register and drop tenders, at any
time. In `saved_filter_job`, `NewsBetweenRuns` lets filters and tenders change only between
runs (a run reads each once), `OnlyU2Edits` lets the second user alone change
between the two filters, `U1Eligible` lets the users a run finds be both or the
first. `KeysKept` leaves out expiry in `service`, which changes no count beyond
what the first dispatch of a key does. No symmetry is used. Deadlock is checked in
every run.

**Fairness.** Four specifications have any. `DispatchFairSpec` has weak fairness of
`Progress(j)` for each caller, `AlarmFairSpec` of the run's own steps,
`ServiceFairSpec` of `RunStep(j)`: a coroutine whose await is answered is resumed by
the event loop, and the clients of Redis, Firestore, EKAP and FCM answer or time
out. `ClientFairSpec` has weak fairness of `Tick` and of each client's `Step`: time
passes, and a sleeper that is due is run. Which of several waiters gets a token is
left open; `RequestsEnd` therefore needs that the others make finitely many
requests, as the runs of the jobs do. Nothing is assumed of failures, crashes, the
app, cron times, or the start of runs.

## 4. The proofs

Dispatcher_proofs, for any users, callers, keys and bounds that satisfy
`DispatcherAssumption`:

| Theorem | Statement |
|---|---|
| `TypeCorrect` | `DispatchSpec => []TypeOK` |
| `Accounted` | `DispatchSpec => []Accounting` |
| `Implements` | `DispatchSpec => DeliverySpec` |
| `RaceIsBounded` | `DispatchSpec => []OncePerCaller` |
| `ClearsDeadTokens` | `DispatchSpec => LiveTokenClearedOnlyInRace` |
| `PushesFollow` | `DispatchSpec => []PushFollowsDocument` |
| `ReturnsServe` | `DispatchSpec => []ReturnMeansServed` |

`Accounting` and `DeliverySpec` are about the keys in `Sole`, which one caller
builds. The scheduler's `max_instances=1` and the prefixes of the keys put all keys
of one service there; a `run_once.py` beside it takes those of its job out, and does
not disturb the others. `RaceIsBounded` says what is left of idempotency for the
keys it takes out, and for a sole caller it says at most one document a slip.

`Accounting` is not inductive: what the check of line 38 found must be remembered
across the awaits. The inductive invariant `Ledger` adds `Owned` (a call is made by
a caller of its key) and `Unrecorded` (from the check on the key stays out of
Redis), both for sole keys. The argument: `SoleCall` - no other call is under way
under the key of a sole caller's call - so `CallMoves` - the call alone decides
whether its key is in flight; calls of other keys do not touch the books of these
(`SharedCall`); `Balance` turns that into one equation per action; `Crash` and `Forget`
are done directly. The refinement uses `Ledger` to show that each action maps to
one step of `IdempotentDelivery` or to a stutter.

`RaceIsBounded` counts the callers of a key that may still write before the next
slip (`ToCome`): all that hold no document of theirs while the key is unrecorded, and
once it is recorded those that passed the check before. Each write takes one of them
away, a slip brings back at most one per caller, and the documents and `ToCome`
together stay within the bound (`RaceBound`). It rests on `Telling` (below).

`ClearsDeadTokens` rests on two facts of the calls under way: a call carries a token
issued before it (`Issued`), and a token that FCM rejected stays rejected. So a live
token that is cleared is newer than the call's.

`PushesFollow` and `ReturnsServe` come from one invariant `Telling`: a call is made
to an addressee of its key (`Addressed`), whoever is past the write has a document
in the inbox (`WrittenHas`), and a recorded key has a document of one of its
addressees (`RecordedHas`). The inboxes only grow, which carries all three through
crashes, expiry and the steps of other callers.

**The jobs.** AlarmJob_proofs, SavedFilterJob_proofs and InterestJob_proofs hold for
any users, tenders, answers, filters, cap, dedup time and calendar that satisfy the
assumption of the module. `Dispatch` (end of Dispatcher_proofs) is all that is known
of a dispatcher under lawful callers; each job then has the invariant

    Standing == Dispatch /\ <the type invariant> /\ Course

where `Course` says what the local variables of a run mean at each await: what is
gathered or loaded so far, and that the call in progress is for the user, tender and
kind at hand (`OnCall`). `StepLawful` uses `Standing` to show that every step of the
job is one that Dispatcher allows, `DispatchKeeps` that `Dispatch` goes through it.
The jobs have one caller, so here `Sole` is all of `Keys` (`OneCaller`).

| Theorem | Statement | Added to `Standing` |
|---|---|---|
| `AlarmTyped`, `SavedTyped`, `InterestTyped` | `[]` of the type invariants | |
| `AlarmLawful`, `SavedLawful`, `InterestLawful` | the job `=> LawfulCaller` | |
| `AlarmDelivers`, `SavedDelivers`, `InterestDelivers` | the job `=> DeliverySpec /\ []Accounting` | |
| `MarkedNotTold` | `AlarmSpec => NoCompletedAfterMark` | in `Course`: the completion is the last duty (`CompletedLast`), so that it is dispatched right after its mark was looked up |
| `DutiesServed` | `AlarmSpec => []DutyServed` | `Facts`: a marked completion, a completion being marked, and an owed pair that is no longer pending are `Done` |
| `MarksHold` | `SavedSpec => NoneAfterMark` | in `Course`: what is marked for the member and still to be looked at was seen marked (`LeftOver`) |
| `OwnFilterFits` | `SavedSpec => FitsOwnFilter` | in `Course`: the page fits every member still in the group (`Grouped`), by `GroupSearchFits` |
| `MatchesServed` | `SavedSpec => []MatchServed` | `Facts`: marks, what was seen marked and what the run is past are `Done` |
| `OwnSearchFits` | `InterestSpec => FitsOwnSearch` | in `Course`: every cached result answers the query it is cached under (`Fitting`) |
| `ShownWasAsked` | a suggestion is an open tender with, in each list field that some filter of the user fills, a term that some filter asks for | `OwnSearchFits` and `MergeAsked` |
| `CapHolds` | `InterestSpec => []CapKept` | `Capped`: the counted tenders are finitely many; and in `Course`: beyond the check the user is below the cap |
| `RepeatsAreUnmarked` | `InterestSpec => RepeatOnlyUnmarked` | `Spaced`: what was shown within the dedup time is marked until that time is over, or is being marked, or its mark was missed or lost |
| `RegistrationsHold` | `InterestSpec => RegisteredLeftOut` | `LeftOut`: what is registered in a collection that the run has read is among the exclusions or in `late`, and so is the candidate once it is chosen |

`RegistrationsHold` is about savedTenders and the alarms that name their IKN, and what
it leaves out is `late`: whoever registers a tender after the run has read that
collection and before the document is written may be told of it. `ShownWasAsked` is what the merged search leaves of "suggested by the
user's filters".

The operators: `GroupSearchExact` (if two filters have equal fingerprints and equal
tender dates, their searches match the same tenders), `GroupSearchFits` (with equal
fingerprints alone, what one search matches fits the other but for the tender date),
`MergeCovers` (a tender that fits one of the user's filters in the list fields fits
the merged search there, provided that this filter asks for something wherever any of
them does) and `MergeAsked` (what the merged search lists has, in each list field
that some filter fills, a term that some filter asks for).

**TenderHistory_proofs**, for any set of answers, whatever fields they state where:

| Theorem | Statement |
|---|---|
| `HistoryTyped` | `HistorySpec => []HistoryTypeOK` |
| `CompletionsAnnounced` | `HistorySpec => []CompletionAnnounced` |
| `ReportsAreTrue` | `ZeroStandsAlone => (HistorySpec => NoFalseChange)` |
| `ChangesAreReported` | `HistorySpec => CountedChangeReported` |

The invariant `History` adds that the snapshot is that of the answer seen last
(`SnapshotOfSeen`), so that a comparison with it is one of two answers. `ZeroStandsAlone`
says that no answer states a zero at its top level and another count below, where
`or` would take the lower one: every answer with one place per field satisfies it.

**Service_proofs**, for any jobs and bounds. `ServiceDelivers` says that a
service with any number of jobs, runs, stops and boots implements
`IdempotentDelivery` under the keys of one job each, and keeps `Accounting` and
`OncePerCaller`. It needs that a step of the service is one
that Dispatcher allows (`ServiceRefines`), and that the tokens a run has read were
issued, though they may be old by the time it sends (`Loaded`). `ServiceTyped` and `SummariesExact`
(`ServiceSpec => []AloneMeansExact`) come from the invariant `Summaries`: a call is
under way only in a run that waits for it (`Waiting`); whoever runs counts with its
own metrics or with those of a run it overlapped with (`Attachment`); and the numbers
of a run without overlap agree but for an outcome that dispatch has counted and the
run has not taken yet (`Exact`). `Budget` is the bound on the items of a run.

EkapClient_proofs, for any clients, capacity, rate, jitters, Retry-After values
and numbers of attempts that satisfy `ClientAssumption`:

| Theorem | Statement | Argument |
|---|---|---|
| `BucketPaces` | `ClientSpec => PacedRequests` | `Refilled` is the allowance: `Take` is a grant, `Tick` is time, `Wait` a stutter since a refill that notes its time changes nothing; `age` may stop at `FullAge`, when the bucket is full |
| `SlotsAccounted` | `ClientSpec => []SlotsKept` | the holders are a finite set that `Enter` enlarges and `Release` reduces by the one caller |
| `EveryAttemptPays` | `ClientSpec => []PaidOnce` | each place has its difference between paid and sent |
| `ClientTyped` | `ClientSpec => []ClientTypeOK` | the invariants of the other rows and `TimersOK`: of the backoff, an exponential, only that `BackoffMax` caps it |
| `AllAttemptsSent` | `ClientSpec => []GivesUpLast` | the attempts sent are the number of the attempt, from the request on |

The lemma `RequestsAccounted` carries slots, payments and attempts as one inductive
invariant.

PacedRate: `RateBound` - in any time, from any moment on, the requests granted cost
no more than a full bucket per process and the rate. Together with `BucketPaces`
this is what `ekap_rate_per_min` means for EKAP. A `run_once.py` beside the service
is a second process with a bucket of its own, and doubles it.

**Only model-checked.** Liveness (`CallsEnd`, `RunEnds`, `RequestsEnd`, `RunsEnd`),
which is out of the prover's reach, as are `ENABLED` and induction over data; and the
violations, which are counterexamples. Every invariant, every action property
and every refinement of a passing run has a theorem; the runs show that what the
theorems speak of happens.

## 5. Not modelled

* Request signing (`app/ekap/crypto.py`): a pure byte transformation without state,
  covered by the repository's parity tests. HTTP session, logging, configuration,
  Firebase initialisation: plumbing; the settings that matter are constants.
* Wording of templates, links and deep links, and the parsing of EKAP's date texts:
  a notification is its kind, tender and date.
* `scripts/seed_test_data.py` and `send_push.py`: manual tools. `run_once.py` is a
  caller in a process of its own, which `Callers` may give a key.
* The Turkish lower-casing of status descriptions (`alarm_job.py:38`: "İptal" does
  not lower to "iptal") is inside the constant `Concluding`.
* Rounding of the bucket's floats, and the order of a list inside a fingerprint.
* `users`, `unique_tenders`, `retries` and the duration of a run's summary: values
  of a log line that nothing is compared with; `rate_waits` is never written.
* Cron times and the misfire grace: a trigger that is dropped is a run that does
  not begin, so no property says that a run happens on a day.

## 6. Plan

Done: every component above, each at the await; the abstract dispatcher and the
abstract bucket with their refinements; the service around the jobs.

Next theorems: that a failed pair of `MatchServed` and `DutyServed` belongs to a
dispatch of that run; `PacedRate` for several processes; the safety part of the
liveness properties (a caller that has not ended has a step of its own to take).

Next in the models: the three jobs themselves as the runs of Service, instead of
what they have in common; larger pages than results and results than pages; a
calendar for cron times, once there is a statement of which days must be served.
