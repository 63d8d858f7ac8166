---------------------------- MODULE Service_proofs ----------------------------
(***************************************************************************)
(* Proofs about Service: the runs of any number of jobs, started, stopped  *)
(* and restarted at any time, are lawful callers of dispatch, and so all   *)
(* that is proved about DispatchSpec holds in the service; and what a run  *)
(* writes in its summary is right while no other run overlaps with it.     *)
(***************************************************************************)
EXTENDS Service, Dispatcher_proofs

USE DispatcherAssumption DEF NoToken, Places

(* The tokens a run has read were issued, though they may be old by now.   *)
Loaded ==
  /\ loaded \in [Jobs -> [Users -> Tokens]]
  /\ \A j \in Jobs, u \in Users :
       loaded[j][u] # NoToken => loaded[j][u] \in 1 .. issued[u]

(* Every step of the service is a step of dispatch or leaves it alone. *)
LEMMA ServiceStepLawful ==
  ASSUME Loaded, [ServiceNext]_serviceVars
  PROVE  [DispatchNext]_dispatchVars
<1>1. ASSUME NEW j \in Jobs, Tell(j) PROVE DispatchNext
  <2>1. PICK k \in KeysOf(j) : \E u \in Addressees[k] :
               loaded[j][u] # NoToken /\ Call(j, u, loaded[j][u], k)
    BY <1>1 DEF Tell
  <2>2. PICK u \in Addressees[k] : loaded[j][u] # NoToken /\ Call(j, u, loaded[j][u], k)
    BY <2>1
  <2>3. k \in Keys /\ j \in Callers[k] /\ u \in Users
    BY <2>2 DEF KeysOf
  <2>4. loaded[j][u] \in 1 .. issued[u]
    BY <2>2, <2>3 DEF Loaded
  <2> QED
    BY <2>2, <2>3, <2>4 DEF DispatchNext
<1>2. ASSUME NEW j \in Jobs, DispatchStep(j) PROVE DispatchNext
  BY <1>2 DEF DispatchStep, DispatchNext, Progress, Failure
<1>3. ASSUME NEW j \in Jobs, DispatchReturned(j) \/ DispatchRaised(j)
      PROVE  DispatchNext
  BY <1>3 DEF DispatchReturned, DispatchRaised, DispatchNext
<1>4. ASSUME NEW j \in Jobs,
             \/ Begin(j) \/ Load(j) \/ Ask(j) \/ Answered(j) \/ ItemFails(j) \/ RunFails(j)
             \/ Finish(j) \/ Boot
      PROVE  UNCHANGED dispatchVars
  BY <1>4 DEF Begin, Load, Ask, Answered, ItemFails, RunFails, Finish, Boot
<1>5. ASSUME Stop PROVE [DispatchNext]_dispatchVars
  BY <1>5 DEF Stop, DispatchNext
<1>6. CASE Environment
  BY <1>6 DEF DispatchNext
<1>7. CASE UNCHANGED serviceVars
  BY <1>7 DEF serviceVars
<1>8. CASE Boot
  BY <1>8 DEF Boot
<1> QED
  BY <1>1, <1>2, <1>3, <1>4, <1>5, <1>6, <1>7, <1>8 DEF ServiceNext, RunStep

LEMMA LoadedStep ==
  ASSUME Lawful, Loaded, [ServiceNext]_serviceVars
  PROVE  Loaded' /\ Lawful' /\ [DispatchNext]_dispatchVars
<1>1. [DispatchNext]_dispatchVars
  BY ServiceStepLawful
<1>2. Lawful'
  BY <1>1, StoredIssuedStep, MintedNext DEF Lawful
<1>3. TypeOK /\ \A u \in Users : \A t \in 1 .. issued[u] : t \in 1 .. issued'[u]
  BY <1>1, IssuedGrows DEF Lawful, Minted
<1>4. ASSUME UNCHANGED loaded PROVE Loaded'
  <2>1. loaded' = loaded /\ loaded \in [Jobs -> [Users -> Tokens]]
    BY <1>4 DEF Loaded
  <2>2. ASSUME NEW j \in Jobs, NEW u \in Users, loaded[j][u] # NoToken
        PROVE  loaded[j][u] \in 1 .. issued'[u]
    <3>1. loaded[j][u] \in 1 .. issued[u]
      BY <2>2 DEF Loaded
    <3> QED
      BY <1>3, <3>1
  <2> QED
    BY <2>1, <2>2 DEF Loaded
<1>5. ASSUME NEW j \in Jobs, Load(j) PROVE Loaded'
  <2>1. loaded' = [loaded EXCEPT ![j] = stored] /\ issued' = issued
    BY <1>5 DEF Load, dispatchVars, tokenVars
  <2>2. /\ stored \in [Users -> Tokens]
        /\ \A u \in Users : stored[u] # NoToken => stored[u] \in 1 .. issued[u]
    BY <1>3, StoredToken DEF TypeOK
  <2> QED
    BY <2>1, <2>2 DEF Loaded
<1>6. UNCHANGED loaded \/ \E j \in Jobs : Load(j)
  BY DEF ServiceNext, RunStep, Begin, Ask, Answered, Tell, DispatchStep,
     DispatchReturned, DispatchRaised, ItemFails, RunFails, Finish, Stop, Boot,
     runVars, serviceVars
<1> QED
  BY <1>1, <1>2, <1>4, <1>5, <1>6

LEMMA LoadedInit == ServiceInit => DispatchInit /\ Lawful /\ Loaded
<1>1. ServiceInit => Lawful
  BY MintedInit DEF ServiceInit, Lawful, StoredIssued, DispatchInit
<1>2. ServiceInit => Loaded
  BY DEF ServiceInit, Loaded, Tokens
<1> QED
  BY <1>1, <1>2 DEF ServiceInit

(* Lawful callers of dispatch is what the runs are together, whenever they *)
(* start, overlap and fail, and at whatever await they are stopped.        *)
LEMMA ServiceRefines == ServiceSpec => DispatchSpec
BY LoadedInit, LoadedStep, PTL DEF ServiceSpec, DispatchSpec

(* So the service delivers as IdempotentDelivery says under the keys that  *)
(* one of its jobs builds alone, and under any key its jobs tell a thing   *)
(* once each, but for slips.                                               *)
THEOREM ServiceDelivers ==
  ServiceSpec => DeliverySpec /\ []Accounting /\ []OncePerCaller
BY Implements, Accounted, RaceIsBounded, ServiceRefines
-------------------------------------------------------------------------------
(* The summaries.  A run that waits for a dispatch has its frame; a run    *)
(* that goes on has none in progress.                                      *)
Waiting ==
  \A j \in Jobs :
    IF run[j] = "calling"
    THEN \/ InCall(j) /\ frame[j].end = "none"
         \/ ~InCall(j) /\ frame[j].end \in {"returned", "raised"}
    ELSE ~InCall(j)

(* Whoever runs counts with its own metrics, or with those of a run that   *)
(* overlapped with it; and a run without overlap counts with its own.      *)
Attachment ==
  /\ \A h \in Jobs : Running(h) => attached = h \/ ~alone[attached]
  /\ \A j \in Jobs : alone[j] /\ Running(j) => attached = j

(* The outcome of a dispatch is counted when it returns, and tallied when  *)
(* its run goes on.                                                        *)
Outcomes(j)  == metrics[j].sent + metrics[j].skipped + metrics[j].failures
Untallied(j) == IF run[j] = "calling" /\ frame[j].end = "returned" THEN 1 ELSE 0

Exact(j) ==
  /\ metrics[j].requests = tally[j].requests
  /\ Outcomes(j) = tally[j].calls + tally[j].errors + Untallied(j)

RunTyped ==
  /\ proc \in {"up", "down"}
  /\ run \in [Jobs -> Places]
  /\ left \in [Jobs -> 0 .. MaxItems]
  /\ metrics \in [Jobs -> [requests : Nat, sent : Nat, skipped : Nat, failures : Nat]]
  /\ attached \in Jobs
  /\ alone \in [Jobs -> BOOLEAN]
  /\ tally \in [Jobs -> [requests : Nat, calls : Nat, errors : Nat]]
  /\ \A j \in Jobs : InCall(j) => run[j] = "calling"

Summaries ==
  /\ RunTyped
  /\ Waiting
  /\ Attachment
  /\ \A j \in Jobs : alone[j] => Exact(j)

LEMMA SummariesInit == ServiceInit => Summaries
<1> SUFFICES ASSUME ServiceInit PROVE Summaries
  OBVIOUS
<1> USE DEF ServiceInit, DispatchInit, InCall, NoFrame, Zero, Nothing, Running
<1>1. RunTyped
  BY ServiceAssumption DEF RunTyped
<1>2. Waiting /\ Attachment
  BY DEF Waiting, Attachment
<1>3. ASSUME NEW j \in Jobs PROVE Exact(j)
  BY <1>3 DEF Exact, Outcomes, Untallied
<1> QED
  BY <1>1, <1>2, <1>3 DEF Summaries

(* How a call moves: it goes on and has no outcome yet, or it ends.        *)
LEMMA FrameGoesOn ==
  ASSUME TypeOK, NEW j \in Jobs, InCall(j), NEW place \in Awaits, Goto(j, place)
  PROVE  /\ frame'[j].at = place /\ frame'[j].end = frame[j].end
         /\ \A i \in Jobs \ {j} : frame'[i] = frame[i]
<1>1. frame[j] \in Frames /\ frame \in [Jobs -> Frames \union {NoFrame}]
  BY FrameOfCall DEF TypeOK
<1>2. frame' = [frame EXCEPT ![j] = [frame[j] EXCEPT !.at = place]]
  BY <1>1 DEF Goto
<1> QED
  BY <1>1, <1>2 DEF Frames

LEMMA FrameEnds ==
  ASSUME TypeOK, NEW j \in Jobs, InCall(j), NEW how \in Endings, End(j, how)
  PROVE  /\ frame'[j].at = "over" /\ frame'[j].end = how
         /\ \A i \in Jobs \ {j} : frame'[i] = frame[i]
<1>1. frame[j] \in Frames /\ frame \in [Jobs -> Frames \union {NoFrame}]
  BY FrameOfCall DEF TypeOK
<1>2. frame' = [frame EXCEPT ![j] = [frame[j] EXCEPT !.at = "over", !.end = how]]
  BY <1>1 DEF End
<1> QED
  BY <1>1, <1>2 DEF Frames

(* A step of dispatch counts one outcome exactly when it makes it return.  *)
LEMMA DispatchCounts ==
  ASSUME TypeOK, NEW j \in Jobs, DispatchStep(j)
  PROVE  /\ InCall(j)
         /\ \A i \in Jobs \ {j} : frame'[i] = frame[i]
         /\ \/ InCall(j)' /\ frame'[j].end = frame[j].end /\ UNCHANGED metrics
            \/ ~InCall(j)' /\ frame'[j].end = "raised" /\ UNCHANGED metrics
            \/ /\ ~InCall(j)' /\ frame'[j].end = "returned"
               /\ Shared("sent") \/ Shared("skipped") \/ Shared("failures")
<1> USE DEF InCall, Awaits, Endings
<1>1. CASE SkipRecorded(j) /\ Shared("skipped")
  BY <1>1, FrameEnds DEF SkipRecorded
<1>2. CASE Record(j) /\ Shared("sent")
  BY <1>2, FrameEnds DEF Record
<1>3. CASE (WriteFails(j) \/ WriteUnacknowledged(j) \/ PushFails(j)) /\ Shared("failures")
  BY <1>3, FrameEnds DEF WriteFails, WriteUnacknowledged, PushFails
<1>4. CASE FindUnrecorded(j) /\ UNCHANGED metrics
  BY <1>4, FrameGoesOn DEF FindUnrecorded
<1>5. CASE WriteDoc(j) /\ UNCHANGED metrics
  BY <1>5, FrameGoesOn DEF WriteDoc
<1>6. CASE (PushAccepted(j) \/ PushRejected(j) \/ ClearToken(j)) /\ UNCHANGED metrics
  BY <1>6, FrameGoesOn DEF PushAccepted, PushRejected, ClearToken
<1>7. CASE (CheckRaises(j) \/ RecordRaises(j)) /\ UNCHANGED metrics
  BY <1>7, FrameEnds DEF CheckRaises, RecordRaises
<1> QED
  BY <1>1, <1>2, <1>3, <1>4, <1>5, <1>6, <1>7 DEF DispatchStep

(* One more in a column of a run's metrics, or of its tally. *)
Metrics == [requests : Nat, sent : Nat, skipped : Nat, failures : Nat]
Tallies == [requests : Nat, calls : Nat, errors : Nat]

LEMMA OneOutcome ==
  ASSUME metrics \in [Jobs -> Metrics], NEW h \in Jobs,
         NEW column \in {"sent", "skipped", "failures"},
         metrics' = [metrics EXCEPT ![h][column] = @ + 1]
  PROVE  /\ metrics' \in [Jobs -> Metrics]
         /\ \A i \in Jobs \ {h} : metrics'[i] = metrics[i]
         /\ metrics'[h].requests = metrics[h].requests
         /\ Outcomes(h)' = Outcomes(h) + 1
<1>1. metrics[h] \in Metrics
  OBVIOUS
<1>2. CASE column = "sent"
  <2>1. metrics' = [metrics EXCEPT ![h] = [metrics[h] EXCEPT !.sent = metrics[h].sent + 1]]
    BY <1>2
  <2> QED
    BY <1>1, <2>1, SMT DEF Metrics, Outcomes
<1>3. CASE column = "skipped"
  <2>1. metrics' = [metrics EXCEPT ![h] = [metrics[h] EXCEPT !.skipped = metrics[h].skipped + 1]]
    BY <1>3
  <2> QED
    BY <1>1, <2>1, SMT DEF Metrics, Outcomes
<1>4. CASE column = "failures"
  <2>1. metrics' = [metrics EXCEPT ![h] = [metrics[h] EXCEPT !.failures = metrics[h].failures + 1]]
    BY <1>4
  <2> QED
    BY <1>1, <2>1, SMT DEF Metrics, Outcomes
<1> QED
  BY <1>2, <1>3, <1>4

LEMMA OneRequest ==
  ASSUME metrics \in [Jobs -> Metrics], NEW h \in Jobs,
         metrics' = [metrics EXCEPT ![h]["requests"] = @ + 1]
  PROVE  /\ metrics' \in [Jobs -> Metrics]
         /\ \A i \in Jobs \ {h} : metrics'[i] = metrics[i]
         /\ metrics'[h].requests = metrics[h].requests + 1
         /\ Outcomes(h)' = Outcomes(h)
<1>1. metrics' = [metrics EXCEPT ![h] = [metrics[h] EXCEPT !.requests = metrics[h].requests + 1]]
  OBVIOUS
<1> QED
  BY <1>1, SMT DEF Metrics, Outcomes

LEMMA OneTally ==
  ASSUME tally \in [Jobs -> Tallies], NEW j \in Jobs,
         NEW column \in {"requests", "calls", "errors"}, Tally(j, column)
  PROVE  /\ tally' \in [Jobs -> Tallies]
         /\ \A i \in Jobs \ {j} : tally'[i] = tally[i]
         /\ tally'[j].requests
              = tally[j].requests + IF column = "requests" THEN 1 ELSE 0
         /\ tally'[j].calls + tally'[j].errors
              = tally[j].calls + tally[j].errors
                  + IF column = "requests" THEN 0 ELSE 1
<1>1. tally[j] \in Tallies
  OBVIOUS
<1>2. CASE column = "requests"
  <2>1. tally' = [tally EXCEPT ![j] = [tally[j] EXCEPT !.requests = tally[j].requests + 1]]
    BY <1>2 DEF Tally
  <2> QED
    BY <1>1, <1>2, <2>1, SMTT(30) DEF Tallies
<1>3. CASE column = "calls"
  <2>1. tally' = [tally EXCEPT ![j] = [tally[j] EXCEPT !.calls = tally[j].calls + 1]]
    BY <1>3 DEF Tally
  <2> QED
    BY <1>1, <1>3, <2>1, SMTT(30) DEF Tallies
<1>4. CASE column = "errors"
  <2>1. tally' = [tally EXCEPT ![j] = [tally[j] EXCEPT !.errors = tally[j].errors + 1]]
    BY <1>4 DEF Tally
  <2>2. /\ tally'[j] = [tally[j] EXCEPT !.errors = tally[j].errors + 1]
        /\ \A i \in Jobs \ {j} : tally'[i] = tally[i]
    BY <1>1, <2>1
  <2>3. tally' \in [Jobs -> Tallies]
    BY <1>1, <2>1 DEF Tallies
  <2>4. /\ tally[j].calls \in Nat /\ tally[j].errors \in Nat
        /\ tally'[j].errors = tally[j].errors + 1
        /\ tally'[j].calls = tally[j].calls /\ tally'[j].requests = tally[j].requests
    BY <1>1, <2>2 DEF Tallies
  <2>5. tally'[j].calls + tally'[j].errors = tally[j].calls + tally[j].errors + 1
    BY <2>4
  <2>6. tally[j].requests \in Nat
    BY <1>1 DEF Tallies
  <2> QED
    BY <1>4, <2>2, <2>3, <2>4, <2>5, <2>6
<1> QED
  BY <1>2, <1>3, <1>4

(* Whoever counts with the metrics attached does not touch those of        *)
(* another run that is alone, and touches its own if it is alone itself.   *)
LEMMA SharedCount ==
  ASSUME Summaries, NEW h \in Jobs, Running(h)
  PROVE  /\ attached \in Jobs
         /\ alone[h] => attached = h
         /\ \A i \in Jobs \ {h} : alone[i] => attached # i
BY DEF Summaries, Attachment, RunTyped

(* The step of a run keeps the summaries if it counts what it does.        *)
LEMMA SummariesMove ==
  ASSUME Summaries, NEW j \in Jobs, Running(j),
         NEW place \in Places, Stand(j, place),
         UNCHANGED <<proc, attached, alone>>,
         left' \in [Jobs -> 0 .. MaxItems],
         metrics' \in [Jobs -> Metrics], tally' \in [Jobs -> Tallies],
         \A i \in Jobs \ {j} : frame'[i] = frame[i],
         IF place = "calling"
         THEN \/ InCall(j)' /\ frame'[j].end = "none"
              \/ ~InCall(j)' /\ frame'[j].end \in {"returned", "raised"}
         ELSE ~InCall(j)',
         \A i \in Jobs \ {j} :
           alone[i] => metrics'[i] = metrics[i] /\ tally'[i] = tally[i],
         alone[j] => Exact(j)'
  PROVE  Summaries'
<1>1. /\ run' \in [Jobs -> Places]
      /\ run'[j] = place
      /\ \A i \in Jobs \ {j} : run'[i] = run[i]
  BY DEF Stand, Summaries, RunTyped
<1>2. Waiting'
  BY <1>1 DEF Summaries, Waiting, InCall
<1>3. RunTyped'
  BY <1>1, <1>2 DEF Summaries, RunTyped, Waiting, Metrics, Tallies
<1>4. Attachment'
  BY <1>1 DEF Summaries, Attachment, Running
<1>5. ASSUME NEW i \in Jobs \ {j}, alone'[i] PROVE Exact(i)'
  BY <1>1, <1>5 DEF Summaries, Exact, Outcomes, Untallied
<1> QED
  BY <1>2, <1>3, <1>4, <1>5 DEF Summaries

(* What holds of a run before it takes a step of its own. *)
LEMMA Before ==
  ASSUME Summaries, NEW j \in Jobs
  PROVE  /\ metrics \in [Jobs -> Metrics] /\ tally \in [Jobs -> Tallies]
         /\ left \in [Jobs -> 0 .. MaxItems]
         /\ run \in [Jobs -> Places]
         /\ run[j] # "calling" => ~InCall(j)
         /\ InCall(j) => run[j] = "calling"
         /\ InCall(j) => frame[j].end = "none"
         /\ alone[j] => Exact(j)
         /\ metrics[j].requests \in Nat /\ Outcomes(j) \in Nat
         /\ tally[j].requests \in Nat /\ tally[j].calls + tally[j].errors \in Nat
BY DEF Summaries, RunTyped, Waiting, Metrics, Tallies, Outcomes

LEMMA OneLess ==
  ASSUME Summaries, NEW j \in Jobs, left[j] > 0,
         left' = [left EXCEPT ![j] = @ - 1]
  PROVE  left' \in [Jobs -> 0 .. MaxItems]
BY ServiceAssumption, SMT DEF Summaries, RunTyped

LEMMA SummariesLoad ==
  ASSUME Summaries, NEW j \in Jobs, Load(j)
  PROVE  Summaries'
<1>1. /\ Running(j) /\ Stand(j, "loop") /\ run[j] = "users"
      /\ UNCHANGED <<proc, attached, alone, left, frame, metrics, tally>>
  BY DEF Load, Running, dispatchVars
<1>2. ASSUME alone[j] PROVE Exact(j)'
  <2>1. run'[j] = "loop"
    BY <1>1, Before DEF Stand
  <2> QED
    BY <1>1, <1>2, <2>1, Before DEF Exact, Untallied, Outcomes
<1>3. ~InCall(j)'
  BY <1>1, Before DEF InCall
<1> QED
  BY <1>1, <1>2, <1>3, Before, SummariesMove DEF Places

LEMMA SummariesAsk ==
  ASSUME Summaries, NEW j \in Jobs, Ask(j)
  PROVE  Summaries'
<1>1. /\ Running(j) /\ Stand(j, "asked") /\ Tally(j, "requests")
      /\ metrics' = [metrics EXCEPT ![attached]["requests"] = @ + 1]
      /\ UNCHANGED <<proc, attached, alone, left, frame>>
  BY DEF Ask, Running, Shared, dispatchVars
<1>2. attached \in Jobs
  BY <1>1, SharedCount
<1>3. metrics' \in [Jobs -> Metrics] /\ tally' \in [Jobs -> Tallies]
  BY <1>1, <1>2, Before, OneRequest, OneTally
<1>4. ASSUME NEW i \in Jobs \ {j}, alone[i]
      PROVE  metrics'[i] = metrics[i] /\ tally'[i] = tally[i]
  BY <1>1, <1>2, <1>4, Before, SharedCount, OneRequest, OneTally
<1>5. ASSUME alone[j] PROVE Exact(j)'
  <2>1. attached = j /\ Exact(j) /\ run[j] = "loop"
    BY <1>1, <1>5, SharedCount, Before DEF Ask
  <2>2. /\ metrics'[j].requests = metrics[j].requests + 1
        /\ Outcomes(j)' = Outcomes(j)
    BY <1>1, <2>1, Before, OneRequest
  <2>3. /\ tally'[j].requests = tally[j].requests + 1
        /\ tally'[j].calls + tally'[j].errors = tally[j].calls + tally[j].errors
    BY <1>1, Before, OneTally
  <2>4. run'[j] = "asked"
    BY <1>1, Before DEF Stand
  <2> QED
    BY <2>1, <2>2, <2>3, <2>4, Before DEF Exact, Untallied
<1>6. ~InCall(j)' /\ left' \in [Jobs -> 0 .. MaxItems]
  BY <1>1, Before DEF Ask, InCall
<1> QED
  BY <1>1, <1>3, <1>4, <1>5, <1>6, SummariesMove

LEMMA SummariesAnswered ==
  ASSUME Summaries, NEW j \in Jobs, Answered(j), left[j] > 0
  PROVE  Summaries'
<1>1. /\ Running(j) /\ Stand(j, "loop")
      /\ left' = [left EXCEPT ![j] = @ - 1]
      /\ UNCHANGED <<proc, attached, alone, frame, metrics, tally>>
  BY DEF Answered, Running, OneDone, dispatchVars
<1>2. ASSUME alone[j] PROVE Exact(j)'
  <2>1. run[j] = "asked" /\ run'[j] = "loop"
    BY <1>1, Before DEF Answered, Stand
  <2> QED
    BY <1>1, <1>2, <2>1, Before DEF Exact, Untallied, Outcomes
<1>3. ~InCall(j)' /\ left' \in [Jobs -> 0 .. MaxItems]
  BY <1>1, Before, OneLess DEF Answered, InCall
<1> QED
  BY <1>1, <1>2, <1>3, Before, SummariesMove

LEMMA SummariesTell ==
  ASSUME TypeOK, Summaries, NEW j \in Jobs, Tell(j)
  PROVE  Summaries'
<1>1. /\ Running(j) /\ Stand(j, "calling") /\ run[j] = "loop"
      /\ UNCHANGED <<proc, attached, alone, left, metrics, tally>>
  BY DEF Tell, Running
<1>2. PICK k \in Keys, u \in Users : Call(j, u, loaded[j][u], k)
  BY DEF Tell, KeysOf
<1>3. /\ InCall(j)' /\ frame'[j].end = "none"
      /\ \A i \in Jobs \ {j} : frame'[i] = frame[i]
  BY <1>2 DEF TypeOK, Call, InCall
<1>4. ASSUME alone[j] PROVE Exact(j)'
  BY <1>1, <1>3, <1>4, Before DEF Exact, Untallied, Outcomes
<1> QED
  BY <1>1, <1>3, <1>4, Before, SummariesMove

LEMMA SummariesDispatch ==
  ASSUME TypeOK, Summaries, NEW j \in Jobs, DispatchStep(j)
  PROVE  Summaries'
<1>1. /\ InCall(j) /\ run[j] = "calling" /\ frame[j].end = "none" /\ Running(j)
      /\ UNCHANGED <<proc, run, left, attached, alone, tally>>
  BY DispatchCounts, Before DEF DispatchStep, Running
<1>2. Stand(j, "calling")
  BY <1>1, Before DEF Stand
<1>3. /\ \A i \in Jobs \ {j} : frame'[i] = frame[i]
      /\ \/ InCall(j)' /\ frame'[j].end = "none" /\ UNCHANGED metrics
         \/ ~InCall(j)' /\ frame'[j].end = "raised" /\ UNCHANGED metrics
         \/ /\ ~InCall(j)' /\ frame'[j].end = "returned"
            /\ \E column \in {"sent", "skipped", "failures"} :
                 metrics' = [metrics EXCEPT ![attached][column] = @ + 1]
  BY <1>1, DispatchCounts DEF Shared
<1>4. CASE UNCHANGED metrics /\ frame'[j].end \in {"none", "raised"}
  <2>1. ASSUME alone[j] PROVE Exact(j)'
    BY <1>1, <1>4, <2>1, Before DEF Exact, Untallied, Outcomes
  <2> QED
    BY <1>1, <1>2, <1>3, <1>4, <2>1, Before, SummariesMove
<1>5. ASSUME ~InCall(j)', frame'[j].end = "returned",
             NEW column \in {"sent", "skipped", "failures"},
             metrics' = [metrics EXCEPT ![attached][column] = @ + 1]
      PROVE  Summaries'
  <2>1. PICK h \in Jobs : h = attached
    BY <1>1, SharedCount
  <2>2. /\ metrics' \in [Jobs -> Metrics]
        /\ \A i \in Jobs \ {h} : metrics'[i] = metrics[i]
        /\ metrics'[h].requests = metrics[h].requests
        /\ Outcomes(h)' = Outcomes(h) + 1
    BY <1>5, <2>1, Before, OneOutcome
  <2>3. ASSUME NEW i \in Jobs \ {j}, alone[i]
        PROVE  metrics'[i] = metrics[i] /\ tally'[i] = tally[i]
    BY <1>1, <2>1, <2>2, <2>3, SharedCount
  <2>4. ASSUME alone[j] PROVE Exact(j)'
    <3>1. h = j /\ Exact(j)
      BY <1>1, <2>1, <2>4, SharedCount, Before
    <3>2. Untallied(j) = 0 /\ Untallied(j)' = 1
      BY <1>1, <1>5 DEF Untallied
    <3>3. Outcomes(j)' = Outcomes(j) + 1 /\ metrics'[j].requests = metrics[j].requests
      BY <2>2, <3>1
    <3> QED
      BY <1>1, <3>1, <3>2, <3>3, Before DEF Exact
  <2> QED
    BY <1>1, <1>2, <1>3, <1>5, <2>2, <2>3, <2>4, Before, SummariesMove
<1> QED
  BY <1>3, <1>4, <1>5

LEMMA SummariesReturned ==
  ASSUME TypeOK, Summaries, NEW j \in Jobs, DispatchReturned(j), left[j] > 0
  PROVE  Summaries'
<1>1. /\ run[j] = "calling" /\ frame[j].end = "returned" /\ Running(j)
      /\ Stand(j, "loop") /\ Tally(j, "calls")
      /\ left' = [left EXCEPT ![j] = @ - 1]
      /\ UNCHANGED <<proc, metrics, attached, alone>>
      /\ frame' = [frame EXCEPT ![j] = NoFrame]
  BY DEF DispatchReturned, Running, OneDone, Resume
<1>2. ~InCall(j)' /\ \A i \in Jobs \ {j} : frame'[i] = frame[i]
  BY <1>1 DEF TypeOK, InCall, NoFrame
<1>3. /\ tally' \in [Jobs -> Tallies]
      /\ \A i \in Jobs \ {j} : tally'[i] = tally[i]
      /\ tally'[j].requests = tally[j].requests
      /\ tally'[j].calls + tally'[j].errors = tally[j].calls + tally[j].errors + 1
  BY <1>1, Before, OneTally
<1>4. ASSUME alone[j] PROVE Exact(j)'
  <2>1. run'[j] = "loop"
    BY <1>1, Before DEF Stand
  <2>2. Untallied(j) = 1 /\ Untallied(j)' = 0
    BY <1>1, <2>1 DEF Untallied
  <2>3. Outcomes(j)' = Outcomes(j)
    BY <1>1 DEF Outcomes
  <2> QED
    BY <1>1, <1>3, <1>4, <2>2, <2>3, Before DEF Exact
<1> QED
  BY <1>1, <1>2, <1>3, <1>4, Before, OneLess, SummariesMove

(* A failure the run counts itself, and tallies. *)
LEMMA OwnFailure ==
  ASSUME Summaries, NEW j \in Jobs, Running(j),
         NEW place \in {"idle", "loop"}, Stand(j, place),
         NEW column \in {"calls", "errors"}, Tally(j, column), Own(j, "failures"),
         UNCHANGED <<proc, attached, alone>>,
         left' \in [Jobs -> 0 .. MaxItems],
         \A i \in Jobs \ {j} : frame'[i] = frame[i], ~InCall(j)',
         Untallied(j) = 0
  PROVE  Summaries'
<1>1. /\ metrics' \in [Jobs -> Metrics]
      /\ \A i \in Jobs \ {j} : metrics'[i] = metrics[i]
      /\ metrics'[j].requests = metrics[j].requests
      /\ Outcomes(j)' = Outcomes(j) + 1
  BY Before, OneOutcome DEF Own
<1>2. /\ tally' \in [Jobs -> Tallies]
      /\ \A i \in Jobs \ {j} : tally'[i] = tally[i]
      /\ tally'[j].requests = tally[j].requests
      /\ tally'[j].calls + tally'[j].errors = tally[j].calls + tally[j].errors + 1
  BY Before, OneTally
<1>3. ASSUME alone[j] PROVE Exact(j)'
  <2>1. Untallied(j)' = 0
    BY Before DEF Stand, Untallied
  <2> QED
    BY <1>1, <1>2, <1>3, <2>1, Before DEF Exact
<1> QED
  BY <1>1, <1>2, <1>3, SummariesMove

LEMMA SummariesRaised ==
  ASSUME TypeOK, Summaries, NEW j \in Jobs, DispatchRaised(j), left[j] > 0
  PROVE  Summaries'
<1>1. /\ run[j] = "calling" /\ frame[j].end = "raised" /\ Running(j)
      /\ Stand(j, "loop") /\ Tally(j, "calls") /\ Own(j, "failures")
      /\ left' = [left EXCEPT ![j] = @ - 1]
      /\ UNCHANGED <<proc, attached, alone>>
      /\ frame' = [frame EXCEPT ![j] = NoFrame]
  BY DEF DispatchRaised, Running, OneDone, Resume
<1>2. ~InCall(j)' /\ \A i \in Jobs \ {j} : frame'[i] = frame[i]
  BY <1>1 DEF TypeOK, InCall, NoFrame
<1>3. Untallied(j) = 0
  BY <1>1 DEF Untallied
<1> QED
  BY <1>1, <1>2, <1>3, OneLess, OwnFailure

LEMMA SummariesFails ==
  ASSUME Summaries, NEW j \in Jobs, ItemFails(j) \/ RunFails(j)
  PROVE  Summaries'
<1>1. /\ Running(j) /\ run[j] # "calling"
      /\ Tally(j, "errors") /\ Own(j, "failures")
      /\ UNCHANGED <<proc, attached, alone, frame>>
  BY DEF ItemFails, RunFails, Running, dispatchVars
<1>2. ~InCall(j)' /\ Untallied(j) = 0
  BY <1>1, Before DEF InCall, Untallied
<1>3. CASE ItemFails(j)
  <2>1. Stand(j, "loop") /\ left' \in [Jobs -> 0 .. MaxItems]
    BY <1>3, OneLess DEF ItemFails, OneDone
  <2> QED
    BY <1>1, <1>2, <2>1, OwnFailure
<1>4. CASE RunFails(j)
  <2>1. Stand(j, "idle") /\ left' \in [Jobs -> 0 .. MaxItems]
    BY <1>4, Before, ServiceAssumption DEF RunFails, EndRun
  <2> QED
    BY <1>1, <1>2, <2>1, OwnFailure
<1> QED
  BY <1>3, <1>4

LEMMA SummariesFinish ==
  ASSUME Summaries, NEW j \in Jobs, Finish(j)
  PROVE  Summaries'
<1>1. /\ Running(j) /\ run[j] # "calling" /\ Stand(j, "idle")
      /\ UNCHANGED <<proc, attached, alone, frame, metrics, tally>>
      /\ left' \in [Jobs -> 0 .. MaxItems]
  BY Before, ServiceAssumption DEF Finish, Running, EndRun, dispatchVars
<1>2. ASSUME alone[j] PROVE Exact(j)'
  <2>1. run'[j] = "idle"
    BY <1>1, Before DEF Stand
  <2> QED
    BY <1>1, <1>2, <2>1, Before DEF Exact, Untallied, Outcomes
<1>3. ~InCall(j)'
  BY <1>1, Before DEF InCall
<1> QED
  BY <1>1, <1>2, <1>3, Before, SummariesMove

(* A run that waits for an answer has something left to do. *)
Budget ==
  /\ run \in [Jobs -> Places]
  /\ left \in [Jobs -> 0 .. MaxItems]
  /\ \A j \in Jobs : run[j] \in {"asked", "calling"} => left[j] > 0

LEMMA BudgetStep ==
  ASSUME Budget, [ServiceNext]_serviceVars
  PROVE  Budget'
<1> USE ServiceAssumption
<1>1. ASSUME NEW j \in Jobs, Begin(j) PROVE Budget'
  BY <1>1, SMT DEF Begin, Stand, Budget
<1>2. ASSUME NEW j \in Jobs, Load(j) \/ Ask(j) \/ Tell(j) PROVE Budget'
  BY <1>2, SMT DEF Load, Ask, Tell, Stand, Budget, Places
<1>3. ASSUME NEW j \in Jobs, DispatchStep(j) PROVE Budget'
  BY <1>3 DEF DispatchStep, Budget
<1>4. ASSUME NEW j \in Jobs, left[j] > 0, OneDone(j) PROVE Budget'
  BY <1>4, SMT DEF OneDone, Stand, Budget
<1>5. ASSUME NEW j \in Jobs, EndRun(j) PROVE Budget'
  BY <1>5, SMT DEF EndRun, Stand, Budget
<1>6. ASSUME Stop PROVE Budget'
  BY <1>6, SMT DEF Stop, Budget
<1>7. ASSUME Boot \/ (Environment /\ UNCHANGED runVars) \/ UNCHANGED serviceVars
      PROVE  Budget'
  BY <1>7 DEF Boot, Budget, runVars, serviceVars
<1>8. ASSUME NEW j \in Jobs, RunStep(j) PROVE Budget'
  BY <1>2, <1>3, <1>4, <1>5, <1>8 DEF RunStep, Answered, DispatchReturned,
     DispatchRaised, ItemFails, RunFails, Finish, Budget
<1> QED
  BY <1>1, <1>6, <1>7, <1>8 DEF ServiceNext

(* A run that begins attaches its own metrics, and is not alone if another *)
(* is in progress, nor is that other one any more.                         *)
LEMMA SummariesBegin ==
  ASSUME Summaries, NEW j \in Jobs, Begin(j)
  PROVE  Summaries'
<1> USE DEF Begin, OneInstance, Attach, Stand
<1>1. /\ run[j] = "idle" /\ run'[j] = "users" /\ attached' = j
      /\ \A i \in Jobs \ {j} : run'[i] = run[i]
      /\ metrics'[j] = Zero /\ tally'[j] = Nothing
      /\ \A i \in Jobs \ {j} : metrics'[i] = metrics[i] /\ tally'[i] = tally[i]
      /\ UNCHANGED <<frame, proc>>
  BY Before DEF Running, dispatchVars
<1>2. /\ \A i \in Jobs \ {j} : alone'[i] = (alone[i] /\ ~Running(i))
      /\ alone'[j] = (\A h \in Jobs \ {j} : ~Running(h))
      /\ alone' \in [Jobs -> BOOLEAN]
  <2>1. Summaries => alone \in [Jobs -> BOOLEAN]
    BY DEF Summaries, RunTyped
  <2> QED
    BY <2>1
<1>3. Waiting'
  BY <1>1 DEF Summaries, Waiting, InCall
<1>4. RunTyped'
  <2>1. metrics' \in [Jobs -> Metrics] /\ tally' \in [Jobs -> Tallies]
    <3>1. Zero \in Metrics /\ Nothing \in Tallies
      BY DEF Zero, Nothing, Metrics, Tallies
    <3> QED
      BY <3>1, Before
  <2>2. /\ run' \in [Jobs -> Places]
        /\ left' \in [Jobs -> 0 .. MaxItems]
    BY Before, ServiceAssumption
  <2>3. /\ proc' \in {"up", "down"} /\ attached' \in Jobs
        /\ alone' \in [Jobs -> BOOLEAN]
    BY <1>1, <1>2 DEF Summaries, RunTyped
  <2>4. ASSUME NEW i \in Jobs, InCall(i)' PROVE run'[i] = "calling"
    BY <1>3, <2>4 DEF Waiting
  <2> QED
    BY <2>1, <2>2, <2>3, <2>4 DEF RunTyped, Metrics, Tallies
<1> HIDE DEF Begin, OneInstance, Attach, Stand
<1>5. Attachment'
  <2>1. ASSUME NEW h \in Jobs \ {j}, Running(h)'
        PROVE  Running(h) /\ ~alone'[h] /\ ~alone'[j]
    BY <1>1, <1>2, <2>1 DEF Running
  <2>2. ASSUME NEW h \in Jobs, Running(h)' PROVE attached' = h \/ ~alone'[attached']
    <3>1. CASE h = j
      BY <1>1, <3>1
    <3>2. CASE h # j
      BY <1>1, <2>1, <2>2, <3>2
    <3> QED
      BY <3>1, <3>2
  <2>3. ASSUME NEW h \in Jobs, alone'[h], Running(h)' PROVE attached' = h
    BY <1>1, <2>1, <2>3
  <2> QED
    BY <2>2, <2>3 DEF Attachment
<1>6. ASSUME NEW i \in Jobs \ {j}, alone'[i] PROVE Exact(i)'
  BY <1>1, <1>2, <1>6, Before DEF Exact, Outcomes, Untallied
<1>7. Exact(j)'
  BY <1>1 DEF Exact, Outcomes, Untallied, Zero, Nothing
<1> QED
  BY <1>3, <1>4, <1>5, <1>6, <1>7 DEF Summaries

LEMMA SummariesStop ==
  ASSUME TypeOK, Summaries, Stop
  PROVE  Summaries'
<1>1. \A j \in Jobs : ~InCall(j)'
  <2>1. CASE \E j \in Jobs : InCall(j)
    <3>1. Crash({j \in Jobs : InCall(j)})
      BY <2>1 DEF Stop
    <3>2. ASSUME NEW j \in Jobs PROVE ~InCall(j)'
      <4>1. CASE InCall(j)
        <5>1. frame'[j] = [frame[j] EXCEPT !.at = "over", !.end = "killed"]
          BY <3>1, <4>1 DEF Crash
        <5> QED
          BY <4>1, <5>1, FrameOfCall DEF InCall, Frames
      <4>2. CASE ~InCall(j)
        BY <3>1, <4>2 DEF Crash, InCall
      <4> QED
        BY <4>1, <4>2
    <3> QED
      BY <3>2
  <2>2. CASE ~\E j \in Jobs : InCall(j)
    BY <2>2 DEF Stop, dispatchVars, InCall
  <2> QED
    BY <2>1, <2>2
<1> USE DEF Stop
<1>2. Waiting' /\ Attachment'
  <2>1. attached' \in Jobs
    BY DEF Summaries, RunTyped
  <2> QED
    BY <1>1, <2>1 DEF Waiting, Attachment, Running
<1>3. RunTyped'
  BY <1>1, ServiceAssumption DEF Summaries, RunTyped, Zero, Nothing
<1>4. ASSUME NEW j \in Jobs PROVE Exact(j)'
  BY DEF Exact, Outcomes, Untallied, Zero, Nothing
<1> QED
  BY <1>2, <1>3, <1>4 DEF Summaries

LEMMA SummariesStep ==
  ASSUME Lawful, Budget, Summaries, [ServiceNext]_serviceVars
  PROVE  Summaries'
<1>1. TypeOK
  BY DEF Lawful, Minted
<1>2. ASSUME NEW j \in Jobs, RunStep(j) PROVE Summaries'
  <2>1. run[j] \in {"asked", "calling"} => left[j] > 0
    BY DEF Budget
  <2> QED
    BY <1>1, <1>2, <2>1, SummariesLoad, SummariesAsk, SummariesAnswered, SummariesTell,
       SummariesDispatch, SummariesReturned, SummariesRaised, SummariesFails,
       SummariesFinish
    DEF RunStep, Answered, DispatchReturned, DispatchRaised
<1>3. CASE Boot \/ (Environment /\ UNCHANGED <<proc, runVars>>) \/ UNCHANGED serviceVars
  <2>1. UNCHANGED <<run, left, attached, alone, metrics, tally, frame>>
        /\ proc' \in {"up", "down"}
    BY <1>3 DEF Boot, Environment, Forget, Register, Uninstall, runVars,
       serviceVars, dispatchVars, Summaries, RunTyped
  <2> QED
    BY <2>1 DEF Summaries, RunTyped, Waiting, Attachment, Running, InCall,
       Exact, Outcomes, Untallied
<1> QED
  BY <1>1, <1>2, <1>3, SummariesBegin, SummariesStop DEF ServiceNext

LEMMA SummariesAlways == ServiceSpec => [](Loaded /\ Summaries)
<1>1. ServiceInit => Lawful /\ Loaded /\ Budget /\ Summaries
  <2>1. ServiceInit => Budget
    BY ServiceAssumption DEF ServiceInit, Budget, Places
  <2> QED
    BY <2>1, LoadedInit, SummariesInit
<1>2. /\ Lawful /\ Loaded /\ Budget /\ Summaries
      /\ [ServiceNext]_serviceVars
      => (Lawful /\ Loaded /\ Budget /\ Summaries)'
  BY LoadedStep, BudgetStep, SummariesStep
<1> QED
  BY <1>1, <1>2, PTL DEF ServiceSpec

(* What a run keeps has its type, and only a run that waits for a dispatch *)
(* has a call in progress: no call outlives the run that made it           *)
(* (scheduler.py's shutdown, BaseJob.run).                                 *)
THEOREM ServiceTyped == ServiceSpec => []ServiceTypeOK
<1>1. Loaded /\ Summaries => ServiceTypeOK
  BY DEF Loaded, Summaries, RunTyped, ServiceTypeOK
<1> QED
  BY <1>1, SummariesAlways, PTL

(* The summary of a run that no other run overlapped counts each of its    *)
(* requests, and each dispatch and failed item with one outcome, although  *)
(* dispatcher and client count with whatever metrics were attached last    *)
(* (base.py's run, dispatcher.py's attach_metrics).                        *)
THEOREM SummariesExact == ServiceSpec => []AloneMeansExact
<1>1. ASSUME Summaries PROVE AloneMeansExact
  <2>1. ASSUME NEW j \in Jobs, alone[j], run[j] # "calling"
        PROVE  /\ metrics[j].requests = tally[j].requests
               /\ metrics[j].sent + metrics[j].skipped + metrics[j].failures
                    = tally[j].calls + tally[j].errors
    <3>1. Exact(j) /\ Untallied(j) = 0
      BY <1>1, <2>1, Before DEF Untallied
    <3>2. tally[j].calls + tally[j].errors \in Nat
      BY <1>1, Before
    <3> QED
      BY <3>1, <3>2 DEF Exact, Outcomes
  <2> QED
    BY <2>1 DEF AloneMeansExact, TellsOwn
<1> QED
  BY <1>1, SummariesAlways, PTL
===============================================================================
