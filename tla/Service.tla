-------------------------------- MODULE Service --------------------------------
(***************************************************************************)
(* The service process (app/main.py): the scheduler (app/scheduler/        *)
(* scheduler.py) starts runs of the jobs at their cron times, the runs     *)
(* share one dispatcher and one EKAP client, and with these the JobMetrics *)
(* object that was attached last (app/utils/metrics.py, app/jobs/base.py). *)
(*                                                                         *)
(* Of a run only what all jobs have in common is kept: requests to EKAP,   *)
(* dispatches, and items that fail.  The jobs themselves are AlarmJob,     *)
(* SavedFilterJob and InterestJob.                                         *)
(***************************************************************************)
EXTENDS Dispatcher

CONSTANT MaxItems   \* bound: requests and dispatches of a run

ASSUME ServiceAssumption == MaxItems \in Nat \ {0}

VARIABLES
  proc,      \* the process: up or down
  run,       \* run[j]: where the run of j stands
  left,      \* left[j]: the requests and dispatches it may still make
  loaded,    \* loaded[j]: the tokens it read, as they were then
  metrics,   \* metrics[j]: the JobMetrics of j's latest run
  attached,  \* the job whose metrics the dispatcher and the client hold
  alone,     \* history: no other run overlapped with that of j so far
  tally      \* history: what j's latest run did

runVars     == <<run, left, loaded, metrics, attached, alone, tally>>
serviceVars == <<dispatchVars, proc, runVars>>

Zero    == [requests |-> 0, sent |-> 0, skipped |-> 0, failures |-> 0]
Nothing == [requests |-> 0, calls |-> 0, errors |-> 0]

(* Where a run stands: reading the users, between two items of its loop,   *)
(* at a request to EKAP or at a dispatch.                                  *)
Places == {"idle", "users", "loop", "asked", "calling"}

Running(j) == run[j] # "idle"

(* One more in a column: of a run's own metrics, and of those attached.    *)
Own(j, column)    == metrics' = [metrics EXCEPT ![j][column] = @ + 1]
Shared(column)    == metrics' = [metrics EXCEPT ![attached][column] = @ + 1]
Tally(j, column)  == tally' = [tally EXCEPT ![j][column] = @ + 1]
Stand(j, place)   == run' = [run EXCEPT ![j] = place]
OneDone(j)        == Stand(j, "loop") /\ left' = [left EXCEPT ![j] = @ - 1]
EndRun(j)         == Stand(j, "idle") /\ left' = [left EXCEPT ![j] = 0]

-------------------------------------------------------------------------------
(* The scheduler, as its settings make APScheduler behave. *)

(* A cron time comes: a run begins, unless the one before is in progress   *)
(* (max_instances=1; mutant: instances are not limited).  What the         *)
(* scheduler drops or coalesces leaves no trace: it is no step.            *)
AnyInstance(j) == TRUE
OneInstance(j) == ~Running(j)

(* BaseJob.run begins with metrics of its own, and attaches them; a mutant *)
(* attaches them only to a fresh dispatcher.                               *)
AttachOnce(j) == attached
Attach(j)     == j

Begin(j) ==
  /\ proc = "up"
  /\ OneInstance(j)
  /\ Stand(j, "users")
  /\ left' = [left EXCEPT ![j] = MaxItems]
  /\ metrics' = [metrics EXCEPT ![j] = Zero]
  /\ attached' = Attach(j)
  /\ alone' = [i \in Jobs |->
                 IF i = j THEN \A h \in Jobs \ {j} : ~Running(h)
                 ELSE alone[i] /\ ~Running(i)]
  /\ tally' = [tally EXCEPT ![j] = Nothing]
  /\ UNCHANGED <<dispatchVars, proc, loaded>>

-------------------------------------------------------------------------------
(* A run: the users with their tokens, then requests to EKAP and           *)
(* dispatches, in the order its job has them.                              *)

(* list_active_users_with_fcm: the tokens are not read again.              *)
Load(j) ==
  /\ run[j] = "users"
  /\ Stand(j, "loop")
  /\ loaded' = [loaded EXCEPT ![j] = stored]
  /\ UNCHANGED <<dispatchVars, proc, left, metrics, attached, alone, tally>>

(* _post counts every attempt with the metrics attached to the client. *)
Ask(j) ==
  /\ run[j] = "loop"
  /\ left[j] > 0
  /\ Stand(j, "asked")
  /\ Shared("requests")
  /\ Tally(j, "requests")
  /\ UNCHANGED <<dispatchVars, proc, left, loaded, attached, alone>>

Answered(j) ==
  /\ run[j] = "asked"
  /\ OneDone(j)
  /\ UNCHANGED <<dispatchVars, proc, loaded, metrics, attached, alone, tally>>

(* The idempotency keys a job builds. *)
KeysOf(j) == {k \in Keys : j \in Callers[k]}

Tell(j) ==
  /\ run[j] = "loop"
  /\ left[j] > 0
  /\ \E k \in KeysOf(j) : \E u \in Addressees[k] :
       /\ loaded[j][u] # NoToken
       /\ Call(j, u, loaded[j][u], k)
  /\ Stand(j, "calling")
  /\ UNCHANGED <<proc, left, loaded, metrics, attached, alone, tally>>

(* The steps of dispatch, and what they count with the metrics attached to *)
(* the dispatcher.                                                         *)
DispatchStep(j) ==
  /\ \/ SkipRecorded(j) /\ Shared("skipped")
     \/ Record(j) /\ Shared("sent")
     \/ (WriteFails(j) \/ WriteUnacknowledged(j) \/ PushFails(j)) /\ Shared("failures")
     \/ /\ \/ FindUnrecorded(j) \/ WriteDoc(j) \/ PushAccepted(j) \/ PushRejected(j)
           \/ ClearToken(j) \/ CheckRaises(j) \/ RecordRaises(j)
        /\ UNCHANGED metrics
  /\ UNCHANGED <<proc, run, left, loaded, attached, alone, tally>>

DispatchReturned(j) ==
  /\ run[j] = "calling"
  /\ frame[j].end = "returned"
  /\ Resume(j)
  /\ OneDone(j)
  /\ Tally(j, "calls")
  /\ UNCHANGED <<proc, loaded, metrics, attached, alone>>

(* Mutant: what raised is tried once more. *)
DispatchAgain(j) ==
  /\ run[j] = "calling"
  /\ frame[j].end = "raised"
  /\ Resume(j)
  /\ Stand(j, "loop")
  /\ UNCHANGED <<proc, left, loaded, metrics, attached, alone, tally>>

(* The except clause of the job's loop counts what dispatch let through.   *)
DispatchRaised(j) ==
  /\ run[j] = "calling"
  /\ frame[j].end = "raised"
  /\ Resume(j)
  /\ OneDone(j)
  /\ Own(j, "failures")
  /\ Tally(j, "calls")
  /\ UNCHANGED <<proc, loaded, attached, alone>>

(* It also counts what EKAP raises, or a store. *)
ItemFails(j) ==
  /\ run[j] \in {"loop", "asked"}
  /\ left[j] > 0
  /\ OneDone(j)
  /\ Own(j, "failures")
  /\ Tally(j, "errors")
  /\ UNCHANGED <<dispatchVars, proc, loaded, attached, alone>>

(* An exception outside the loop ends the run; BaseJob.run counts it. *)
RunFails(j) ==
  /\ run[j] \in {"users", "loop"}
  /\ EndRun(j)
  /\ Own(j, "failures")
  /\ Tally(j, "errors")
  /\ UNCHANGED <<dispatchVars, proc, loaded, attached, alone>>

Finish(j) ==
  /\ run[j] = "loop"
  /\ EndRun(j)
  /\ UNCHANGED <<dispatchVars, proc, loaded, metrics, attached, alone, tally>>

-------------------------------------------------------------------------------
(* The process. *)

(* A signal or a crash ends the process: scheduler.shutdown cancels the    *)
(* tasks of the runs, although it is called with wait=True.  Nothing of    *)
(* the runs is left, nor of their metrics.                                 *)
Stop ==
  /\ proc = "up"
  /\ proc' = "down"
  /\ run' = [j \in Jobs |-> "idle"]
  /\ left' = [j \in Jobs |-> 0]
  /\ metrics' = [j \in Jobs |-> Zero]
  /\ tally' = [j \in Jobs |-> Nothing]
  /\ alone' = [j \in Jobs |-> TRUE]
  /\ IF \E j \in Jobs : InCall(j) THEN Crash({j \in Jobs : InCall(j)})
     ELSE UNCHANGED dispatchVars
  /\ UNCHANGED <<loaded, attached>>

Boot ==
  /\ proc = "down"
  /\ proc' = "up"
  /\ UNCHANGED <<dispatchVars, runVars>>

ServiceInit ==
  /\ DispatchInit
  /\ proc = "up"
  /\ run = [j \in Jobs |-> "idle"]
  /\ left = [j \in Jobs |-> 0]
  /\ loaded = [j \in Jobs |-> [u \in Users |-> NoToken]]
  /\ metrics = [j \in Jobs |-> Zero]
  /\ attached \in Jobs
  /\ alone = [j \in Jobs |-> TRUE]
  /\ tally = [j \in Jobs |-> Nothing]

RunStep(j) ==
  \/ Load(j) \/ Ask(j) \/ Answered(j) \/ Tell(j) \/ DispatchStep(j) \/ DispatchReturned(j)
  \/ DispatchRaised(j) \/ ItemFails(j) \/ RunFails(j) \/ Finish(j)

ServiceNext ==
  \/ \E j \in Jobs : Begin(j) \/ RunStep(j)
  \/ Stop \/ Boot
  \/ Environment /\ UNCHANGED <<proc, runVars>>

ServiceSpec == ServiceInit /\ [][ServiceNext]_serviceVars

(* Services answer or raise. *)
ServiceFairSpec ==
  ServiceSpec /\ \A j \in Jobs : WF_serviceVars(RunStep(j))
-------------------------------------------------------------------------------
(* Properties. *)

ServiceTypeOK ==
  /\ proc \in {"up", "down"}
  /\ run \in [Jobs -> Places]
  /\ left \in [Jobs -> 0 .. MaxItems]
  /\ loaded \in [Jobs -> [Users -> Tokens]]
  /\ metrics \in [Jobs -> [requests : Nat, sent : Nat, skipped : Nat, failures : Nat]]
  /\ attached \in Jobs
  /\ alone \in [Jobs -> BOOLEAN]
  /\ tally \in [Jobs -> [requests : Nat, calls : Nat, errors : Nat]]
  /\ \A j \in Jobs : InCall(j) => run[j] = "calling"

(* The summary a run logs tells what it did: every request, and every      *)
(* dispatch with its one outcome, is counted once, whether dispatch counts *)
(* it or the job's except clause.                                          *)
TellsOwn(j) ==
  LET m == metrics[j] IN
    /\ m.requests = tally[j].requests
    /\ m.sent + m.skipped + m.failures = tally[j].calls + tally[j].errors

(* So it does if no other run overlapped with it.  Of those that do, as at *)
(* 9:00 and 10:00, the later one takes the earlier one's counts.           *)
AloneMeansExact ==
  \A j \in Jobs : alone[j] /\ run[j] # "calling" => TellsOwn(j)

(* No run lasts: max_instances=1 would drop every later trigger of its     *)
(* job.                                                                    *)
RunsEnd == \A j \in Jobs : Running(j) ~> ~Running(j)
================================================================================
