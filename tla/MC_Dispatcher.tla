----------------------------- MODULE MC_Dispatcher -----------------------------
(* Instances of Dispatcher for TLC. *)
EXTENDS Dispatcher

CONSTANTS u1, alarm, run_once, shared, personal

(* The service's alarm job, and "run_once.py alarm --dry-run" in a process *)
(* of its own beside it: both build the same keys, from the same alarms,   *)
(* but for an alarm that was there for one of them only.                   *)
MCUsers      == {u1}
MCJobs       == {alarm, run_once}
MCKeys       == {shared, personal}
MCCallers    == [k \in MCKeys |-> IF k = shared THEN MCJobs ELSE {alarm}]
MCAddressees == [k \in MCKeys |-> MCUsers]

DryRunOnce == {run_once}
================================================================================
