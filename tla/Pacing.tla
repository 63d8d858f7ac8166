-------------------------------- MODULE Pacing --------------------------------
(***************************************************************************)
(* What the token bucket (app/http/rate_limiter.py) promises: an allowance *)
(* that grows with time up to a capacity and pays for every grant.         *)
(*                                                                         *)
(* Amounts are whole parts of a token: a token is Cost parts, and Rate     *)
(* parts come back in each unit of time.                                   *)
(***************************************************************************)
EXTENDS Naturals

CONSTANTS Capacity, Cost, Rate

VARIABLE allowance   \* what could be granted by now

AtMost(n, bound) == IF n \in 0 .. bound THEN n ELSE bound

Init == allowance = Capacity

Pass == allowance' = AtMost(allowance + Rate, Capacity)

Grant ==
  /\ Cost <= allowance
  /\ allowance' = allowance - Cost

(* A new process starts with a full bucket. *)
Restart == allowance' = Capacity

Next == Pass \/ Grant \/ Restart

Spec == Init /\ [][Next]_allowance
===============================================================================
