------------------------------- MODULE PacedRate -------------------------------
(***************************************************************************)
(* What Pacing means for EKAP: how many requests it can have granted after *)
(* any time, counted from any moment on.                                   *)
(***************************************************************************)
EXTENDS Pacing, Integers, TLAPS

VARIABLES
  granted,   \* history: grants since the count began
  elapsed,   \* history: units of time
  restarts   \* history: new processes, each with a full bucket

countedVars == <<allowance, granted, elapsed, restarts>>

(* The count may begin at any allowance. *)
CountedInit ==
  /\ allowance \in 0 .. Capacity
  /\ granted = 0 /\ elapsed = 0 /\ restarts = 0

CountedNext ==
  \/ Pass /\ elapsed' = elapsed + 1 /\ UNCHANGED <<granted, restarts>>
  \/ Grant /\ granted' = granted + 1 /\ UNCHANGED <<elapsed, restarts>>
  \/ Restart /\ restarts' = restarts + 1 /\ UNCHANGED <<granted, elapsed>>

CountedSpec == CountedInit /\ [][CountedNext]_countedVars

(* A burst of one full bucket for each process, and the rate on top: that  *)
(* is what ekap_rate_per_min allows, and what running run_once.py again    *)
(* and again adds to it.                                                   *)
RateKept ==
  Cost * granted <= Capacity * (restarts + 1) + Rate * elapsed

-------------------------------------------------------------------------------
Amounts == Capacity \in Nat /\ Cost \in Nat /\ Rate \in Nat

(* What was granted and what still may be is covered by what came in. *)
Covered ==
  /\ allowance \in 0 .. Capacity
  /\ granted \in Nat /\ elapsed \in Nat /\ restarts \in Nat
  /\ Cost * granted + allowance <= Capacity * (restarts + 1) + Rate * elapsed

LEMMA CoveredInit == Amounts /\ CountedInit => Covered
  <1> SUFFICES ASSUME Amounts, CountedInit PROVE Covered
    OBVIOUS
  <1>1. Cost * 0 = 0 /\ Rate * 0 = 0 /\ Capacity * (0 + 1) = Capacity
    BY SMT DEF Amounts
  <1> QED  BY <1>1, SMT DEF Amounts, CountedInit, Covered

LEMMA CoveredStep ==
  ASSUME Amounts, Covered, [CountedNext]_countedVars
  PROVE  Covered'
  <1> USE DEF Amounts, Covered
  <1>0. /\ Cost * granted \in Nat /\ Rate * elapsed \in Nat
        /\ Capacity * (restarts + 1) \in Nat
    BY SMT
  <1>1. CASE Pass /\ elapsed' = elapsed + 1 /\ UNCHANGED <<granted, restarts>>
    <2>1. Rate * (elapsed + 1) = Rate * elapsed + Rate
      BY SMT
    <2> QED  BY <1>0, <1>1, <2>1, SMT DEF Pass, AtMost
  <1>2. CASE Grant /\ granted' = granted + 1 /\ UNCHANGED <<elapsed, restarts>>
    <2>1. Cost * (granted + 1) = Cost * granted + Cost
      BY SMT
    <2> QED  BY <1>0, <1>2, <2>1, SMT DEF Grant
  <1>3. CASE Restart /\ restarts' = restarts + 1 /\ UNCHANGED <<granted, elapsed>>
    <2>1. Capacity * (restarts + 1 + 1) = Capacity * (restarts + 1) + Capacity
      BY SMT
    <2> QED  BY <1>0, <1>3, <2>1, SMT DEF Restart
  <1>4. CASE UNCHANGED countedVars
    BY <1>4 DEF countedVars
  <1> QED  BY <1>1, <1>2, <1>3, <1>4 DEF CountedNext

(* However the waiters compete and whenever the count begins: in any time, *)
(* a process sends EKAP no more than a full bucket and the rate.           *)
THEOREM RateBound == Amounts => (CountedSpec => []RateKept)
  <1>1. ASSUME Amounts PROVE CountedInit => Covered
    BY <1>1, CoveredInit
  <1>2. ASSUME Amounts PROVE Covered /\ [CountedNext]_countedVars => Covered'
    BY <1>2, CoveredStep
  <1>3. ASSUME Amounts PROVE Covered => RateKept
    <2> SUFFICES ASSUME Covered PROVE RateKept
      OBVIOUS
    <2>1. /\ Cost * granted \in Nat /\ Rate * elapsed \in Nat
          /\ Capacity * (restarts + 1) \in Nat
      BY <1>3, SMT DEF Amounts, Covered
    <2> QED  BY <2>1, SMT DEF Covered, RateKept
  <1>4. Amounts => (CountedInit => Covered)
    BY <1>1
  <1>5. ASSUME Amounts PROVE CountedSpec => []RateKept
    BY <1>1, <1>2, <1>3, <1>5, PTL DEF CountedSpec
  <1> QED  BY <1>5
================================================================================
