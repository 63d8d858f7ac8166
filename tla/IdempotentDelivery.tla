-------------------------- MODULE IdempotentDelivery --------------------------
(***************************************************************************)
(* What the dispatcher promises its callers, without saying how: under one *)
(* idempotency key at most one notification document stands at any time.   *)
(* A further document may be shown only after every earlier one has        *)
(* slipped, that is, after its dispatch failed to record the key or the    *)
(* record was lost; and a key that is recorded stands for a document that  *)
(* was really shown.                                                       *)
(***************************************************************************)
EXTENDS Naturals

CONSTANT Keys          \* idempotency keys

VARIABLES shown,       \* shown[k]: documents written under k so far
          slipped,     \* slipped[k]: those of them the store no longer vouches for
          recorded     \* the keys the store vouches for

deliveryVars == <<shown, slipped, recorded>>

(* A document of k stands when it was shown and has not slipped. *)
Standing(k) == shown[k] = slipped[k] + 1

Init ==
  /\ shown    = [k \in Keys |-> 0]
  /\ slipped  = [k \in Keys |-> 0]
  /\ recorded = {}

(* A document is written: nothing may be standing under its key. *)
Show(k) ==
  /\ shown[k] = slipped[k]
  /\ shown' = [shown EXCEPT ![k] = @ + 1]
  /\ UNCHANGED <<slipped, recorded>>

(* A document is written but its writer is told that it was not. *)
ShowAndSlip(k) ==
  /\ shown[k] = slipped[k]
  /\ shown'   = [shown EXCEPT ![k] = @ + 1]
  /\ slipped' = [slipped EXCEPT ![k] = @ + 1]
  /\ UNCHANGED recorded

Settle(k) ==
  /\ Standing(k)
  /\ recorded' = recorded \union {k}
  /\ UNCHANGED <<shown, slipped>>

(* The store stops vouching for the standing documents of the keys in ks. *)
Slip(ks) ==
  /\ \A k \in ks : Standing(k)
  /\ slipped'  = [k \in Keys |-> IF k \in ks THEN slipped[k] + 1 ELSE slipped[k]]
  /\ recorded' = recorded \ ks
  /\ UNCHANGED shown

Next ==
  \/ \E k \in Keys : Show(k) \/ ShowAndSlip(k) \/ Settle(k)
  \/ \E ks \in SUBSET Keys : Slip(ks)

Spec == Init /\ [][Next]_deliveryVars

===============================================================================
