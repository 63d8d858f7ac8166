--------------------------- MODULE Dispatcher_proofs ---------------------------
(***************************************************************************)
(* Proofs about Dispatcher, for any users, callers and keys: its types;    *)
(* for the keys of a sole caller the accounting of documents, and that it  *)
(* implements IdempotentDelivery; for the others what their race can do.   *)
(***************************************************************************)
EXTENDS Dispatcher, SequenceTheorems, FiniteSetTheorems, TLAPS

USE DispatcherAssumption DEF NoToken

(* A call in progress has all the fields of a call. *)
LEMMA FrameOfCall ==
  ASSUME TypeOK, NEW j \in Jobs, InCall(j)
  PROVE  /\ frame[j] \in Frames
         /\ frame[j].key \in Keys
         /\ frame[j].uid \in Users
         /\ frame[j].at \in Awaits
BY DEF TypeOK, InCall, Frames, NoFrame, Awaits

(* Moving a call on, or ending it, leaves the frames well-typed. *)
LEMMA FrameMoves ==
  ASSUME TypeOK, NEW j \in Jobs, InCall(j),
         NEW place \in Awaits \union {"over"}, NEW how \in Endings,
         \/ Goto(j, place)
         \/ place = "over" /\ End(j, how)
  PROVE  /\ frame' \in [Jobs -> Frames \union {NoFrame}]
         /\ \A i \in Jobs \ {j} : frame'[i] = frame[i]
         /\ frame'[j].key = frame[j].key
         /\ frame'[j].uid = frame[j].uid
         /\ frame'[j].token = frame[j].token
         /\ frame'[j].at = place
<1>1. frame[j] \in Frames
  BY FrameOfCall
<1>2. frame \in [Jobs -> Frames \union {NoFrame}]
  BY DEF TypeOK
<1>3. CASE Goto(j, place)
  <2>1. [frame[j] EXCEPT !.at = place] \in Frames
    BY <1>1 DEF Frames
  <2>2. frame' = [frame EXCEPT ![j] = [frame[j] EXCEPT !.at = place]]
    BY <1>3 DEF Goto
  <2> QED
    BY <1>1, <1>2, <2>1, <2>2 DEF Frames
<1>4. CASE place = "over" /\ End(j, how)
  <2>1. [frame[j] EXCEPT !.at = "over", !.end = how] \in Frames
    BY <1>1 DEF Frames
  <2>2. frame' = [frame EXCEPT ![j] =
                    [frame[j] EXCEPT !.at = "over", !.end = how]]
    BY <1>2, <1>4 DEF End
  <2> QED
    BY <1>1, <1>2, <1>4, <2>1, <2>2 DEF Frames
<1> QED
  BY <1>3, <1>4

LEMMA SlipsTyped ==
  ASSUME TypeOK, NEW ks \in SUBSET Keys, SlipKeys(ks)
  PROVE  slips' \in [Keys -> 0 .. MaxSlips]
BY DEF TypeOK, SlipKeys

LEMMA InboxTyped ==
  ASSUME TypeOK, NEW j \in Jobs, InCall(j), AppendDoc(j)
  PROVE  /\ inbox' \in [Keys -> Seq(Users)]
         /\ \A k \in Keys \ {frame[j].key} : inbox'[k] = inbox[k]
         /\ Len(inbox'[frame[j].key]) = Len(inbox[frame[j].key]) + 1
<1>1. frame[j].key \in Keys /\ frame[j].uid \in Users
  BY FrameOfCall
<1>2. inbox \in [Keys -> Seq(Users)]
  BY DEF TypeOK
<1>3. /\ Append(inbox[frame[j].key], frame[j].uid) \in Seq(Users)
      /\ Len(Append(inbox[frame[j].key], frame[j].uid))
           = Len(inbox[frame[j].key]) + 1
  BY <1>1, <1>2, AppendProperties
<1> QED
  BY <1>1, <1>2, <1>3 DEF AppendDoc

-------------------------------------------------------------------------------
(* Types. *)

LEMMA TypeInit == DispatchInit => TypeOK
BY EmptySeq DEF DispatchInit, TypeOK, Tokens

(* One lemma for the steps of a call ... *)
LEMMA TypeProgress ==
  ASSUME TypeOK, NEW j \in Jobs, Progress(j)
  PROVE  TypeOK'
<1> USE DEF tokenVars
<1>1. CASE SkipRecorded(j)
  <2>1. InCall(j) /\ "over" \in Awaits \union {"over"} /\ "returned" \in Endings
    BY <1>1 DEF SkipRecorded, InCall, Endings
  <2> QED
    BY <1>1, <2>1, FrameMoves DEF SkipRecorded, TypeOK
<1>2. CASE FindUnrecorded(j)
  <2>1. InCall(j) /\ "write" \in Awaits
    BY <1>2 DEF FindUnrecorded, InCall, Awaits
  <2> QED
    BY <1>2, <2>1, FrameMoves DEF FindUnrecorded, TypeOK, Endings
<1>3. CASE WriteDoc(j)
  <2>1. InCall(j) /\ (IF Dry(j) THEN "record" ELSE "push") \in Awaits
    BY <1>3 DEF WriteDoc, InCall, Awaits
  <2>2. inbox' \in [Keys -> Seq(Users)]
    BY <1>3, <2>1, InboxTyped DEF WriteDoc
  <2> QED
    BY <1>3, <2>1, <2>2, FrameMoves DEF WriteDoc, TypeOK, Endings
<1>4. CASE PushAccepted(j)
  <2>1. InCall(j) /\ "record" \in Awaits
    BY <1>4 DEF PushAccepted, InCall, Awaits
  <2>2. pushed' \subseteq Users \X Keys
    BY <1>4, <2>1, FrameOfCall DEF PushAccepted, TypeOK
  <2> QED
    BY <1>4, <2>1, <2>2, FrameMoves DEF PushAccepted, TypeOK, Endings
<1>5. CASE PushRejected(j)
  <2>1. InCall(j) /\ "clear" \in Awaits
    BY <1>5 DEF PushRejected, InCall, Awaits
  <2> QED
    BY <1>5, <2>1, FrameMoves DEF PushRejected, TypeOK, Endings
<1>6. CASE ClearToken(j)
  <2>1. InCall(j) /\ "record" \in Awaits
    BY <1>6 DEF ClearToken, InCall, Awaits
  <2>2. stored' \in [Users -> Tokens]
    <3>1. frame[j].uid \in Users /\ 0 \in Tokens
      BY <2>1, FrameOfCall DEF Tokens
    <3>2. CASE UNCHANGED stored
      BY <3>2 DEF TypeOK
    <3>3. CASE stored' = [stored EXCEPT ![frame[j].uid] = NoToken]
      BY <3>1, <3>3 DEF TypeOK
    <3> QED
      BY <1>6, <3>2, <3>3 DEF ClearToken
  <2> QED
    BY <1>6, <2>1, <2>2, FrameMoves DEF ClearToken, TypeOK, Endings
<1>7. CASE Record(j)
  <2>1. InCall(j) /\ "over" \in Awaits \union {"over"} /\ "returned" \in Endings
    BY <1>7 DEF Record, InCall, Endings
  <2>2. idem' \subseteq Keys
    BY <1>7, <2>1, FrameOfCall DEF Record, TypeOK
  <2> QED
    BY <1>7, <2>1, <2>2, FrameMoves DEF Record, TypeOK
<1> QED
  BY <1>1, <1>2, <1>3, <1>4, <1>5, <1>6, <1>7 DEF Progress

(* ... one for its failures ... *)
LEMMA TypeFailure ==
  ASSUME TypeOK, NEW j \in Jobs, Failure(j)
  PROVE  TypeOK'
<1> USE DEF tokenVars
<1>1. InCall(j)
  BY DEF Failure, CheckRaises, WriteFails, WriteUnacknowledged, PushFails,
         RecordRaises, InCall
<1>2. \E how \in Endings : End(j, how)
  BY DEF Failure, CheckRaises, WriteFails, WriteUnacknowledged, PushFails,
         RecordRaises, Endings
<1>3. frame' \in [Jobs -> Frames \union {NoFrame}]
  BY <1>1, <1>2, FrameMoves
<1>4. frame[j].key \in Keys /\ frame[j].uid \in Users
  BY <1>1, FrameOfCall
<1>5. failed' \subseteq Users \X Keys
  BY <1>4 DEF Failure, CheckRaises, WriteFails, WriteUnacknowledged, PushFails,
              RecordRaises, Fail, TypeOK
<1>6. CASE CheckRaises(j) \/ WriteFails(j)
  BY <1>3, <1>5, <1>6 DEF CheckRaises, WriteFails, TypeOK
<1>7. CASE WriteUnacknowledged(j)
  <2>1. slips' \in [Keys -> 0 .. MaxSlips]
    BY <1>4, <1>7, SlipsTyped DEF WriteUnacknowledged
  <2>2. inbox' \in [Keys -> Seq(Users)]
    BY <1>1, <1>7, InboxTyped DEF WriteUnacknowledged
  <2> QED
    BY <1>3, <1>5, <1>7, <2>1, <2>2 DEF WriteUnacknowledged, TypeOK
<1>8. CASE PushFails(j)
  <2>1. slips' \in [Keys -> 0 .. MaxSlips]
    BY <1>4, <1>8, SlipsTyped DEF PushFails
  <2>2. pushed' \subseteq Users \X Keys
    BY <1>4, <1>8 DEF PushFails, TypeOK
  <2> QED
    BY <1>3, <1>5, <1>8, <2>1, <2>2 DEF PushFails, TypeOK
<1>9. CASE RecordRaises(j)
  <2>1. slips' \in [Keys -> 0 .. MaxSlips]
    BY <1>4, <1>9, SlipsTyped DEF RecordRaises, TypeOK
  <2>2. idem' \subseteq Keys
    BY <1>4, <1>9 DEF RecordRaises, TypeOK
  <2> QED
    BY <1>3, <1>5, <1>9, <2>1, <2>2 DEF RecordRaises, TypeOK
<1> QED
  BY <1>6, <1>7, <1>8, <1>9 DEF Failure

(* ... and one for what happens around the calls. *)
LEMMA TypeAround ==
  ASSUME TypeOK,
         \/ \E k \in Keys : \E j \in Callers[k], u \in Addressees[k] :
              \E t \in 1 .. issued[u] : Call(j, u, t, k)
         \/ \E j \in Jobs : Resume(j)
         \/ \E js \in SUBSET Jobs : Crash(js)
         \/ Environment
  PROVE  TypeOK'
<1> USE DEF tokenVars
<1>1. CASE \E k \in Keys : \E j \in Callers[k], u \in Addressees[k] :
             \E t \in 1 .. issued[u] : Call(j, u, t, k)
  <2>1. PICK k \in Keys : \E j \in Callers[k], u \in Addressees[k] :
               \E t \in 1 .. issued[u] : Call(j, u, t, k)
    BY <1>1
  <2>2. PICK j \in Callers[k], u \in Addressees[k] :
               \E t \in 1 .. issued[u] : Call(j, u, t, k)
    BY <2>1
  <2>3. PICK t \in 1 .. issued[u] : Call(j, u, t, k)
    BY <2>2
  <2>4. j \in Jobs /\ u \in Users
    BY <2>2
  <2>5. issued[u] \in 1 .. MaxToken
    BY <2>4 DEF TypeOK
  <2>6. [at |-> "exists", uid |-> u, token |-> t, key |-> k, end |-> "none"]
          \in Frames
    BY <2>4, <2>5 DEF Frames, Awaits, Endings
  <2>7. frame' \in [Jobs -> Frames \union {NoFrame}]
    BY <2>3, <2>4, <2>6 DEF Call, TypeOK
  <2> QED
    BY <2>3, <2>7 DEF Call, TypeOK
<1>2. CASE \E j \in Jobs : Resume(j)
  BY <1>2 DEF Resume, TypeOK
<1>3. ASSUME NEW js \in SUBSET Jobs, Crash(js)
      PROVE  TypeOK'
  <2>1. \A j \in Jobs : Written(j) => InCall(j)
    BY DEF Written, InCall
  <2>2. {frame[j].key : j \in {i \in js : Written(i)}} \in SUBSET Keys
    BY <2>1, FrameOfCall
  <2>3. slips' \in [Keys -> 0 .. MaxSlips]
    BY <1>3, <2>2, SlipsTyped DEF Crash
  <2>4. {<<frame[j].uid, frame[j].key>> : j \in {i \in js : InCall(i)}}
          \subseteq Users \X Keys
    BY FrameOfCall
  <2>5. \A j \in Jobs : InCall(j) =>
          [frame[j] EXCEPT !.at = "over", !.end = "killed"] \in Frames
    BY FrameOfCall DEF Frames, Endings
  <2>6. frame' \in [Jobs -> Frames \union {NoFrame}]
    BY <1>3, <2>5 DEF Crash, TypeOK
  <2> QED
    BY <1>3, <2>3, <2>4, <2>6 DEF Crash, TypeOK
<1>4. ASSUME NEW k \in Keys, Forget(k)
      PROVE  TypeOK'
  BY <1>4, SlipsTyped DEF Forget, TypeOK
<1>5. ASSUME NEW u \in Users, Register(u)
      PROVE  TypeOK'
  <2>1. issued' \in [Users -> 1 .. MaxToken] /\ issued'[u] \in 1 .. MaxToken
    BY <1>5 DEF Register, TypeOK
  <2> QED
    BY <1>5, <2>1 DEF Register, TypeOK, Tokens
<1>6. ASSUME NEW u \in Users, Uninstall(u)
      PROVE  TypeOK'
  BY <1>6 DEF Uninstall, TypeOK
<1> QED
  BY <1>1, <1>2, <1>3, <1>4, <1>5, <1>6 DEF Environment

LEMMA TypeNext == TypeOK /\ [DispatchNext]_dispatchVars => TypeOK'
<1> SUFFICES ASSUME TypeOK, [DispatchNext]_dispatchVars
             PROVE  TypeOK'
  OBVIOUS
<1>1. CASE UNCHANGED dispatchVars
  BY <1>1 DEF dispatchVars, tokenVars, TypeOK
<1>2. CASE DispatchNext
  BY <1>2, TypeProgress, TypeFailure, TypeAround DEF DispatchNext
<1> QED
  BY <1>1, <1>2

(* Every state of the dispatcher is well-typed; tokens stay within what    *)
(* was issued, and calls within the declared awaits.                       *)
THEOREM TypeCorrect == DispatchSpec => []TypeOK
BY TypeInit, TypeNext, PTL DEF DispatchSpec

-------------------------------------------------------------------------------
(* The accounting.  It is not inductive by itself: that a document is      *)
(* written only under a key that is not recorded, and recorded only by the *)
(* one call that wrote it, has to be remembered from the check on, across  *)
(* the awaits.                                                             *)

(* A call is made by a caller of its key. *)
Owned == \A j \in Jobs : InCall(j) => j \in Callers[frame[j].key]

(* From the check on the key of a sole caller's call stays unrecorded. *)
Unrecorded ==
  \A j \in Jobs :
    /\ frame[j].at \in {"write", "push", "clear", "record"}
    /\ frame[j].key \in Sole
    => frame[j].key \notin idem

Ledger == TypeOK /\ Owned /\ Unrecorded /\ Accounting

LEMMA LedgerInit == DispatchInit => Ledger
<1> SUFFICES ASSUME DispatchInit PROVE Ledger
  OBVIOUS
<1>1. TypeOK
  BY TypeInit
<1>2. \A j \in Jobs : frame[j].at = "over"
  BY DEF DispatchInit, NoFrame
<1>3. Owned /\ Unrecorded
  BY <1>2 DEF Owned, Unrecorded, InCall
<1>4. Accounting
  <2>1. \A k \in Keys : ~InFlight(k) /\ k \notin idem
    BY <1>2 DEF InFlight, Written, DispatchInit
  <2>2. \A k \in Keys : Len(inbox[k]) = 0 /\ slips[k] = 0
    BY EmptySeq DEF DispatchInit
  <2> QED
    BY <2>1, <2>2 DEF Accounting, Sole
<1> QED
  BY <1>1, <1>3, <1>4 DEF Ledger

(* No other call is in progress under the key of a sole caller's call. *)
LEMMA SoleCall ==
  ASSUME Ledger, NEW j \in Jobs, InCall(j), frame[j].key \in Sole
  PROVE  \A i \in Jobs \ {j} : InCall(i) => frame[i].key # frame[j].key
BY DEF Sole, Ledger, Owned

(* What a step of one call does whatever its key: it leaves the other      *)
(* calls, and all that is kept under other keys, alone.                    *)
LEMMA OthersAlone ==
  ASSUME TypeOK, NEW j \in Jobs, Progress(j) \/ Failure(j)
  PROVE  /\ InCall(j)
         /\ \A i \in Jobs \ {j} : frame'[i] = frame[i]
         /\ frame'[j].key = frame[j].key
         /\ \A k \in Keys \ {frame[j].key} :
              /\ inbox'[k] = inbox[k]
              /\ slips'[k] = slips[k]
              /\ k \in idem' <=> k \in idem
<1>1. InCall(j)
  BY DEF Progress, Failure, SkipRecorded, FindUnrecorded, WriteDoc, PushAccepted,
         PushRejected, ClearToken, Record, CheckRaises, WriteFails,
         WriteUnacknowledged, PushFails, RecordRaises, InCall
<1>2. \/ \E place \in Awaits : Goto(j, place)
      \/ \E how \in Endings : End(j, how)
  BY DEF Progress, Failure, SkipRecorded, FindUnrecorded, WriteDoc, PushAccepted,
         PushRejected, ClearToken, Record, CheckRaises, WriteFails,
         WriteUnacknowledged, PushFails, RecordRaises, Awaits, Endings
<1>3. /\ \A i \in Jobs \ {j} : frame'[i] = frame[i]
      /\ frame'[j].key = frame[j].key
  BY <1>1, <1>2, FrameMoves DEF Awaits, Endings
<1>4. UNCHANGED inbox \/ AppendDoc(j)
  BY DEF Progress, Failure, SkipRecorded, FindUnrecorded, WriteDoc, PushAccepted,
         PushRejected, ClearToken, Record, CheckRaises, WriteFails,
         WriteUnacknowledged, PushFails, RecordRaises
<1>5. UNCHANGED slips \/ SlipKeys({frame[j].key})
  BY DEF Progress, Failure, SkipRecorded, FindUnrecorded, WriteDoc, PushAccepted,
         PushRejected, ClearToken, Record, CheckRaises, WriteFails,
         WriteUnacknowledged, PushFails, RecordRaises
<1>6. UNCHANGED idem \/ idem' = idem \union {frame[j].key}
  BY DEF Progress, Failure, SkipRecorded, FindUnrecorded, WriteDoc, PushAccepted,
         PushRejected, ClearToken, Record, CheckRaises, WriteFails,
         WriteUnacknowledged, PushFails, RecordRaises
<1>7. ASSUME NEW k \in Keys \ {frame[j].key}
      PROVE  inbox'[k] = inbox[k] /\ slips'[k] = slips[k] /\ (k \in idem' <=> k \in idem)
  <2>1. inbox'[k] = inbox[k]
    BY <1>1, <1>4, InboxTyped
  <2>2. slips'[k] = slips[k]
    BY <1>5 DEF SlipKeys, TypeOK
  <2> QED
    BY <1>6, <2>1, <2>2
<1> QED
  BY <1>1, <1>3, <1>7

(* A call that moves on has no say whether other keys are in flight ...    *)
LEMMA OtherFlights ==
  ASSUME Ledger, NEW j \in Jobs, InCall(j),
         \A i \in Jobs \ {j} : frame'[i] = frame[i],
         frame'[j].key = frame[j].key
  PROVE  /\ \A k \in Keys \ {frame[j].key} : InFlight(k)' <=> InFlight(k)
         /\ Owned'
<1>1. \A i \in Jobs \ {j} : Written(i)' <=> Written(i)
  BY DEF Written
<1>2. \A k \in Keys \ {frame[j].key} : InFlight(k)' <=> InFlight(k)
  BY <1>1 DEF InFlight
<1>3. Owned'
  BY DEF Ledger, Owned, InCall
<1> QED
  BY <1>2, <1>3

(* ... so the call of a shared key leaves the books as they are, ...       *)
LEMMA SharedCall ==
  ASSUME Ledger, TypeOK', NEW j \in Jobs, Progress(j) \/ Failure(j),
         frame[j].key \notin Sole
  PROVE  Ledger'
<1>1. /\ InCall(j)
      /\ \A i \in Jobs \ {j} : frame'[i] = frame[i]
      /\ frame'[j].key = frame[j].key
      /\ \A k \in Keys \ {frame[j].key} :
           /\ inbox'[k] = inbox[k]
           /\ slips'[k] = slips[k]
           /\ k \in idem' <=> k \in idem
  BY OthersAlone DEF Ledger
<1>2. \A k \in Sole : k \in Keys \ {frame[j].key}
  BY DEF Sole
<1>3. Owned' /\ \A k \in Sole : InFlight(k)' <=> InFlight(k)
  BY <1>1, <1>2, OtherFlights
<1>4. Accounting'
  BY <1>1, <1>2, <1>3 DEF Ledger, Accounting
<1>5. Unrecorded'
  BY <1>1, <1>2 DEF Ledger, Unrecorded
<1> QED
  BY <1>3, <1>4, <1>5 DEF Ledger

(* ... and the call of a sole caller decides alone whether its key is.     *)
LEMMA CallMoves ==
  ASSUME Ledger, NEW j \in Jobs, InCall(j), frame[j].key \in Sole,
         \A i \in Jobs \ {j} : frame'[i] = frame[i],
         frame'[j].key = frame[j].key
  PROVE  /\ \A k \in Keys \ {frame[j].key} : InFlight(k)' <=> InFlight(k)
         /\ InFlight(frame[j].key) <=> Written(j)
         /\ InFlight(frame[j].key)' <=> Written(j)'
         /\ Owned'
<1>1. \A i \in Jobs \ {j} : InCall(i) => frame[i].key # frame[j].key
  BY SoleCall
<1>2. \A i \in Jobs : Written(i) => InCall(i)
  BY DEF Written, InCall
<1>3. \A i \in Jobs \ {j} : Written(i)' <=> Written(i)
  BY DEF Written
<1>4. (\A k \in Keys \ {frame[j].key} : InFlight(k)' <=> InFlight(k)) /\ Owned'
  BY OtherFlights
<1>5. InFlight(frame[j].key) <=> Written(j)
  BY <1>1, <1>2 DEF InFlight
<1>6. InFlight(frame[j].key)' <=> Written(j)'
  <2>1. \A i \in Jobs \ {j} : Written(i)' => frame'[i].key # frame[j].key
    BY <1>1, <1>2, <1>3
  <2> QED
    BY <2>1 DEF InFlight
<1> QED
  BY <1>4, <1>5, <1>6

(* What its step does to the books: enough for Accounting'.                *)
LEMMA Balance ==
  ASSUME Ledger, NEW j \in Jobs, InCall(j), TypeOK', frame[j].key \in Sole,
         \A i \in Jobs \ {j} : frame'[i] = frame[i],
         frame'[j].key = frame[j].key,
         \A k \in Keys \ {frame[j].key} :
           /\ Len(inbox'[k]) = Len(inbox[k])
           /\ slips'[k] = slips[k]
           /\ k \in idem' <=> k \in idem,
         LET k == frame[j].key IN
           Len(inbox'[k]) - slips'[k] =
             IF k \in idem' \/ Written(j)' THEN 1 ELSE 0,
         frame[j].key \in idem' => frame'[j].at \in {"exists", "over"}
  PROVE  Ledger'
<1> DEFINE kj == frame[j].key
<1>1. /\ \A k \in Keys \ {kj} : InFlight(k)' <=> InFlight(k)
      /\ InFlight(kj)' <=> Written(j)'
      /\ Owned'
  BY CallMoves
<1>2. kj \in Keys
  BY FrameOfCall DEF Ledger
<1>3. \A k \in Keys : Len(inbox'[k]) \in Nat /\ slips'[k] \in Nat
  BY LenProperties DEF TypeOK
<1>4. ASSUME NEW k \in Sole
      PROVE  Len(inbox'[k]) = slips'[k]
               + (IF k \in idem' \/ InFlight(k)' THEN 1 ELSE 0)
  <2> k \in Keys
    BY DEF Sole
  <2>1. CASE k = kj
    BY <1>1, <1>3, <2>1
  <2>2. CASE k # kj
    BY <1>1, <2>2 DEF Ledger, Accounting
  <2> QED
    BY <2>1, <2>2
<1>5. Accounting'
  BY <1>4 DEF Accounting
<1>6. Unrecorded'
  <2> SUFFICES ASSUME NEW i \in Jobs,
                      frame'[i].at \in {"write", "push", "clear", "record"},
                      frame'[i].key \in Sole
               PROVE  frame'[i].key \notin idem'
    BY DEF Unrecorded
  <2>1. CASE i = j
    BY <2>1
  <2>2. CASE i # j
    <3>1. InCall(i) /\ frame[i].key \notin idem
      BY <2>2 DEF Ledger, Unrecorded, InCall
    <3>2. frame[i].key # kj /\ frame[i].key \in Keys
      BY <2>2, <3>1, SoleCall, FrameOfCall DEF Ledger
    <3> QED
      BY <2>2, <3>1, <3>2
  <2> QED
    BY <2>1, <2>2
<1> QED
  BY <1>1, <1>5, <1>6 DEF Ledger

(* What the books say of the key of such a call before it moves on. *)
LEMMA Books ==
  ASSUME Ledger, NEW j \in Jobs, InCall(j), frame[j].key \in Sole
  PROVE  LET k == frame[j].key IN
           /\ k \in Keys
           /\ Len(inbox[k]) \in Nat
           /\ slips[k] \in Nat
           /\ Len(inbox[k]) = slips[k] + (IF k \in idem \/ Written(j) THEN 1 ELSE 0)
           /\ frame[j].at # "exists" => k \notin idem
<1>1. frame[j].key \in Keys /\ frame[j].at \in Awaits
  BY FrameOfCall DEF Ledger
<1>2. InFlight(frame[j].key) <=> Written(j)
  <2>1. \A i \in Jobs \ {j} : InCall(i) => frame[i].key # frame[j].key
    BY SoleCall
  <2> QED
    BY <2>1 DEF InFlight, Written, InCall
<1>3. frame[j].at # "exists" => frame[j].key \notin idem
  BY <1>1 DEF Ledger, Unrecorded, Awaits
<1>4. Len(inbox[frame[j].key]) \in Nat /\ slips[frame[j].key] \in Nat
  BY <1>1, LenProperties DEF Ledger, TypeOK
<1> QED
  BY <1>1, <1>2, <1>3, <1>4 DEF Ledger, Accounting

LEMMA LedgerProgress ==
  ASSUME Ledger, NEW j \in Jobs, Progress(j), frame[j].key \in Sole
  PROVE  Ledger'
<1> DEFINE k == frame[j].key
<1>1. TypeOK /\ TypeOK'
  BY TypeProgress DEF Ledger
<1>2. InCall(j)
  BY DEF Progress, SkipRecorded, FindUnrecorded, WriteDoc, PushAccepted,
         PushRejected, ClearToken, Record, InCall
<1>3. /\ k \in Keys
      /\ Len(inbox[k]) \in Nat
      /\ slips[k] \in Nat
      /\ Len(inbox[k]) = slips[k] + (IF k \in idem \/ Written(j) THEN 1 ELSE 0)
      /\ frame[j].at # "exists" => k \notin idem
  BY <1>2, Books
<1>4. CASE SkipRecorded(j)
  <2>1. /\ \A i \in Jobs \ {j} : frame'[i] = frame[i]
        /\ frame'[j].key = frame[j].key
        /\ frame'[j].at = "over"
    BY <1>1, <1>2, <1>4, FrameMoves DEF SkipRecorded, Endings
  <2> QED
    BY <1>1, <1>2, <1>3, <1>4, <2>1, Balance DEF SkipRecorded, Recorded, Written
<1>5. CASE FindUnrecorded(j)
  <2>1. /\ \A i \in Jobs \ {j} : frame'[i] = frame[i]
        /\ frame'[j].key = frame[j].key
        /\ frame'[j].at = "write"
    BY <1>1, <1>2, <1>5, FrameMoves DEF FindUnrecorded, Awaits, Endings
  <2> QED
    BY <1>1, <1>2, <1>3, <1>5, <2>1, Balance
       DEF FindUnrecorded, Recorded, Written
<1>6. CASE WriteDoc(j)
  <2>1. /\ \A i \in Jobs \ {j} : frame'[i] = frame[i]
        /\ frame'[j].key = frame[j].key
        /\ frame'[j].at \in {"push", "record"}
    BY <1>1, <1>2, <1>6, FrameMoves DEF WriteDoc, Awaits, Endings
  <2>2. /\ \A l \in Keys \ {k} : inbox'[l] = inbox[l]
        /\ Len(inbox'[k]) = Len(inbox[k]) + 1
    BY <1>1, <1>2, <1>6, InboxTyped DEF WriteDoc
  <2>3. UNCHANGED <<idem, slips>> /\ k \notin idem /\ ~Written(j) /\ Written(j)'
    BY <1>3, <1>6, <2>1 DEF WriteDoc, Written
  <2>4. Len(inbox'[k]) - slips'[k] = 1
    BY <1>3, <2>2, <2>3
  <2> QED
    BY <1>1, <1>2, <2>1, <2>2, <2>3, <2>4, Balance
<1>7. CASE PushAccepted(j) \/ PushRejected(j) \/ ClearToken(j)
  <2>1. \/ Goto(j, "record")
        \/ Goto(j, "clear")
    BY <1>7 DEF PushAccepted, PushRejected, ClearToken
  <2>2. /\ \A i \in Jobs \ {j} : frame'[i] = frame[i]
        /\ frame'[j].key = frame[j].key
        /\ frame'[j].at \in {"clear", "record"}
    BY <1>1, <1>2, <2>1, FrameMoves DEF Awaits, Endings
  <2>3. UNCHANGED <<idem, inbox, slips>> /\ Written(j)
    BY <1>7 DEF PushAccepted, PushRejected, ClearToken, Written
  <2>4. Written(j)'
    BY <2>2 DEF Written
  <2>5. Len(inbox'[k]) - slips'[k] = 1
    BY <1>3, <2>3
  <2>6. k \notin idem'
    BY <1>3, <2>3 DEF Written
  <2> QED
    BY <1>1, <1>2, <2>2, <2>3, <2>4, <2>5, <2>6, Balance
<1>8. CASE Record(j)
  <2>1. /\ \A i \in Jobs \ {j} : frame'[i] = frame[i]
        /\ frame'[j].key = frame[j].key
        /\ frame'[j].at = "over"
    BY <1>1, <1>2, <1>8, FrameMoves DEF Record, Endings
  <2> QED
    BY <1>1, <1>2, <1>3, <1>8, <2>1, Balance DEF Record, Written
<1> QED
  BY <1>4, <1>5, <1>6, <1>7, <1>8 DEF Progress

LEMMA LedgerFailure ==
  ASSUME Ledger, NEW j \in Jobs, Failure(j), frame[j].key \in Sole
  PROVE  Ledger'
<1> DEFINE k == frame[j].key
<1>1. TypeOK /\ TypeOK'
  BY TypeFailure DEF Ledger
<1>2. InCall(j)
  BY DEF Failure, CheckRaises, WriteFails, WriteUnacknowledged, PushFails,
         RecordRaises, InCall
<1>3. /\ k \in Keys
      /\ Len(inbox[k]) \in Nat
      /\ slips[k] \in Nat
      /\ Len(inbox[k]) = slips[k] + (IF k \in idem \/ Written(j) THEN 1 ELSE 0)
      /\ frame[j].at # "exists" => k \notin idem
  BY <1>2, Books
<1>4. \E how \in Endings : End(j, how)
  BY DEF Failure, CheckRaises, WriteFails, WriteUnacknowledged, PushFails,
         RecordRaises, Endings
<1>5. /\ \A i \in Jobs \ {j} : frame'[i] = frame[i]
      /\ frame'[j].key = frame[j].key
      /\ frame'[j].at = "over"
  BY <1>1, <1>2, <1>4, FrameMoves
<1>6. SlipKeys({k}) => /\ \A l \in Keys \ {k} : slips'[l] = slips[l]
                       /\ slips'[k] = slips[k] + 1
  BY <1>3 DEF SlipKeys
<1>7. CASE CheckRaises(j) \/ WriteFails(j)
  <2>1. UNCHANGED <<idem, inbox, slips>> /\ ~Written(j) /\ ~Written(j)'
    BY <1>5, <1>7 DEF CheckRaises, WriteFails, Written
  <2>2. /\ Len(inbox'[k]) - slips'[k] = IF k \in idem' \/ Written(j)' THEN 1 ELSE 0
        /\ k \in idem' => frame'[j].at \in {"exists", "over"}
    BY <1>3, <1>5, <2>1
  <2> QED
    BY <1>1, <1>2, <1>5, <2>1, <2>2, Balance
<1>8. CASE WriteUnacknowledged(j)
  <2>1. /\ \A l \in Keys \ {k} : inbox'[l] = inbox[l]
        /\ Len(inbox'[k]) = Len(inbox[k]) + 1
    BY <1>1, <1>2, <1>8, InboxTyped DEF WriteUnacknowledged
  <2>2. /\ UNCHANGED idem
        /\ frame[j].at = "write"
        /\ SlipKeys({k})
    BY <1>8 DEF WriteUnacknowledged
  <2>3. k \notin idem /\ ~Written(j) /\ ~Written(j)'
    BY <1>3, <1>5, <2>2 DEF Written
  <2>4. Len(inbox'[k]) - slips'[k] = 0
    <3>1. slips'[k] = slips[k] + 1
      BY <1>6, <2>2
    <3>2. Len(inbox[k]) = slips[k]
      BY <1>3, <2>3
    <3> QED
      BY <1>3, <2>1, <3>1, <3>2
  <2> QED
    BY <1>1, <1>2, <1>5, <1>6, <2>1, <2>2, <2>3, <2>4, Balance
<1>9. CASE PushFails(j)
  BY <1>1, <1>2, <1>3, <1>5, <1>6, <1>9, Balance DEF PushFails, Written
<1>10. CASE RecordRaises(j)
  BY <1>1, <1>2, <1>3, <1>5, <1>6, <1>10, Balance DEF RecordRaises, Written
<1> QED
  BY <1>7, <1>8, <1>9, <1>10 DEF Failure

LEMMA LedgerCall ==
  ASSUME Ledger, TypeOK',
         NEW k \in Keys, NEW j \in Callers[k], NEW u, NEW t, Call(j, u, t, k)
  PROVE  Ledger'
<1>1. j \in Jobs
  OBVIOUS
<1>2. /\ \A i \in Jobs \ {j} : frame'[i] = frame[i]
      /\ frame'[j].at = "exists"
      /\ frame'[j].key = k
  BY <1>1 DEF Call, Ledger, TypeOK
<1>3. \A i \in Jobs : Written(i)' <=> Written(i)
  BY <1>2 DEF Written, Call, InCall
<1>4. Owned' /\ Unrecorded'
  BY <1>2 DEF Ledger, Owned, Unrecorded, Call, InCall
<1>5. \A l \in Keys : InFlight(l)' <=> InFlight(l)
  <2>1. \A i \in Jobs : Written(i) => frame'[i] = frame[i]
    BY <1>2, <1>3 DEF Written
  <2> QED
    BY <1>3, <2>1 DEF InFlight
<1>6. Accounting'
  BY <1>5 DEF Ledger, Accounting, Call, Sole
<1> QED
  BY <1>4, <1>6 DEF Ledger

LEMMA LedgerResume ==
  ASSUME Ledger, TypeOK', NEW j \in Jobs, Resume(j)
  PROVE  Ledger'
<1>1. /\ \A i \in Jobs \ {j} : frame'[i] = frame[i]
      /\ frame'[j].at = "over"
      /\ frame[j].at = "over"
  BY DEF Resume, Ledger, TypeOK, NoFrame, InCall
<1>2. \A l \in Keys : InFlight(l)' <=> InFlight(l)
  BY <1>1 DEF InFlight, Written
<1>3. Owned' /\ Unrecorded'
  BY <1>1 DEF Ledger, Owned, Unrecorded, Resume, InCall
<1>4. Accounting'
  BY <1>2 DEF Ledger, Accounting, Resume, Sole
<1> QED
  BY <1>3, <1>4 DEF Ledger

(* A crash takes the written keys out of flight and counts them as slips. *)
LEMMA LedgerCrash ==
  ASSUME Ledger, TypeOK', NEW js \in SUBSET Jobs, Crash(js)
  PROVE  Ledger'
<1> DEFINE ks == {frame[j].key : j \in {i \in js : Written(i)}}
<1>1. \A i \in Jobs : /\ i \in js => frame'[i].at = "over"
                      /\ i \notin js => frame'[i] = frame[i]
  <2>1. ASSUME NEW i \in js, InCall(i)
        PROVE  frame'[i].at = "over"
    <3>1. frame[i] \in Frames
      BY <2>1, FrameOfCall DEF Ledger
    <3>2. frame'[i] = [frame[i] EXCEPT !.at = "over", !.end = "killed"]
      BY <2>1 DEF Crash
    <3> QED
      BY <3>1, <3>2 DEF Frames
  <2> QED
    BY <2>1 DEF Crash, InCall
<1>2. Owned' /\ Unrecorded'
  BY <1>1 DEF Ledger, Owned, Unrecorded, Crash, InCall
<1>3. ASSUME NEW k \in Sole
      PROVE  Len(inbox'[k]) = slips'[k]
               + (IF k \in idem' \/ InFlight(k)' THEN 1 ELSE 0)
  <2> k \in Keys
    BY DEF Sole
  <2>1. inbox'[k] = inbox[k] /\ (k \in idem' <=> k \in idem)
    BY DEF Crash
  <2>2. Len(inbox[k]) = slips[k] + (IF k \in idem \/ InFlight(k) THEN 1 ELSE 0)
    BY DEF Ledger, Accounting
  <2>3. slips'[k] = (IF k \in ks THEN slips[k] + 1 ELSE slips[k])
    BY DEF Crash, SlipKeys
  <2>4. slips[k] \in Nat /\ Len(inbox[k]) \in Nat
    BY LenProperties DEF Ledger, TypeOK
  <2>5. CASE k \in ks
    <3>1. PICK j \in js : Written(j) /\ frame[j].key = k
      BY <2>5
    <3>2. j \in Jobs /\ InCall(j)
      BY <3>1 DEF Written, InCall
    <3>3. k \notin idem /\ InFlight(k)
      BY <3>1, <3>2 DEF Ledger, Unrecorded, Written, InFlight
    <3>4. \A i \in Jobs \ {j} : InCall(i) => frame[i].key # k
      BY <3>1, <3>2, SoleCall
    <3>5. ~InFlight(k)'
      BY <1>1, <3>1, <3>4 DEF InFlight, Written, InCall
    <3> QED
      BY <2>1, <2>2, <2>3, <2>4, <2>5, <3>3, <3>5
  <2>6. CASE k \notin ks
    <3>1. InFlight(k)' <=> InFlight(k)
      BY <1>1, <2>6 DEF InFlight, Written
    <3> QED
      BY <2>1, <2>2, <2>3, <2>4, <2>6, <3>1
  <2> QED
    BY <2>5, <2>6
<1>4. Accounting'
  BY <1>3 DEF Accounting
<1> QED
  BY <1>2, <1>4 DEF Ledger

LEMMA LedgerForget ==
  ASSUME Ledger, TypeOK', NEW k \in Keys, Forget(k)
  PROVE  Ledger'
<1>1. k \in Sole => ~InFlight(k)
  BY DEF InFlight, Written, Ledger, Unrecorded, Forget
<1>2. \A l \in Keys : InFlight(l)' <=> InFlight(l)
  BY DEF InFlight, Written, Forget
<1>3. Owned' /\ Unrecorded'
  BY DEF Ledger, Owned, Unrecorded, Forget, InCall
<1>4. ASSUME NEW l \in Sole
      PROVE  Len(inbox'[l]) = slips'[l]
               + (IF l \in idem' \/ InFlight(l)' THEN 1 ELSE 0)
  <2> l \in Keys
    BY DEF Sole
  <2>1. inbox'[l] = inbox[l]
    BY DEF Forget
  <2>2. Len(inbox[l]) = slips[l] + (IF l \in idem \/ InFlight(l) THEN 1 ELSE 0)
    BY DEF Ledger, Accounting
  <2>3. slips[l] \in Nat /\ Len(inbox[l]) \in Nat
    BY LenProperties DEF Ledger, TypeOK
  <2>4. slips'[l] = (IF l = k THEN slips[l] + 1 ELSE slips[l])
    BY DEF Forget, SlipKeys
  <2>5. /\ k \in idem
        /\ idem' = idem \ {k}
    BY DEF Forget
  <2>6. InFlight(l)' <=> InFlight(l)
    BY <1>2
  <2>7. CASE l = k
    BY <1>1, <2>1, <2>2, <2>3, <2>4, <2>5, <2>6, <2>7
  <2>8. CASE l # k
    BY <2>1, <2>2, <2>3, <2>4, <2>5, <2>6, <2>8
  <2> QED
    BY <2>7, <2>8
<1>5. Accounting'
  BY <1>4 DEF Accounting
<1> QED
  BY <1>3, <1>5 DEF Ledger

LEMMA LedgerNext == Ledger /\ [DispatchNext]_dispatchVars => Ledger'
<1> SUFFICES ASSUME Ledger, [DispatchNext]_dispatchVars
             PROVE  Ledger'
  OBVIOUS
<1>1. TypeOK'
  BY TypeNext DEF Ledger
<1>2. ASSUME \/ UNCHANGED dispatchVars
             \/ \E u \in Users : Register(u) \/ Uninstall(u)
      PROVE  Ledger'
  <2>1. UNCHANGED <<frame, idem, inbox, slips>>
    BY <1>2 DEF dispatchVars, Register, Uninstall
  <2>2. Owned' /\ Unrecorded'
    BY <2>1 DEF Ledger, Owned, Unrecorded, InCall
  <2>3. \A k \in Keys : InFlight(k)' <=> InFlight(k)
    BY <2>1 DEF InFlight, Written
  <2>4. Accounting'
    BY <2>1, <2>3 DEF Ledger, Accounting, Sole
  <2> QED
    BY <1>1, <2>2, <2>4 DEF Ledger
<1>3. CASE DispatchNext
  <2>1. CASE \E k \in Keys : \E j \in Callers[k], u \in Addressees[k] :
               \E t \in 1 .. issued[u] : Call(j, u, t, k)
    BY <1>1, <2>1, LedgerCall
  <2>2. CASE \E j \in Jobs : Progress(j) \/ Failure(j) \/ Resume(j)
    BY <1>1, <2>2, SharedCall, LedgerProgress, LedgerFailure, LedgerResume
  <2>3. CASE \E js \in SUBSET Jobs : Crash(js)
    BY <1>1, <2>3, LedgerCrash
  <2>4. CASE Environment
    BY <1>1, <1>2, <2>4, LedgerForget DEF Environment
  <2> QED
    BY <1>3, <2>1, <2>2, <2>3, <2>4 DEF DispatchNext
<1> QED
  BY <1>2, <1>3

(* Every document under a key that one caller builds is accounted for. *)
THEOREM Accounted == DispatchSpec => []Accounting
<1>1. Ledger => Accounting
  BY DEF Ledger
<1> QED
  BY <1>1, LedgerInit, LedgerNext, PTL DEF DispatchSpec

-------------------------------------------------------------------------------
(* The dispatcher implements IdempotentDelivery for those keys.  A step    *)
(* that leaves their documents, slips and records alone is a stutter there. *)

Shown == [k \in Sole |-> Len(inbox[k])]
Slipped == [k \in Sole |-> slips[k]]

LEMMA Stutter ==
  ASSUME \A k \in Sole : /\ Len(inbox'[k]) = Len(inbox[k])
                         /\ slips'[k] = slips[k]
                         /\ k \in idem' <=> k \in idem
  PROVE  UNCHANGED Delivery!deliveryVars
<1>1. Shown' = Shown /\ Slipped' = Slipped
  BY DEF Shown, Slipped
<1>2. (idem \intersect Sole)' = idem \intersect Sole
  OBVIOUS
<1> QED
  BY <1>1, <1>2 DEF Delivery!deliveryVars, Shown, Slipped

LEMMA DeliversInit == DispatchInit => Delivery!Init
<1> SUFFICES ASSUME DispatchInit PROVE Delivery!Init
  OBVIOUS
<1>1. Shown = [k \in Sole |-> 0] /\ Slipped = [k \in Sole |-> 0]
  BY EmptySeq DEF DispatchInit, Shown, Slipped, Sole
<1>2. idem \intersect Sole = {}
  BY DEF DispatchInit
<1> QED
  BY <1>1, <1>2 DEF Delivery!Init, Shown, Slipped

LEMMA DeliversWrite ==
  ASSUME Ledger, NEW j \in Jobs, frame[j].key \in Sole,
         WriteDoc(j) \/ WriteUnacknowledged(j)
  PROVE  Delivery!Next
<1>1. frame[j].at = "write" /\ InCall(j) /\ AppendDoc(j) /\ UNCHANGED idem
  BY DEF WriteDoc, WriteUnacknowledged, InCall
<1> PICK k \in Sole : k = frame[j].key
  OBVIOUS
<1>2. Len(inbox[k]) = slips[k]
  BY <1>1, Books DEF Written
<1>3. Shown' = [Shown EXCEPT ![k] = @ + 1]
  BY <1>1, InboxTyped DEF Shown, Ledger, Sole
<1>4. Shown[k] = Slipped[k]
  BY <1>2 DEF Shown, Slipped
<1>5. (idem \intersect Sole)' = idem \intersect Sole
  BY <1>1
<1>6. CASE WriteDoc(j)
  <2>1. Slipped' = Slipped
    BY <1>6 DEF WriteDoc, Slipped
  <2>2. Delivery!Show(k)
    BY <1>3, <1>4, <1>5, <2>1 DEF Delivery!Show, Shown, Slipped
  <2> QED
    BY <2>2 DEF Delivery!Next
<1>7. CASE WriteUnacknowledged(j)
  <2>1. SlipKeys({k})
    BY <1>7 DEF WriteUnacknowledged
  <2>2. Slipped' = [Slipped EXCEPT ![k] = @ + 1]
    BY <2>1 DEF SlipKeys, Slipped, Sole
  <2>3. Delivery!ShowAndSlip(k)
    BY <1>3, <1>4, <1>5, <2>2 DEF Delivery!ShowAndSlip, Shown, Slipped
  <2> QED
    BY <2>3 DEF Delivery!Next
<1> QED
  BY <1>6, <1>7

(* Steps that take standing documents away from under the store. *)
LEMMA DeliversSlip ==
  ASSUME Ledger, NEW ks \in SUBSET Keys, SlipKeys(ks), UNCHANGED inbox,
         idem' \intersect Sole = (idem \intersect Sole) \ ks,
         \A k \in ks \intersect Sole : Len(inbox[k]) = slips[k] + 1
  PROVE  Delivery!Next
<1> DEFINE lost == ks \intersect Sole
<1>1. Shown' = Shown /\ \A k \in lost : Shown[k] = Slipped[k] + 1
  BY DEF Shown, Slipped
<1>2. Slipped' = [k \in Sole |-> IF k \in lost THEN Slipped[k] + 1 ELSE Slipped[k]]
  BY DEF Slipped, SlipKeys, Sole
<1>3. (idem \intersect Sole)' = (idem \intersect Sole) \ lost
  OBVIOUS
<1>4. Delivery!Slip(lost)
  BY <1>1, <1>2, <1>3 DEF Delivery!Slip, Delivery!Standing, Shown, Slipped
<1> QED
  BY <1>4 DEF Delivery!Next

(* Steps that record the key of a written document. *)
LEMMA DeliversRecord ==
  ASSUME NEW k \in Sole, UNCHANGED <<inbox, slips>>, idem' = idem \union {k},
         Len(inbox[k]) = slips[k] + 1
  PROVE  Delivery!Next
<1>1. Shown' = Shown /\ Slipped' = Slipped /\ Shown[k] = Slipped[k] + 1
  BY DEF Shown, Slipped
<1>2. (idem \intersect Sole)' = (idem \intersect Sole) \union {k}
  OBVIOUS
<1>3. Delivery!Settle(k)
  BY <1>1, <1>2 DEF Delivery!Settle, Delivery!Standing, Shown, Slipped
<1> QED
  BY <1>3 DEF Delivery!Next

LEMMA DeliversEnd ==
  ASSUME Ledger, NEW j \in Jobs, frame[j].key \in Sole,
         PushFails(j) \/ RecordRaises(j) \/ Record(j)
  PROVE  Delivery!Next
<1> DEFINE k == frame[j].key
<1>1. InCall(j) /\ Written(j)
  BY DEF PushFails, RecordRaises, Record, InCall, Written
<1>2. k \in Keys /\ k \notin idem /\ Len(inbox[k]) = slips[k] + 1
  BY <1>1, Books DEF Written
<1>3. UNCHANGED inbox /\ \/ SlipKeys({k}) /\ UNCHANGED idem
                         \/ idem' = idem \union {k} /\ UNCHANGED slips
  BY DEF PushFails, RecordRaises, Record
<1>4. CASE SlipKeys({k}) /\ UNCHANGED idem
  <2>1. idem' \intersect Sole = (idem \intersect Sole) \ {k} /\ {k} \in SUBSET Keys
    BY <1>2, <1>4
  <2> QED
    BY <1>2, <1>3, <1>4, <2>1, DeliversSlip
<1>5. CASE idem' = idem \union {k} /\ UNCHANGED slips
  BY <1>2, <1>3, <1>5, DeliversRecord
<1> QED
  BY <1>3, <1>4, <1>5

LEMMA DeliversCrash ==
  ASSUME Ledger, NEW js \in SUBSET Jobs, Crash(js)
  PROVE  Delivery!Next
<1> DEFINE ks == {frame[j].key : j \in {i \in js : Written(i)}}
<1>1. ASSUME NEW j \in js, Written(j)
      PROVE  /\ frame[j].key \in Keys
             /\ frame[j].key \in Sole =>
                  /\ frame[j].key \notin idem
                  /\ Len(inbox[frame[j].key]) = slips[frame[j].key] + 1
  <2>1. InCall(j) /\ frame[j].at # "exists"
    BY <1>1 DEF Written, InCall
  <2>2. frame[j].key \in Keys
    BY <2>1, FrameOfCall DEF Ledger
  <2> QED
    BY <1>1, <2>1, <2>2, Books
<1>2. /\ ks \in SUBSET Keys
      /\ \A k \in ks \intersect Sole : Len(inbox[k]) = slips[k] + 1
      /\ \A k \in ks \intersect Sole : k \notin idem
  BY <1>1
<1>3. UNCHANGED <<inbox, idem>> /\ SlipKeys(ks)
  BY DEF Crash
<1>4. idem' \intersect Sole = (idem \intersect Sole) \ ks
  BY <1>2, <1>3
<1> HIDE DEF ks
<1> QED
  BY <1>2, <1>3, <1>4, DeliversSlip

LEMMA DeliversForget ==
  ASSUME Ledger, NEW k \in Keys, Forget(k)
  PROVE  Delivery!Next
<1>1. k \in Sole => Len(inbox[k]) = slips[k] + 1
  BY DEF Forget, Ledger, Accounting
<1>2. {k} \in SUBSET Keys /\ idem' \intersect Sole = (idem \intersect Sole) \ {k}
  BY DEF Forget
<1> QED
  BY <1>1, <1>2, DeliversSlip DEF Forget

LEMMA DeliversNext ==
  ASSUME Ledger, [DispatchNext]_dispatchVars
  PROVE  [Delivery!Next]_(Delivery!deliveryVars)
<1>1. ASSUME UNCHANGED <<inbox, slips, idem>> PROVE UNCHANGED Delivery!deliveryVars
  BY <1>1, Stutter
<1>2. ASSUME \/ UNCHANGED dispatchVars
             \/ \E k \in Keys : \E j \in Callers[k], u \in Addressees[k] :
                  \E t \in 1 .. issued[u] : Call(j, u, t, k)
             \/ \E u \in Users : Register(u) \/ Uninstall(u)
      PROVE  UNCHANGED Delivery!deliveryVars
  BY <1>1, <1>2 DEF dispatchVars, Call, Register, Uninstall
<1>3. ASSUME NEW j \in Jobs, Progress(j) \/ Failure(j) \/ Resume(j)
      PROVE  [Delivery!Next]_(Delivery!deliveryVars)
  <2>1. CASE \/ SkipRecorded(j) \/ FindUnrecorded(j) \/ PushAccepted(j)
             \/ PushRejected(j) \/ ClearToken(j) \/ CheckRaises(j)
             \/ WriteFails(j) \/ Resume(j)
    BY <1>1, <2>1 DEF SkipRecorded, FindUnrecorded, PushAccepted,
         PushRejected, ClearToken, CheckRaises, WriteFails, Resume
  <2>2. CASE (Progress(j) \/ Failure(j)) /\ frame[j].key \notin Sole
    <3>1. \A k \in Sole : k \in Keys \ {frame[j].key}
      BY <2>2 DEF Sole
    <3> QED
      BY <2>2, <3>1, OthersAlone, Stutter DEF Ledger
  <2>3. CASE (WriteDoc(j) \/ WriteUnacknowledged(j)) /\ frame[j].key \in Sole
    BY <2>3, DeliversWrite
  <2>4. CASE (PushFails(j) \/ RecordRaises(j) \/ Record(j)) /\ frame[j].key \in Sole
    BY <2>4, DeliversEnd
  <2> QED
    BY <1>3, <2>1, <2>2, <2>3, <2>4 DEF Progress, Failure
<1>4. ASSUME NEW js \in SUBSET Jobs, Crash(js)
      PROVE  Delivery!Next
  BY <1>4, DeliversCrash
<1>5. ASSUME NEW k \in Keys, Forget(k)
      PROVE  Delivery!Next
  BY <1>5, DeliversForget
<1> QED
  BY <1>2, <1>3, <1>4, <1>5 DEF DispatchNext, Environment

(* For the keys of a sole caller the awaits of dispatch, its failures and  *)
(* its crashes amount to the steps of IdempotentDelivery.                  *)
THEOREM Implements == DispatchSpec => DeliverySpec
<1>1. DispatchInit => Ledger /\ Delivery!Init
  BY LedgerInit, DeliversInit
<1>2. Ledger /\ [DispatchNext]_dispatchVars => Ledger'
  BY LedgerNext
<1>3. Ledger /\ [DispatchNext]_dispatchVars
        => [Delivery!Next]_(Delivery!deliveryVars)
  BY DeliversNext
<1> QED
  BY <1>1, <1>2, <1>3, PTL DEF DispatchSpec, DeliverySpec, Delivery!Spec

-------------------------------------------------------------------------------
(* Tokens.  What FCM said of a token is used after an await; it still      *)
(* holds because tokens are issued in order and a call carries one that    *)
(* was issued before it.                                                   *)

(* A call carries a token that was issued to its user. *)
Issued ==
  \A j \in Jobs : InCall(j) => frame[j].token <= issued[frame[j].uid]

(* When clear_fcm_token runs, the token the call was made with is dead.    *)
RejectedStaysDead ==
  \A j \in Jobs :
    frame[j].at = "clear" => ~Live(frame[j].uid, frame[j].token)

Minted == TypeOK /\ Issued /\ RejectedStaysDead

LEMMA MintedInit == DispatchInit => Minted
BY TypeInit DEF DispatchInit, Minted, Issued, RejectedStaysDead, InCall, NoFrame

(* A step that issues no token, and moves calls on or ends them: only the  *)
(* one that comes to clear_fcm_token needs a look.                         *)
LEMMA MintedMoves ==
  ASSUME Minted, TypeOK', NEW j \in Jobs, InCall(j),
         UNCHANGED <<issued, installed>>,
         NEW place \in Awaits \union {"over"}, NEW how \in Endings,
         \/ Goto(j, place)
         \/ place = "over" /\ End(j, how),
         place = "clear" => Rejected(j)
  PROVE  Minted'
<1>1. /\ \A i \in Jobs \ {j} : frame'[i] = frame[i]
      /\ frame'[j].uid = frame[j].uid
      /\ frame'[j].token = frame[j].token
      /\ frame'[j].at = place
  BY FrameMoves DEF Minted
<1>2. Issued'
  BY <1>1 DEF Minted, Issued, InCall
<1>3. RejectedStaysDead'
  <2> SUFFICES ASSUME NEW i \in Jobs, frame'[i].at = "clear"
               PROVE  ~Live(frame[i].uid, frame[i].token)'
    BY DEF RejectedStaysDead
  <2>1. CASE i = j
    BY <1>1, <2>1 DEF Rejected, Live
  <2>2. CASE i # j
    BY <1>1, <2>2 DEF Minted, RejectedStaysDead, Live
  <2> QED
    BY <2>1, <2>2
<1> QED
  BY <1>2, <1>3 DEF Minted

LEMMA MintedStep ==
  ASSUME Minted, NEW j \in Jobs, Progress(j) \/ Failure(j)
  PROVE  Minted'
<1> USE DEF tokenVars
<1>1. TypeOK'
  BY TypeProgress, TypeFailure DEF Minted
<1>2. InCall(j) /\ UNCHANGED <<issued, installed>>
  BY DEF Progress, SkipRecorded, FindUnrecorded, WriteDoc, PushAccepted,
         PushRejected, ClearToken, Record, Failure, CheckRaises, WriteFails,
         WriteUnacknowledged, PushFails, RecordRaises, InCall
<1>3. CASE PushRejected(j)
  <2>1. Goto(j, "clear") /\ Rejected(j)
    BY <1>3 DEF PushRejected
  <2> QED
    BY <1>1, <1>2, <2>1, MintedMoves DEF Awaits, Endings
<1>4. CASE Progress(j) /\ ~PushRejected(j)
  <2>1. \/ \E place \in Awaits \ {"clear"} : Goto(j, place)
        \/ End(j, "returned")
    BY <1>4 DEF Progress, SkipRecorded, FindUnrecorded, WriteDoc,
         PushAccepted, ClearToken, Record, Awaits
  <2>2. CASE \E place \in Awaits \ {"clear"} : Goto(j, place)
    BY <1>1, <1>2, <2>2, MintedMoves DEF Endings
  <2>3. CASE End(j, "returned")
    BY <1>1, <1>2, <2>3, MintedMoves DEF Endings
  <2> QED
    BY <2>1, <2>2, <2>3
<1>5. CASE Failure(j)
  <2>1. End(j, "returned") \/ End(j, "raised")
    BY <1>5 DEF Failure, CheckRaises, WriteFails, WriteUnacknowledged,
         PushFails, RecordRaises
  <2> QED
    BY <1>1, <1>2, <2>1, MintedMoves DEF Endings
<1> QED
  BY <1>3, <1>4, <1>5

LEMMA MintedCrash ==
  ASSUME Minted, TypeOK', NEW js \in SUBSET Jobs, Crash(js)
  PROVE  Minted'
<1>1. ASSUME NEW i \in Jobs, InCall(i)'
      PROVE  frame'[i] = frame[i]
  <2>1. CASE i \in js /\ InCall(i)
    <3>1. frame[i] \in Frames
      BY <2>1, FrameOfCall DEF Minted
    <3>2. frame'[i] = [frame[i] EXCEPT !.at = "over", !.end = "killed"]
      BY <2>1 DEF Crash
    <3> QED
      BY <1>1, <3>1, <3>2 DEF Frames, InCall
  <2>2. CASE ~(i \in js /\ InCall(i))
    BY <2>2 DEF Crash
  <2> QED
    BY <2>1, <2>2
<1>2. UNCHANGED <<issued, installed>>
  BY DEF Crash, tokenVars
<1>3. Issued'
  BY <1>1, <1>2 DEF Minted, Issued, InCall
<1>4. RejectedStaysDead'
  BY <1>1, <1>2 DEF Minted, RejectedStaysDead, Live, InCall
<1> QED
  BY <1>3, <1>4 DEF Minted

(* A new registration has a token no call carries. *)
LEMMA MintedRegister ==
  ASSUME Minted, TypeOK', NEW u \in Users, Register(u)
  PROVE  Minted'
<1>1. /\ issued'[u] = issued[u] + 1
      /\ \A v \in Users \ {u} : /\ issued'[v] = issued[v]
                                /\ installed'[v] = installed[v]
      /\ frame' = frame
      /\ issued[u] \in Nat
  BY DEF Minted, TypeOK, Register
<1>2. \A i \in Jobs : InCall(i) => /\ frame[i].uid \in Users
                                   /\ frame[i].token \in Nat
                                   /\ frame[i].token <= issued[frame[i].uid]
  BY FrameOfCall DEF Minted, Issued, Frames
<1>3. Issued'
  BY <1>1, <1>2 DEF Issued, InCall
<1>4. RejectedStaysDead'
  <2> SUFFICES ASSUME NEW i \in Jobs, frame'[i].at = "clear"
               PROVE  ~Live(frame[i].uid, frame[i].token)'
    BY DEF RejectedStaysDead
  <2>1. InCall(i) /\ ~Live(frame[i].uid, frame[i].token)
    BY <1>1 DEF Minted, RejectedStaysDead, InCall
  <2>2. CASE frame[i].uid = u
    BY <1>1, <1>2, <2>1, <2>2 DEF Live
  <2>3. CASE frame[i].uid # u
    BY <1>1, <1>2, <2>1, <2>3 DEF Live
  <2> QED
    BY <2>2, <2>3
<1> QED
  BY <1>3, <1>4 DEF Minted

LEMMA MintedNext == Minted /\ [DispatchNext]_dispatchVars => Minted'
<1> SUFFICES ASSUME Minted, [DispatchNext]_dispatchVars PROVE Minted'
  OBVIOUS
<1> USE DEF tokenVars
<1>1. TypeOK'
  BY TypeNext DEF Minted
<1>2. ASSUME \/ UNCHANGED dispatchVars
             \/ \E k \in Keys : Forget(k)
      PROVE  Minted'
  <2>1. UNCHANGED <<frame, issued, installed>>
    BY <1>2 DEF dispatchVars, Forget
  <2> QED
    BY <1>1, <2>1 DEF Minted, Issued, RejectedStaysDead, InCall, Live
<1>3. ASSUME NEW k \in Keys, NEW j \in Callers[k], NEW u \in Addressees[k],
             NEW t \in 1 .. issued[u], Call(j, u, t, k)
      PROVE  Minted'
  <2>1. /\ \A i \in Jobs \ {j} : frame'[i] = frame[i]
        /\ frame'[j].at = "exists"
        /\ frame'[j].uid = u
        /\ frame'[j].token = t
        /\ UNCHANGED <<issued, installed>>
    BY <1>3 DEF Call, Minted, TypeOK
  <2>2. u \in Users /\ issued[u] \in Nat
    BY DEF Minted, TypeOK
  <2>3. Issued'
    BY <2>1, <2>2 DEF Minted, Issued, InCall
  <2>4. RejectedStaysDead'
    BY <2>1 DEF Minted, RejectedStaysDead, Live
  <2> QED
    BY <1>1, <2>3, <2>4 DEF Minted
<1>4. ASSUME NEW j \in Jobs, Resume(j)
      PROVE  Minted'
  <2>1. /\ \A i \in Jobs \ {j} : frame'[i] = frame[i]
        /\ frame'[j].at = "over"
        /\ UNCHANGED <<issued, installed>>
    BY <1>4 DEF Resume, Minted, TypeOK, NoFrame
  <2>2. Issued'
    BY <2>1 DEF Minted, Issued, InCall
  <2>3. RejectedStaysDead'
    BY <2>1 DEF Minted, RejectedStaysDead, Live
  <2> QED
    BY <1>1, <2>2, <2>3 DEF Minted
<1>5. ASSUME NEW u \in Users, Uninstall(u)
      PROVE  Minted'
  <2>1. /\ UNCHANGED <<frame, issued>>
        /\ \A v \in Users : installed'[v] => installed[v]
    BY <1>5 DEF Uninstall, Minted, TypeOK
  <2>2. Issued'
    BY <2>1 DEF Minted, Issued, InCall
  <2>3. RejectedStaysDead'
    BY <2>1, FrameOfCall DEF Minted, RejectedStaysDead, Live, InCall
  <2> QED
    BY <1>1, <2>2, <2>3 DEF Minted
<1> QED
  BY <1>1, <1>2, <1>3, <1>4, <1>5, MintedStep, MintedCrash, MintedRegister
     DEF DispatchNext, Environment

(* So was a stored token: the callers that take their tokens from there    *)
(* are lawful.                                                             *)
StoredIssued == \A u \in Users : stored[u] <= issued[u]

Lawful == Minted /\ StoredIssued

LEMMA StoredToken ==
  ASSUME Lawful, NEW u \in Users, stored[u] # NoToken
  PROVE  stored[u] \in 1 .. issued[u]
BY DEF Lawful, Minted, TypeOK, Tokens, StoredIssued, NoToken

LEMMA StoredIssuedStep ==
  ASSUME Lawful, [DispatchNext]_dispatchVars
  PROVE  StoredIssued'
<1>0. /\ stored \in [Users -> 0 .. MaxToken] /\ issued \in [Users -> 1 .. MaxToken]
      /\ \A u \in Users : stored[u] <= issued[u]
  BY DEF Lawful, Minted, TypeOK, Tokens, StoredIssued
<1>1. ASSUME NEW u \in Users, Register(u) PROVE StoredIssued'
  <2>1. /\ issued' = [issued EXCEPT ![u] = issued[u] + 1]
        /\ stored' = [stored EXCEPT ![u] = issued[u] + 1]
    BY <1>0, <1>1 DEF Register
  <2> QED
    BY <1>0, <2>1, SMT DEF StoredIssued
<1>2. ASSUME NEW j \in Jobs, ClearToken(j) PROVE StoredIssued'
  <2>1. /\ issued' = issued
        /\ \/ stored' = stored
           \/ stored' = [stored EXCEPT ![frame[j].uid] = 0]
    BY <1>2 DEF ClearToken
  <2> QED
    BY <1>0, <2>1, SMT DEF StoredIssued
<1>3. CASE UNCHANGED <<stored, issued>>
  BY <1>0, <1>3 DEF StoredIssued
<1> QED
  BY <1>1, <1>2, <1>3 DEF DispatchNext, dispatchVars, tokenVars, Call, Progress,
     SkipRecorded, FindUnrecorded, WriteDoc, PushAccepted, PushRejected, Record,
     Failure, CheckRaises, WriteFails, WriteUnacknowledged, PushFails,
     RecordRaises, Resume, Crash, Environment, Forget, Uninstall

(* The guarantee of LiveTokenClearedOnlyInRace for one step. *)
ClearedOnlyInRace ==
  \A u \in Users :
    /\ Live(u, stored[u])
    /\ stored'[u] = NoToken
    => \E j \in Jobs : /\ frame[j].at = "clear"
                       /\ frame[j].uid = u
                       /\ frame[j].token < stored[u]

LEMMA ClearsOnlyInRace ==
  ASSUME Minted, [DispatchNext]_dispatchVars
  PROVE  ClearedOnlyInRace
<1> SUFFICES ASSUME NEW u \in Users, Live(u, stored[u]), stored'[u] = NoToken
             PROVE  \E j \in Jobs : /\ frame[j].at = "clear"
                                    /\ frame[j].uid = u
                                    /\ frame[j].token < stored[u]
  BY DEF ClearedOnlyInRace
<1>1. stored[u] = issued[u] /\ issued[u] \in Nat \ {0} /\ installed[u]
  BY DEF Live, Minted, TypeOK
<1>2. ASSUME NEW v \in Users, Register(v) PROVE FALSE
  BY <1>1, <1>2 DEF Register, Minted, TypeOK
<1>3. ASSUME stored' = stored PROVE FALSE
  BY <1>1, <1>3
<1>4. PICK j \in Jobs : ClearToken(j)
  BY <1>2, <1>3 DEF DispatchNext, dispatchVars, tokenVars, Call, Progress,
     SkipRecorded, FindUnrecorded, WriteDoc, PushAccepted, PushRejected, Record,
     Failure, CheckRaises, WriteFails, WriteUnacknowledged, PushFails,
     RecordRaises, Resume, Crash, Environment, Forget, Uninstall
<1>5. frame[j].at = "clear" /\ InCall(j) /\ frame[j].uid = u
  BY <1>1, <1>4 DEF ClearToken, Minted, TypeOK, InCall
<1>6. /\ frame[j].token \in Nat
      /\ frame[j].token <= issued[u]
      /\ frame[j].token # issued[u]
  BY <1>1, <1>5, FrameOfCall
     DEF Minted, Issued, RejectedStaysDead, Live, Frames
<1> QED
  BY <1>1, <1>5, <1>6

(* A working phone loses its stored token only when its registration       *)
(* overtook a call that found an older token dead.                         *)
THEOREM ClearsDeadTokens == DispatchSpec => LiveTokenClearedOnlyInRace
<1>1. Minted /\ [DispatchNext]_dispatchVars => [ClearedOnlyInRace]_dispatchVars
  BY ClearsOnlyInRace
<1> QED
  BY <1>1, MintedInit, MintedNext, PTL
     DEF DispatchSpec, LiveTokenClearedOnlyInRace, ClearedOnlyInRace

-------------------------------------------------------------------------------
(* Who was told.  A caller can take a return for success because the       *)
(* document comes first: whoever stands behind the write, or finds the key *)
(* of one user recorded, has a document to show.                           *)

Recipients == [k \in Keys |-> {inbox[k][n] : n \in 1 .. Len(inbox[k])}]

Addressed ==
  \A j \in Jobs : InCall(j) => /\ frame[j].uid \in Addressees[frame[j].key]
                              /\ j \in Callers[frame[j].key]

WrittenHas ==
  \A j \in Jobs :
    /\ Written(j) => frame[j].uid \in Recipients[frame[j].key]
    /\ frame[j].at \in {"push", "clear"} => j \notin DryRun

RecordedHas ==
  \A k \in idem, u \in Users : Addressees[k] = {u} => u \in Recipients[k]

Telling ==
  /\ TypeOK
  /\ Addressed /\ WrittenHas /\ RecordedHas
  /\ PushFollowsDocument /\ ReturnMeansServed

LEMMA TellingInit == DispatchInit => Telling
<1> SUFFICES ASSUME DispatchInit PROVE Telling
  OBVIOUS
<1>1. \A j \in Jobs : frame[j].at = "over" /\ frame[j].end = "none"
  BY DEF DispatchInit, NoFrame
<1>2. idem = {} /\ pushed = {}
  BY DEF DispatchInit
<1> QED
  BY <1>1, <1>2, TypeInit DEF Telling, Addressed, WrittenHas, RecordedHas, InCall,
     Written, PushFollowsDocument, ReturnMeansServed

(* Documents are only added. *)
Grown == \A u \in Users, k \in Keys : u \in Recipients[k] => u \in Recipients'[k]

LEMMA AppendGives ==
  ASSUME TypeOK, NEW j \in Jobs, InCall(j), AppendDoc(j)
  PROVE  /\ frame[j].uid \in Recipients'[frame[j].key]
         /\ \A u \in Users, k \in Keys : u \in Recipients[k] => u \in Recipients'[k]
<1> DEFINE key == frame[j].key
           uid == frame[j].uid
<1>1. key \in Keys /\ uid \in Users /\ inbox \in [Keys -> Seq(Users)]
  BY FrameOfCall DEF TypeOK
<1>2. inbox' = [inbox EXCEPT ![key] = Append(inbox[key], uid)]
  BY DEF AppendDoc
<1>3. /\ inbox[key] \in Seq(Users) /\ Len(inbox[key]) \in Nat
      /\ Len(Append(inbox[key], uid)) = Len(inbox[key]) + 1
      /\ Append(inbox[key], uid)[Len(inbox[key]) + 1] = uid
      /\ \A n \in 1 .. Len(inbox[key]) : Append(inbox[key], uid)[n] = inbox[key][n]
  BY <1>1, AppendProperties
<1> HIDE DEF key, uid
<1>4. uid \in Recipients'[key]
  <2>1. Len(inbox[key]) + 1 \in 1 .. Len(inbox'[key])
    BY <1>1, <1>2, <1>3
  <2> QED
    BY <1>1, <1>2, <1>3, <2>1 DEF Recipients
<1>5. ASSUME NEW u \in Users, NEW k \in Keys, u \in Recipients[k] PROVE u \in Recipients'[k]
  <2>1. CASE k # key
    BY <1>1, <1>2, <1>5, <2>1 DEF Recipients
  <2>2. CASE k = key
    <3>1. PICK n \in 1 .. Len(inbox[key]) : inbox[key][n] = u
      BY <1>5, <2>2 DEF Recipients
    <3>2. n \in 1 .. Len(inbox'[key]) /\ inbox'[key][n] = u
      BY <1>1, <1>2, <1>3, <3>1
    <3> QED
      BY <2>2, <3>2 DEF Recipients
  <2> QED
    BY <2>1, <2>2
<1> QED
  BY <1>4, <1>5 DEF key, uid

LEMMA HasGrows ==
  ASSUME TypeOK, [DispatchNext]_dispatchVars
  PROVE  Grown
<1>1. CASE inbox' = inbox
  BY <1>1 DEF Recipients, Grown
<1>2. ASSUME NEW j \in Jobs, WriteDoc(j) \/ WriteUnacknowledged(j)
      PROVE  Grown
  <2>1. InCall(j) /\ AppendDoc(j)
    BY <1>2 DEF WriteDoc, WriteUnacknowledged, InCall
  <2> QED
    BY <2>1, AppendGives DEF Grown
<1> QED
  BY <1>1, <1>2 DEF DispatchNext, dispatchVars, tokenVars, Call, Progress,
     SkipRecorded, FindUnrecorded, PushAccepted, PushRejected, ClearToken, Record,
     Failure, CheckRaises, WriteFails, PushFails, RecordRaises, Resume, Crash,
     Environment, Forget, Register, Uninstall

(* A call moves on or ends.  What it then says of its user has to be true, *)
(* and everybody else's documents stay.                                    *)
Moves(j, place) == \/ Goto(j, place)
                   \/ place = "over" /\ \E how \in Endings : End(j, how)

Stands(j, place) ==
  /\ place \in {"push", "clear", "record"} => frame[j].uid \in Recipients'[frame[j].key]
  /\ place \in {"push", "clear"} => j \notin DryRun

Reports(j) ==
  frame'[j].end = "returned" =>
    \/ <<frame[j].uid, frame[j].key>> \in failed'
    \/ Addressees[frame[j].key] = {frame[j].uid}
         => frame[j].uid \in Recipients'[frame[j].key]

RecordsOwn(j) == \/ idem' = idem
                 \/ Written(j) /\ idem' = idem \union {frame[j].key}

PushesOwn(j) == \/ pushed' = pushed
                \/ /\ frame[j].at = "push"
                   /\ pushed' = pushed \union {<<frame[j].uid, frame[j].key>>}

LEMMA MoveOf ==
  ASSUME TypeOK, NEW j \in Jobs, InCall(j), NEW place \in Awaits \union {"over"},
         Moves(j, place)
  PROVE  /\ \A i \in Jobs \ {j} : frame'[i] = frame[i]
         /\ frame'[j].key = frame[j].key /\ frame'[j].uid = frame[j].uid
         /\ frame'[j].at = place
<1>1. CASE Goto(j, place)
  BY <1>1, FrameMoves DEF Endings
<1>2. ASSUME place = "over", NEW how \in Endings, End(j, how)
      PROVE  /\ \A i \in Jobs \ {j} : frame'[i] = frame[i]
             /\ frame'[j].key = frame[j].key /\ frame'[j].uid = frame[j].uid
             /\ frame'[j].at = place
  BY <1>2, FrameMoves
<1> QED
  BY <1>1, <1>2 DEF Moves

LEMMA AddressedMoves ==
  ASSUME TypeOK, Addressed, NEW j \in Jobs, InCall(j),
         NEW place \in Awaits \union {"over"}, Moves(j, place)
  PROVE  Addressed'
<1>1. /\ \A i \in Jobs \ {j} : frame'[i] = frame[i]
      /\ frame'[j].key = frame[j].key /\ frame'[j].uid = frame[j].uid
  BY MoveOf
<1> QED
  BY <1>1 DEF Addressed, InCall

LEMMA WrittenHasMoves ==
  ASSUME TypeOK, WrittenHas, Grown, NEW j \in Jobs, InCall(j),
         NEW place \in Awaits \union {"over"}, Moves(j, place), Stands(j, place)
  PROVE  WrittenHas'
<1>1. /\ \A i \in Jobs \ {j} : frame'[i] = frame[i]
      /\ frame'[j].key = frame[j].key /\ frame'[j].uid = frame[j].uid
      /\ frame'[j].at = place
  BY MoveOf
<1>2. /\ Written(j)' => frame'[j].uid \in Recipients'[frame'[j].key]
      /\ frame'[j].at \in {"push", "clear"} => j \notin DryRun
  BY <1>1 DEF Stands, Written
<1>3. ASSUME NEW i \in Jobs \ {j}
      PROVE  /\ Written(i)' => frame'[i].uid \in Recipients'[frame'[i].key]
             /\ frame'[i].at \in {"push", "clear"} => i \notin DryRun
  <2>1. frame'[i] = frame[i] /\ (Written(i)' <=> Written(i))
    BY <1>1 DEF Written
  <2>2. /\ Written(i) => frame[i].uid \in Recipients[frame[i].key]
        /\ frame[i].at \in {"push", "clear"} => i \notin DryRun
    BY DEF WrittenHas
  <2>3. Written(i) => frame[i].uid \in Users /\ frame[i].key \in Keys
    BY FrameOfCall DEF Written, InCall
  <2>4. Written(i) => frame[i].uid \in Recipients'[frame[i].key]
    BY <2>2, <2>3 DEF Grown
  <2> QED
    BY <2>1, <2>2, <2>4
<1> QED
  BY <1>2, <1>3 DEF WrittenHas

LEMMA RecordedHasMoves ==
  ASSUME TypeOK, Addressed, WrittenHas, RecordedHas, Grown, NEW j \in Jobs,
         InCall(j), RecordsOwn(j)
  PROVE  RecordedHas'
<1> SUFFICES ASSUME NEW k \in idem', NEW u \in Users, Addressees[k] = {u}
             PROVE  u \in Recipients'[k]
  BY DEF RecordedHas
<1>1. frame[j].key \in Keys /\ frame[j].uid \in Users
  BY FrameOfCall
<1>2. CASE k \in idem
  <2>1. k \in Keys /\ u \in Recipients[k]
    BY <1>2 DEF TypeOK, RecordedHas
  <2> QED
    BY <2>1 DEF Grown
<1>3. CASE k \notin idem
  <2>1. Written(j) /\ k = frame[j].key
    BY <1>3 DEF RecordsOwn
  <2>2. u = frame[j].uid
    BY <2>1 DEF Addressed
  <2>3. frame[j].uid \in Recipients[frame[j].key]
    BY <2>1 DEF WrittenHas
  <2>4. frame[j].uid \in Recipients'[frame[j].key]
    BY <1>1, <2>3 DEF Grown
  <2> QED
    BY <2>1, <2>2, <2>4
<1> QED
  BY <1>2, <1>3

LEMMA PushFollowsMoves ==
  ASSUME TypeOK, WrittenHas, WrittenHas', PushFollowsDocument, Grown,
         NEW j \in Jobs, InCall(j), PushesOwn(j)
  PROVE  PushFollowsDocument'
<1>1. ASSUME NEW u \in Users, NEW k \in Keys, <<u, k>> \in pushed'
      PROVE  u \in Recipients'[k]
  <2>1. CASE <<u, k>> \in pushed
    <3>1. u \in Recipients[k]
      BY <2>1 DEF PushFollowsDocument, Recipients
    <3> QED
      BY <3>1 DEF Grown
  <2>2. CASE <<u, k>> \notin pushed
    <3>1. frame[j].at = "push" /\ u = frame[j].uid /\ k = frame[j].key
      BY <1>1, <2>2 DEF PushesOwn
    <3>2. u \in Recipients[k]
      BY <3>1 DEF WrittenHas, Written
    <3> QED
      BY <3>2 DEF Grown
  <2> QED
    BY <2>1, <2>2
<1>2. \A i \in DryRun : frame'[i].at \notin {"push", "clear"}
  BY DEF WrittenHas
<1> QED
  BY <1>1, <1>2 DEF PushFollowsDocument, Recipients

LEMMA ReturnMoves ==
  ASSUME TypeOK, ReturnMeansServed, Grown, failed \subseteq failed',
         NEW j \in Jobs, InCall(j),
         NEW place \in Awaits \union {"over"}, Moves(j, place), Reports(j)
  PROVE  ReturnMeansServed'
<1>1. /\ \A i \in Jobs \ {j} : frame'[i] = frame[i]
      /\ frame'[j].key = frame[j].key /\ frame'[j].uid = frame[j].uid
  BY MoveOf
<1> SUFFICES ASSUME NEW i \in Jobs, frame'[i].end = "returned",
                    Addressees[frame'[i].key] = {frame'[i].uid}
             PROVE  \/ <<frame'[i].uid, frame'[i].key>> \in failed'
                    \/ \E n \in 1 .. Len(inbox'[frame'[i].key]) :
                         inbox'[frame'[i].key][n] = frame'[i].uid
  BY DEF ReturnMeansServed
<1>2. /\ frame'[i].key \in Keys
      /\ \/ <<frame'[i].uid, frame'[i].key>> \in failed'
         \/ frame'[i].uid \in Recipients'[frame'[i].key]
  <2>1. CASE i = j
    <3>1. frame[j].key \in Keys
      BY FrameOfCall
    <3> QED
      BY <1>1, <2>1, <3>1 DEF Reports
  <2>2. CASE i # j
    <3>1. frame'[i] = frame[i] /\ frame[i].end = "returned"
      BY <1>1, <2>2
    <3>2. frame[i].uid \in Users /\ frame[i].key \in Keys
      BY <3>1 DEF TypeOK, NoFrame, Frames
    <3>3. \/ <<frame[i].uid, frame[i].key>> \in failed
          \/ frame[i].uid \in Recipients[frame[i].key]
      BY <3>1, <3>2 DEF ReturnMeansServed, Recipients
    <3> QED
      BY <3>1, <3>2, <3>3 DEF Grown
  <2> QED
    BY <2>1, <2>2
<1> QED
  BY <1>2 DEF Recipients

LEMMA TellingMoves ==
  ASSUME Telling, TypeOK', Grown, failed \subseteq failed', NEW j \in Jobs, InCall(j),
         NEW place \in Awaits \union {"over"}, Moves(j, place), Stands(j, place),
         Reports(j), RecordsOwn(j), PushesOwn(j)
  PROVE  Telling'
<1>1. /\ TypeOK /\ Addressed /\ WrittenHas /\ RecordedHas
      /\ PushFollowsDocument /\ ReturnMeansServed
  BY DEF Telling
<1>2. Addressed'
  BY <1>1, AddressedMoves
<1>3. WrittenHas'
  BY <1>1, WrittenHasMoves
<1>4. RecordedHas'
  BY <1>1, RecordedHasMoves
<1>5. PushFollowsDocument'
  BY <1>1, <1>3, PushFollowsMoves
<1>6. ReturnMeansServed'
  BY <1>1, ReturnMoves
<1> QED
  BY <1>2, <1>3, <1>4, <1>5, <1>6 DEF Telling

(* A call that goes on says no more than it did. *)
LEMMA GoingOn ==
  ASSUME TypeOK, ReturnMeansServed, Grown, failed \subseteq failed',
         NEW j \in Jobs, InCall(j), NEW place \in Awaits, Goto(j, place)
  PROVE  Moves(j, place) /\ Reports(j)
<1>1. frame[j].key \in Keys /\ frame[j].uid \in Users /\ frame'[j].end = frame[j].end
  BY FrameOfCall DEF Goto, TypeOK, Frames
<1>2. frame[j].end = "returned" /\ Addressees[frame[j].key] = {frame[j].uid}
        => \/ <<frame[j].uid, frame[j].key>> \in failed
           \/ frame[j].uid \in Recipients[frame[j].key]
  BY <1>1 DEF ReturnMeansServed, Recipients
<1>3. frame[j].uid \in Recipients[frame[j].key] => frame[j].uid \in Recipients'[frame[j].key]
  BY <1>1 DEF Grown
<1> QED
  BY <1>1, <1>2, <1>3 DEF Moves, Reports

LEMMA TellingProgress ==
  ASSUME Telling, TypeOK', Grown, NEW j \in Jobs, Progress(j)
  PROVE  Telling'
<1>1. InCall(j) /\ failed' = failed
  BY DEF Progress, InCall, SkipRecorded, FindUnrecorded, WriteDoc, PushAccepted,
         PushRejected, ClearToken, Record
<1>2. /\ TypeOK /\ ReturnMeansServed
      /\ frame[j].key \in Keys /\ frame[j].uid \in Users
  BY <1>1, FrameOfCall DEF Telling
<1>3. Written(j) => frame[j].uid \in Recipients'[frame[j].key]
  <2>1. Written(j) => frame[j].uid \in Recipients[frame[j].key]
    BY DEF Telling, WrittenHas
  <2> QED
    BY <1>2, <2>1 DEF Grown
<1>4. ASSUME NEW place \in Awaits, Goto(j, place), Stands(j, place),
             RecordsOwn(j), PushesOwn(j)
      PROVE  Telling'
  <2>1. Moves(j, place) /\ Reports(j)
    BY <1>1, <1>2, <1>4, GoingOn
  <2> QED
    BY <1>1, <1>4, <2>1, TellingMoves
<1>5. ASSUME End(j, "returned"), Reports(j), RecordsOwn(j), PushesOwn(j)
      PROVE  Telling'
  <2>1. Moves(j, "over") /\ Stands(j, "over")
    BY <1>5 DEF Moves, Stands, Endings
  <2> QED
    BY <1>1, <1>5, <2>1, TellingMoves
<1>6. CASE SkipRecorded(j)
  <2>1. Addressees[frame[j].key] = {frame[j].uid}
          => frame[j].uid \in Recipients[frame[j].key]
    BY <1>2, <1>6 DEF SkipRecorded, Recorded, Telling, RecordedHas
  <2>2. Reports(j)
    BY <1>2, <2>1 DEF Reports, Grown
  <2> QED
    BY <1>5, <1>6, <2>2 DEF SkipRecorded, RecordsOwn, PushesOwn
<1>7. CASE FindUnrecorded(j)
  <2>1. "write" \in Awaits /\ Stands(j, "write")
    BY DEF Stands, Awaits
  <2> QED
    BY <1>4, <1>7, <2>1 DEF FindUnrecorded, RecordsOwn, PushesOwn
<1>8. CASE WriteDoc(j)
  <2> DEFINE place == IF Dry(j) THEN "record" ELSE "push"
  <2>1. frame[j].uid \in Recipients'[frame[j].key]
    BY <1>1, <1>2, <1>8, AppendGives DEF WriteDoc
  <2>2. place \in Awaits /\ Stands(j, place)
    BY <2>1 DEF Stands, Awaits, Dry
  <2>3. Goto(j, place) /\ RecordsOwn(j) /\ PushesOwn(j)
    BY <1>8 DEF WriteDoc, RecordsOwn, PushesOwn
  <2> HIDE DEF place
  <2> QED
    BY <1>4, <2>2, <2>3
<1>9. CASE PushAccepted(j)
  <2>1. "record" \in Awaits /\ Stands(j, "record")
    BY <1>3, <1>9 DEF Stands, Awaits, PushAccepted, Written
  <2> QED
    BY <1>4, <1>9, <2>1 DEF PushAccepted, RecordsOwn, PushesOwn
<1>10. CASE PushRejected(j)
  <2>1. "clear" \in Awaits /\ Stands(j, "clear")
    BY <1>3, <1>10 DEF Stands, Awaits, PushRejected, Written, Telling, WrittenHas
  <2> QED
    BY <1>4, <1>10, <2>1 DEF PushRejected, RecordsOwn, PushesOwn
<1>11. CASE ClearToken(j)
  <2>1. "record" \in Awaits /\ Stands(j, "record")
    BY <1>3, <1>11 DEF Stands, Awaits, ClearToken, Written
  <2> QED
    BY <1>4, <1>11, <2>1 DEF ClearToken, RecordsOwn, PushesOwn
<1>12. CASE Record(j)
  <2>1. Reports(j) /\ RecordsOwn(j) /\ PushesOwn(j) /\ End(j, "returned")
    BY <1>3, <1>12 DEF Record, Reports, RecordsOwn, PushesOwn, Written
  <2> QED
    BY <1>5, <2>1
<1> QED
  BY <1>6, <1>7, <1>8, <1>9, <1>10, <1>11, <1>12 DEF Progress

LEMMA TellingFailure ==
  ASSUME Telling, TypeOK', Grown, NEW j \in Jobs, Failure(j)
  PROVE  Telling'
<1>1. InCall(j) /\ Fail(j)
  BY DEF Failure, InCall, CheckRaises, WriteFails, WriteUnacknowledged, PushFails,
         RecordRaises
<1>2. failed \subseteq failed' /\ Reports(j)
  BY <1>1 DEF Fail, Reports
<1>3. ASSUME NEW how \in Endings, End(j, how) PROVE Moves(j, "over") /\ Stands(j, "over")
  BY <1>3 DEF Moves, Stands
<1>4. Moves(j, "over") /\ Stands(j, "over")
  BY <1>3 DEF Failure, CheckRaises, WriteFails, WriteUnacknowledged, PushFails,
     RecordRaises, Endings
<1>5. RecordsOwn(j)
  BY DEF Failure, CheckRaises, WriteFails, WriteUnacknowledged, PushFails,
     RecordRaises, RecordsOwn, Written
<1>6. PushesOwn(j)
  BY DEF Failure, CheckRaises, WriteFails, WriteUnacknowledged, PushFails,
     RecordRaises, PushesOwn
<1> QED
  BY <1>1, <1>2, <1>4, <1>5, <1>6, TellingMoves

(* Around the calls nobody is told anything: a call begins, is forgotten or *)
(* is killed.                                                              *)
Fresh(i) == /\ frame'[i].at = "exists"
            /\ frame'[i].uid \in Addressees[frame'[i].key]
            /\ i \in Callers[frame'[i].key]

LEMMA TellingAround ==
  ASSUME Telling, TypeOK', inbox' = inbox, pushed' = pushed, idem' \subseteq idem,
         failed \subseteq failed',
         \A i \in Jobs :
           \/ frame'[i] = frame[i]
           \/ frame'[i].end # "returned" /\ (frame'[i].at = "over" \/ Fresh(i))
  PROVE  Telling'
<1>1. Recipients' = Recipients
  BY DEF Recipients
<1>2. Addressed'
  BY DEF Telling, Addressed, InCall, Fresh
<1>3. WrittenHas'
  <2> SUFFICES ASSUME NEW i \in Jobs
               PROVE  /\ Written(i)' => frame'[i].uid \in Recipients[frame'[i].key]
                      /\ frame'[i].at \in {"push", "clear"} => i \notin DryRun
    BY <1>1 DEF WrittenHas
  <2>1. CASE frame'[i] = frame[i]
    <3>1. /\ Written(i) => frame[i].uid \in Recipients[frame[i].key]
          /\ frame[i].at \in {"push", "clear"} => i \notin DryRun
      BY DEF Telling, WrittenHas
    <3> QED
      BY <2>1, <3>1 DEF Written
  <2>2. CASE frame'[i].at = "over" \/ Fresh(i)
    BY <2>2 DEF Fresh, Written
  <2> QED
    BY <2>1, <2>2
<1>4. RecordedHas'
  BY <1>1 DEF Telling, RecordedHas
<1>5. PushFollowsDocument'
  <2>1. \A i \in DryRun : frame'[i].at \notin {"push", "clear"}
    BY <1>3 DEF WrittenHas
  <2>2. \A u \in Users, k \in Keys :
          <<u, k>> \in pushed' => \E n \in 1 .. Len(inbox'[k]) : inbox'[k][n] = u
    BY DEF Telling, PushFollowsDocument
  <2> QED
    BY <2>1, <2>2 DEF PushFollowsDocument
<1>6. ReturnMeansServed'
  <2> SUFFICES ASSUME NEW i \in Jobs, frame'[i].end = "returned",
                      Addressees[frame'[i].key] = {frame'[i].uid}
               PROVE  \/ <<frame'[i].uid, frame'[i].key>> \in failed'
                      \/ \E n \in 1 .. Len(inbox[frame'[i].key]) :
                           inbox[frame'[i].key][n] = frame'[i].uid
    BY DEF ReturnMeansServed
  <2>1. frame'[i] = frame[i]
    OBVIOUS
  <2>2. \/ <<frame[i].uid, frame[i].key>> \in failed
        \/ \E n \in 1 .. Len(inbox[frame[i].key]) : inbox[frame[i].key][n] = frame[i].uid
    BY <2>1 DEF Telling, ReturnMeansServed
  <2> QED
    BY <2>1, <2>2
<1> QED
  BY <1>2, <1>3, <1>4, <1>5, <1>6 DEF Telling

LEMMA TellingNext == Telling /\ [DispatchNext]_dispatchVars => Telling'
<1> SUFFICES ASSUME Telling, [DispatchNext]_dispatchVars PROVE Telling'
  OBVIOUS
<1> USE DEF tokenVars
<1>1. TypeOK /\ TypeOK'
  BY TypeNext DEF Telling
<1>2. Grown
  BY <1>1, HasGrows
<1>3. ASSUME \/ UNCHANGED dispatchVars
             \/ \E k \in Keys : Forget(k)
             \/ \E u \in Users : Register(u) \/ Uninstall(u)
      PROVE  Telling'
  <2>1. /\ UNCHANGED <<frame, inbox, pushed, failed>>
        /\ idem' \subseteq idem
    BY <1>3 DEF dispatchVars, Forget, Register, Uninstall
  <2> QED
    BY <1>1, <2>1, TellingAround
<1>4. ASSUME NEW k \in Keys, NEW j \in Callers[k], NEW u \in Addressees[k],
             NEW t \in 1 .. issued[u], Call(j, u, t, k)
      PROVE  Telling'
  <2>1. /\ UNCHANGED <<idem, inbox, pushed, failed>>
        /\ \A i \in Jobs \ {j} : frame'[i] = frame[i]
        /\ j \in Jobs => /\ frame'[j].end # "returned"
                         /\ Fresh(j)
    BY <1>1, <1>4 DEF Call, TypeOK, Fresh
  <2> QED
    BY <1>1, <2>1, TellingAround
<1>5. ASSUME NEW j \in Jobs, Resume(j)
      PROVE  Telling'
  <2>1. /\ UNCHANGED <<idem, inbox, pushed, failed>>
        /\ \A i \in Jobs \ {j} : frame'[i] = frame[i]
        /\ frame'[j].end # "returned" /\ frame'[j].at = "over"
    BY <1>1, <1>5 DEF Resume, TypeOK, NoFrame
  <2> QED
    BY <1>1, <2>1, TellingAround
<1>6. ASSUME NEW js \in SUBSET Jobs, Crash(js)
      PROVE  Telling'
  <2>1. UNCHANGED <<idem, inbox, pushed>> /\ failed \subseteq failed'
    BY <1>6 DEF Crash
  <2>2. ASSUME NEW i \in Jobs
        PROVE  \/ frame'[i] = frame[i]
               \/ frame'[i].end # "returned" /\ frame'[i].at = "over"
    <3>1. frame'[i] = IF i \in js /\ InCall(i)
                      THEN [frame[i] EXCEPT !.at = "over", !.end = "killed"]
                      ELSE frame[i]
      BY <1>6 DEF Crash
    <3>2. InCall(i) => frame[i] \in Frames
      BY <1>1, FrameOfCall
    <3> QED
      BY <3>1, <3>2 DEF Frames
  <2> QED
    BY <1>1, <2>1, <2>2, TellingAround
<1>7. ASSUME NEW j \in Jobs, Progress(j) \/ Failure(j)
      PROVE  Telling'
  BY <1>1, <1>2, <1>7, TellingProgress, TellingFailure
<1> QED
  BY <1>3, <1>4, <1>5, <1>6, <1>7 DEF DispatchNext, Environment

(* The document comes first: no phone is rung for a notification its owner *)
(* cannot find in the inbox; and callers that only rehearse leave FCM and  *)
(* the tokens alone.                                                       *)
THEOREM PushesFollow == DispatchSpec => []PushFollowsDocument
<1>1. Telling => PushFollowsDocument
  BY DEF Telling
<1> QED
  BY <1>1, TellingInit, TellingNext, PTL DEF DispatchSpec

(* A dispatch that returned, and never failed for that user and key, has   *)
(* served the only user the key names.                                     *)
THEOREM ReturnsServe == DispatchSpec => []ReturnMeansServed
<1>1. Telling => ReturnMeansServed
  BY DEF Telling
<1> QED
  BY <1>1, TellingInit, TellingNext, PTL DEF DispatchSpec

-------------------------------------------------------------------------------
(* Several processes and one key.  A key of several callers has as many    *)
(* documents to come, if nothing slips any more, as there are callers that *)
(* may still pass the check, or have passed it and not written yet.  Every *)
(* write takes one of them away, every slip brings back one per caller.    *)

Writing(k) == {j \in Callers[k] : frame[j].at = "write" /\ frame[j].key = k}
Holding(k) == {j \in Callers[k] : Written(j) /\ frame[j].key = k}
ToCome(k)  == IF k \in idem THEN Writing(k) ELSE Callers[k] \ Holding(k)

RaceBound(k) ==
  Len(inbox[k]) + Cardinality(ToCome(k)) <= Cardinality(Callers[k]) * (slips[k] + 1)

Race == Telling /\ \A k \in Keys : RaceBound(k)

LEMMA RaceTyped ==
  ASSUME Telling, NEW k \in Keys
  PROVE  /\ IsFiniteSet(Callers[k]) /\ Cardinality(Callers[k]) \in Nat
         /\ ToCome(k) \subseteq Callers[k]
         /\ IsFiniteSet(ToCome(k)) /\ Cardinality(ToCome(k)) \in Nat
         /\ Cardinality(ToCome(k)) <= Cardinality(Callers[k])
         /\ Len(inbox[k]) \in Nat /\ slips[k] \in Nat
<1>1. IsFiniteSet(Callers[k])
  BY FS_Subset
<1>2. ToCome(k) \subseteq Callers[k]
  BY DEF ToCome, Writing
<1>3. IsFiniteSet(ToCome(k)) /\ Cardinality(ToCome(k)) <= Cardinality(Callers[k])
  BY <1>1, <1>2, FS_Subset
<1>4. inbox[k] \in Seq(Users) /\ slips[k] \in 0 .. MaxSlips
  BY DEF Telling, TypeOK
<1> QED
  BY <1>1, <1>2, <1>3, <1>4, FS_CardinalityType, LenProperties

(* Nothing is written under k, and nobody joins those who may still write. *)
LEMMA RaceQuiet ==
  ASSUME Telling, Telling', NEW k \in Keys, RaceBound(k),
         inbox'[k] = inbox[k], slips'[k] = slips[k], ToCome(k)' \subseteq ToCome(k)
  PROVE  RaceBound(k)'
<1>1. Cardinality(ToCome(k)') <= Cardinality(ToCome(k))
  BY RaceTyped, FS_Subset
<1>2. /\ Cardinality(ToCome(k)) \in Nat /\ Cardinality(ToCome(k)') \in Nat
      /\ Len(inbox[k]) \in Nat
      /\ Cardinality(Callers[k]) * (slips[k] + 1) \in Int
  <2>1. IsFiniteSet(ToCome(k)')
    BY RaceTyped, FS_Subset
  <2> QED
    BY <2>1, RaceTyped, FS_CardinalityType
<1>3. Len(inbox[k]) + Cardinality(ToCome(k)) <= Cardinality(Callers[k]) * (slips[k] + 1)
  BY DEF RaceBound
<1> HIDE DEF ToCome
<1>4. Len(inbox[k]) + Cardinality(ToCome(k)') <= Cardinality(Callers[k]) * (slips[k] + 1)
  BY <1>1, <1>2, <1>3
<1> QED
  BY <1>4 DEF RaceBound

(* One of those who may still write does. *)
LEMMA RaceWrite ==
  ASSUME Telling, Telling', NEW k \in Keys, RaceBound(k), NEW j \in ToCome(k),
         Len(inbox'[k]) = Len(inbox[k]) + 1, slips'[k] = slips[k],
         ToCome(k)' \subseteq ToCome(k) \ {j}
  PROVE  RaceBound(k)'
<1>1. /\ IsFiniteSet(ToCome(k) \ {j})
      /\ Cardinality(ToCome(k) \ {j}) = Cardinality(ToCome(k)) - 1
  <2>1. IsFiniteSet(ToCome(k))
    BY RaceTyped
  <2> HIDE DEF ToCome
  <2> QED
    BY <2>1, FS_RemoveElement
<1>2. /\ IsFiniteSet(ToCome(k)')
      /\ Cardinality(ToCome(k)') <= Cardinality(ToCome(k) \ {j})
  BY <1>1, FS_Subset
<1>3. /\ Cardinality(ToCome(k)) \in Nat /\ Cardinality(ToCome(k)') \in Nat
      /\ Len(inbox[k]) \in Nat
      /\ Cardinality(Callers[k]) * (slips[k] + 1) \in Int
  BY <1>2, RaceTyped, FS_CardinalityType
<1>4. Len(inbox[k]) + Cardinality(ToCome(k)) <= Cardinality(Callers[k]) * (slips[k] + 1)
  BY DEF RaceBound
<1> HIDE DEF ToCome
<1>5. Len(inbox'[k]) + Cardinality(ToCome(k)')
        <= Cardinality(Callers[k]) * (slips[k] + 1)
  BY <1>1, <1>2, <1>3, <1>4
<1> QED
  BY <1>5 DEF RaceBound

(* A slip: at most one document, by one of those who may, and all callers  *)
(* may write again.                                                        *)
LEMMA RaceSlip ==
  ASSUME Telling, Telling', NEW k \in Keys, RaceBound(k),
         slips'[k] = slips[k] + 1,
         \/ inbox'[k] = inbox[k]
         \/ ToCome(k) # {} /\ Len(inbox'[k]) = Len(inbox[k]) + 1
  PROVE  RaceBound(k)'
<1> DEFINE c == Cardinality(Callers[k])
           s == slips[k]
           old == Cardinality(ToCome(k))
           new == Cardinality(ToCome(k)')
<1>1. c \in Nat /\ s \in Nat /\ old \in Nat /\ Len(inbox[k]) \in Nat
  BY RaceTyped
<1>2. new \in Nat /\ new <= c
  <2>1. ToCome(k)' \subseteq Callers[k]
    BY DEF ToCome, Writing
  <2>2. IsFiniteSet(Callers[k])
    BY RaceTyped
  <2>3. IsFiniteSet(ToCome(k)') /\ new <= c
    BY <2>1, <2>2, FS_Subset
  <2> QED
    BY <2>3, FS_CardinalityType
<1>3. ToCome(k) # {} => old >= 1
  <2>1. IsFiniteSet(ToCome(k))
    BY RaceTyped
  <2>2. old = 0 => ToCome(k) = {}
    BY <2>1, FS_EmptySet
  <2> QED
    BY <1>1, <2>2
<1>4. Len(inbox[k]) + old <= c * (s + 1)
  BY DEF RaceBound
<1>5. Len(inbox'[k]) <= Len(inbox[k]) + old
  BY <1>1, <1>3
<1>6. slips'[k] = s + 1 /\ Len(inbox'[k]) \in Nat
  BY <1>1
<1> HIDE DEF c, s, old, new
<1>7. c * (s + 1) \in Int /\ c * (s + 1 + 1) = c * (s + 1) + c
  BY <1>1
<1>8. Len(inbox'[k]) + new <= c * (s + 1 + 1)
  BY <1>1, <1>2, <1>4, <1>5, <1>6, <1>7
<1>9. Len(inbox'[k]) + Cardinality(ToCome(k)')
        <= Cardinality(Callers[k]) * (slips'[k] + 1)
  BY <1>6, <1>8 DEF c, new
<1> QED
  BY <1>9 DEF RaceBound

(* A call moves on: all others stand where they stood.                     *)
LEMMA RaceMoves ==
  ASSUME Telling, NEW k \in Keys, NEW j \in Jobs, InCall(j),
         NEW place \in Awaits \union {"over"}, Moves(j, place)
  PROVE  /\ \A i \in Callers[k] \ {j} : /\ i \in Writing(k)' <=> i \in Writing(k)
                                        /\ i \in Holding(k)' <=> i \in Holding(k)
         /\ j \in Callers[frame[j].key]
         /\ j \in Writing(k)' <=> place = "write" /\ frame[j].key = k
         /\ j \in Holding(k)' <=> place \in {"push", "clear", "record"} /\ frame[j].key = k
         /\ j \in Writing(k) <=> frame[j].at = "write" /\ frame[j].key = k
         /\ j \in Holding(k) <=> Written(j) /\ frame[j].key = k
<1>1. /\ \A i \in Jobs \ {j} : frame'[i] = frame[i]
      /\ frame'[j].key = frame[j].key
      /\ frame'[j].at = place
  BY MoveOf DEF Telling
<1>2. j \in Callers[frame[j].key]
  BY DEF Telling, Addressed
<1> QED
  BY <1>1, <1>2 DEF Writing, Holding, Written

LEMMA RaceProgress ==
  ASSUME Telling, Telling', NEW k \in Keys, RaceBound(k), NEW j \in Jobs, Progress(j)
  PROVE  RaceBound(k)'
<1>1. InCall(j) /\ slips'[k] = slips[k]
  BY DEF Progress, SkipRecorded, FindUnrecorded, WriteDoc, PushAccepted,
         PushRejected, ClearToken, Record, InCall
<1>2. CASE SkipRecorded(j)
  <2>1. Moves(j, "over") /\ idem' = idem /\ inbox'[k] = inbox[k] /\ ~Written(j)
    BY <1>2 DEF SkipRecorded, Moves, Endings, Written
  <2>2. ToCome(k)' \subseteq ToCome(k)
    BY <1>1, <2>1, RaceMoves DEF ToCome, Writing, Holding
  <2> QED
    BY <1>1, <2>1, <2>2, RaceQuiet
<1>3. CASE FindUnrecorded(j)
  <2>1. /\ Moves(j, "write") /\ idem' = idem /\ inbox'[k] = inbox[k] /\ ~Written(j)
        /\ frame[j].key \notin idem /\ "write" \in Awaits
    BY <1>3 DEF FindUnrecorded, Moves, Recorded, Written, Awaits
  <2>2. ToCome(k)' \subseteq ToCome(k)
    BY <1>1, <2>1, RaceMoves DEF ToCome, Writing, Holding
  <2> QED
    BY <1>1, <2>1, <2>2, RaceQuiet
<1>4. CASE WriteDoc(j)
  <2> DEFINE place == IF Dry(j) THEN "record" ELSE "push"
  <2>1. /\ Moves(j, place) /\ idem' = idem /\ frame[j].at = "write" /\ AppendDoc(j)
        /\ place \in Awaits /\ place \in {"push", "clear", "record"}
    BY <1>4 DEF WriteDoc, Moves, Awaits
  <2>2. /\ k # frame[j].key => inbox'[k] = inbox[k]
        /\ k = frame[j].key => Len(inbox'[k]) = Len(inbox[k]) + 1
    BY <1>1, <2>1, InboxTyped DEF Telling
  <2>3. ~Written(j)
    BY <2>1 DEF Written
  <2> HIDE DEF place
  <2>4. CASE k = frame[j].key
    <3>1. j \in ToCome(k) /\ ToCome(k)' \subseteq ToCome(k) \ {j}
      BY <1>1, <2>1, <2>3, <2>4, RaceMoves DEF ToCome, Writing, Holding
    <3> QED
      BY <1>1, <2>2, <2>4, <3>1, RaceWrite
  <2>5. CASE k # frame[j].key
    <3>1. ToCome(k)' \subseteq ToCome(k)
      BY <1>1, <2>1, <2>3, <2>5, RaceMoves DEF ToCome, Writing, Holding
    <3> QED
      BY <1>1, <2>2, <2>5, <3>1, RaceQuiet
  <2> QED
    BY <2>4, <2>5
<1>5. CASE PushAccepted(j) \/ PushRejected(j) \/ ClearToken(j)
  <2>1. PICK place \in {"clear", "record"} : Goto(j, place)
    BY <1>5 DEF PushAccepted, PushRejected, ClearToken
  <2>2. /\ Moves(j, place) /\ idem' = idem /\ inbox'[k] = inbox[k] /\ Written(j)
        /\ place \in Awaits /\ frame[j].at # "write"
    BY <1>5, <2>1 DEF Moves, PushAccepted, PushRejected, ClearToken, Written, Awaits
  <2>3. ToCome(k)' \subseteq ToCome(k)
    BY <1>1, <2>1, <2>2, RaceMoves DEF ToCome, Writing, Holding
  <2> QED
    BY <1>1, <2>2, <2>3, RaceQuiet
<1>6. CASE Record(j)
  <2>1. /\ Moves(j, "over") /\ idem' = idem \union {frame[j].key}
        /\ inbox'[k] = inbox[k] /\ Written(j)
    BY <1>6 DEF Record, Moves, Endings, Written
  <2>2. ToCome(k)' \subseteq ToCome(k)
    BY <1>1, <2>1, RaceMoves DEF ToCome, Writing, Holding, Written
  <2> QED
    BY <1>1, <2>1, <2>2, RaceQuiet
<1> QED
  BY <1>2, <1>3, <1>4, <1>5, <1>6 DEF Progress

LEMMA RaceFailure ==
  ASSUME Telling, Telling', NEW k \in Keys, RaceBound(k), NEW j \in Jobs, Failure(j)
  PROVE  RaceBound(k)'
<1>1. InCall(j) /\ Moves(j, "over") /\ frame[j].key \in Keys
  <2>1. InCall(j) /\ Moves(j, "over")
    BY DEF Failure, CheckRaises, WriteFails, WriteUnacknowledged, PushFails,
       RecordRaises, InCall, Moves, Endings
  <2> QED
    BY <2>1, FrameOfCall DEF Telling
<1>2. ASSUME slips'[k] = slips[k], inbox'[k] = inbox[k],
             \/ idem' = idem /\ (Written(j) => k # frame[j].key)
             \/ idem' = idem \union {frame[j].key}
      PROVE  RaceBound(k)'
  <2>1. ToCome(k)' \subseteq ToCome(k)
    BY <1>1, <1>2, RaceMoves DEF ToCome, Writing, Holding, Written
  <2> QED
    BY <1>2, <2>1, RaceQuiet
<1>3. slips \in [Keys -> 0 .. MaxSlips]
  BY DEF Telling, TypeOK
<1>4. CASE CheckRaises(j) \/ WriteFails(j)
  BY <1>2, <1>4 DEF CheckRaises, WriteFails, Written
<1>5. CASE WriteUnacknowledged(j)
  <2>1. /\ slips'[k] = IF k = frame[j].key THEN slips[k] + 1 ELSE slips[k]
        /\ frame[j].at = "write" /\ AppendDoc(j) /\ idem' = idem /\ ~Written(j)
    BY <1>1, <1>3, <1>5 DEF WriteUnacknowledged, SlipKeys, Written
  <2>2. /\ k # frame[j].key => inbox'[k] = inbox[k]
        /\ k = frame[j].key => Len(inbox'[k]) = Len(inbox[k]) + 1
    BY <1>1, <2>1, InboxTyped DEF Telling
  <2>3. k = frame[j].key => j \in ToCome(k)
    BY <1>1, <2>1, RaceMoves DEF ToCome, Writing, Holding
  <2> QED
    BY <1>2, <2>1, <2>2, <2>3, RaceSlip
<1>6. CASE PushFails(j) \/ RecordRaises(j)
  <2>1. /\ inbox'[k] = inbox[k]
        /\ \/ /\ slips'[k] = IF k = frame[j].key THEN slips[k] + 1 ELSE slips[k]
              /\ idem' = idem
           \/ slips'[k] = slips[k] /\ idem' = idem \union {frame[j].key}
    BY <1>1, <1>3, <1>6 DEF PushFails, RecordRaises, SlipKeys
  <2> QED
    BY <1>2, <2>1, RaceSlip
<1> QED
  BY <1>4, <1>5, <1>6 DEF Failure

(* Nothing that counts for a race happens to the call of i.                *)
Apart(i) ==
  \/ frame'[i] = frame[i]
  \/ /\ frame[i].at \notin {"write", "push", "clear", "record"}
     /\ frame'[i].at \notin {"write", "push", "clear", "record"}

(* Around the calls a key is forgotten, or calls begin and are killed.     *)
LEMMA RaceCrash ==
  ASSUME Telling, Telling', NEW k \in Keys, RaceBound(k),
         NEW js \in SUBSET Jobs, Crash(js)
  PROVE  RaceBound(k)'
<1> DEFINE lost == {frame[j].key : j \in {i \in js : Written(i)}}
<1>1. /\ slips'[k] = IF k \in lost THEN slips[k] + 1 ELSE slips[k]
      /\ inbox'[k] = inbox[k] /\ idem' = idem
  BY DEF Crash, SlipKeys
<1>2. ASSUME NEW i \in Jobs
      PROVE  \/ frame'[i] = frame[i]
             \/ i \in js /\ InCall(i) /\ frame'[i].at = "over"
  <2>1. frame'[i] = IF i \in js /\ InCall(i)
                    THEN [frame[i] EXCEPT !.at = "over", !.end = "killed"]
                    ELSE frame[i]
    BY DEF Crash
  <2>2. CASE i \in js /\ InCall(i)
    <3>1. frame[i] \in Frames
      BY <2>2, FrameOfCall DEF Telling
    <3> QED
      BY <2>1, <2>2, <3>1 DEF Frames
  <2> QED
    BY <2>1, <2>2
<1>3. CASE k \in lost
  BY <1>1, <1>3, RaceSlip
<1>4. CASE k \notin lost
  <2>1. \A i \in Callers[k] : i \in Holding(k) => i \in Holding(k)'
    BY <1>2, <1>4 DEF Holding, Written
  <2>2. \A i \in Callers[k] : i \in Writing(k)' => i \in Writing(k)
    BY <1>2 DEF Writing
  <2>3. ToCome(k)' \subseteq ToCome(k)
    BY <1>1, <2>1, <2>2 DEF ToCome, Writing
  <2> QED
    BY <1>1, <1>4, <2>3, RaceQuiet
<1> QED
  BY <1>3, <1>4

LEMMA RaceNext == Race /\ [DispatchNext]_dispatchVars => Race'
<1> SUFFICES ASSUME Race, [DispatchNext]_dispatchVars PROVE Race'
  OBVIOUS
<1>1. Telling /\ Telling'
  BY TellingNext DEF Race
<1> SUFFICES ASSUME NEW k \in Keys PROVE RaceBound(k)'
  BY <1>1 DEF Race
<1>2. RaceBound(k) /\ TypeOK
  BY DEF Race, Telling
<1>3. ASSUME UNCHANGED <<idem, inbox, slips>>, \A i \in Jobs : Apart(i)
      PROVE  RaceBound(k)'
  <2>1. ToCome(k)' \subseteq ToCome(k)
    BY <1>3 DEF ToCome, Writing, Holding, Written, Apart
  <2> QED
    BY <1>1, <1>2, <1>3, <2>1, RaceQuiet
<1>4. ASSUME \/ UNCHANGED dispatchVars
             \/ \E u \in Users : Register(u) \/ Uninstall(u)
      PROVE  RaceBound(k)'
  <2>1. UNCHANGED <<idem, inbox, slips>> /\ \A i \in Jobs : Apart(i)
    BY <1>4 DEF dispatchVars, Register, Uninstall, Apart
  <2> QED
    BY <1>3, <2>1
<1>5. ASSUME NEW l \in Keys, Forget(l) PROVE RaceBound(k)'
  <2>1. /\ slips'[k] = IF k = l THEN slips[k] + 1 ELSE slips[k]
        /\ inbox' = inbox /\ frame' = frame
        /\ idem' = idem \ {l}
    BY <1>5 DEF Forget, SlipKeys
  <2>2. CASE k = l
    BY <1>1, <1>2, <2>1, <2>2, RaceSlip
  <2>3. CASE k # l
    <3>1. ToCome(k)' \subseteq ToCome(k)
      BY <2>1, <2>3 DEF ToCome, Writing, Holding, Written
    <3> QED
      BY <1>1, <1>2, <2>1, <2>3, <3>1, RaceQuiet
  <2> QED
    BY <2>2, <2>3
<1>6. ASSUME NEW l \in Keys, NEW j \in Callers[l], NEW u \in Addressees[l],
             NEW t \in 1 .. issued[u], Call(j, u, t, l)
      PROVE  RaceBound(k)'
  <2>1. /\ UNCHANGED <<idem, inbox, slips>>
        /\ \A i \in Jobs \ {j} : frame'[i] = frame[i]
        /\ j \in Jobs => frame'[j].at = "exists" /\ frame[j].at = "over"
    BY <1>2, <1>6 DEF Call, InCall, TypeOK
  <2>2. \A i \in Jobs : Apart(i)
    BY <2>1 DEF Apart
  <2> QED
    BY <1>3, <2>1, <2>2
<1>7. ASSUME NEW j \in Jobs, Resume(j) PROVE RaceBound(k)'
  <2>1. /\ UNCHANGED <<idem, inbox, slips>>
        /\ \A i \in Jobs \ {j} : frame'[i] = frame[i]
        /\ frame'[j].at = "over" /\ frame[j].at = "over"
    BY <1>2, <1>7 DEF Resume, InCall, TypeOK, NoFrame
  <2>2. \A i \in Jobs : Apart(i)
    BY <2>1 DEF Apart
  <2> QED
    BY <1>3, <2>1, <2>2
<1>8. ASSUME NEW js \in SUBSET Jobs, Crash(js) PROVE RaceBound(k)'
  BY <1>1, <1>2, <1>8, RaceCrash
<1>9. ASSUME NEW j \in Jobs, Progress(j) \/ Failure(j) PROVE RaceBound(k)'
  BY <1>1, <1>2, <1>9, RaceProgress, RaceFailure
<1> QED
  BY <1>4, <1>5, <1>6, <1>7, <1>8, <1>9 DEF DispatchNext, Environment

LEMMA RaceInit == DispatchInit => Race
<1> SUFFICES ASSUME DispatchInit, NEW k \in Keys PROVE RaceBound(k)
  BY TellingInit DEF Race
<1>1. Telling /\ inbox[k] = <<>> /\ slips[k] = 0
  BY TellingInit DEF DispatchInit
<1>2. Len(inbox[k]) = 0
  BY <1>1, EmptySeq
<1>3. /\ Cardinality(ToCome(k)) \in Nat /\ Cardinality(Callers[k]) \in Nat
      /\ Cardinality(ToCome(k)) <= Cardinality(Callers[k])
  BY <1>1, RaceTyped
<1> HIDE DEF ToCome
<1> QED
  BY <1>1, <1>2, <1>3 DEF RaceBound

(* However many processes race for a key, each of them writes one document *)
(* at most between two slips: the check-then-act of dispatch costs a       *)
(* duplicate per racing caller and no more, whatever is retried.           *)
THEOREM RaceIsBounded == DispatchSpec => []OncePerCaller
<1>1. Race => OncePerCaller
  <2> SUFFICES ASSUME Race, NEW k \in Keys
               PROVE  Len(inbox[k]) <= Cardinality(Callers[k]) * (slips[k] + 1)
    BY DEF OncePerCaller
  <2>1. /\ Len(inbox[k]) \in Nat /\ Cardinality(ToCome(k)) \in Nat
        /\ Cardinality(Callers[k]) * (slips[k] + 1) \in Int
    BY RaceTyped DEF Race
  <2>2. Len(inbox[k]) + Cardinality(ToCome(k)) <= Cardinality(Callers[k]) * (slips[k] + 1)
    BY DEF Race, RaceBound
  <2> HIDE DEF ToCome
  <2> QED
    BY <2>1, <2>2
<1> QED
  BY <1>1, RaceInit, RaceNext, PTL DEF DispatchSpec

-------------------------------------------------------------------------------
(* What the proofs about callers build on.                                 *)

(* The call of j goes on or ends, and stays the call it was.               *)
LEMMA SameCall ==
  ASSUME TypeOK, NEW j \in Jobs, Progress(j) \/ Failure(j)
  PROVE  /\ InCall(j)
         /\ frame'[j].uid = frame[j].uid /\ frame'[j].key = frame[j].key
         /\ frame'[j].token = frame[j].token
         /\ \A i \in Jobs \ {j} : frame'[i] = frame[i]
<1>1. InCall(j)
  BY DEF Progress, Failure, InCall, SkipRecorded, FindUnrecorded, WriteDoc,
     PushAccepted, PushRejected, ClearToken, Record, CheckRaises, WriteFails,
     WriteUnacknowledged, PushFails, RecordRaises
<1>2. \/ \E place \in Awaits : Goto(j, place)
      \/ \E how \in Endings : End(j, how)
  BY DEF Progress, Failure, SkipRecorded, FindUnrecorded, WriteDoc,
     PushAccepted, PushRejected, ClearToken, Record, CheckRaises, WriteFails,
     WriteUnacknowledged, PushFails, RecordRaises, Awaits, Endings
<1>3. ASSUME NEW place \in Awaits, Goto(j, place)
      PROVE  /\ frame'[j].uid = frame[j].uid /\ frame'[j].key = frame[j].key
             /\ frame'[j].token = frame[j].token
             /\ \A i \in Jobs \ {j} : frame'[i] = frame[i]
  BY <1>1, <1>3, FrameMoves DEF Endings
<1>4. ASSUME NEW how \in Endings, End(j, how)
      PROVE  /\ frame'[j].uid = frame[j].uid /\ frame'[j].key = frame[j].key
             /\ frame'[j].token = frame[j].token
             /\ \A i \in Jobs \ {j} : frame'[i] = frame[i]
  BY <1>1, <1>4, FrameMoves
<1> QED
  BY <1>1, <1>2, <1>3, <1>4

(* Tokens are issued, never taken back. *)
LEMMA IssuedGrows ==
  ASSUME TypeOK, [DispatchNext]_dispatchVars
  PROVE  \A u \in Users : \A t \in 1 .. issued[u] : t \in 1 .. issued'[u]
<1>1. ASSUME NEW v \in Users, Register(v), NEW u \in Users, NEW t \in 1 .. issued[u]
      PROVE  t \in 1 .. issued'[u]
  <2>1. issued[u] \in Nat /\ issued' = [issued EXCEPT ![v] = issued[v] + 1]
    BY <1>1 DEF Register, TypeOK
  <2>2. issued'[u] \in {issued[u], issued[u] + 1}
    BY <2>1 DEF TypeOK
  <2> QED
    BY <1>1, <2>1, <2>2
<1>2. CASE issued' = issued
  BY <1>2
<1> QED
  BY <1>1, <1>2 DEF DispatchNext, dispatchVars, tokenVars, Call, Progress,
     SkipRecorded, FindUnrecorded, WriteDoc, PushAccepted, PushRejected,
     ClearToken, Record, Failure, CheckRaises, WriteFails, WriteUnacknowledged,
     PushFails, RecordRaises, Resume, Crash, Environment, Forget, Uninstall

(* A document is written by a call that stands before its write, to the    *)
(* user of that call, and nothing is pushed but by a call at its push.     *)
WritesOwn(j) ==
  /\ InCall(j)
  /\ inbox' = inbox \/ (frame[j].at = "write" /\ AppendDoc(j))
  /\ pushed' \subseteq pushed \union {<<frame[j].uid, frame[j].key>>}

LEMMA Writes ==
  ASSUME [DispatchNext]_dispatchVars
  PROVE  \/ UNCHANGED <<inbox, pushed>>
         \/ \E j \in Jobs : WritesOwn(j)
<1>1. ASSUME NEW j \in Jobs, Progress(j) \/ Failure(j)
      PROVE  \/ UNCHANGED <<inbox, pushed>>
             \/ WritesOwn(j)
  BY <1>1 DEF Progress, Failure, SkipRecorded, FindUnrecorded, WriteDoc,
     PushAccepted, PushRejected, ClearToken, Record, CheckRaises, WriteFails,
     WriteUnacknowledged, PushFails, RecordRaises, WritesOwn, InCall
<1> QED
  BY <1>1 DEF DispatchNext, dispatchVars, tokenVars, Call, Resume, Crash,
     Environment, Forget, Register, Uninstall

(* Failures are not forgotten. *)
LEMMA FailedGrows ==
  ASSUME [DispatchNext]_dispatchVars
  PROVE  failed \subseteq failed'
BY DEF DispatchNext, dispatchVars, tokenVars, Call, Progress, SkipRecorded,
   FindUnrecorded, WriteDoc, PushAccepted, PushRejected, ClearToken, Record,
   Failure, CheckRaises, WriteFails, WriteUnacknowledged, PushFails,
   RecordRaises, Resume, Crash, Environment, Forget, Register, Uninstall, Fail

(* A dispatch that returned, and never failed for its user and key, leaves *)
(* a document under the key, be it for another user of the key.            *)
ReturnShown ==
  \A j \in Jobs :
    frame[j].end = "returned" =>
      \/ <<frame[j].uid, frame[j].key>> \in failed
      \/ Recipients[frame[j].key] # {}

(* All that is remembered of dispatch. *)
Dispatch == Lawful /\ Ledger /\ Telling /\ ReturnShown

LEMMA RecordedShown ==
  ASSUME Ledger, NEW k \in idem, Sole = Keys
  PROVE  Recipients[k] # {}
<1>1. /\ k \in Keys /\ slips[k] \in Nat /\ inbox[k] \in Seq(Users)
      /\ Len(inbox[k]) = slips[k] + 1
  BY DEF Ledger, TypeOK, Accounting
<1>2. 1 \in 1 .. Len(inbox[k])
  BY <1>1
<1>3. inbox[k][1] \in Recipients[k]
  BY <1>1, <1>2, Zenon DEF Recipients
<1> QED
  BY <1>3

LEMMA ReturnShownStep ==
  ASSUME Ledger, Telling, ReturnShown, Sole = Keys, [DispatchNext]_dispatchVars
  PROVE  ReturnShown'
<1>1. TypeOK /\ Grown /\ failed \subseteq failed'
  BY HasGrows, FailedGrows DEF Ledger
<1>2. ASSUME NEW k \in Keys, Recipients[k] # {} PROVE Recipients'[k] # {}
  <2>1. PICK u \in Recipients[k] : u \in Users
    BY <1>1, <1>2 DEF Recipients, TypeOK
  <2> QED
    BY <1>1, <2>1 DEF Grown
<1> SUFFICES ASSUME NEW i \in Jobs, frame'[i].end = "returned"
             PROVE  \/ <<frame'[i].uid, frame'[i].key>> \in failed'
                    \/ Recipients'[frame'[i].key] # {}
  BY DEF ReturnShown
<1>3. frame \in [Jobs -> Frames \union {NoFrame}]
  BY <1>1 DEF TypeOK
<1>4. CASE frame'[i] = frame[i]
  <2>1. frame[i] \in Frames
    BY <1>3, <1>4 DEF NoFrame
  <2> QED
    BY <1>1, <1>2, <1>4, <2>1 DEF ReturnShown, Frames
<1>5. ASSUME NEW j \in Jobs, Progress(j) \/ Failure(j), frame'[i] # frame[i]
      PROVE  \/ <<frame'[i].uid, frame'[i].key>> \in failed'
             \/ Recipients'[frame'[i].key] # {}
  <2>1. i = j /\ InCall(i) /\ frame'[i].key = frame[i].key /\ frame'[i].uid = frame[i].uid
    BY <1>1, <1>5, SameCall
  <2>2. frame[i].key \in Keys
    BY <1>1, <2>1, FrameOfCall
  <2>3. CASE SkipRecorded(i)
    <3>1. frame[i].key \in idem
      BY <2>3 DEF SkipRecorded, Recorded
    <3> QED
      BY <1>2, <2>1, <2>2, <3>1, RecordedShown
  <2>4. CASE Record(i)
    <3>1. frame[i].uid \in Recipients[frame[i].key]
      BY <2>4 DEF Record, Written, Telling, WrittenHas
    <3> QED
      BY <1>2, <2>1, <2>2, <3>1
  <2>5. CASE WriteFails(i) \/ WriteUnacknowledged(i) \/ PushFails(i)
    BY <2>1, <2>5 DEF WriteFails, WriteUnacknowledged, PushFails, Fail
  <2>6. CASE \/ FindUnrecorded(i) \/ WriteDoc(i) \/ PushAccepted(i)
             \/ PushRejected(i) \/ ClearToken(i) \/ CheckRaises(i) \/ RecordRaises(i)
    <3>1. frame[i] \in Frames
      BY <1>1, <2>1, FrameOfCall
    <3>2. \/ \E place \in Awaits : frame' = [frame EXCEPT ![i] = [frame[i] EXCEPT !.at = place]]
          \/ frame' = [frame EXCEPT ![i] = [frame[i] EXCEPT !.at = "over", !.end = "raised"]]
      <4>1. CASE CheckRaises(i) \/ RecordRaises(i)
        BY <1>3, <4>1 DEF CheckRaises, RecordRaises, End
      <4>2. CASE FindUnrecorded(i) \/ WriteDoc(i)
        BY <1>3, <4>2 DEF FindUnrecorded, WriteDoc, Goto, Awaits
      <4>3. CASE PushAccepted(i) \/ PushRejected(i) \/ ClearToken(i)
        BY <1>3, <4>3 DEF PushAccepted, PushRejected, ClearToken, Goto, Awaits
      <4> QED
        BY <2>6, <4>1, <4>2, <4>3
    <3>3. frame'[i].end = frame[i].end
      <4>1. ASSUME NEW place \in Awaits,
                   frame' = [frame EXCEPT ![i] = [frame[i] EXCEPT !.at = place]]
            PROVE  frame'[i].end = frame[i].end
        BY <1>3, <3>1, <4>1 DEF Frames
      <4>2. CASE frame' = [frame EXCEPT ![i] =
                             [frame[i] EXCEPT !.at = "over", !.end = "raised"]]
        <5>1. frame'[i].end = "raised"
          BY <1>3, <3>1, <4>2 DEF Frames
        <5> QED
          BY <5>1
      <4> QED
        BY <3>2, <4>1, <4>2
    <3>4. \/ <<frame[i].uid, frame[i].key>> \in failed
          \/ Recipients[frame[i].key] # {}
      BY <3>3 DEF ReturnShown
    <3> QED
      BY <1>1, <1>2, <2>1, <2>2, <3>4
  <2> QED
    BY <1>5, <2>1, <2>3, <2>4, <2>5, <2>6 DEF Progress, Failure
<1>6. ASSUME NEW j \in Jobs, NEW u, NEW t, NEW k, Call(j, u, t, k)
      PROVE  frame'[i] = frame[i]
  BY <1>3, <1>6 DEF Call
<1>7. ASSUME NEW j \in Jobs, Resume(j) PROVE frame'[i] = frame[i]
  BY <1>3, <1>7 DEF Resume, NoFrame
<1>8. ASSUME NEW js \in SUBSET Jobs, Crash(js) PROVE frame'[i] = frame[i]
  <2>1. frame'[i] = IF i \in js /\ InCall(i)
                    THEN [frame[i] EXCEPT !.at = "over", !.end = "killed"]
                    ELSE frame[i]
    BY <1>8 DEF Crash
  <2>2. InCall(i) => frame[i] \in Frames
    BY <1>1, FrameOfCall
  <2> QED
    BY <2>1, <2>2 DEF Frames
<1>9. ASSUME Environment \/ UNCHANGED dispatchVars PROVE frame'[i] = frame[i]
  BY <1>9 DEF Environment, Forget, Register, Uninstall, dispatchVars
<1>10. \A k \in Keys : Callers[k] \subseteq Jobs
  OBVIOUS
<1> QED
  BY <1>4, <1>5, <1>6, <1>7, <1>8, <1>9, <1>10 DEF DispatchNext

LEMMA DispatchStart == DispatchInit => Dispatch
<1> SUFFICES ASSUME DispatchInit PROVE Dispatch
  OBVIOUS
<1>1. ReturnShown
  BY DEF DispatchInit, ReturnShown, NoFrame
<1>2. StoredIssued
  BY DEF DispatchInit, StoredIssued
<1> QED
  BY <1>1, <1>2, MintedInit, LedgerInit, TellingInit DEF Dispatch, Lawful

LEMMA DispatchKeeps ==
  ASSUME Sole = Keys, Dispatch, [DispatchNext]_dispatchVars
  PROVE  Dispatch'
BY MintedNext, StoredIssuedStep, LedgerNext, TellingNext, ReturnShownStep
   DEF Dispatch, Lawful
===============================================================================
