------------------------------ MODULE Dispatcher ------------------------------
(***************************************************************************)
(* The dual-write dispatcher (app/notifications/dispatcher.py) and the     *)
(* stores it touches: the Redis idempotency keys, the users' Firestore     *)
(* notification documents and fcmToken fields, and FCM.                    *)
(*                                                                         *)
(* Dispatcher.dispatch is a coroutine; every await is a point where other  *)
(* coroutines and processes run, so each await is one action below.  A     *)
(* caller (a job of the service, or a second process such as run_once.py)  *)
(* has at most one call in progress: frame[j] is that call.                *)
(***************************************************************************)
EXTENDS Naturals, Sequences, FiniteSets

CONSTANTS
  Users,      \* user ids
  Jobs,       \* callers of dispatch
  Keys,       \* idempotency keys; a key also stands for its payload
  Callers,    \* Callers[k]: the callers that build key k
  Addressees, \* Addressees[k]: the users k may be dispatched to
  DryRun,     \* the callers that run with settings.dry_run
  MaxToken,   \* bound: FCM registrations per user
  MaxSlips    \* bound: slips per key (see the history variable slips)

ASSUME DispatcherAssumption ==
  /\ Callers \in [Keys -> SUBSET Jobs]
  /\ Addressees \in [Keys -> SUBSET Users]
  /\ DryRun \subseteq Jobs
  /\ IsFiniteSet(Jobs)
  /\ MaxToken \in Nat \ {0}
  /\ MaxSlips \in Nat

NoToken == 0
Tokens  == 0 .. MaxToken

VARIABLES
  idem,       \* Redis: keys k with a live entry "idem:k"
  inbox,      \* Firestore: the users given a document under k, in order
  pushed,     \* FCM: pairs <<u, k>> whose push FCM accepted
  stored,     \* Firestore: users/{u}.fcmToken, NoToken for null
  issued,     \* devices: the last token issued to u
  installed,  \* devices: whether FCM takes that token from this service
  frame,      \* the call each caller has in progress
  slips,      \* history: documents under k the store does not vouch for
  failed      \* history: pairs <<u, k>> a dispatch failed or raised for

tokenVars    == <<stored, issued, installed>>
dispatchVars == <<idem, inbox, pushed, tokenVars, frame, slips, failed>>

(* Where a call stands: before one of its awaits, or over. *)
Awaits  == {"exists", "write", "push", "clear", "record"}
Endings == {"none", "returned", "raised", "killed"}

Frames == [at : Awaits \union {"over"}, uid : Users, token : 1 .. MaxToken,
           key : Keys, end : Endings]

(* No call was made, or its caller has gone on. *)
NoFrame == [at |-> "over", end |-> "none"]

InCall(j) == frame[j].at # "over"

(* The document of the call is written, the key not recorded yet. *)
Written(j) == frame[j].at \in {"push", "clear", "record"}

(* FCM accepts a token only while the registration it names is alive, and  *)
(* is one of this service's sender id.                                     *)
Live(u, t) == installed[u] /\ t = issued[u]

-------------------------------------------------------------------------------
(* Helpers of the actions. *)

Goto(j, place) == frame' = [frame EXCEPT ![j].at = place]

End(j, how) ==
  frame' = [frame EXCEPT ![j].at = "over", ![j].end = how]

Fail(j) == failed' = failed \union {<<frame[j].uid, frame[j].key>>}

SlipKeys(ks) ==
  /\ \A k \in ks : slips[k] < MaxSlips
  /\ slips' = [k \in Keys |-> IF k \in ks THEN slips[k] + 1 ELSE slips[k]]

(* Mutant: write_notification(token, ...) for write_notification(uid, ...). *)
AppendDocToToken(j) ==
  inbox' = [inbox EXCEPT ![frame[j].key] = Append(@, frame[j].token)]

AppendDoc(j) ==
  inbox' = [inbox EXCEPT ![frame[j].key] = Append(@, frame[j].uid)]

-------------------------------------------------------------------------------
(* dispatch(uid, token, payload, idem_key) *)

Call(j, u, t, k) ==
  /\ ~InCall(j)
  /\ frame' = [frame EXCEPT ![j] = [at |-> "exists", uid |-> u, token |-> t,
                                    key |-> k, end |-> "none"]]
  /\ UNCHANGED <<idem, inbox, pushed, tokenVars, slips, failed>>

(* idempotency_exists, with the two ways to get it wrong. *)
NeverRecorded(j)  == FALSE
AlwaysRecorded(j) == TRUE
Recorded(j)       == frame[j].key \in idem

(* The key is recorded: the call returns without notifying. *)
SkipRecorded(j) ==
  /\ frame[j].at = "exists"
  /\ Recorded(j)
  /\ End(j, "returned")
  /\ UNCHANGED <<idem, inbox, pushed, tokenVars, slips, failed>>

FindUnrecorded(j) ==
  /\ frame[j].at = "exists"
  /\ ~Recorded(j)
  /\ Goto(j, "write")
  /\ UNCHANGED <<idem, inbox, pushed, tokenVars, slips, failed>>

(* Redis raises: dispatch does not catch it, the caller sees it. *)
CheckRaises(j) ==
  /\ frame[j].at = "exists"
  /\ End(j, "raised")
  /\ Fail(j)
  /\ UNCHANGED <<idem, inbox, pushed, tokenVars, slips>>

(* settings.dry_run, and a mutant that does not look at it. *)
NeverDry(j) == FALSE
Dry(j)      == j \in DryRun

WriteDoc(j) ==
  /\ frame[j].at = "write"
  /\ AppendDoc(j)
  /\ Goto(j, IF Dry(j) THEN "record" ELSE "push")
  /\ UNCHANGED <<idem, pushed, tokenVars, slips, failed>>

(* Firestore raises: dispatch swallows it and returns. *)
WriteFails(j) ==
  /\ frame[j].at = "write"
  /\ End(j, "returned")
  /\ Fail(j)
  /\ UNCHANGED <<idem, inbox, pushed, tokenVars, slips>>

(* Firestore commits the document, but the answer is lost. *)
WriteUnacknowledged(j) ==
  /\ frame[j].at = "write"
  /\ AppendDoc(j)
  /\ SlipKeys({frame[j].key})
  /\ End(j, "returned")
  /\ Fail(j)
  /\ UNCHANGED <<idem, pushed, tokenVars>>

(* Whether the token is invalid to FCM. *)
Rejected(j) == ~Live(frame[j].uid, frame[j].token)

PushAccepted(j) ==
  /\ frame[j].at = "push"
  /\ ~Rejected(j)
  /\ pushed' = pushed \union {<<frame[j].uid, frame[j].key>>}
  /\ Goto(j, "record")
  /\ UNCHANGED <<idem, inbox, tokenVars, slips, failed>>

(* Mutant: the push to a dead token is tried again and again. *)
PushAgain(j) ==
  /\ frame[j].at = "push"
  /\ Rejected(j)
  /\ UNCHANGED dispatchVars

(* FcmTokenInvalid: the token passed to dispatch is dead, or was never one *)
(* this service may send to.                                               *)
PushRejected(j) ==
  /\ frame[j].at = "push"
  /\ Rejected(j)
  /\ Goto(j, "clear")
  /\ UNCHANGED <<idem, inbox, pushed, tokenVars, slips, failed>>

(* Mutant: any FCM error clears the token. *)
PushFailsAndClears(j) ==
  /\ frame[j].at = "push"
  /\ Goto(j, "clear")
  /\ UNCHANGED <<idem, inbox, pushed, tokenVars, slips, failed>>

(* Any other FCM error, before or after FCM took the message: dispatch     *)
(* returns and leaves the key unrecorded.                                  *)
PushFails(j) ==
  /\ frame[j].at = "push"
  /\ \/ UNCHANGED pushed
     \/ /\ ~Rejected(j)
        /\ pushed' = pushed \union {<<frame[j].uid, frame[j].key>>}
  /\ SlipKeys({frame[j].key})
  /\ End(j, "returned")
  /\ Fail(j)
  /\ UNCHANGED <<idem, inbox, tokenVars>>

(* clear_fcm_token(uid) nulls the field whatever it holds by now; its own  *)
(* failure is swallowed.                                                   *)
ClearToken(j) ==
  /\ frame[j].at = "clear"
  /\ \/ stored' = [stored EXCEPT ![frame[j].uid] = NoToken]
     \/ UNCHANGED stored
  /\ Goto(j, "record")
  /\ UNCHANGED <<idem, inbox, pushed, issued, installed, slips, failed>>

(* Mutant: the key is not recorded. *)
RecordNothing(j) ==
  /\ frame[j].at = "record"
  /\ End(j, "returned")
  /\ UNCHANGED <<idem, inbox, pushed, tokenVars, slips, failed>>

Record(j) ==
  /\ frame[j].at = "record"
  /\ idem' = idem \union {frame[j].key}
  /\ End(j, "returned")
  /\ UNCHANGED <<inbox, pushed, tokenVars, slips, failed>>

(* Redis raises, before or after it has set the key. *)
RecordRaises(j) ==
  /\ frame[j].at = "record"
  /\ \/ SlipKeys({frame[j].key}) /\ UNCHANGED idem
     \/ idem' = idem \union {frame[j].key} /\ UNCHANGED slips
  /\ End(j, "raised")
  /\ Fail(j)
  /\ UNCHANGED <<inbox, pushed, tokenVars>>

(* The caller takes the outcome and goes on. *)
Resume(j) ==
  /\ ~InCall(j)
  /\ frame' = [frame EXCEPT ![j] = NoFrame]
  /\ UNCHANGED <<idem, inbox, pushed, tokenVars, slips, failed>>

(* The steps dispatch takes when every service answers. *)
Progress(j) ==
  \/ SkipRecorded(j) \/ FindUnrecorded(j) \/ WriteDoc(j) \/ PushAccepted(j)
  \/ PushRejected(j) \/ ClearToken(j) \/ Record(j)

Failure(j) ==
  \/ CheckRaises(j) \/ WriteFails(j) \/ WriteUnacknowledged(j)
  \/ PushFails(j) \/ RecordRaises(j)

-------------------------------------------------------------------------------
(* What happens around the calls. *)

(* The processes of the callers js die, or their tasks are cancelled at an *)
(* await when the scheduler shuts down: CancelledError passes through      *)
(* every "except Exception".                                               *)
Crash(js) ==
  /\ \E j \in js : InCall(j)
  /\ SlipKeys({frame[j].key : j \in {i \in js : Written(i)}})
  /\ frame' = [j \in Jobs |-> IF j \in js /\ InCall(j)
                              THEN [frame[j] EXCEPT !.at = "over", !.end = "killed"]
                              ELSE frame[j]]
  /\ failed' = failed \union
                 {<<frame[j].uid, frame[j].key>> : j \in {i \in js : InCall(i)}}
  /\ UNCHANGED <<idem, inbox, pushed, tokenVars>>

(* The entry's seven days are over, or Redis evicts it (allkeys-lru). *)
Forget(k) ==
  /\ k \in idem
  /\ idem' = idem \ {k}
  /\ SlipKeys({k})
  /\ UNCHANGED <<inbox, pushed, tokenVars, frame, failed>>

(* The app gets a new FCM token and stores it in the user's document; a    *)
(* token of another sender, or one that is malformed, is never usable.     *)
Register(u) ==
  /\ issued[u] < MaxToken
  /\ issued' = [issued EXCEPT ![u] = @ + 1]
  /\ \E usable \in BOOLEAN : installed' = [installed EXCEPT ![u] = usable]
  /\ stored' = [stored EXCEPT ![u] = issued'[u]]
  /\ UNCHANGED <<idem, inbox, pushed, frame, slips, failed>>

(* The app is removed: the token dies, the document keeps it. *)
Uninstall(u) ==
  /\ installed[u]
  /\ installed' = [installed EXCEPT ![u] = FALSE]
  /\ UNCHANGED <<idem, inbox, pushed, stored, issued, frame, slips, failed>>

Environment ==
  \/ \E k \in Keys : Forget(k)
  \/ \E u \in Users : Register(u) \/ Uninstall(u)

-------------------------------------------------------------------------------
(* The dispatcher under callers that may dispatch any of their keys to any *)
(* of its addressees, with any token that user ever stored.                *)

DispatchInit ==
  /\ idem      = {}
  /\ inbox     = [k \in Keys |-> <<>>]
  /\ pushed    = {}
  /\ stored    = [u \in Users |-> 1]
  /\ issued    = [u \in Users |-> 1]
  /\ installed = [u \in Users |-> TRUE]
  /\ frame     = [j \in Jobs |-> NoFrame]
  /\ slips     = [k \in Keys |-> 0]
  /\ failed    = {}

DispatchNext ==
  \/ \E k \in Keys : \E j \in Callers[k], u \in Addressees[k] :
       \E t \in 1 .. issued[u] : Call(j, u, t, k)
  \/ \E j \in Jobs : Progress(j) \/ Failure(j) \/ Resume(j)
  \/ \E js \in SUBSET Jobs : Crash(js)
  \/ Environment

DispatchSpec == DispatchInit /\ [][DispatchNext]_dispatchVars

(* Redis, Firestore and FCM answer every call in the end. *)
DispatchFairSpec ==
  DispatchSpec /\ \A j \in Jobs : WF_dispatchVars(Progress(j))
-------------------------------------------------------------------------------
(* Properties. *)

TypeOK ==
  /\ idem \subseteq Keys
  /\ inbox \in [Keys -> Seq(Users)]
  /\ pushed \subseteq Users \X Keys
  /\ stored \in [Users -> Tokens]
  /\ issued \in [Users -> 1 .. MaxToken]
  /\ installed \in [Users -> BOOLEAN]
  /\ frame \in [Jobs -> Frames \union {NoFrame}]
  /\ slips \in [Keys -> 0 .. MaxSlips]
  /\ failed \subseteq Users \X Keys

(* The keys that one caller builds.  Within the service those are all of   *)
(* them, what max_instances=1 arranges; a run_once.py beside it builds the *)
(* keys of the job it runs a second time.                                  *)
Sole == {k \in Keys : \A i, j \in Callers[k] : i = j}

(* Somebody has written a document of k and not recorded k yet. *)
InFlight(k) == \E j \in Jobs : Written(j) /\ frame[j].key = k

(* Every document is accounted for: of the documents written under a sole  *)
(* caller's key all but the slipped ones amount to one if the key is       *)
(* recorded or about to be, and to none otherwise.  So a user is told      *)
(* twice only after a failed record, an expiry or a crash, once for each.  *)
Accounting ==
  \A k \in Sole :
    Len(inbox[k]) = slips[k] + (IF k \in idem \/ InFlight(k) THEN 1 ELSE 0)

(* For those keys the dispatcher implements its promise: see               *)
(* IdempotentDelivery.                                                     *)
Delivery == INSTANCE IdempotentDelivery WITH
              Keys <- Sole,
              shown <- [k \in Sole |-> Len(inbox[k])],
              slipped <- [k \in Sole |-> slips[k]],
              recorded <- idem \intersect Sole

DeliverySpec == Delivery!Spec

(* Of the others the check and the write race: callers in several          *)
(* processes may all find the key unrecorded.  Then each of them writes    *)
(* one document at most until the next slip, however their awaits          *)
(* interleave and whatever is retried, for whoever comes back finds the    *)
(* key recorded; and one caller alone writes one.                          *)
OncePerCaller ==
  \A k \in Keys : Len(inbox[k]) <= Cardinality(Callers[k]) * (slips[k] + 1)

(* The dual write has an order: a push reaches a phone only for a document *)
(* that is already in that user's inbox, whichever of the key's callers    *)
(* wrote it; and a dry run asks nothing of FCM and clears no token.        *)
PushFollowsDocument ==
  /\ \A u \in Users, k \in Keys :
       <<u, k>> \in pushed => \E n \in 1 .. Len(inbox[k]) : inbox[k][n] = u
  /\ \A j \in DryRun : frame[j].at \notin {"push", "clear"}

(* A dispatch returns nothing, so its caller can only take a return for    *)
(* success.  It may, for a key that names one user: if no dispatch of the  *)
(* pair ever failed, that user has the document, now or from before.       *)
ReturnMeansServed ==
  \A j \in Jobs :
    LET f == frame[j] IN
      /\ f.end = "returned"
      /\ Addressees[f.key] = {f.uid}
      => \/ <<f.uid, f.key>> \in failed
         \/ \E n \in 1 .. Len(inbox[f.key]) : inbox[f.key][n] = f.uid

(* No user with a working phone loses the stored token, unless a newer     *)
(* registration overtook the call that found the older one dead.           *)
LiveTokenClearedOnlyInRace ==
  [][\A u \in Users :
       /\ Live(u, stored[u])
       /\ stored'[u] = NoToken
       => \E j \in Jobs : /\ frame[j].at = "clear"
                          /\ frame[j].uid = u
                          /\ frame[j].token < stored[u]]_dispatchVars

(* Every call ends, when Redis, Firestore and FCM answer. *)
CallsEnd == \A j \in Jobs : InCall(j) ~> ~InCall(j)
===============================================================================
