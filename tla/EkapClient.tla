------------------------------ MODULE EkapClient ------------------------------
(***************************************************************************)
(* EkapClient._post (app/ekap/client.py) under its retry policy            *)
(* (app/http/retry.py), with the token bucket and the semaphore that all   *)
(* callers of one process share.                                           *)
(*                                                                         *)
(* call[c] is the request caller c has in progress.  A sleep is a timer    *)
(* that Tick counts down; the caller may go on when it has reached zero,   *)
(* or later, as on an event loop that is busy.                             *)
(***************************************************************************)
EXTENDS Naturals, Sequences, FiniteSets

CONSTANTS
  Clients,      \* coroutines that make requests: the jobs of the process
  Concurrency,  \* settings.ekap_concurrency
  Capacity,     \* the bucket's _capacity, in parts of a token
  Cost,         \* parts in a token
  Rate,         \* parts that come back in a unit of time
  Jitters,      \* the times jitter_sleep may take
  RetryAfters,  \* the Retry-After values EKAP sends, 0 for none
  MaxAttempts,  \* stop_after_attempt
  BackoffMin,   \* wait_exponential: min, which is also its multiplier
  BackoffMax,   \* wait_exponential: max
  MaxRequests   \* bound: requests of a client between two restarts

ASSUME ClientAssumption ==
  /\ Concurrency \in Nat \ {0} /\ MaxAttempts \in Nat \ {0}
  /\ Capacity \in Nat /\ Cost \in Nat /\ Rate \in Nat
  /\ 0 < Rate /\ 0 < Cost /\ Cost <= Capacity
  /\ Jitters \subseteq Nat /\ RetryAfters \subseteq Nat
  /\ BackoffMin \in Nat /\ BackoffMax \in Nat /\ MaxRequests \in Nat

VARIABLES
  tokens,  \* the bucket: _tokens at the last refill
  age,     \* the bucket: the time since _updated_at
  free,    \* the semaphore: free slots
  queue,   \* the semaphore: the clients that wait for one, in order
  call,    \* call[c]: the request c has in progress
  sent,    \* history: how often EKAP was sent that request
  paid     \* history: the tokens taken for it

bucketVars == <<tokens, age>>
slotVars   == <<free, queue>>
clientVars == <<bucketVars, slotVars, call, sent, paid>>

(* min and max, of natural numbers. *)
AtMost(n, bound)  == IF n \in 0 .. bound THEN n ELSE bound
AtLeast(n, bound) == IF n >= bound THEN n ELSE bound

(* After that long the bucket is full, however long it has been. *)
FullAge == Capacity \div Rate + 1

NoCall == [at |-> "over", end |-> "none", attempt |-> 0, timer |-> 0,
           left |-> MaxRequests]

InCall(c) == call[c].at # "over"
Goto(c, place, time) ==
  call' = [call EXCEPT ![c] = [@ EXCEPT !.at = place, !.timer = time]]

End(c, how) ==
  call' = [call EXCEPT ![c] = [@ EXCEPT !.at = "over", !.end = how]]

(* c stands at an await whose sleep is over. *)
Awake(c, place) == call[c].at = place /\ call[c].timer = 0

-------------------------------------------------------------------------------
(* _post is entered: the first attempt asks the bucket. *)
Request(c) ==
  /\ ~InCall(c)
  /\ call[c].left > 0
  /\ call' = [call EXCEPT ![c] = [at |-> "acquire", end |-> "none", attempt |-> 1,
                                  timer |-> 0, left |-> @.left - 1]]
  /\ sent' = [sent EXCEPT ![c] = 0]
  /\ paid' = [paid EXCEPT ![c] = 0]
  /\ UNCHANGED <<bucketVars, slotVars>>

(* _refill, and a mutant without the capacity. *)
RefilledBeyond == tokens + age * Rate
Refilled       == AtMost(tokens + age * Rate, Capacity)

(* sleep_for: the time until the deficit is back. *)
SleepFor(deficit) == (deficit + Rate - 1) \div Rate

(* acquire: the bucket pays, and c queues for the semaphore.  Mutant: the  *)
(* time of the refill is not noted.                                        *)
TakeAgain(c) ==
  /\ Awake(c, "acquire")
  /\ Cost <= Refilled
  /\ tokens' = Refilled - Cost
  /\ UNCHANGED age
  /\ queue' = Append(queue, c)
  /\ Goto(c, "queue", 0)
  /\ paid' = [paid EXCEPT ![c] = @ + 1]
  /\ UNCHANGED <<free, sent>>

Take(c) ==
  /\ Awake(c, "acquire")
  /\ Cost <= Refilled
  /\ tokens' = Refilled - Cost
  /\ age' = 0
  /\ queue' = Append(queue, c)
  /\ Goto(c, "queue", 0)
  /\ paid' = [paid EXCEPT ![c] = @ + 1]
  /\ UNCHANGED <<free, sent>>

(* Too little is left: c sleeps outside the lock and tries again, together *)
(* with all others that wake up by then.                                   *)
Wait(c) ==
  /\ Awake(c, "acquire")
  /\ Refilled < Cost
  /\ tokens' = Refilled
  /\ age' = 0
  /\ Goto(c, "acquire", SleepFor(Cost - Refilled))
  /\ UNCHANGED <<slotVars, sent, paid>>

(* async with self._sem: first come, first served; then the jitter. *)
Enter(c) ==
  /\ queue # <<>>
  /\ Head(queue) = c
  /\ free > 0
  /\ queue' = Tail(queue)
  /\ free' = free - 1
  /\ \E time \in Jitters : Goto(c, "jitter", time)
  /\ UNCHANGED <<bucketVars, sent, paid>>

Post(c) ==
  /\ Awake(c, "jitter")
  /\ Goto(c, "post", 0)
  /\ sent' = [sent EXCEPT ![c] = @ + 1]
  /\ UNCHANGED <<bucketVars, slotVars, paid>>

Release == free' = free + 1

(* EKAP answers, with data or with an error that is not retried.  (An      *)
(* answer that is no JSON counts for the latter.)                          *)
Answer(c) ==
  /\ call[c].at = "post"
  /\ \E how \in {"answered", "refused"} : End(c, how)
  /\ Release
  /\ UNCHANGED <<bucketVars, queue, sent, paid>>

(* wait_exponential *)
Backoff(attempt) ==
  AtLeast(AtMost(BackoffMin * 2 ^ (attempt - 1), BackoffMax), BackoffMin)

(* What tenacity does with a retryable error; a mutant stops one attempt   *)
(* early.                                                                  *)
RetryOrStopEarly(c) ==
  IF call[c].attempt + 1 < MaxAttempts
  THEN Goto(c, "backoff", Backoff(call[c].attempt))
  ELSE End(c, "exhausted")

RetryOrStop(c) ==
  IF call[c].attempt < MaxAttempts
  THEN Goto(c, "backoff", Backoff(call[c].attempt))
  ELSE End(c, "exhausted")

(* A transport error or a timeout. *)
Break(c) ==
  /\ call[c].at = "post"
  /\ RetryOrStop(c)
  /\ Release
  /\ UNCHANGED <<bucketVars, queue, sent, paid>>

(* 429 or 5xx: Retry-After is slept with the slot in hand, then            *)
(* raise_for_status leaves the semaphore.                                  *)
Busy(c) ==
  /\ call[c].at = "post"
  /\ \E time \in RetryAfters : Goto(c, "cool", time)
  /\ UNCHANGED <<bucketVars, slotVars, sent, paid>>

(* Mutants: "while retry_after" for "if", and a slot that is not given     *)
(* back.                                                                   *)
SleepOn(c) ==
  /\ Awake(c, "cool")
  /\ \E time \in RetryAfters \ {0} : Goto(c, "cool", time)
  /\ UNCHANGED <<bucketVars, slotVars, sent, paid>>

LeaveWithSlot(c) ==
  /\ Awake(c, "cool")
  /\ RetryOrStop(c)
  /\ UNCHANGED <<bucketVars, slotVars, sent, paid>>

Leave(c) ==
  /\ Awake(c, "cool")
  /\ RetryOrStop(c)
  /\ Release
  /\ UNCHANGED <<bucketVars, queue, sent, paid>>

(* The next attempt starts from the bucket; in a mutant, from the          *)
(* semaphore.                                                              *)
AttemptUnpaid(c) ==
  /\ Awake(c, "backoff")
  /\ call' = [call EXCEPT ![c] = [@ EXCEPT !.at = "queue",
                                          !.attempt = call[c].attempt + 1]]
  /\ queue' = Append(queue, c)
  /\ UNCHANGED <<bucketVars, free, sent, paid>>

Attempt(c) ==
  /\ Awake(c, "backoff")
  /\ call' = [call EXCEPT ![c] = [@ EXCEPT !.at = "acquire",
                                          !.attempt = call[c].attempt + 1]]
  /\ UNCHANGED <<bucketVars, slotVars, sent, paid>>

-------------------------------------------------------------------------------
(* Time passes for the bucket and for every sleep. *)
Tick ==
  /\ age' = AtMost(age + 1, FullAge)
  /\ call' = [c \in Clients |->
                [call[c] EXCEPT !.timer = IF @ > 0 THEN @ - 1 ELSE 0]]
  /\ UNCHANGED <<tokens, slotVars, sent, paid>>

(* The process is started anew: every request is forgotten. *)
Restart ==
  /\ tokens' = Capacity /\ age' = 0
  /\ free' = Concurrency /\ queue' = <<>>
  /\ call' = [c \in Clients |-> NoCall]
  /\ sent' = [c \in Clients |-> 0]
  /\ paid' = [c \in Clients |-> 0]

ClientInit ==
  /\ tokens = Capacity /\ age = 0
  /\ free = Concurrency /\ queue = <<>>
  /\ call = [c \in Clients |-> NoCall]
  /\ sent = [c \in Clients |-> 0]
  /\ paid = [c \in Clients |-> 0]

(* The steps of a request, whatever EKAP answers. *)
Step(c) ==
  \/ Take(c) \/ Wait(c) \/ Enter(c) \/ Post(c) \/ Answer(c) \/ Break(c)
  \/ Busy(c) \/ Leave(c) \/ Attempt(c)

ClientNext ==
  \/ \E c \in Clients : Request(c) \/ Step(c)
  \/ Tick \/ Restart

ClientSpec == ClientInit /\ [][ClientNext]_clientVars

(* Time passes, the event loop runs what is ready, EKAP answers or the     *)
(* HTTP client times out.                                                  *)
ClientFairSpec ==
  ClientSpec /\ WF_clientVars(Tick) /\ \A c \in Clients : WF_clientVars(Step(c))
-------------------------------------------------------------------------------
(* Properties. *)

Places == {"over", "acquire", "queue", "jitter", "post", "cool", "backoff"}
Ends   == {"none", "answered", "refused", "exhausted"}

ClientTypeOK ==
  /\ tokens \in 0 .. Capacity
  /\ age \in 0 .. FullAge
  /\ free \in 0 .. Concurrency
  /\ queue \in Seq(Clients)
  /\ call \in [Clients -> [at : Places, end : Ends, attempt : 0 .. MaxAttempts,
                           timer : Nat, left : 0 .. MaxRequests]]
  /\ sent \in [Clients -> 0 .. MaxAttempts]
  /\ paid \in [Clients -> 0 .. MaxAttempts]

Holders == {c \in Clients : call[c].at \in {"jitter", "post", "cool"}}

(* No slot of the semaphore is lost or made, on none of the ways out of    *)
(* it, and nobody queues who does not wait or waits who does not queue.    *)
SlotsKept ==
  /\ free + Cardinality(Holders) = Concurrency
  /\ {queue[n] : n \in DOMAIN queue} = {c \in Clients : call[c].at = "queue"}
  /\ \A m, n \in DOMAIN queue : queue[m] = queue[n] => m = n

(* The bucket is asked inside the retry loop: EKAP is sent nothing that    *)
(* was not paid for, and nothing is paid twice, whichever sleeps, retries  *)
(* and competing clients come between.                                     *)
PaidOnce ==
  \A c \in Clients :
    paid[c] = sent[c] + IF call[c].at \in {"queue", "jitter"} THEN 1 ELSE 0

(* A request is given up for a passing error only after all the attempts   *)
(* retry.py grants have been sent, never for lack of tokens or slots.      *)
GivesUpLast ==
  \A c \in Clients :
    call[c].end = "exhausted" => sent[c] = MaxAttempts

(* The lazily refilled bucket implements Pacing. *)
Pacer == INSTANCE Pacing WITH allowance <- Refilled

PacedRequests == Pacer!Spec

(* Every request ends, though those who wait for tokens wake up together   *)
(* and Retry-After is slept inside the semaphore: between two restarts the *)
(* others make a bounded number of requests, as the runs of the jobs do.   *)
RequestsEnd == \A c \in Clients : InCall(c) ~> ~InCall(c)
===============================================================================
