--------------------------- MODULE EkapClient_proofs ---------------------------
(***************************************************************************)
(* Proofs about EkapClient: what holds for any number of clients, slots,   *)
(* tokens and attempts.                                                    *)
(***************************************************************************)
EXTENDS EkapClient, FiniteSetTheorems, TLAPS

-------------------------------------------------------------------------------
(* The bucket. *)

(* A bucket that has not been refilled for FullAge is full. *)
LEMMA FullAgeFills == FullAge \in Nat /\ Capacity <= FullAge * Rate
  <1> DEFINE n == Capacity \div Rate
  <1>1. Capacity \in Nat /\ Rate \in Nat /\ 0 < Rate
    BY ClientAssumption
  <1>2. n \in Nat /\ Capacity < (n + 1) * Rate
    BY <1>1, SMTT(60)
  <1> QED  BY <1>1, <1>2 DEF FullAge

(* A refill keeps within the capacity, and in any time gives a full bucket *)
(* what it had, or what the time brings on top.                            *)
LEMMA RefillBounds ==
  ASSUME NEW t \in 0 .. Capacity, NEW a \in 0 .. FullAge
  PROVE  /\ AtMost(t + a * Rate, Capacity) \in 0 .. Capacity
         /\ AtMost(t + 0 * Rate, Capacity) = t
         /\ AtMost(t + FullAge * Rate, Capacity) = Capacity
         /\ AtMost(t + (a + 1) * Rate, Capacity)
              = AtMost(AtMost(t + a * Rate, Capacity) + Rate, Capacity)
  <1>1. /\ Capacity \in Nat /\ Rate \in Nat /\ FullAge \in Nat
        /\ Capacity <= FullAge * Rate
    BY ClientAssumption, FullAgeFills
  <1>2. a * Rate \in Nat /\ FullAge * Rate \in Nat /\ 0 * Rate = 0
    BY <1>1, SMT
  <1>3. (a + 1) * Rate = a * Rate + Rate
    BY <1>1, SMT
  <1> QED  BY <1>1, <1>2, <1>3, SMT DEF AtMost

BucketOK == tokens \in 0 .. Capacity /\ age \in 0 .. FullAge

LEMMA BucketInit == ClientInit => BucketOK /\ Pacer!Init
  <1> SUFFICES ASSUME ClientInit PROVE BucketOK /\ Pacer!Init
    OBVIOUS
  <1>1. tokens = Capacity /\ age = 0 /\ Capacity \in Nat /\ FullAge \in Nat
    BY ClientAssumption, FullAgeFills DEF ClientInit
  <1>2. tokens \in 0 .. Capacity /\ age \in 0 .. FullAge
    BY <1>1, SMT
  <1>3. Refilled = Capacity
    BY <1>1, <1>2, RefillBounds DEF Refilled
  <1> QED  BY <1>2, <1>3 DEF BucketOK, Pacer!Init

(* A look at the bucket leaves its allowance unchanged: only a grant, time *)
(* or a restart changes it.                                                *)
LEMMA BucketStep ==
  ASSUME BucketOK, [ClientNext]_clientVars
  PROVE  BucketOK' /\ [Pacer!Next]_Refilled
  <1> DEFINE Kept == tokens' = tokens /\ age' = age
  <1>0. Capacity \in Nat /\ Cost \in Nat /\ Rate \in Nat /\ FullAge \in Nat
    BY ClientAssumption, FullAgeFills
  <1>1. Refilled \in 0 .. Capacity
    BY RefillBounds DEF BucketOK, Refilled
  <1>2. ASSUME Kept PROVE BucketOK' /\ Refilled' = Refilled
    BY <1>2 DEF BucketOK, Refilled
  <1>3. ASSUME NEW c \in Clients, Take(c) PROVE BucketOK' /\ Pacer!Grant
    <2>1. /\ Cost <= Refilled /\ tokens' = Refilled - Cost /\ age' = 0
      BY <1>3 DEF Take
    <2>2. tokens' \in 0 .. Capacity /\ age' \in 0 .. FullAge
      BY <2>1, <1>0, <1>1, SMT
    <2>3. Refilled' = tokens'
      BY <2>1, <2>2, RefillBounds DEF Refilled
    <2> QED  BY <2>1, <2>2, <2>3 DEF BucketOK, Pacer!Grant
  <1>4. ASSUME NEW c \in Clients, Wait(c) PROVE BucketOK' /\ Refilled' = Refilled
    <2>1. tokens' = Refilled /\ age' = 0
      BY <1>4 DEF Wait
    <2>2. tokens' \in 0 .. Capacity /\ age' \in 0 .. FullAge
      BY <2>1, <1>0, <1>1, SMT
    <2>3. Refilled' = tokens'
      BY <2>1, <2>2, RefillBounds DEF Refilled
    <2> QED  BY <2>1, <2>2, <2>3 DEF BucketOK
  <1>5. ASSUME Tick PROVE BucketOK' /\ Pacer!Pass
    <2>1. tokens' = tokens /\ age' = AtMost(age + 1, FullAge)
      BY <1>5 DEF Tick
    <2>2. /\ age \in 0 .. FullAge /\ tokens \in 0 .. Capacity
          /\ age' \in 0 .. FullAge /\ tokens' \in 0 .. Capacity
      BY <2>1, <1>0, SMT DEF BucketOK, AtMost
    <2>3. CASE age < FullAge
      <3>1. age' = age + 1
        BY <2>1, <2>2, <2>3, <1>0, SMT DEF AtMost
      <3>2. AtMost(tokens + (age + 1) * Rate, Capacity)
              = AtMost(AtMost(tokens + age * Rate, Capacity) + Rate, Capacity)
        BY <2>2, RefillBounds
      <3> QED  BY <2>1, <2>2, <3>1, <3>2 DEF BucketOK, Pacer!Pass, Pacer!AtMost, Refilled, AtMost
    <2>4. CASE age = FullAge
      <3>1. age' = FullAge
        BY <2>1, <2>4, <1>0, SMT DEF AtMost
      <3>2. Refilled = Capacity /\ Refilled' = Capacity
        BY <2>1, <2>2, <2>4, <3>1, RefillBounds DEF Refilled
      <3> QED  BY <2>2, <3>2, <1>0, SMT DEF BucketOK, Pacer!Pass, Pacer!AtMost
    <2> QED  BY <2>2, <2>3, <2>4, <1>0, SMT
  <1>6. ASSUME Restart PROVE BucketOK' /\ Pacer!Restart
    <2>1. tokens' = Capacity /\ age' = 0
      BY <1>6 DEF Restart
    <2>2. tokens' \in 0 .. Capacity /\ age' \in 0 .. FullAge
      BY <2>1, <1>0, SMT
    <2>3. Refilled' = Capacity
      BY <2>1, <2>2, RefillBounds DEF Refilled
    <2> QED  BY <2>2, <2>3 DEF BucketOK, Pacer!Restart
  <1>7. ASSUME NEW c \in Clients, Request(c) \/ Step(c), ~Take(c), ~Wait(c)
        PROVE  Kept
    BY <1>7 DEF Request, Step, Enter, Post, Answer, Break, Busy, Leave, Attempt, bucketVars
  <1>8. CASE UNCHANGED clientVars
    BY <1>8, <1>2 DEF clientVars, bucketVars
  <1> QED
    BY <1>2, <1>3, <1>4, <1>5, <1>6, <1>7, <1>8 DEF ClientNext, Step, Pacer!Next

(* The bucket as the jobs share it implements Pacing: whatever is sent to  *)
(* EKAP, by however many competing waiters, the allowance had paid for,    *)
(* and no order of refills makes it grow faster than time.                 *)
THEOREM BucketPaces == ClientSpec => PacedRequests
  <1>1. ClientInit => BucketOK /\ Pacer!Init
    BY BucketInit
  <1>2. BucketOK /\ [ClientNext]_clientVars => BucketOK' /\ [Pacer!Next]_Refilled
    BY BucketStep
  <1> QED  BY <1>1, <1>2, PTL DEF ClientSpec, PacedRequests, Pacer!Spec

-------------------------------------------------------------------------------
(* The requests. *)

(* Of the timers only that they are something: no count depends on how     *)
(* long a sleep is.                                                        *)
Calls(Timers) ==
  [at : Places, end : Ends, attempt : 0 .. MaxAttempts, timer : Timers,
   left : 0 .. MaxRequests]

CallsOK == \E Timers : call \in [Clients -> Calls(Timers)]

CountersOK == sent \in [Clients -> 0 .. MaxAttempts] /\ paid \in [Clients -> Nat]

(* Attempts, requests sent and tokens paid go together, at every place.    *)
Counted(c) ==
  /\ call[c].at \in {"acquire", "queue", "jitter"} => sent[c] + 1 = call[c].attempt
  /\ call[c].at \in {"post", "cool", "backoff"} => sent[c] = call[c].attempt
  /\ call[c].at = "backoff" => call[c].attempt < MaxAttempts
  /\ InCall(c) => call[c].end = "none" /\ call[c].attempt > 0
  /\ call[c].end = "exhausted" => sent[c] = MaxAttempts
  /\ paid[c] = sent[c] + IF call[c].at \in {"queue", "jitter"} THEN 1 ELSE 0

QueueOK ==
  /\ queue \in Seq(Clients)
  /\ {queue[n] : n \in DOMAIN queue} = {c \in Clients : call[c].at = "queue"}
  /\ \A m, n \in DOMAIN queue : queue[m] = queue[n] => m = n

RequestInv == CallsOK /\ CountersOK /\ QueueOK /\ \A c \in Clients : Counted(c)

(* The record of c becomes r; the others stay.                             *)
LEMMA CallUpdate ==
  ASSUME CallsOK, NEW c \in Clients, NEW Timers, NEW r \in Calls(Timers),
         call' = [call EXCEPT ![c] = r]
  PROVE  /\ CallsOK'
         /\ call'[c] = r
         /\ \A d \in Clients \ {c} : call'[d] = call[d]
  <1>1. PICK T : call \in [Clients -> Calls(T)]
    BY DEF CallsOK
  <1>2. /\ Calls(Timers) \subseteq Calls(T \union Timers)
        /\ Calls(T) \subseteq Calls(T \union Timers)
    BY SMT DEF Calls
  <1>3. call' \in [Clients -> Calls(T \union Timers)]
    BY <1>1, <1>2
  <1>4. CallsOK'
    BY <1>3 DEF CallsOK
  <1>5. call'[c] = r /\ \A d \in Clients \ {c} : call'[d] = call[d]
    BY <1>1
  <1> QED  BY <1>4, <1>5

LEMMA GotoMoves ==
  ASSUME CallsOK, NEW c \in Clients, NEW p \in Places, NEW t, Goto(c, p, t)
  PROVE  /\ CallsOK'
         /\ call'[c].at = p /\ call'[c].end = call[c].end
         /\ call'[c].attempt = call[c].attempt
         /\ \A d \in Clients \ {c} : call'[d] = call[d]
  <1> DEFINE r == [call[c] EXCEPT !.at = p, !.timer = t]
  <1>1. PICK T : call \in [Clients -> Calls(T)]
    BY DEF CallsOK
  <1>2. call[c] \in Calls(T)
    BY <1>1
  <1>3. /\ r \in Calls(T \union {t})
        /\ r.at = p /\ r.end = call[c].end /\ r.attempt = call[c].attempt
    <2> DEFINE q == [call[c] EXCEPT !.at = p]
    <2>1. q \in Calls(T) /\ q.at = p /\ q.end = call[c].end /\ q.attempt = call[c].attempt
      BY <1>2 DEF Calls
    <2>2. r = [q EXCEPT !.timer = t]
      OBVIOUS
    <2> HIDE DEF q, r
    <2> QED  BY <2>1, <2>2 DEF Calls
  <1>4. call' = [call EXCEPT ![c] = r]
    BY DEF Goto
  <1> HIDE DEF r
  <1>5. CallsOK' /\ call'[c] = r /\ \A d \in Clients \ {c} : call'[d] = call[d]
    BY <1>3, <1>4, CallUpdate
  <1> QED  BY <1>3, <1>5

LEMMA EndMoves ==
  ASSUME CallsOK, NEW c \in Clients, NEW e \in Ends, End(c, e)
  PROVE  /\ CallsOK'
         /\ call'[c].at = "over" /\ call'[c].end = e
         /\ call'[c].attempt = call[c].attempt
         /\ \A d \in Clients \ {c} : call'[d] = call[d]
  <1> DEFINE r == [call[c] EXCEPT !.at = "over", !.end = e]
  <1>1. PICK T : call \in [Clients -> Calls(T)]
    BY DEF CallsOK
  <1>2. call[c] \in Calls(T)
    BY <1>1
  <1>3. /\ r \in Calls(T)
        /\ r.at = "over" /\ r.end = e /\ r.attempt = call[c].attempt
    <2> DEFINE q == [call[c] EXCEPT !.at = "over"]
    <2>1. q \in Calls(T) /\ q.at = "over" /\ q.attempt = call[c].attempt
      BY <1>2 DEF Calls, Places
    <2>2. r = [q EXCEPT !.end = e]
      OBVIOUS
    <2> HIDE DEF q, r
    <2> QED  BY <2>1, <2>2 DEF Calls
  <1>4. call' = [call EXCEPT ![c] = r]
    BY DEF End
  <1> HIDE DEF r
  <1>5. CallsOK' /\ call'[c] = r /\ \A d \in Clients \ {c} : call'[d] = call[d]
    BY <1>3, <1>4, CallUpdate
  <1> QED  BY <1>3, <1>5

LEMMA RequestMoves ==
  ASSUME CallsOK, NEW c \in Clients, Request(c)
  PROVE  /\ CallsOK'
         /\ call'[c].at = "acquire" /\ call'[c].end = "none"
         /\ call'[c].attempt = 1
         /\ \A d \in Clients \ {c} : call'[d] = call[d]
  <1> DEFINE r == [at |-> "acquire", end |-> "none", attempt |-> 1,
                   timer |-> 0, left |-> call[c].left - 1]
  <1>1. PICK T : call \in [Clients -> Calls(T)]
    BY DEF CallsOK
  <1>2. call[c].left \in 0 .. MaxRequests /\ call[c].left > 0
    BY <1>1 DEF Calls, Request
  <1>3. call[c].left - 1 \in 0 .. MaxRequests /\ 1 \in 0 .. MaxAttempts
    BY <1>2, ClientAssumption, SMT
  <1>4. r \in Calls({0}) /\ r.at = "acquire" /\ r.end = "none" /\ r.attempt = 1
    BY <1>3, SMT DEF Calls, Places, Ends
  <1>5. call' = [call EXCEPT ![c] = r]
    BY DEF Request
  <1> HIDE DEF r
  <1>6. CallsOK' /\ call'[c] = r /\ \A d \in Clients \ {c} : call'[d] = call[d]
    BY <1>4, <1>5, CallUpdate
  <1> QED  BY <1>4, <1>6

LEMMA AttemptMoves ==
  ASSUME CallsOK, NEW c \in Clients, Attempt(c), call[c].attempt < MaxAttempts
  PROVE  /\ CallsOK'
         /\ call'[c].at = "acquire" /\ call'[c].end = call[c].end
         /\ call'[c].attempt = call[c].attempt + 1
         /\ \A d \in Clients \ {c} : call'[d] = call[d]
  <1> DEFINE q == [call[c] EXCEPT !.at = "acquire"]
             r == [call[c] EXCEPT !.at = "acquire", !.attempt = call[c].attempt + 1]
  <1>1. PICK T : call \in [Clients -> Calls(T)]
    BY DEF CallsOK
  <1>2. call[c] \in Calls(T)
    BY <1>1
  <1>3. /\ q \in Calls(T)
        /\ q.at = "acquire" /\ q.end = call[c].end /\ q.attempt = call[c].attempt
    BY <1>2 DEF Calls, Places
  <1>4. call' = [call EXCEPT ![c] = r]
    BY DEF Attempt
  <1>9. r = [q EXCEPT !.attempt = call[c].attempt + 1]
    OBVIOUS
  <1> HIDE DEF q, r
  <1>5. call[c].attempt + 1 \in 0 .. MaxAttempts
    BY <1>2, ClientAssumption, SMT DEF Calls
  <1>6. /\ r \in Calls(T)
        /\ r.at = "acquire" /\ r.end = call[c].end /\ r.attempt = call[c].attempt + 1
    BY <1>3, <1>5, <1>9 DEF Calls
  <1>7. CallsOK' /\ call'[c] = r /\ \A d \in Clients \ {c} : call'[d] = call[d]
    BY <1>4, <1>6, CallUpdate
  <1> QED  BY <1>6, <1>7

(* Whatever a step makes of the record of c, its counts fit, and nobody    *)
(* else's change.                                                          *)
LEMMA CountsStep ==
  ASSUME RequestInv, NEW c \in Clients, Request(c) \/ Step(c)
  PROVE  /\ CallsOK' /\ CountersOK' /\ Counted(c)'
         /\ \A d \in Clients \ {c} :
              call'[d] = call[d] /\ sent'[d] = sent[d] /\ paid'[d] = paid[d]
  <1> DEFINE Others == \A d \in Clients \ {c} :
                call'[d] = call[d] /\ sent'[d] = sent[d] /\ paid'[d] = paid[d]
             Goal == CallsOK' /\ CountersOK' /\ Counted(c)' /\ Others
  <1>0. /\ CallsOK /\ CountersOK /\ Counted(c)
        /\ MaxAttempts \in Nat \ {0}
        /\ sent[c] \in 0 .. MaxAttempts /\ paid[c] \in Nat
    BY ClientAssumption DEF RequestInv, CountersOK
  <1>a. call[c].at \in Places /\ call[c].attempt \in 0 .. MaxAttempts
    BY DEF RequestInv, CallsOK, Calls
  <1> USE DEF CountersOK, Counted, InCall
  <1>1. CASE Request(c)
    <2>1. sent' = [sent EXCEPT ![c] = 0] /\ paid' = [paid EXCEPT ![c] = 0]
      BY <1>1 DEF Request
    <2> QED  BY <1>0, <1>1, <2>1, RequestMoves, SMT
  <1>2. CASE Take(c)
    <2>1. Goto(c, "queue", 0) /\ "queue" \in Places /\ call[c].at = "acquire"
      BY <1>2 DEF Take, Places, Awake
    <2>2. paid' = [paid EXCEPT ![c] = @ + 1] /\ sent' = sent
      BY <1>2 DEF Take
    <2> QED  BY <1>0, <2>1, <2>2, GotoMoves, SMT
  <1>3. CASE Wait(c)
    <2>1. Goto(c, "acquire", SleepFor(Cost - Refilled)) /\ "acquire" \in Places
      BY <1>3 DEF Wait, Places
    <2>2. paid' = paid /\ sent' = sent /\ call[c].at = "acquire"
      BY <1>3 DEF Wait, Awake
    <2> QED  BY <1>0, <2>1, <2>2, GotoMoves, SMT
  <1>4. CASE Enter(c)
    <2>1. call[c].at = "queue"
      BY <1>4, SMT DEF Enter, RequestInv, QueueOK
    <2>2. PICK time \in Jitters : Goto(c, "jitter", time)
      BY <1>4 DEF Enter
    <2>3. paid' = paid /\ sent' = sent /\ "jitter" \in Places
      BY <1>4 DEF Enter, Places
    <2> QED  BY <1>0, <2>1, <2>2, <2>3, GotoMoves, SMT
  <1>5. CASE Post(c)
    <2>1. Goto(c, "post", 0) /\ "post" \in Places /\ call[c].at = "jitter"
      BY <1>5 DEF Post, Places, Awake
    <2>2. sent' = [sent EXCEPT ![c] = @ + 1] /\ paid' = paid
      BY <1>5 DEF Post
    <2> QED  BY <1>0, <1>a, <2>1, <2>2, GotoMoves, SMT
  <1>6. CASE Answer(c)
    <2>1. PICK how \in {"answered", "refused"} : End(c, how)
      BY <1>6 DEF Answer
    <2>2. how \in Ends /\ how # "exhausted"
      BY DEF Ends
    <2>3. sent' = sent /\ paid' = paid /\ call[c].at = "post"
      BY <1>6 DEF Answer
    <2> QED  BY <1>0, <2>1, <2>2, <2>3, EndMoves, SMT
  <1>7. ASSUME RetryOrStop(c), call[c].at \in {"post", "cool"}, sent' = sent, paid' = paid
        PROVE  Goal
    <2>1. CASE call[c].attempt < MaxAttempts
      <3>1. Goto(c, "backoff", Backoff(call[c].attempt)) /\ "backoff" \in Places
        BY <1>7, <2>1 DEF RetryOrStop, Places
      <3> QED  BY <1>0, <1>a, <1>7, <2>1, <3>1, GotoMoves, SMT
    <2>2. CASE ~(call[c].attempt < MaxAttempts)
      <3>1. End(c, "exhausted") /\ "exhausted" \in Ends
        BY <1>7, <2>2 DEF RetryOrStop, Ends
      <3> QED  BY <1>0, <1>a, <1>7, <2>2, <3>1, EndMoves, SMT
    <2> QED  BY <2>1, <2>2
  <1>8. CASE Break(c)
    BY <1>7, <1>8 DEF Break
  <1>9. CASE Busy(c)
    <2>1. PICK time \in RetryAfters : Goto(c, "cool", time)
      BY <1>9 DEF Busy
    <2>2. paid' = paid /\ sent' = sent /\ call[c].at = "post" /\ "cool" \in Places
      BY <1>9 DEF Busy, Places
    <2> QED  BY <1>0, <2>1, <2>2, GotoMoves, SMT
  <1>10. CASE Leave(c)
    BY <1>7, <1>10 DEF Leave, Awake
  <1>11. CASE Attempt(c)
    <2>1. call[c].at = "backoff" /\ paid' = paid /\ sent' = sent
      BY <1>11 DEF Attempt, Awake
    <2> QED  BY <1>0, <1>a, <1>11, <2>1, AttemptMoves, SMT
  <1> QED
    BY <1>1, <1>2, <1>3, <1>4, <1>5, <1>6, <1>8, <1>9, <1>10, <1>11 DEF Step

-------------------------------------------------------------------------------
(* The semaphore. *)

Elements(q) == {q[n] : n \in DOMAIN q}
OnceEach(q) == \A m, n \in DOMAIN q : q[m] = q[n] => m = n

LEMMA AppendElements ==
  ASSUME NEW S, NEW q \in Seq(S), NEW x \in S, x \notin Elements(q), OnceEach(q)
  PROVE  /\ Append(q, x) \in Seq(S)
         /\ Elements(Append(q, x)) = Elements(q) \union {x}
         /\ OnceEach(Append(q, x))
  <1> DEFINE r == Append(q, x)
  <1>1. /\ r \in Seq(S) /\ DOMAIN q = 1 .. Len(q) /\ Len(q) \in Nat
        /\ DOMAIN r = 1 .. Len(q) + 1
        /\ r[Len(q) + 1] = x
        /\ \A n \in 1 .. Len(q) : r[n] = q[n]
    OBVIOUS
  <1> HIDE DEF r
  <1>2. Elements(r) = Elements(q) \union {x}
    <2>1. ASSUME NEW y \in Elements(r) PROVE y \in Elements(q) \union {x}
      BY <1>1, <2>1, SMT DEF Elements
    <2>2. ASSUME NEW y \in Elements(q) PROVE y \in Elements(r)
      BY <1>1, <2>2, SMT DEF Elements
    <2>3. x \in Elements(r)
      BY <1>1, SMT DEF Elements
    <2> QED  BY <2>1, <2>2, <2>3
  <1>3. OnceEach(r)
    BY <1>1, SMT DEF OnceEach, Elements
  <1> QED  BY <1>1, <1>2, <1>3 DEF r

LEMMA TailElements ==
  ASSUME NEW S, NEW q \in Seq(S), q # <<>>, OnceEach(q)
  PROVE  /\ Tail(q) \in Seq(S)
         /\ Elements(Tail(q)) = Elements(q) \ {Head(q)}
         /\ Head(q) \in Elements(q)
         /\ OnceEach(Tail(q))
  <1> DEFINE r == Tail(q)
  <1>1. /\ r \in Seq(S) /\ DOMAIN q = 1 .. Len(q) /\ Len(q) \in Nat \ {0}
        /\ DOMAIN r = 1 .. Len(q) - 1
        /\ Head(q) = q[1]
        /\ \A n \in 1 .. Len(q) - 1 : r[n] = q[n + 1]
    OBVIOUS
  <1> HIDE DEF r
  <1>2. Elements(r) = Elements(q) \ {Head(q)}
    <2>1. ASSUME NEW y \in Elements(r) PROVE y \in Elements(q) \ {Head(q)}
      BY <1>1, <2>1, SMTT(30) DEF Elements, OnceEach
    <2>2. ASSUME NEW y \in Elements(q), y # Head(q) PROVE y \in Elements(r)
      <3>1. PICK n \in 1 .. Len(q) : q[n] = y
        BY <1>1, <2>2 DEF Elements
      <3>2. n - 1 \in 1 .. Len(q) - 1 /\ r[n - 1] = y
        BY <1>1, <2>2, <3>1, SMT
      <3> QED  BY <1>1, <3>2 DEF Elements
    <2> QED  BY <2>1, <2>2
  <1>3. OnceEach(r)
    <2>1. ASSUME NEW m \in 1 .. Len(q) - 1, NEW n \in 1 .. Len(q) - 1, r[m] = r[n]
          PROVE  m = n
      <3>1. m + 1 \in 1 .. Len(q) /\ n + 1 \in 1 .. Len(q) /\ q[m + 1] = q[n + 1]
        BY <1>1, <2>1, SMT
      <3>2. m + 1 = n + 1
        BY <1>1, <3>1 DEF OnceEach
      <3> QED  BY <3>2, SMT
    <2> QED  BY <1>1, <2>1 DEF OnceEach
  <1>4. Head(q) \in Elements(q)
    BY <1>1, SMT DEF Elements
  <1> QED  BY <1>1, <1>2, <1>3, <1>4 DEF r

(* Where a step takes c, as far as the semaphore is concerned.             *)
HoldPlaces == {"jitter", "post", "cool"}

SlotsOK ==
  /\ free \in Nat
  /\ IsFiniteSet(Holders)
  /\ free + Cardinality(Holders) = Concurrency

LEMMA Passage ==
  ASSUME RequestInv, NEW c \in Clients, Request(c) \/ Step(c)
  PROVE  \/ /\ call[c].at = "acquire" /\ call'[c].at = "queue"
            /\ queue' = Append(queue, c) /\ free' = free
         \/ /\ call[c].at = "queue" /\ call'[c].at = "jitter"
            /\ queue # <<>> /\ Head(queue) = c /\ queue' = Tail(queue)
            /\ free > 0 /\ free' = free - 1
         \/ /\ call[c].at \in HoldPlaces /\ call'[c].at \in HoldPlaces
            /\ queue' = queue /\ free' = free
         \/ /\ call[c].at \in HoldPlaces /\ call'[c].at \notin HoldPlaces \union {"queue"}
            /\ queue' = queue /\ free' = free + 1
         \/ /\ call[c].at \notin HoldPlaces \union {"queue"}
            /\ call'[c].at \notin HoldPlaces \union {"queue"}
            /\ queue' = queue /\ free' = free
  <1> USE DEF HoldPlaces, slotVars
  <1>0. CallsOK /\ Counted(c)
    BY DEF RequestInv
  <1>g. ASSUME NEW p \in Places, NEW t, Goto(c, p, t) PROVE call'[c].at = p
    BY <1>0, <1>g, GotoMoves
  <1>e. ASSUME NEW e \in Ends, End(c, e) PROVE call'[c].at = "over"
    BY <1>0, <1>e, EndMoves
  <1>r. ASSUME RetryOrStop(c) PROVE call'[c].at \in {"backoff", "over"}
    BY <1>r, <1>g, <1>e DEF RetryOrStop, Places, Ends
  <1>1. CASE Request(c)
    <2>1. call[c].at = "over" /\ call'[c].at = "acquire"
      BY <1>0, <1>1, RequestMoves DEF Request, InCall
    <2>2. queue' = queue /\ free' = free
      BY <1>1 DEF Request
    <2> QED  BY <2>1, <2>2
  <1>2. CASE Take(c)
    BY <1>2, <1>g DEF Take, Awake, Places
  <1>3. CASE Wait(c)
    BY <1>3, <1>g DEF Wait, Awake, Places
  <1>4. CASE Enter(c)
    <2>1. call[c].at = "queue"
      BY <1>4, SMT DEF Enter, RequestInv, QueueOK
    <2> QED  BY <1>4, <2>1, <1>g DEF Enter, Places
  <1>5. CASE Post(c)
    BY <1>5, <1>g DEF Post, Awake, Places
  <1>6. CASE Answer(c)
    BY <1>6, <1>e DEF Answer, Release, Ends
  <1>7. CASE Break(c)
    BY <1>7, <1>r DEF Break, Release
  <1>8. CASE Busy(c)
    BY <1>8, <1>g DEF Busy, Places
  <1>9. CASE Leave(c)
    BY <1>9, <1>r DEF Leave, Awake, Release
  <1>10. CASE Attempt(c)
    <2>1. call[c].at = "backoff" /\ call[c].attempt < MaxAttempts
      BY <1>0, <1>10 DEF Attempt, Awake, Counted
    <2>2. call'[c].at = "acquire" /\ queue' = queue /\ free' = free
      BY <1>0, <1>10, <2>1, AttemptMoves DEF Attempt
    <2> QED  BY <2>1, <2>2
  <1> QED
    BY <1>1, <1>2, <1>3, <1>4, <1>5, <1>6, <1>7, <1>8, <1>9, <1>10 DEF Step

LEMMA QueueStep ==
  ASSUME RequestInv, NEW c \in Clients, Request(c) \/ Step(c)
  PROVE  QueueOK'
  <1> DEFINE Waiting == {d \in Clients : call[d].at = "queue"}
  <1>1. queue \in Seq(Clients) /\ Elements(queue) = Waiting /\ OnceEach(queue)
    BY DEF RequestInv, QueueOK, Elements, OnceEach
  <1>2. \A d \in Clients \ {c} : call'[d] = call[d]
    BY CountsStep
  <1>3. SUFFICES /\ queue' \in Seq(Clients)
                 /\ Elements(queue') = Waiting'
                 /\ OnceEach(queue')
    BY DEF QueueOK, Elements, OnceEach
  <1>4. CASE /\ call[c].at = "acquire" /\ call'[c].at = "queue"
             /\ queue' = Append(queue, c)
    <2>1. c \notin Waiting /\ Waiting' = Waiting \union {c}
      BY <1>2, <1>4
    <2> QED  BY <1>1, <1>4, <2>1, AppendElements
  <1>5. CASE /\ call'[c].at = "jitter" /\ queue # <<>>
             /\ Head(queue) = c /\ queue' = Tail(queue)
    <2>1. Waiting' = Waiting \ {c}
      BY <1>2, <1>5
    <2> QED  BY <1>1, <1>5, <2>1, TailElements
  <1>6. CASE call[c].at # "queue" /\ call'[c].at # "queue" /\ queue' = queue
    <2>1. Waiting' = Waiting
      BY <1>2, <1>6
    <2> QED  BY <1>1, <1>6, <2>1
  <1> QED  BY <1>4, <1>5, <1>6, Passage DEF HoldPlaces

LEMMA SlotsStep ==
  ASSUME RequestInv, SlotsOK, NEW c \in Clients, Request(c) \/ Step(c)
  PROVE  SlotsOK'
  <1>1. \A d \in Clients \ {c} : call'[d] = call[d]
    BY CountsStep
  <1>2. /\ free \in Nat /\ Concurrency \in Nat
        /\ IsFiniteSet(Holders) /\ Cardinality(Holders) \in Nat
        /\ free + Cardinality(Holders) = Concurrency
    BY ClientAssumption, FS_CardinalityType DEF SlotsOK
  <1>3. CASE call[c].at \notin HoldPlaces /\ call'[c].at \in HoldPlaces
             /\ free > 0 /\ free' = free - 1
    <2>1. c \notin Holders /\ Holders' = Holders \union {c}
      BY <1>1, <1>3 DEF Holders, HoldPlaces
    <2>2. IsFiniteSet(Holders') /\ Cardinality(Holders') = Cardinality(Holders) + 1
      BY <1>2, <2>1, FS_AddElement
    <2> QED  BY <1>2, <1>3, <2>2, SMT DEF SlotsOK
  <1>4. CASE call[c].at \in HoldPlaces /\ call'[c].at \notin HoldPlaces
             /\ free' = free + 1
    <2>1. c \in Holders /\ Holders' = Holders \ {c}
      BY <1>1, <1>4 DEF Holders, HoldPlaces
    <2>2. IsFiniteSet(Holders') /\ Cardinality(Holders') = Cardinality(Holders) - 1
      BY <1>2, <2>1, FS_RemoveElement
    <2> QED  BY <1>2, <1>4, <2>2, SMT DEF SlotsOK
  <1>5. CASE (call[c].at \in HoldPlaces <=> call'[c].at \in HoldPlaces)
             /\ free' = free
    <2>1. Holders' = Holders
      BY <1>1, <1>5 DEF Holders, HoldPlaces
    <2> QED  BY <1>2, <1>5, <2>1 DEF SlotsOK
  <1> QED  BY <1>3, <1>4, <1>5, Passage DEF HoldPlaces

(* Time touches nothing but timers; a restart forgets all. *)
LEMMA TickKeeps ==
  ASSUME RequestInv, SlotsOK, Tick
  PROVE  RequestInv' /\ SlotsOK'
  <1>1. PICK T : call \in [Clients -> Calls(T)]
    BY DEF RequestInv, CallsOK
  <1>2. /\ call' = [c \in Clients |->
                     [call[c] EXCEPT !.timer = IF @ > 0 THEN @ - 1 ELSE 0]]
        /\ queue' = queue /\ free' = free /\ sent' = sent /\ paid' = paid
    BY DEF Tick, slotVars
  <1> DEFINE Times == {IF t > 0 THEN t - 1 ELSE 0 : t \in T}
  <1>3. ASSUME NEW c \in Clients
        PROVE  /\ call'[c] \in Calls(Times)
               /\ call'[c].at = call[c].at /\ call'[c].end = call[c].end
               /\ call'[c].attempt = call[c].attempt
    <2>1. call[c] \in Calls(T)
      BY <1>1
    <2>2. call'[c] = [call[c] EXCEPT !.timer =
                        IF call[c].timer > 0 THEN call[c].timer - 1 ELSE 0]
      BY <1>2
    <2>3. (IF call[c].timer > 0 THEN call[c].timer - 1 ELSE 0) \in Times
      BY <2>1 DEF Calls
    <2> HIDE DEF Times
    <2> QED  BY <2>1, <2>2, <2>3 DEF Calls
  <1> HIDE DEF Times
  <1>4. call' \in [Clients -> Calls(Times)]
    BY <1>2, <1>3
  <1>5. CallsOK' /\ CountersOK'
    BY <1>2, <1>4 DEF CallsOK, RequestInv, CountersOK
  <1>6. QueueOK'
    BY <1>2, <1>3 DEF RequestInv, QueueOK
  <1>7. \A c \in Clients : Counted(c)'
    BY <1>2, <1>3 DEF RequestInv, Counted, InCall
  <1>8. Holders' = Holders
    BY <1>3 DEF Holders
  <1> QED  BY <1>2, <1>5, <1>6, <1>7, <1>8 DEF RequestInv, SlotsOK

LEMMA FreshState ==
  /\ ClientInit => RequestInv /\ SlotsOK
  /\ Restart => RequestInv' /\ SlotsOK'
  <1>1. /\ NoCall \in Calls({0})
        /\ NoCall.at = "over" /\ NoCall.end = "none"
    BY ClientAssumption, SMT DEF NoCall, Calls, Places, Ends
  <1>2. /\ Cardinality({}) = 0 /\ IsFiniteSet({}) /\ Concurrency \in Nat
    BY FS_EmptySet, ClientAssumption
  <1>3. 0 \in 0 .. MaxAttempts
    BY ClientAssumption, SMT
  <1> HIDE DEF NoCall
  <1>4. ASSUME ClientInit PROVE RequestInv /\ SlotsOK
    <2>1. call \in [Clients -> Calls({0})] /\ \A c \in Clients : call[c] = NoCall
      BY <1>1, <1>4 DEF ClientInit
    <2>2. CallsOK /\ CountersOK /\ QueueOK
      BY <1>1, <1>3, <1>4, <2>1 DEF ClientInit, CallsOK, CountersOK, QueueOK
    <2>3. \A c \in Clients : Counted(c)
      BY <1>1, <1>4, <2>1, SMT DEF ClientInit, Counted, InCall
    <2>4. Holders = {}
      BY <1>1, <2>1 DEF Holders
    <2> QED  BY <1>2, <1>4, <2>2, <2>3, <2>4, SMT DEF ClientInit, RequestInv, SlotsOK
  <1>5. ASSUME Restart PROVE RequestInv' /\ SlotsOK'
    <2>1. call' \in [Clients -> Calls({0})] /\ \A c \in Clients : call'[c] = NoCall
      BY <1>1, <1>5 DEF Restart
    <2>2. CallsOK' /\ CountersOK' /\ QueueOK'
      BY <1>1, <1>3, <1>5, <2>1 DEF Restart, CallsOK, CountersOK, QueueOK
    <2>3. \A c \in Clients : Counted(c)'
      BY <1>1, <1>5, <2>1, SMT DEF Restart, Counted, InCall
    <2>4. Holders' = {}
      BY <1>1, <2>1 DEF Holders
    <2> QED  BY <1>2, <1>5, <2>2, <2>3, <2>4, SMT DEF Restart, RequestInv, SlotsOK
  <1> QED  BY <1>4, <1>5

(* The inductive invariant of the requests. *)
LEMMA RequestsStep ==
  ASSUME RequestInv, SlotsOK, [ClientNext]_clientVars
  PROVE  RequestInv' /\ SlotsOK'
  <1>1. ASSUME NEW c \in Clients, Request(c) \/ Step(c)
        PROVE  RequestInv' /\ SlotsOK'
    <2>1. ASSUME NEW d \in Clients PROVE Counted(d)'
      <3>1. CASE d = c
        BY <1>1, <3>1, CountsStep
      <3>2. CASE d # c
        <4>1. call'[d] = call[d] /\ sent'[d] = sent[d] /\ paid'[d] = paid[d]
          BY <1>1, <3>2, CountsStep
        <4> QED  BY <4>1 DEF RequestInv, Counted, InCall
      <3> QED  BY <3>1, <3>2
    <2> QED  BY <1>1, <2>1, CountsStep, QueueStep, SlotsStep DEF RequestInv
  <1>2. CASE UNCHANGED clientVars
    BY <1>2 DEF clientVars, slotVars, RequestInv, SlotsOK, CallsOK, CountersOK, QueueOK,
                Counted, InCall, Holders
  <1> QED  BY <1>1, <1>2, TickKeeps, FreshState DEF ClientNext

LEMMA RequestsAccounted == ClientSpec => [](RequestInv /\ SlotsOK)
  <1>1. ClientInit => RequestInv /\ SlotsOK
    BY FreshState
  <1>2. RequestInv /\ SlotsOK /\ [ClientNext]_clientVars => RequestInv' /\ SlotsOK'
    BY RequestsStep
  <1> QED  BY <1>1, <1>2, PTL DEF ClientSpec

(* Whatever EKAP answers and whoever is started anew, as many slots are    *)
(* free as nobody holds, and exactly those who wait for one are queued.    *)
THEOREM SlotsAccounted == ClientSpec => []SlotsKept
  <1>1. RequestInv /\ SlotsOK => SlotsKept
    BY DEF RequestInv, SlotsOK, QueueOK, SlotsKept
  <1> QED  BY <1>1, RequestsAccounted, PTL

(* Each attempt pays the bucket once and is sent once, in this order.      *)
THEOREM EveryAttemptPays == ClientSpec => []PaidOnce
  <1>1. RequestInv => PaidOnce
    BY DEF RequestInv, Counted, PaidOnce
  <1> QED  BY <1>1, RequestsAccounted, PTL

(* Nobody gives up for a passing error with attempts left.                 *)
THEOREM AllAttemptsSent == ClientSpec => []GivesUpLast
  <1>1. RequestInv => GivesUpLast
    BY DEF RequestInv, Counted, GivesUpLast
  <1> QED  BY <1>1, RequestsAccounted, PTL

-------------------------------------------------------------------------------
(* Types.  Of every sleep that it is a number of units of time.            *)
TimersOK == \A c \in Clients : call[c].timer \in Nat

LEMMA SleepTyped ==
  /\ BucketOK /\ Refilled < Cost => SleepFor(Cost - Refilled) \in Nat
  /\ \A attempt : Backoff(attempt) \in Nat
  <1>0. /\ Capacity \in Nat /\ Cost \in Nat /\ Rate \in Nat /\ 0 < Rate
        /\ BackoffMin \in Nat /\ BackoffMax \in Nat
    BY ClientAssumption
  <1>1. ASSUME BucketOK, Refilled < Cost PROVE SleepFor(Cost - Refilled) \in Nat
    <2>1. Refilled \in Nat
      <3>1. Refilled \in 0 .. Capacity
        BY <1>1, RefillBounds DEF BucketOK, Refilled
      <3> QED  BY <1>0, <3>1
    <2>2. Cost - Refilled + Rate - 1 \in Nat
      BY <1>0, <1>1, <2>1
    <2> DEFINE m == Cost - Refilled + Rate - 1
    <2>3. m \in Nat => m \div Rate \in Nat
      <3> HIDE DEF m
      <3> QED  BY <1>0, SMTT(60)
    <2> QED  BY <2>2, <2>3 DEF SleepFor
  <1>2. ASSUME NEW attempt PROVE Backoff(attempt) \in Nat
    <2>1. \A n : AtMost(n, BackoffMax) \in Nat
      BY <1>0 DEF AtMost
    <2> QED  BY <1>0, <2>1 DEF Backoff, AtLeast
  <1> QED  BY <1>1, <1>2

(* Nobody's timer but that of c changes.                                   *)
LEMMA TimerMoves ==
  ASSUME CallsOK, NEW c \in Clients
  PROVE  /\ \A p, t : Goto(c, p, t) => call'[c].timer = t
         /\ \A e : End(c, e) => call'[c].timer = call[c].timer
         /\ Request(c) => call'[c].timer = 0
         /\ Attempt(c) => call'[c].timer = call[c].timer
  <1>1. PICK T : call \in [Clients -> Calls(T)]
    BY DEF CallsOK
  <1>2. /\ call[c] = [at |-> call[c].at, end |-> call[c].end,
                      attempt |-> call[c].attempt, timer |-> call[c].timer,
                      left |-> call[c].left]
        /\ DOMAIN call = Clients
    BY <1>1 DEF Calls
  <1> DEFINE old == call[c]
  <1>3. \A p, t : [old EXCEPT !.at = p, !.timer = t].timer = t
    BY <1>2
  <1>4. \A e : [old EXCEPT !.at = "over", !.end = e].timer = old.timer
    BY <1>2
  <1>5. \A n : [old EXCEPT !.at = "acquire", !.attempt = n].timer = old.timer
    BY <1>2
  <1>6. \A r : call' = [call EXCEPT ![c] = r] => call'[c] = r
    BY <1>2
  <1>7. Request(c) => call'[c].timer = 0
    <2>1. \A n : [at |-> "acquire", end |-> "none", attempt |-> 1, timer |-> 0,
                  left |-> n].timer = 0
      OBVIOUS
    <2> QED  BY <1>6, <2>1 DEF Request
  <1>8. ASSUME NEW p, NEW t, Goto(c, p, t) PROVE call'[c].timer = t
    BY <1>3, <1>6, <1>8 DEF Goto
  <1>9. ASSUME NEW e, End(c, e) PROVE call'[c].timer = call[c].timer
    BY <1>4, <1>6, <1>9 DEF End
  <1>10. Attempt(c) => call'[c].timer = call[c].timer
    BY <1>5, <1>6 DEF Attempt
  <1> QED  BY <1>7, <1>8, <1>9, <1>10

LEMMA TimersStep ==
  ASSUME RequestInv, BucketOK, TimersOK, [ClientNext]_clientVars
  PROVE  TimersOK'
  <1>0. CallsOK
    BY DEF RequestInv
  <1>1. ASSUME NEW c \in Clients, Request(c) \/ Step(c), call'[c].timer \in Nat
        PROVE  TimersOK'
    BY <1>1, CountsStep DEF TimersOK
  <1>2. ASSUME NEW c \in Clients, RetryOrStop(c) PROVE call'[c].timer \in Nat
    BY <1>0, <1>2, TimerMoves, SleepTyped DEF RetryOrStop, TimersOK
  <1>3. ASSUME NEW c \in Clients, Request(c) \/ Attempt(c) PROVE call'[c].timer \in Nat
    BY <1>0, <1>3, TimerMoves DEF TimersOK
  <1>4. ASSUME NEW c \in Clients, Take(c) \/ Post(c) PROVE call'[c].timer \in Nat
    BY <1>0, <1>4, TimerMoves DEF Take, Post
  <1>5. ASSUME NEW c \in Clients, Wait(c) PROVE call'[c].timer \in Nat
    BY <1>0, <1>5, TimerMoves, SleepTyped DEF Wait
  <1>6. ASSUME NEW c \in Clients, Enter(c) PROVE call'[c].timer \in Nat
    BY <1>0, <1>6, TimerMoves, ClientAssumption DEF Enter
  <1>7. ASSUME NEW c \in Clients, Answer(c) PROVE call'[c].timer \in Nat
    BY <1>0, <1>7, TimerMoves DEF Answer, TimersOK
  <1>8. ASSUME NEW c \in Clients, Busy(c) PROVE call'[c].timer \in Nat
    BY <1>0, <1>8, TimerMoves, ClientAssumption DEF Busy
  <1>9. ASSUME NEW c \in Clients, Break(c) \/ Leave(c) PROVE call'[c].timer \in Nat
    BY <1>2, <1>9 DEF Break, Leave
  <1>10. ASSUME Tick, NEW c \in Clients PROVE call'[c].timer \in Nat
    <2>1. PICK T : call \in [Clients -> Calls(T)]
      BY <1>0 DEF CallsOK
    <2>2. call'[c] = [call[c] EXCEPT !.timer =
                        IF call[c].timer > 0 THEN call[c].timer - 1 ELSE 0]
      BY <1>10 DEF Tick
    <2>3. call'[c].timer = IF call[c].timer > 0 THEN call[c].timer - 1 ELSE 0
      BY <2>1, <2>2 DEF Calls
    <2> QED  BY <2>3, SMT DEF TimersOK
  <1>11. CASE Restart
    BY <1>11 DEF Restart, NoCall, TimersOK
  <1>12. CASE UNCHANGED clientVars
    BY <1>12 DEF clientVars, TimersOK
  <1>13. ASSUME NEW c \in Clients, Step(c) PROVE call'[c].timer \in Nat
    BY <1>3, <1>4, <1>5, <1>6, <1>7, <1>8, <1>9, <1>13 DEF Step
  <1>14. CASE Tick
    BY <1>10, <1>14 DEF TimersOK
  <1> QED
    BY <1>1, <1>3, <1>11, <1>12, <1>13, <1>14 DEF ClientNext

LEMMA Typed ==
  ASSUME BucketOK, RequestInv, SlotsOK, TimersOK
  PROVE  ClientTypeOK
  <1>1. PICK T : call \in [Clients -> Calls(T)]
    BY DEF RequestInv, CallsOK
  <1>2. call \in [Clients -> Calls(Nat)]
    BY <1>1 DEF Calls, TimersOK
  <1>3. free \in 0 .. Concurrency
    <2>1. Cardinality(Holders) \in Nat
      BY FS_CardinalityType DEF SlotsOK
    <2> QED  BY <2>1, ClientAssumption DEF SlotsOK
  <1>4. ASSUME NEW c \in Clients PROVE paid[c] \in 0 .. MaxAttempts
    <2>1. sent[c] \in 0 .. MaxAttempts /\ call[c].attempt \in 0 .. MaxAttempts
      BY <1>1 DEF Calls, RequestInv, CountersOK
    <2>2. Counted(c) /\ MaxAttempts \in Nat
      BY ClientAssumption DEF RequestInv
    <2> QED  BY <2>1, <2>2 DEF Counted
  <1>5. paid \in [Clients -> 0 .. MaxAttempts] /\ sent \in [Clients -> 0 .. MaxAttempts]
    BY <1>4 DEF RequestInv, CountersOK
  <1> QED
    BY <1>2, <1>3, <1>5 DEF ClientTypeOK, Calls, BucketOK, RequestInv, QueueOK

(* The bucket, the slots and every request keep their bounds: no request   *)
(* makes or pays for more than stop_after_attempt's attempts, and no sleep *)
(* is negative, whether bucket, Retry-After or backoff set it.             *)
THEOREM ClientTyped == ClientSpec => []ClientTypeOK
  <1>1. ClientInit => BucketOK /\ RequestInv /\ SlotsOK /\ TimersOK
    BY BucketInit, FreshState DEF ClientInit, NoCall, TimersOK
  <1>2. BucketOK /\ RequestInv /\ SlotsOK /\ TimersOK /\ [ClientNext]_clientVars
          => BucketOK' /\ RequestInv' /\ SlotsOK' /\ TimersOK'
    BY BucketStep, RequestsStep, TimersStep
  <1> QED  BY <1>1, <1>2, Typed, PTL DEF ClientSpec
================================================================================
