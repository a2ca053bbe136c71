---------------------------- MODULE RateLimiter ----------------------------
(***************************************************************************)
(* The throttled requests of the RPC client (retry_request): under the     *)
(* client's breaker and retries, each attempt takes a permit of a bounded  *)
(* queue, waits for a token, sends, gives the permit back and lets the     *)
(* limiter look at the headers of the answer.  The bucket is locked only   *)
(* for a single look: between two steps of one caller come any steps of    *)
(* the others, so headers may be observed in another order than they were  *)
(* sent in.                                                                *)
(*                                                                         *)
(* A token is the unit of the bucket, a tick the time one token takes.     *)
(* The breaker is that of CircuitBreaker, of whose outcomes this module    *)
(* keeps no record.                                                        *)
(***************************************************************************)
EXTENDS Naturals, FiniteSets

CONSTANTS
    Callers,
    QueueSize,          \* permits
    Burst,              \* config.burst_size (0 stands for any size below one token)
    Limits,             \* values of x-ratelimit-limit that the service sends
    MaxRetryAfter,      \* bound on retry-after
    MaxAttempts,        \* MAX_RETRIES + 1
    FailureThreshold,
    SuccessThreshold,
    Timeout,
    None                \* a header that is missing

RateLimiterConstants ==
    /\ IsFiniteSet(Callers)
    /\ QueueSize \in Nat \ {0}
    /\ Burst \in Nat
    /\ Limits \subseteq Nat
    /\ MaxRetryAfter \in Nat
    /\ MaxAttempts \in Nat \ {0}
    /\ FailureThreshold \in Nat
    /\ SuccessThreshold \in Nat
    /\ Timeout \in Nat
    /\ None \notin Nat

VARIABLES
    tokens,    \* whole tokens in the bucket
    capacity,
    circuit,   \* CircuitState of the client's breaker
    stage,     \* where each caller is
    attempt,   \* with_retry's counter
    result,    \* what the attempt will return, once it is known
    left       \* what is left of a caller's sleep in on_rate_limited

bucket == <<tokens, capacity>>
caller == <<stage, attempt, result, left>>
vars == <<bucket, circuit, caller>>

Breaker == INSTANCE CircuitBreaker WITH
               Background <- {}, MaxStreak <- 1, pc <- stage, healthy <- FALSE,
               fails <- 0, oks <- 0, probes <- {}

Stages == {"idle", "wait", "sent", "answered", "limited", "cooling", "done", "backoff"}
\* A transient error (5xx and 429 among them), one whose text says nothing (it
\* counts as a server's), or another: a 4xx answer or one that does not parse.
Results == {"none", "ok", "transient", "server", "other"}

Larger(a, b) == IF a < b THEN b ELSE a
Smaller(a, b) == IF a < b THEN a ELSE b

TypeOK ==
    /\ capacity \in {1, Burst} \cup Limits
    /\ tokens \in 0 .. capacity
    /\ circuit \in Breaker!CircuitState
    /\ stage \in [Callers -> Stages]
    /\ attempt \in [Callers -> 0 .. MaxAttempts]
    /\ result \in [Callers -> Results]
    /\ left \in [Callers -> 0 .. MaxRetryAfter]

\* Mutant: the configured burst as it is.
BurstCapacity == Burst
\* A capacity below one token would never let a request through.
InitialCapacity == Larger(Burst, 1)

Init ==
    /\ capacity = InitialCapacity
    /\ tokens = InitialCapacity
    /\ circuit = Breaker!Closed(0)
    /\ stage = [c \in Callers |-> "idle"]
    /\ attempt = [c \in Callers |-> 0]
    /\ result = [c \in Callers |-> "none"]
    /\ left = [c \in Callers |-> 0]

-----------------------------------------------------------------------------
Holders == {c \in Callers : stage[c] \in {"wait", "sent"}}
QueueIsFull == Cardinality(Holders) >= QueueSize

Goto(c, s) == stage' = [stage EXCEPT ![c] = s]
Resolve(c, r) == Goto(c, "done") /\ result' = [result EXCEPT ![c] = r]
Return(c) ==
    /\ Goto(c, "idle")
    /\ attempt' = [attempt EXCEPT ![c] = 0]
    /\ result' = [result EXCEPT ![c] = "none"]
    /\ left' = [left EXCEPT ![c] = 0]

\* The next attempt asks the breaker and then for a permit, without waiting: a
\* full queue is a rate limit error.
Ask(c) ==
    /\ stage[c] \in {"idle", "backoff"}
    /\ circuit' = Breaker!CircuitAfterCheck
    /\ UNCHANGED bucket
    /\ IF Breaker!Refuses
       THEN Return(c)
       ELSE /\ attempt' = [attempt EXCEPT ![c] = @ + 1]
            /\ IF QueueIsFull THEN Resolve(c, "transient")
                              ELSE Goto(c, "wait") /\ UNCHANGED result
            /\ UNCHANGED left

\* One turn of acquire's loop that finds a token.
TakeToken(c) ==
    /\ stage[c] = "wait"
    /\ tokens >= 1
    /\ tokens' = tokens - 1
    /\ Goto(c, "sent")
    /\ UNCHANGED <<capacity, circuit, attempt, result, left>>

\* A response gives the permit back; no response is an error by its text.
Respond(c) ==
    /\ stage[c] = "sent"
    /\ \/ Goto(c, "answered") /\ UNCHANGED result
       \/ \E r \in {"transient", "server", "other"} : Resolve(c, r)
    /\ UNCHANGED <<bucket, circuit, attempt, left>>

\* observe_headers: a limit may only raise the capacity, what remains is believed.
ObserveHeaders(limit, remaining) ==
    /\ capacity' = IF limit \in {None, 0} THEN capacity ELSE Larger(capacity, limit)
    /\ tokens' = IF remaining = None THEN tokens ELSE Smaller(remaining, capacity')

Observe(c) ==
    /\ stage[c] = "answered"
    /\ \E limit, remaining \in Limits \cup {None} : ObserveHeaders(limit, remaining)
    /\ \/ \E r \in {"ok", "transient", "other"} : Resolve(c, r)
       \/ Goto(c, "limited") /\ UNCHANGED result
    /\ UNCHANGED <<circuit, attempt, left>>

\* on_rate_limited: the bucket is emptied for everyone, the sleep is the caller's.
OnRateLimited(c) ==
    /\ stage[c] = "limited"
    /\ tokens' = 0
    /\ Goto(c, "cooling")
    /\ \E t \in 0 .. MaxRetryAfter : left' = [left EXCEPT ![c] = t]
    /\ UNCHANGED <<capacity, circuit, attempt, result>>

Cooled(c) ==
    /\ stage[c] = "cooling"
    /\ left[c] = 0
    /\ Resolve(c, "transient")
    /\ UNCHANGED <<bucket, circuit, attempt, left>>

\* The breaker records the outcome, unless it is another error; transient ones
\* are retried after a delay.
Finish(c) ==
    /\ stage[c] = "done"
    /\ circuit' = CASE result[c] = "ok" -> Breaker!CircuitAfterSuccess
                     [] result[c] = "other" -> circuit
                     [] OTHER -> Breaker!CircuitAfterFailure
    /\ IF result[c] = "transient" /\ attempt[c] < MaxAttempts
       THEN /\ Goto(c, "backoff")
            /\ result' = [result EXCEPT ![c] = "none"]
            /\ UNCHANGED <<attempt, left>>
       ELSE Return(c)
    /\ UNCHANGED bucket

\* The future is dropped at an await, a permit with it.
Drop(c) ==
    /\ stage[c] # "idle"
    /\ Return(c)
    /\ UNCHANGED <<bucket, circuit>>

\* Time passes: a token is refilled, sleeps and the open circuit run on.
Tick ==
    /\ tokens' = Smaller(tokens + 1, capacity)
    /\ left' = [c \in Callers |-> IF left[c] = 0 THEN 0 ELSE left[c] - 1]
    /\ circuit' = IF circuit.kind = "Open" /\ circuit.left > 0
                  THEN Breaker!Open(circuit.left - 1) ELSE circuit
    /\ UNCHANGED <<capacity, stage, attempt, result>>

-----------------------------------------------------------------------------
Settle(c) == Respond(c) \/ Observe(c) \/ OnRateLimited(c) \/ Cooled(c) \/ Finish(c)

Next ==
    \/ \E c \in Callers : Ask(c) \/ TakeToken(c) \/ Settle(c) \/ Drop(c)
    \/ Tick

Spec == Init /\ [][Next]_vars

\* Time passes, and a woken sleeper is polled before the bucket is emptied under
\* it again and again.  No caller of its own is promised a token.
TakeAnyToken == \E c \in Callers : TakeToken(c)
FairSpec == Spec /\ WF_vars(Tick) /\ WF_vars(TakeAnyToken)

\* A request that holds a permit of the queue is not stuck there: as long as
\* some wait, some are sent.  An empty bucket refills whatever was configured
\* and whatever the headers said.
SomebodyIsSent ==
    (\E c \in Callers : stage[c] = "wait")
        ~> ((\E c \in Callers : stage[c] = "sent") \/ (\A c \in Callers : stage[c] # "wait"))
=============================================================================
