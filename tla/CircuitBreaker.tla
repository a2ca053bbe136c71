--------------------------- MODULE CircuitBreaker ---------------------------
(***************************************************************************)
(* The circuit breaker of the RPC client (backend/src/rpc) shared by       *)
(* concurrent callers that retry through it (with_retry).  A call asks     *)
(* is_open under the lock, runs its request without it, and records the    *)
(* outcome under the lock again: between the two the circuit may have gone *)
(* through any number of other states.  A caller's future may also be      *)
(* dropped while it waits (the HTTP client went away), and then nothing is *)
(* recorded.                                                               *)
(*                                                                         *)
(* Time is what is left of the open circuit's timeout.  `fails`, `oks` and *)
(* `probes` are not in the code: they remember what was recorded, for the  *)
(* properties.                                                             *)
(***************************************************************************)
EXTENDS Naturals

CONSTANTS
    Callers,
    Background,        \* callers that are never dropped (the ingestion task)
    FailureThreshold,  \* config.failure_threshold (u32, from the environment)
    SuccessThreshold,  \* config.success_threshold
    Timeout,           \* config.timeout_duration
    MaxAttempts,       \* RetryConfig.max_attempts
    MaxStreak          \* where the model stops counting equal outcomes

ASSUME CircuitBreakerConstants ==
    /\ Background \subseteq Callers
    /\ FailureThreshold \in Nat
    /\ SuccessThreshold \in Nat
    /\ Timeout \in Nat
    /\ MaxAttempts \in Nat \ {0}
    /\ MaxStreak \in Nat \ {0}
    /\ FailureThreshold <= MaxStreak
    /\ SuccessThreshold <= MaxStreak

VARIABLES
    circuit,  \* CircuitState
    pc,       \* where each caller is
    attempt,  \* with_retry's attempt counter of each caller
    healthy,  \* the endpoint answers every request with a success
    fails,    \* failures recorded since the last recorded success
    oks,      \* successes recorded since the last recorded failure
    probes    \* requests in flight that is_open let through in half-open

callers == <<pc, attempt>>
records == <<fails, oks>>
vars == <<circuit, callers, healthy, records, probes>>

Closed(n) == [kind |-> "Closed", failureCount |-> n]
Open(left) == [kind |-> "Open", left |-> left]
HalfOpen(n) == [kind |-> "HalfOpen", successCount |-> n]

\* A threshold of 0 acts as 1: the count is compared after it is incremented.
AtLeastOne(n) == IF n = 0 THEN 1 ELSE n

CircuitState ==
    {Closed(n) : n \in 0 .. AtLeastOne(FailureThreshold) - 1}
        \cup {Open(t) : t \in 0 .. Timeout}
        \cup {HalfOpen(n) : n \in 0 .. AtLeastOne(SuccessThreshold) - 1}

TypeOK ==
    /\ circuit \in CircuitState
    /\ pc \in [Callers -> {"idle", "calling", "backoff"}]
    /\ attempt \in [Callers -> 0 .. MaxAttempts]
    /\ healthy \in BOOLEAN
    /\ fails \in 0 .. MaxStreak
    /\ oks \in 0 .. MaxStreak
    /\ probes \subseteq Callers
    /\ \A c \in Callers : pc[c] = "backoff" => attempt[c] < MaxAttempts

InFlight == {c \in Callers : pc[c] = "calling"}

Init ==
    /\ circuit = Closed(0)
    /\ pc = [c \in Callers |-> "idle"]
    /\ attempt = [c \in Callers |-> 0]
    /\ healthy \in BOOLEAN
    /\ fails = 0
    /\ oks = 0
    /\ probes = {}

-----------------------------------------------------------------------------
\* is_open: the circuit after it, and whether the request is refused.
NeverTimedOut == FALSE   \* mutant: the timeout is never noticed
TimedOut == circuit.kind = "Open" /\ circuit.left = 0

NeverRefuses == FALSE    \* mutant: an open circuit lets requests through
Refuses == circuit.kind = "Open" /\ ~TimedOut
CircuitAfterCheck == IF TimedOut THEN HalfOpen(0) ELSE circuit

\* The first attempt of a new call, or the next one after a backoff.
AttemptNumber(c) == IF pc[c] = "idle" THEN 1 ELSE attempt[c] + 1

Admit(c) ==
    /\ pc[c] \in {"idle", "backoff"}
    /\ ~Refuses
    /\ circuit' = CircuitAfterCheck
    /\ pc' = [pc EXCEPT ![c] = "calling"]
    /\ attempt' = [attempt EXCEPT ![c] = AttemptNumber(c)]
    /\ probes' = IF circuit'.kind = "HalfOpen" THEN probes \cup {c} ELSE probes
    /\ UNCHANGED <<healthy, records>>

\* CircuitBreakerOpen is not transient: with_retry gives up at once.
GiveUp == "idle"

Refuse(c) ==
    /\ pc[c] \in {"idle", "backoff"}
    /\ Refuses
    /\ pc' = [pc EXCEPT ![c] = GiveUp]
    /\ attempt' = [attempt EXCEPT ![c] = 0]
    /\ UNCHANGED <<circuit, healthy, records, probes>>

\* Mutant: a success in half-open closes the circuit whatever the threshold.
CircuitAfterFirstSuccess == Closed(0)
CircuitAfterSuccess ==
    IF circuit.kind = "HalfOpen" /\ circuit.successCount + 1 < SuccessThreshold
    THEN HalfOpen(circuit.successCount + 1)
    ELSE Closed(0)

\* Mutant: a failure in half-open only sends the circuit back to counting.
CircuitAfterLenientFailure ==
    CASE circuit.kind = "Closed" /\ circuit.failureCount + 1 < FailureThreshold ->
             Closed(circuit.failureCount + 1)
      [] circuit.kind = "Open" -> circuit
      [] circuit.kind = "HalfOpen" -> circuit
      [] OTHER -> Open(Timeout)
CircuitAfterFailure ==
    CASE circuit.kind = "Closed" /\ circuit.failureCount + 1 < FailureThreshold ->
             Closed(circuit.failureCount + 1)
      [] circuit.kind = "Open" -> circuit
      [] OTHER -> Open(Timeout)

Saturated(n) == IF n < MaxStreak THEN n + 1 ELSE n

\* The request is over and with_retry returns to its caller.
Return(c) ==
    /\ pc' = [pc EXCEPT ![c] = "idle"]
    /\ attempt' = [attempt EXCEPT ![c] = 0]
    /\ probes' = probes \ {c}

Succeed(c) ==
    /\ pc[c] = "calling"
    /\ circuit' = CircuitAfterSuccess
    /\ fails' = 0
    /\ oks' = Saturated(oks)
    /\ Return(c)
    /\ UNCHANGED healthy

MayRetry(c) == attempt[c] < MaxAttempts

RecordFailure ==
    /\ circuit' = CircuitAfterFailure
    /\ fails' = Saturated(fails)
    /\ oks' = 0

\* A timeout, a lost connection or a rate limit: retried after a delay.
FailTransiently(c) ==
    /\ pc[c] = "calling"
    /\ ~healthy
    /\ RecordFailure
    /\ \/ /\ MayRetry(c)
          /\ pc' = [pc EXCEPT ![c] = "backoff"]
          /\ probes' = probes \ {c}
          /\ UNCHANGED attempt
       \/ ~MayRetry(c) /\ Return(c)
    /\ UNCHANGED healthy

\* A server error (5xx) counts as a failure but is not retried.
FailOnServer(c) ==
    /\ pc[c] = "calling"
    /\ ~healthy
    /\ RecordFailure
    /\ Return(c)
    /\ UNCHANGED healthy

\* A parse or client error says nothing about the endpoint.
FailOtherwise(c) ==
    /\ pc[c] = "calling"
    /\ ~healthy
    /\ Return(c)
    /\ UNCHANGED <<circuit, healthy, records>>

\* The future is dropped at an await.
Drop(c) ==
    /\ c \notin Background
    /\ pc[c] # "idle"
    /\ Return(c)
    /\ UNCHANGED <<circuit, healthy, records>>

\* Time passes for an open circuit.
Tick ==
    /\ circuit.kind = "Open"
    /\ circuit.left > 0
    /\ circuit' = Open(circuit.left - 1)
    /\ UNCHANGED <<callers, healthy, records, probes>>

\* The endpoint fails or recovers.
ChangeHealth ==
    /\ healthy' = ~healthy
    /\ UNCHANGED <<circuit, callers, records, probes>>

Ask(c) == Admit(c) \/ Refuse(c)
Answer(c) == Succeed(c) \/ FailTransiently(c) \/ FailOnServer(c) \/ FailOtherwise(c)

Next ==
    \/ \E c \in Callers : Ask(c) \/ Answer(c) \/ Drop(c)
    \/ Tick
    \/ ChangeHealth

Spec == Init /\ [][Next]_vars

-----------------------------------------------------------------------------
\* The counters are evidence: in Closed the count is exactly the failures since
\* the last success and below the threshold, in half-open the successes were
\* recorded without a failure between them, whichever era their requests were
\* admitted in.
CountersAreEvidence ==
    /\ circuit.kind = "Closed" => fails = circuit.failureCount
    /\ circuit.kind = "HalfOpen" => circuit.successCount <= oks

\* The circuit opens only on the threshold's worth of failures in a row, or on
\* a failure in half-open, and half-open closes only on the threshold's worth of
\* successes in a row.
SwitchesOnEvidence ==
    [][ /\ (circuit.kind = "Closed" /\ circuit'.kind = "Open") =>
              fails' >= FailureThreshold
        /\ (circuit.kind = "HalfOpen" /\ circuit'.kind = "Open") => oks' = 0
        /\ (circuit.kind = "HalfOpen" /\ circuit'.kind = "Closed") =>
              oks' >= SuccessThreshold ]_vars

\* "After a configurable number of failures, the circuit opens and requests
\* fail fast" (circuit_breaker.rs:3): while it stays open no request is sent,
\* retries of earlier calls included.
FailsFast ==
    [][circuit.kind = "Open" /\ circuit'.kind = "Open" => InFlight' \subseteq InFlight]_vars
=============================================================================
