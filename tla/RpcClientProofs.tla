-------------------------- MODULE RpcClientProofs --------------------------
(***************************************************************************)
(* The safety properties of the circuit breaker for any number of callers  *)
(* and any thresholds, alone and under the corridor handlers of RpcClient. *)
(* The breaker's inductive invariant is the type invariant with            *)
(* CountersAreEvidence: a switch of the circuit is justified by the        *)
(* counters only because they count recorded outcomes.                     *)
(*                                                                         *)
(* The handlers add a second breaker, retries and dropped futures around   *)
(* the calls.  Every step of theirs is a step of the breaker or changes    *)
(* nothing in it, provided that a handler is in at most one call, the one  *)
(* its fetch waits for (OneCall), and that a call leaves nothing behind    *)
(* when it is over (Rest).                                                 *)
(***************************************************************************)
EXTENDS RpcClient, SequenceTheorems, TLAPS

IInv == TypeOK /\ CountersAreEvidence

\* The shapes of a circuit state.
LEMMA CircuitCases ==
    ASSUME TypeOK
    PROVE  \/ \E n \in Nat : circuit = Closed(n) /\ n < AtLeastOne(FailureThreshold)
           \/ \E t \in 0 .. Timeout : circuit = Open(t)
           \/ \E n \in Nat : circuit = HalfOpen(n) /\ n < AtLeastOne(SuccessThreshold)
  BY CircuitBreakerConstants DEF TypeOK, CircuitState, AtLeastOne

LEMMA CircuitConstructors ==
    /\ \A n \in Nat : n < AtLeastOne(FailureThreshold) => Closed(n) \in CircuitState
    /\ \A t \in 0 .. Timeout : Open(t) \in CircuitState
    /\ \A n \in Nat : n < AtLeastOne(SuccessThreshold) => HalfOpen(n) \in CircuitState
    /\ Closed(0) \in CircuitState
    /\ HalfOpen(0) \in CircuitState
    /\ Open(Timeout) \in CircuitState
  BY CircuitBreakerConstants DEF CircuitState, AtLeastOne

\* What on_success and on_failure leave in the circuit is one of its states.
LEMMA CircuitStates ==
    ASSUME TypeOK
    PROVE  /\ CircuitAfterCheck \in CircuitState
           /\ CircuitAfterSuccess \in CircuitState
           /\ CircuitAfterFailure \in CircuitState
<1> USE CircuitBreakerConstants
<1>0. circuit \in CircuitState
  BY DEF TypeOK
<1>1. CircuitAfterCheck \in CircuitState
  BY <1>0, CircuitConstructors DEF CircuitAfterCheck
<1>2. CASE \E n \in Nat : circuit = Closed(n) /\ n < AtLeastOne(FailureThreshold)
  BY <1>0, <1>1, <1>2, CircuitConstructors
  DEF Closed, CircuitAfterSuccess, CircuitAfterFailure, AtLeastOne
<1>3. CASE \E t \in 0 .. Timeout : circuit = Open(t)
  BY <1>0, <1>1, <1>3, CircuitConstructors DEF Open, CircuitAfterSuccess, CircuitAfterFailure
<1>4. CASE \E n \in Nat : circuit = HalfOpen(n) /\ n < AtLeastOne(SuccessThreshold)
  BY <1>0, <1>1, <1>4, CircuitConstructors
  DEF HalfOpen, CircuitAfterSuccess, CircuitAfterFailure, AtLeastOne
<1>5. QED
  BY <1>2, <1>3, <1>4, CircuitCases

\* Counting stops at MaxStreak, so a count compares with a threshold as the
\* exact one would.
LEMMA SaturatedType ==
    \A n \in 0 .. MaxStreak : /\ Saturated(n) \in 0 .. MaxStreak
                              /\ Saturated(n) >= n
                              /\ n < MaxStreak => Saturated(n) = n + 1
  BY CircuitBreakerConstants DEF Saturated

\* Initially the circuit is closed and nothing was recorded.
LEMMA InitIInv == Init => IInv
  BY CircuitBreakerConstants
  DEF Init, IInv, TypeOK, CountersAreEvidence, CircuitState, Closed, AtLeastOne

\* Recording a success: the streak of failures ends, half-open counts at most
\* the successes since the last failure.
LEMMA SuccessKeepsEvidence ==
    ASSUME IInv, circuit' = CircuitAfterSuccess, fails' = 0, oks' = Saturated(oks)
    PROVE  CountersAreEvidence'
  BY SaturatedType, CircuitBreakerConstants
  DEF IInv, TypeOK, CountersAreEvidence, CircuitState, CircuitAfterSuccess, Closed, Open,
      HalfOpen, AtLeastOne

\* Recording a failure: a closed circuit counts it, any other ends up open.
LEMMA FailureKeepsEvidence ==
    ASSUME IInv, RecordFailure
    PROVE  CountersAreEvidence'
  BY SaturatedType, CircuitBreakerConstants
  DEF IInv, TypeOK, CountersAreEvidence, CircuitState, RecordFailure, CircuitAfterFailure,
      Closed, Open, HalfOpen, AtLeastOne

LEMMA ReturnType ==
    ASSUME TypeOK, NEW c \in Callers, Return(c)
    PROVE  /\ pc' \in [Callers -> {"idle", "calling", "backoff"}]
           /\ attempt' \in [Callers -> 0 .. MaxAttempts]
           /\ probes' \subseteq Callers
           /\ \A d \in Callers : pc'[d] = "backoff" => attempt'[d] < MaxAttempts
  BY CircuitBreakerConstants DEF TypeOK, Return

\* Every step keeps the invariant.
LEMMA StepIInv == IInv /\ [Next]_vars => IInv'
<1> SUFFICES ASSUME IInv, [Next]_vars PROVE IInv'
  OBVIOUS
<1> USE CircuitBreakerConstants
<1>0. TypeOK /\ CountersAreEvidence
  BY DEF IInv
<1>1. ASSUME NEW c \in Callers, Admit(c) PROVE IInv'
  <2>1. circuit' \in CircuitState
    BY <1>0, <1>1, CircuitStates DEF Admit
  <2>2. attempt' \in [Callers -> 0 .. MaxAttempts]
    <3>1. AttemptNumber(c) \in 0 .. MaxAttempts
      BY <1>0, <1>1 DEF AttemptNumber, Admit, TypeOK
    <3>2. QED
      BY <3>1, <1>0, <1>1 DEF Admit, TypeOK
  <2>3. CountersAreEvidence'
    <3>1. fails' = fails /\ oks' = oks /\ oks >= 0
      BY <1>0, <1>1 DEF Admit, records, TypeOK
    <3>2. CASE circuit' = circuit
      BY <3>1, <3>2, <1>0 DEF CountersAreEvidence
    <3>3. CASE circuit' = HalfOpen(0)
      BY <3>1, <3>3 DEF CountersAreEvidence, HalfOpen
    <3>4. QED
      BY <1>1, <3>2, <3>3 DEF Admit, CircuitAfterCheck
  <2>4. QED
    BY <2>1, <2>2, <2>3, <1>0, <1>1 DEF Admit, IInv, TypeOK, records
<1>2. ASSUME NEW c \in Callers, Refuse(c) PROVE IInv'
  BY <1>0, <1>2 DEF Refuse, GiveUp, IInv, TypeOK, CountersAreEvidence, records
<1>3. ASSUME NEW c \in Callers, Succeed(c) PROVE IInv'
  <2>1. CountersAreEvidence'
    BY <1>3, SuccessKeepsEvidence DEF Succeed
  <2>2. QED
    BY <2>1, <1>0, <1>3, ReturnType, CircuitStates, SaturatedType DEF Succeed, IInv, TypeOK
<1>4. ASSUME NEW c \in Callers, FailTransiently(c) PROVE IInv'
  <2>1. CountersAreEvidence'
    BY <1>4, FailureKeepsEvidence DEF FailTransiently
  <2>2. circuit' \in CircuitState /\ fails' \in 0 .. MaxStreak /\ oks' \in 0 .. MaxStreak
    BY <1>0, <1>4, CircuitStates, SaturatedType DEF FailTransiently, RecordFailure, TypeOK
  <2>3. /\ pc' \in [Callers -> {"idle", "calling", "backoff"}]
        /\ attempt' \in [Callers -> 0 .. MaxAttempts]
        /\ probes' \subseteq Callers
        /\ \A d \in Callers : pc'[d] = "backoff" => attempt'[d] < MaxAttempts
    BY <1>0, <1>4, ReturnType DEF FailTransiently, MayRetry, TypeOK
  <2>4. QED
    BY <2>1, <2>2, <2>3, <1>0, <1>4 DEF FailTransiently, IInv, TypeOK
<1>5. ASSUME NEW c \in Callers, FailOnServer(c) PROVE IInv'
  <2>1. CountersAreEvidence'
    BY <1>5, FailureKeepsEvidence DEF FailOnServer
  <2>2. QED
    BY <2>1, <1>0, <1>5, ReturnType, CircuitStates, SaturatedType
    DEF FailOnServer, RecordFailure, IInv, TypeOK
<1>6. ASSUME NEW c \in Callers, FailOtherwise(c) \/ Drop(c) PROVE IInv'
  BY <1>0, <1>6, ReturnType
  DEF FailOtherwise, Drop, IInv, TypeOK, CountersAreEvidence, records
<1>7. ASSUME Tick PROVE IInv'
  BY <1>0, <1>7 DEF Tick, IInv, TypeOK, CountersAreEvidence, CircuitState, Open, Closed, HalfOpen,
                    callers, records
<1>8. ASSUME ChangeHealth PROVE IInv'
  BY <1>0, <1>8 DEF ChangeHealth, IInv, TypeOK, CountersAreEvidence, callers, records
<1>9. ASSUME UNCHANGED vars PROVE IInv'
  BY <1>0, <1>9 DEF vars, IInv, TypeOK, CountersAreEvidence, callers, records
<1>10. QED
  BY <1>1, <1>2, <1>3, <1>4, <1>5, <1>6, <1>7, <1>8, <1>9 DEF Next, Ask, Answer

\* The breaker's state is well formed in every reachable state: no counter
\* passes its threshold and no call its number of attempts.
THEOREM TypeCorrect == Spec => []TypeOK
<1>1. IInv => TypeOK
  BY DEF IInv
<1>2. QED
  BY <1>1, InitIInv, StepIInv, PTL DEF Spec

\* The counters of closed and half-open circuits count recorded outcomes.
THEOREM EvidenceCorrect == Spec => []CountersAreEvidence
<1>1. IInv => CountersAreEvidence
  BY DEF IInv
<1>2. QED
  BY <1>1, InitIInv, StepIInv, PTL DEF Spec

Switches ==
    /\ (circuit.kind = "Closed" /\ circuit'.kind = "Open") => fails' >= FailureThreshold
    /\ (circuit.kind = "HalfOpen" /\ circuit'.kind = "Open") => oks' = 0
    /\ (circuit.kind = "HalfOpen" /\ circuit'.kind = "Closed") => oks' >= SuccessThreshold

LEMMA FailureSwitches ==
    ASSUME IInv, RecordFailure
    PROVE  Switches
  BY SaturatedType, CircuitBreakerConstants
  DEF IInv, TypeOK, CountersAreEvidence, CircuitState, RecordFailure, CircuitAfterFailure,
      Closed, Open, HalfOpen, AtLeastOne, Switches

LEMMA SuccessSwitches ==
    ASSUME IInv, circuit' = CircuitAfterSuccess, oks' = Saturated(oks)
    PROVE  Switches
  BY SaturatedType, CircuitBreakerConstants
  DEF IInv, TypeOK, CountersAreEvidence, CircuitState, CircuitAfterSuccess,
      Closed, Open, HalfOpen, AtLeastOne, Switches

LEMMA StepSwitches == IInv /\ [Next]_vars => [Switches]_vars
<1> SUFFICES ASSUME IInv, Next PROVE Switches
  OBVIOUS
<1>1. ASSUME NEW c \in Callers, Ask(c) PROVE Switches
  BY <1>1 DEF Ask, Admit, Refuse, CircuitAfterCheck, TimedOut, HalfOpen, Switches
<1>2. ASSUME NEW c \in Callers, Answer(c) PROVE Switches
  <2>1. CASE Succeed(c)
    BY <2>1, SuccessSwitches DEF Succeed
  <2>2. CASE FailTransiently(c) \/ FailOnServer(c)
    BY <2>2, FailureSwitches DEF FailTransiently, FailOnServer
  <2>3. CASE FailOtherwise(c)
    BY <2>3 DEF FailOtherwise, Switches
  <2>4. QED
    BY <1>2, <2>1, <2>2, <2>3 DEF Answer
<1>3. ASSUME NEW c \in Callers, Drop(c) PROVE Switches
  BY <1>3 DEF Drop, Switches
<1>4. CASE Tick \/ ChangeHealth
  BY <1>4 DEF Tick, ChangeHealth, Open, Switches
<1>5. QED
  BY <1>1, <1>2, <1>3, <1>4 DEF Next

\* The circuit switches only on a threshold's worth of outcomes in a row, or
\* back to open on a failure in half-open.
THEOREM SwitchesCorrect == Spec => SwitchesOnEvidence
<1>1. IInv /\ [Next]_vars => [Switches]_vars
  BY StepSwitches
<1>2. QED
  BY <1>1, InitIInv, StepIInv, PTL DEF Spec, SwitchesOnEvidence, Switches

\* An open circuit sends no request.
THEOREM FailsFastCorrect == Spec => FailsFast
<1> DEFINE Quiet ==
      circuit.kind = "Open" /\ circuit'.kind = "Open" => InFlight' \subseteq InFlight
<1>1. IInv /\ [Next]_vars => [Quiet]_vars
  <2> SUFFICES ASSUME IInv, Next PROVE Quiet
    OBVIOUS
  <2>1. pc \in [Callers -> {"idle", "calling", "backoff"}]
    BY DEF IInv, TypeOK
  <2>2. ASSUME NEW c \in Callers, Ask(c) PROVE Quiet
    BY <2>1, <2>2 DEF Ask, Admit, Refuse, GiveUp, Refuses, CircuitAfterCheck, TimedOut, HalfOpen, InFlight
  <2>3. ASSUME NEW c \in Callers, Answer(c) \/ Drop(c) PROVE Quiet
    BY <2>1, <2>3 DEF Answer, Succeed, FailTransiently, FailOnServer, FailOtherwise, Drop, Return,
                      InFlight
  <2>4. CASE Tick \/ ChangeHealth
    BY <2>4 DEF Tick, ChangeHealth, InFlight, callers
  <2>5. QED
    BY <2>2, <2>3, <2>4 DEF Next
<1>2. QED
  BY <1>1, InitIInv, StepIInv, PTL DEF Spec, FailsFast

-----------------------------------------------------------------------------
\* A caller without a call has no attempts counted, and one without a request no
\* probe in flight.
Rest ==
    \A c \in Callers :
        /\ pc[c] = "idle" => attempt[c] = 0
        /\ pc[c] # "calling" => c \notin probes

\* A handler calls the client for the fetch it waits for, and for nothing else;
\* an answer waits only for such a fetch.
OneCall ==
    \A h \in Handlers :
        /\ pc[h] # "idle" => at[h] = "fetching" /\ answer[h] = "none"
        /\ answer[h] # "none" => at[h] = "fetching"

\* A request that is not answered has a fetch, and the attempts at it are bounded.
FetchInHand ==
    \A h \in Handlers :
        /\ at[h] # "idle" => todo[h] # <<>>
        /\ at[h] \in {"idle", "ask"} => outerAttempt[h] = 0
        /\ at[h] = "backoff" => outerAttempt[h] < OuterAttempts

LEMMA RestStep == TypeOK /\ Rest /\ [Next]_vars => Rest'
<1> SUFFICES ASSUME TypeOK, Rest, [Next]_vars PROVE Rest'
  OBVIOUS
<1>1. pc \in [Callers -> {"idle", "calling", "backoff"}] /\ attempt \in [Callers -> 0 .. MaxAttempts]
  BY DEF TypeOK
<1>2. ASSUME NEW c \in Callers, Ask(c) PROVE Rest'
  BY <1>1, <1>2 DEF Ask, Admit, Refuse, GiveUp, Rest
<1>3. ASSUME NEW c \in Callers, Answer(c) \/ Drop(c) PROVE Rest'
  BY <1>1, <1>3
  DEF Answer, Succeed, FailTransiently, FailOnServer, FailOtherwise, Drop, Return, Rest
<1>4. CASE Tick \/ ChangeHealth \/ UNCHANGED vars
  BY <1>4 DEF Tick, ChangeHealth, vars, callers, Rest
<1> QED
  BY <1>2, <1>3, <1>4 DEF Next

\* A handler that goes away drops its call, or has none.
LEMMA HangupDrops ==
    ASSUME TypeOK, Rest, NEW h \in Handlers, Hangup(h)
    PROVE  [Next]_vars
<1>1. h \in Callers /\ pc \in [Callers -> {"idle", "calling", "backoff"}]
      /\ attempt \in [Callers -> 0 .. MaxAttempts]
  BY RpcClientConstants DEF RpcClientConstants, TypeOK
<1>2. CASE pc[h] # "idle"
  BY <1>1, <1>2 DEF Hangup, Drop, Next, records
<1>3. CASE pc[h] = "idle"
  BY <1>1, <1>3 DEF Hangup, Return, Rest, vars, callers, records
<1> QED
  BY <1>2, <1>3

\* Each step of the handlers and the client is one of the breaker, or none.
LEMMA ClientStep == TypeOK /\ Rest /\ [ClientNext]_clientVars => [Next]_vars
<1> SUFFICES ASSUME TypeOK, Rest, [ClientNext]_clientVars PROVE [Next]_vars
  OBVIOUS
<1>1. ASSUME NEW c \in Callers, ClientAsk(c) PROVE [Next]_vars
  BY <1>1 DEF ClientAsk, Ask, Next
<1>2. ASSUME NEW c \in Callers, ClientAnswer(c) PROVE [Next]_vars
  BY <1>2 DEF ClientAnswer, Answer, Next
<1>3. ASSUME NEW h \in Handlers, Request(h) \/ HandlerStep(h) PROVE [Next]_vars
  BY <1>3 DEF Request, HandlerStep, OuterAsk, BareFetch, NextPage, FetchSucceeds, FetchFails,
              WrappedFetchFails, client, vars
<1>4. ASSUME NEW h \in Handlers, Hangup(h) PROVE [Next]_vars
  BY <1>4, HangupDrops
<1>5. CASE ClockTick
  <2>1. UNCHANGED <<callers, healthy, records, probes>>
    BY <1>5 DEF ClockTick
  <2>2. CASE circuit.kind = "Open" /\ circuit.left > 0
    BY <1>5, <2>1, <2>2 DEF ClockTick, Elapsed, Tick, Next
  <2>3. CASE ~(circuit.kind = "Open" /\ circuit.left > 0)
    BY <1>5, <2>1, <2>3 DEF ClockTick, Elapsed, vars
  <2> QED
    BY <2>2, <2>3
<1>6. CASE HealthChanges \/ UNCHANGED clientVars
  BY <1>6 DEF HealthChanges, Next, clientVars, client, vars
<1> QED
  BY <1>1, <1>2, <1>3, <1>4, <1>5, <1>6 DEF ClientNext

-----------------------------------------------------------------------------
\* The handlers' own types.
HandlersTypeOK ==
    /\ outer \in CircuitState
    /\ at \in [Handlers -> {"idle", "ask", "fetching", "backoff"}]
    /\ todo \in [Handlers -> Seq([wrapped : BOOLEAN, all : BOOLEAN])]
    /\ page \in [Handlers -> 0 .. MaxPages]
    /\ outerAttempt \in [Handlers -> 0 .. OuterAttempts]
    /\ answer \in [Handlers -> Errors \cup {"none", "ok"}]

HInv == HandlersTypeOK /\ OneCall /\ FetchInHand

\* The handlers' breaker stays within the same states.
LEMMA OuterStates ==
    ASSUME outer \in CircuitState
    PROVE  /\ Outer!CircuitAfterCheck \in CircuitState
           /\ Outer!CircuitAfterSuccess \in CircuitState
           /\ Outer!CircuitAfterFailure \in CircuitState
           /\ Elapsed(outer) \in CircuitState
<1> USE CircuitBreakerConstants
    DEF Outer!Closed, Outer!Open, Outer!HalfOpen, Outer!AtLeastOne, Outer!TimedOut
<1>1. CASE \E n \in Nat : outer = Closed(n) /\ n < AtLeastOne(FailureThreshold)
  BY <1>1, CircuitConstructors
  DEF Closed, Open, HalfOpen, Elapsed, AtLeastOne,
      Outer!CircuitAfterCheck, Outer!CircuitAfterSuccess, Outer!CircuitAfterFailure
<1>2. CASE \E t \in 0 .. Timeout : outer = Open(t)
  BY <1>2, CircuitConstructors
  DEF Closed, Open, HalfOpen, Elapsed, AtLeastOne,
      Outer!CircuitAfterCheck, Outer!CircuitAfterSuccess, Outer!CircuitAfterFailure
<1>3. CASE \E n \in Nat : outer = HalfOpen(n) /\ n < AtLeastOne(SuccessThreshold)
  BY <1>3, CircuitConstructors
  DEF Closed, Open, HalfOpen, Elapsed, AtLeastOne,
      Outer!CircuitAfterCheck, Outer!CircuitAfterSuccess, Outer!CircuitAfterFailure
<1> QED
  BY <1>1, <1>2, <1>3 DEF CircuitState, AtLeastOne

LEMMA HInit == ClientInit => HInv
<1> SUFFICES ASSUME ClientInit PROVE HInv
  OBVIOUS
<1>1. <<>> \in Seq([wrapped : BOOLEAN, all : BOOLEAN])
  OBVIOUS
<1>2. Closed(0) \in CircuitState
  BY CircuitConstructors
<1> QED
  BY <1>1, <1>2, RpcClientConstants
     DEF RpcClientConstants, ClientInit, Init, HInv, HandlersTypeOK, OneCall, FetchInHand

\* The fetches of a request.
LEMMA FetchTypes ==
    /\ ListCorridors \in Seq([wrapped : BOOLEAN, all : BOOLEAN]) /\ ListCorridors # <<>>
    /\ CorridorDetail \in Seq([wrapped : BOOLEAN, all : BOOLEAN]) /\ CorridorDetail # <<>>
BY DEF ListCorridors, CorridorDetail, Fetch

\* The steps of the client's calls: they write `answer` of a handler that waits.
LEMMA CallKeepsHInv ==
    ASSUME TypeOK, HInv, NEW c \in Callers, ClientAsk(c) \/ ClientAnswer(c)
    PROVE  HInv'
<1>1. UNCHANGED <<outer, at, todo, page, outerAttempt>>
  BY DEF ClientAsk, ClientAnswer, Gives, request
<1>2. /\ pc \in [Callers -> {"idle", "calling", "backoff"}]
      /\ \A d \in Callers : d # c => pc'[d] = pc[d]
      /\ pc'[c] \in {"idle", "calling", "backoff"}
  BY DEF TypeOK, ClientAsk, ClientAnswer, Admit, Refuse, GiveUp, Succeed, FailTransiently,
         FailOnServer, FailOtherwise, Return
<1>3. \/ answer' = answer
      \/ /\ c \in Handlers /\ pc'[c] = "idle"
         /\ \E e \in Errors \cup {"ok"} : answer' = [answer EXCEPT ![c] = e]
  BY <1>2 DEF TypeOK, ClientAsk, ClientAnswer, Refuse, GiveUp, Succeed, FailTransiently,
         FailOnServer, FailOtherwise, Return, Gives, IsHandler, request, Errors
<1>4. c \in Handlers => at[c] = "fetching" /\ answer[c] = "none"
  BY <1>2 DEF ClientAsk, ClientAnswer, MayCall, IsHandler, HInv, OneCall, Succeed, FailTransiently,
              FailOnServer, FailOtherwise
<1>5. HandlersTypeOK'
  BY <1>1, <1>3 DEF HInv, HandlersTypeOK
<1>6. OneCall'
  <2> SUFFICES ASSUME NEW h \in Handlers
               PROVE  /\ pc'[h] # "idle" => at[h] = "fetching" /\ answer'[h] = "none"
                      /\ answer'[h] # "none" => at[h] = "fetching"
    BY <1>1 DEF OneCall
  <2>1. h \in Callers
    BY RpcClientConstants DEF RpcClientConstants
  <2>2. CASE h = c
    BY <1>2, <1>3, <1>4, <2>1, <2>2 DEF HInv, HandlersTypeOK
  <2>3. CASE h # c
    <3>1. answer'[h] = answer[h]
      BY <1>3, <2>3 DEF HInv, HandlersTypeOK
    <3> QED
      BY <1>2, <2>1, <2>3, <3>1 DEF HInv, OneCall
  <2> QED
    BY <2>2, <2>3
<1> QED
  BY <1>1, <1>5, <1>6 DEF HInv, FetchInHand

\* A request that is answered leaves its handler idle.
LEMMA RespondKeepsHInv ==
    ASSUME HInv, NEW h \in Handlers, Respond(h), outer' \in CircuitState,
           pc'[h] = "idle", \A g \in Handlers : g # h => pc'[g] = pc[g]
    PROVE  HInv'
<1>1. <<>> \in Seq([wrapped : BOOLEAN, all : BOOLEAN])
  OBVIOUS
<1>2. HandlersTypeOK'
  BY <1>1, RpcClientConstants DEF RpcClientConstants, HInv, HandlersTypeOK, Respond
<1>3. OneCall' /\ FetchInHand'
  BY DEF HInv, HandlersTypeOK, OneCall, FetchInHand, Respond
<1> QED
  BY <1>2, <1>3 DEF HInv

\* What a handler does between its calls.
LEMMA HandlerKeepsHInv ==
    ASSUME HInv, NEW h \in Handlers, Request(h) \/ HandlerStep(h)
    PROVE  HInv'
<1> USE RpcClientConstants DEF RpcClientConstants
<1>1. /\ outer \in CircuitState
      /\ at \in [Handlers -> {"idle", "ask", "fetching", "backoff"}]
      /\ todo \in [Handlers -> Seq([wrapped : BOOLEAN, all : BOOLEAN])]
      /\ page \in [Handlers -> 0 .. MaxPages]
      /\ outerAttempt \in [Handlers -> 0 .. OuterAttempts]
      /\ answer \in [Handlers -> Errors \cup {"none", "ok"}]
  BY DEF HInv, HandlersTypeOK
<1>2. pc' = pc
  BY DEF Request, HandlerStep, OuterAsk, BareFetch, NextPage, FetchSucceeds, FetchFails,
         WrappedFetchFails, client, callers
<1>3. at[h] # "fetching" => pc[h] = "idle" /\ answer[h] = "none"
  BY DEF HInv, OneCall
<1>4. answer[h] # "none" => pc[h] = "idle" /\ at[h] = "fetching"
  BY DEF HInv, OneCall
<1>5. CASE Request(h)
  BY <1>1, <1>2, <1>3, <1>5, FetchTypes
     DEF Request, HInv, HandlersTypeOK, OneCall, FetchInHand
<1>6. CASE OuterAsk(h)
  <2>1. CASE Respond(h) /\ outer' = outer
    BY <1>1, <1>2, <1>3, <1>6, <2>1, RespondKeepsHInv DEF OuterAsk
  <2>2. CASE /\ outer' = Outer!CircuitAfterCheck
             /\ at' = [at EXCEPT ![h] = "fetching"]
             /\ outerAttempt' = [outerAttempt EXCEPT ![h] = @ + 1]
             /\ UNCHANGED <<todo, page, answer>>
    <3>1. outerAttempt[h] + 1 \in 0 .. OuterAttempts
      BY <1>1, <1>6 DEF OuterAsk, HInv, FetchInHand
    <3>2. HandlersTypeOK'
      BY <1>1, <2>2, <3>1, OuterStates DEF HandlersTypeOK
    <3>3. OneCall' /\ FetchInHand'
      BY <1>1, <1>2, <1>3, <1>6, <2>2 DEF OuterAsk, HInv, OneCall, FetchInHand
    <3> QED
      BY <3>2, <3>3 DEF HInv
  <2> QED
    BY <1>6, <2>1, <2>2 DEF OuterAsk
<1>7. CASE BareFetch(h)
  BY <1>1, <1>2, <1>3, <1>7 DEF BareFetch, HInv, HandlersTypeOK, OneCall, FetchInHand
<1>8. CASE NextPage(h)
  <2>1. page[h] + 1 \in 0 .. MaxPages
    BY <1>1, <1>8 DEF NextPage, Pages
  <2> QED
    BY <1>1, <1>2, <1>4, <1>8, <2>1
       DEF NextPage, HInv, HandlersTypeOK, OneCall, FetchInHand
<1>9. ASSUME NextFetch(h), answer[h] # "none", outer' \in CircuitState
      PROVE  HInv'
  <2>1. CASE Len(todo[h]) = 1
    BY <1>2, <1>4, <1>9, <2>1, RespondKeepsHInv DEF NextFetch
  <2>2. CASE Len(todo[h]) # 1
    <3>1. todo[h] # <<>> /\ todo[h] \in Seq([wrapped : BOOLEAN, all : BOOLEAN])
      BY <1>1, <1>4, <1>9 DEF HInv, FetchInHand
    <3>2. /\ Tail(todo[h]) \in Seq([wrapped : BOOLEAN, all : BOOLEAN])
          /\ Len(Tail(todo[h])) = Len(todo[h]) - 1 /\ Len(todo[h]) \in Nat /\ Len(todo[h]) # 0
      BY <3>1, HeadTailProperties, EmptySeq
    <3>3. Tail(todo[h]) # <<>>
      <4>1. Len(<<>>) = 0
        OBVIOUS
      <4>2. Len(Tail(todo[h])) # 0
        BY <2>2, <3>2
      <4> QED
        BY <4>1, <4>2, Zenon
    <3>4. HandlersTypeOK'
      <4>1. todo' = [todo EXCEPT ![h] = Tail(todo[h])]
        BY <1>9, <2>2 DEF NextFetch
      <4>2. todo' \in [Handlers -> Seq([wrapped : BOOLEAN, all : BOOLEAN])]
        BY <1>1, <3>2, <4>1
      <4>3. /\ at' = [at EXCEPT ![h] = "ask"]
            /\ page' = [page EXCEPT ![h] = 0]
            /\ outerAttempt' = [outerAttempt EXCEPT ![h] = 0]
            /\ answer' = [answer EXCEPT ![h] = "none"]
        BY <1>9, <2>2 DEF NextFetch
      <4>4. at' \in [Handlers -> {"idle", "ask", "fetching", "backoff"}]
        BY <1>1, <4>3
      <4>5. page' \in [Handlers -> 0 .. MaxPages]
        BY <1>1, <4>3
      <4>6. outerAttempt' \in [Handlers -> 0 .. OuterAttempts]
        BY <1>1, <4>3
      <4>7. answer' \in [Handlers -> Errors \cup {"none", "ok"}]
        BY <1>1, <4>3
      <4> QED
        BY <1>9, <4>2, <4>4, <4>5, <4>6, <4>7 DEF HandlersTypeOK
    <3>5. OneCall' /\ FetchInHand'
      BY <1>1, <1>2, <1>4, <1>9, <2>2, <3>3 DEF NextFetch, HInv, OneCall, FetchInHand
    <3> QED
      BY <3>4, <3>5 DEF HInv
  <2> QED
    BY <2>1, <2>2
<1>10. CASE FetchSucceeds(h)
  BY <1>1, <1>9, <1>10, OuterStates DEF FetchSucceeds
<1>11. CASE FetchFails(h)
  BY <1>1, <1>2, <1>4, <1>11, RespondKeepsHInv DEF FetchFails, Errors
<1>12. CASE WrappedFetchFails(h)
  <2>1. answer[h] # "none" /\ outer' \in CircuitState
    BY <1>1, <1>12, OuterStates DEF WrappedFetchFails, Errors
  <2>2. CASE Respond(h)
    BY <1>2, <1>4, <2>1, <2>2, RespondKeepsHInv
  <2>3. CASE /\ at' = [at EXCEPT ![h] = "backoff"]
             /\ page' = [page EXCEPT ![h] = 0]
             /\ answer' = [answer EXCEPT ![h] = "none"]
             /\ UNCHANGED <<todo, outerAttempt>>
             /\ MayRetryFetch(h)
    BY <1>1, <1>2, <1>4, <2>1, <2>3
       DEF MayRetryFetch, HInv, HandlersTypeOK, OneCall, FetchInHand
  <2> QED
    BY <1>12, <2>2, <2>3 DEF WrappedFetchFails
<1> QED
  BY <1>5, <1>6, <1>7, <1>8, <1>10, <1>11, <1>12 DEF HandlerStep

LEMMA HStep == TypeOK /\ HInv /\ [ClientNext]_clientVars => HInv'
<1> SUFFICES ASSUME TypeOK, HInv, [ClientNext]_clientVars PROVE HInv'
  OBVIOUS
<1>1. ASSUME NEW c \in Callers, ClientAsk(c) \/ ClientAnswer(c) PROVE HInv'
  BY <1>1, CallKeepsHInv
<1>2. ASSUME NEW h \in Handlers, Request(h) \/ HandlerStep(h) PROVE HInv'
  BY <1>2, HandlerKeepsHInv
<1>3. ASSUME NEW h \in Handlers, Hangup(h) PROVE HInv'
  <2>1. pc' = [pc EXCEPT ![h] = "idle"] /\ h \in Callers /\ Handlers \subseteq Callers
    BY <1>3, RpcClientConstants DEF RpcClientConstants, Hangup, Return
  <2>2. pc \in [Callers -> {"idle", "calling", "backoff"}] /\ outer' \in CircuitState
    BY <1>3 DEF TypeOK, HInv, HandlersTypeOK, Hangup
  <2>3. pc'[h] = "idle" /\ \A g \in Handlers : g # h => pc'[g] = pc[g]
    BY <2>1, <2>2
  <2> QED
    BY <1>3, <2>2, <2>3, RespondKeepsHInv DEF Hangup
<1>4. CASE ClockTick
  <2>1. outer' \in CircuitState
    BY <1>4, OuterStates DEF ClockTick, HInv, HandlersTypeOK
  <2> QED
    BY <1>4, <2>1
       DEF ClockTick, request, callers, HInv, HandlersTypeOK, OneCall, FetchInHand
<1>5. CASE HealthChanges \/ UNCHANGED clientVars
  BY <1>5 DEF HealthChanges, ChangeHealth, clientVars, client, request, callers, HInv,
              HandlersTypeOK, OneCall, FetchInHand
<1> QED
  BY <1>1, <1>2, <1>3, <1>4, <1>5 DEF ClientNext

-----------------------------------------------------------------------------
\* The invariant of the client and its handlers.
ClientInv == IInv /\ Rest /\ HInv

LEMMA ClientInvCorrect == ClientSpec => []ClientInv
<1>1. ClientInit => ClientInv
  BY InitIInv, HInit DEF ClientInit, Init, ClientInv, Rest
<1>2. ClientInv /\ [ClientNext]_clientVars => ClientInv'
  BY ClientStep, StepIInv, RestStep, HStep DEF ClientInv, IInv
<1> QED
  BY <1>1, <1>2, PTL DEF ClientSpec

\* The client under its handlers is the breaker of CircuitBreaker: what the
\* handlers' retries, their own breaker and dropped futures add to it are its own
\* steps or none.
THEOREM ClientUsesBreaker == ClientSpec => Spec
<1>1. ClientInit => Init
  BY DEF ClientInit
<1>2. ClientInv /\ [ClientNext]_clientVars => [Next]_vars
  BY ClientStep DEF ClientInv, IInv
<1> QED
  BY <1>1, <1>2, ClientInvCorrect, PTL DEF ClientSpec, Spec

\* Client and handlers are well typed: attempts and pages stay within their
\* bounds in both layers.
THEOREM ClientTypeCorrect == ClientSpec => []ClientTypeOK
<1>1. ClientInv => ClientTypeOK
  BY DEF ClientInv, IInv, HInv, HandlersTypeOK, ClientTypeOK
<1> QED
  BY <1>1, ClientInvCorrect, PTL

\* No handler has two calls in flight, and no answer comes for a fetch that was
\* given up.
THEOREM OneCallCorrect == ClientSpec => []OneCall
<1>1. ClientInv => OneCall
  BY DEF ClientInv, HInv
<1> QED
  BY <1>1, ClientInvCorrect, PTL

\* The properties of the breaker hold of the client under its handlers.
THEOREM ClientBreakerCorrect ==
    ClientSpec => []CountersAreEvidence /\ SwitchesOnEvidence /\ FailsFast
BY ClientUsesBreaker, EvidenceCorrect, SwitchesCorrect, FailsFastCorrect, PTL
=============================================================================
