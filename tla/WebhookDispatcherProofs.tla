---------------------- MODULE WebhookDispatcherProofs ----------------------
(***************************************************************************)
(* Theorems about webhook delivery, for any number of webhooks, events,    *)
(* retries and faults and any batch limit.  The rows do not say what the   *)
(* dispatcher has in hand, so the invariant connects its memory with them: *)
(* every event of the batch may still be sent (BatchIsSelected), a success *)
(* about to be recorded was accepted (SuccessWasAccepted), a webhook that  *)
(* is deactivated has had no late request but, perhaps, the one the        *)
(* dispatcher was past the lookup for (LateIsInHand), and the requests     *)
(* posted for an event are paid for by its retries, the one in hand and    *)
(* the faults so far (RequestsAreCounted).                                 *)
(***************************************************************************)
EXTENDS WebhookDispatcher, Integers, FiniteSetTheorems, WellFoundedInduction, TLAPS

\* Nobody but the dispatcher writes a row's status and retries, so the fetched
\* events stay what they were when it selected them.
BatchIsSelected == \A e \in batch : Selected(e)

SuccessWasAccepted == step = "ok" => Current \in accepted

\* A request is posted to a deactivated webhook only from the step "post", and
\* no lookup reaches that step for the webhook again.
LateIsInHand ==
    \A w \in Webhooks :
        /\ active[w] => late[w] = 0
        /\ step = "post" /\ hook[Current] = w => late[w] = 0
        /\ late[w] <= 1

\* The requests that the faults so far may have added.
Allowance(f) == MoreAttempts * f

\* The request that was posted and is not recorded yet.
Unrecorded(e) == IF step \in Outcome /\ e = Current THEN 1 ELSE 0

\* Rows that are not created yet are as create_webhook_event inserts them.
NewIsPending == \A e \in Events : e > count => status[e] = "pending"

RequestsAreCounted ==
    \A e \in Events :
        /\ status[e] = "pending" =>
               attempts[e] <= retries[e] + Unrecorded(e) + Allowance(faults)
        /\ attempts[e] <= MaxRetries + Allowance(faults)

IInv ==
    /\ TypeOK
    /\ BatchIsSelected
    /\ SuccessWasAccepted
    /\ DeliveredWasAccepted
    /\ LateIsInHand
    /\ NewIsPending
    /\ RequestsAreCounted

-----------------------------------------------------------------------------
\* A set of numbers that is not empty has a least element.
LEMMA LeastElement ==
    ASSUME NEW S \in SUBSET Nat, S # {}
    PROVE  \E m \in S : \A x \in S : m <= x
<1>1. PICK m \in S : \A x \in S : ~(<<x, m>> \in OpToRel(<, Nat))
  BY NatLessThanWellFounded, WFMin
<1>2. \A x \in S : ~(x < m)
  BY <1>1 DEF OpToRel
<1>3. \A x \in S : m <= x
  BY <1>2
<1> QED
  BY <1>3

\* One more fault allows MoreAttempts more requests, which is enough for the
\* retries of any event that is still sent.
LEMMA AllowanceFacts ==
    /\ MoreAttempts \in Nat /\ MoreAttempts >= 1 /\ MaxRetries - 1 <= MoreAttempts
    /\ Allowance(0) = 0
    /\ \A f \in Nat : /\ Allowance(f) \in Nat
                      /\ Allowance(f + 1) = Allowance(f) + MoreAttempts
<1>1. MoreAttempts \in Nat /\ MoreAttempts >= 1 /\ MaxRetries - 1 <= MoreAttempts
  BY WebhookConstants DEF WebhookConstants, MoreAttempts
<1>2. Allowance(0) = 0
  BY <1>1 DEF Allowance
<1>3. ASSUME NEW f \in Nat
      PROVE  Allowance(f) \in Nat /\ Allowance(f + 1) = Allowance(f) + MoreAttempts
  BY <1>1 DEF Allowance
<1> QED
  BY <1>1, <1>2, <1>3

\* The dispatcher has an event in hand at every step but "idle", and may still
\* send it.
LEMMA HandFacts ==
    ASSUME IInv, step # "idle"
    PROVE  /\ Current \in batch /\ Current \in 1 .. count /\ Current \in Events
           /\ hook[Current] \in Webhooks
           /\ status[Current] = "pending"
           /\ retries[Current] \in Nat /\ retries[Current] < MaxRetries
<1> USE WebhookConstants DEF WebhookConstants, IInv, TypeOK, Events
<1>1. batch # {} /\ batch \in SUBSET Nat
  OBVIOUS
<1>2. \E e \in batch : \A f \in batch : e <= f
  BY <1>1, LeastElement
<1>3. Current \in batch
  BY <1>2 DEF Current
<1> QED
  BY <1>3 DEF BatchIsSelected, Selected

\* The event in hand leaves the batch, which ends the batch or not.
LEMMA FinishFacts ==
    ASSUME IInv, step # "idle", Finish(Current)
    PROVE  /\ batch' = batch \ {Current}
           /\ step' \in {"idle", "lookup"}
           /\ step' = "idle" <=> batch' = {}
           /\ \A e \in Events : Unrecorded(e)' = 0
<1>1. Current \in batch
  BY HandFacts
<1>2. batch' = batch \ {Current} /\ step' = StepAfter(Current)
  BY DEF Finish
<1>3. step' \in {"idle", "lookup"} /\ (step' = "idle" <=> batch = {Current})
  BY <1>2 DEF StepAfter
<1>4. \A e \in Events : Unrecorded(e)' = 0
  BY <1>3 DEF Unrecorded, Outcome
<1> QED
  BY <1>1, <1>2, <1>3, <1>4

\* What is known of the numbers of an event.
LEMMA NumberFacts ==
    ASSUME IInv
    PROVE  /\ faults \in Nat /\ Allowance(faults) \in Nat
           /\ Allowance(faults + 1) = Allowance(faults) + MoreAttempts
           /\ \A e \in Events : attempts[e] \in Nat /\ retries[e] \in Nat
                                /\ Unrecorded(e) \in {0, 1}
<1>1. faults \in Nat /\ \A e \in Events : attempts[e] \in Nat /\ retries[e] \in Nat
  BY WebhookConstants DEF WebhookConstants, IInv, TypeOK
<1> QED
  BY <1>1, AllowanceFacts DEF Unrecorded

LEMMA InitInv == Init => IInv
<1> SUFFICES ASSUME Init PROVE IInv
  OBVIOUS
<1>1. TypeOK
  BY WebhookConstants DEF WebhookConstants, Init, TypeOK, Step
<1>2. RequestsAreCounted
  <2> SUFFICES ASSUME NEW e \in Events
               PROVE  0 <= 0 + Unrecorded(e) + Allowance(0) /\ 0 <= MaxRetries + Allowance(0)
    BY DEF Init, RequestsAreCounted
  <2>1. Unrecorded(e) \in {0, 1}
    BY DEF Unrecorded
  <2>2. QED
    BY <2>1, AllowanceFacts, WebhookConstants DEF WebhookConstants
<1> QED
  BY <1>1, <1>2 DEF IInv, Init, BatchIsSelected, SuccessWasAccepted, DeliveredWasAccepted,
     LateIsInHand, NewIsPending

-----------------------------------------------------------------------------
\* Recording an outcome, or losing it: the event in hand leaves the batch, and
\* only its row changes.  The five actions that do so differ in what they write.
RowWritten ==
    /\ step # "idle"
    /\ Finish(Current)
    /\ UNCHANGED <<active, count, hook, ghosts>>
    /\ \/ faults' = faults
       \/ Fault
    /\ \/ UNCHANGED <<status, retries>> /\ Fault
       \/ /\ \E st \in {"pending", "delivered", "failed"}, n \in 0 .. MaxRetries :
                 /\ Write(Current, st, n)
                 /\ st = "delivered" => step = "ok"
                 /\ st = "pending" => \/ n = retries[Current] + 1
                                      \/ n >= 1 /\ Fault

LEMMA RowWrittenStep == IInv /\ RowWritten => IInv'
<1> SUFFICES ASSUME IInv, RowWritten PROVE IInv'
  OBVIOUS
<1> DEFINE c == Current
<1>1. /\ c \in batch /\ c \in 1 .. count /\ c \in Events
      /\ status[c] = "pending"
      /\ retries[c] \in Nat /\ retries[c] < MaxRetries
  BY HandFacts DEF RowWritten
<1>2. /\ batch' = batch \ {c} /\ step' \in {"idle", "lookup"}
      /\ step' = "idle" <=> batch' = {}
      /\ \A e \in Events : Unrecorded(e)' = 0
  BY FinishFacts DEF RowWritten
<1>3. /\ active' = active /\ count' = count /\ hook' = hook
      /\ attempts' = attempts /\ accepted' = accepted /\ late' = late
  BY DEF RowWritten, ghosts
<1>4. /\ status' \in [Events -> {"pending", "delivered", "failed"}]
      /\ retries' \in [Events -> 0 .. MaxRetries]
      /\ \A e \in Events : e # c => status'[e] = status[e] /\ retries'[e] = retries[e]
      /\ status'[c] = "delivered" => step = "ok"
  BY <1>1 DEF RowWritten, Write, IInv, TypeOK
<1>5. faults' \in 0 .. MaxFaults /\ (faults' = faults \/ faults' = faults + 1)
  BY WebhookConstants DEF WebhookConstants, RowWritten, Fault, IInv, TypeOK
<1>6. TypeOK'
  BY <1>2, <1>3, <1>4, <1>5 DEF IInv, TypeOK, Step
<1>7. BatchIsSelected'
  BY <1>2, <1>4, WebhookConstants
  DEF WebhookConstants, IInv, BatchIsSelected, Selected, TypeOK, Events
<1>8. SuccessWasAccepted'
  BY <1>2 DEF SuccessWasAccepted
<1>9. DeliveredWasAccepted'
  <2> SUFFICES ASSUME NEW e \in 1 .. count, status'[e] = "delivered"
               PROVE  e \in accepted
    BY <1>3 DEF DeliveredWasAccepted
  <2>1. e \in Events
    BY WebhookConstants DEF WebhookConstants, IInv, TypeOK, Events
  <2>2. CASE e = c
    BY <1>4, <2>2 DEF IInv, SuccessWasAccepted
  <2>3. CASE e # c
    BY <1>4, <2>1, <2>3 DEF IInv, DeliveredWasAccepted
  <2>4. QED
    BY <2>2, <2>3
<1>10. LateIsInHand' /\ NewIsPending'
  BY <1>1, <1>2, <1>3, <1>4, WebhookConstants
  DEF WebhookConstants, IInv, LateIsInHand, NewIsPending, TypeOK, Events
<1>11. RequestsAreCounted'
  <2> SUFFICES ASSUME NEW e \in Events
               PROVE  /\ status'[e] = "pending" =>
                             attempts[e] <= retries'[e] + Allowance(faults')
                      /\ attempts[e] <= MaxRetries + Allowance(faults')
    <3>1. \A e \in Events :
              /\ status'[e] = "pending" =>
                     attempts[e] <= retries'[e] + Unrecorded(e)' + Allowance(faults')
              /\ attempts[e] <= MaxRetries + Allowance(faults')
      <4> TAKE e \in Events
      <4>1. retries'[e] \in Nat /\ Unrecorded(e)' = 0
        BY <1>2, <1>4, WebhookConstants DEF WebhookConstants
      <4>2. QED
        BY <4>1
    <3>2. QED
      BY <1>3, <3>1 DEF RequestsAreCounted, Allowance
  <2>1. /\ faults \in Nat /\ Allowance(faults) \in Nat
        /\ Allowance(faults + 1) = Allowance(faults) + MoreAttempts
        /\ attempts[e] \in Nat /\ retries[e] \in Nat /\ Unrecorded(e) \in {0, 1}
    BY NumberFacts
  <2>2. /\ MoreAttempts \in Nat /\ MoreAttempts >= 1 /\ MaxRetries - 1 <= MoreAttempts
        /\ MaxRetries \in Nat
    BY AllowanceFacts, WebhookConstants DEF WebhookConstants
  <2>3. Allowance(faults') \in Nat /\ Allowance(faults') >= Allowance(faults)
    BY <1>5, <2>1, <2>2
  <2>4. attempts[e] <= MaxRetries + Allowance(faults')
    <3>1. attempts[e] <= MaxRetries + Allowance(faults)
      BY DEF IInv, RequestsAreCounted
    <3>2. QED
      BY <2>1, <2>2, <2>3, <3>1
  <2>5. ASSUME status'[e] = "pending"
        PROVE  attempts[e] <= retries'[e] + Allowance(faults')
    <3>1. CASE e # c
      <4>1. status[e] = "pending" /\ retries'[e] = retries[e] /\ Unrecorded(e) = 0
        BY <1>4, <2>5, <3>1 DEF Unrecorded
      <4>2. attempts[e] <= retries[e] + 0 + Allowance(faults)
        BY <4>1 DEF IInv, RequestsAreCounted
      <4>3. QED
        BY <2>1, <2>3, <4>1, <4>2
    <3>2. CASE e = c
      <4>1. attempts[c] <= retries[c] + Unrecorded(c) + Allowance(faults)
        BY <1>1 DEF IInv, RequestsAreCounted
      <4>2. attempts[c] <= retries[c] + 1 + Allowance(faults)
        BY <1>1, <2>1, <3>2, <4>1
      <4>3. \/ retries'[c] = retries[c] + 1
            \/ faults' = faults + 1 /\ retries'[c] = retries[c]
            \/ faults' = faults + 1 /\ retries'[c] \in Nat /\ retries'[c] >= 1
        BY <1>1, <1>4, <2>2, <2>5, <3>2 DEF RowWritten, Write, Fault, IInv, TypeOK
      <4>4. QED
        BY <1>1, <2>1, <2>2, <2>3, <3>2, <4>2, <4>3
    <3>3. QED
      BY <3>1, <3>2
  <2>6. QED
    BY <2>4, <2>5
<1> QED
  BY <1>6, <1>7, <1>8, <1>9, <1>10, <1>11 DEF IInv

\* Success, failure, a lost write, a lost read and a deactivated webhook all end
\* like that.
LEMMA RecordingSteps ==
    ASSUME IInv, SkipInactive \/ RecordSuccess \/ RecordFailure \/ WriteLost \/ ReadLost
    PROVE  RowWritten
<1> USE WebhookConstants DEF WebhookConstants
<1>1. step # "idle"
  BY DEF SkipInactive, RecordSuccess, RecordFailure, WriteLost, ReadLost, Success, Outcome
<1>2. retries[Current] \in Nat /\ retries[Current] < MaxRetries
  BY <1>1, HandFacts
<1>3. CASE SkipInactive
  BY <1>1, <1>3 DEF SkipInactive, RowWritten, InactiveStatus
<1>4. CASE RecordSuccess
  BY <1>1, <1>4 DEF RecordSuccess, RowWritten, Success
<1>5. CASE RecordFailure
  <2>1. Write(Current, "pending", retries[Current] + 1)
    BY <1>2, <1>5 DEF RecordFailure, WriteFailure
  <2>2. retries[Current] + 1 \in 0 .. MaxRetries
    BY <1>2
  <2>3. QED
    BY <1>1, <1>5, <2>1, <2>2 DEF RecordFailure, RowWritten
<1>6. CASE WriteLost
  BY <1>1, <1>6 DEF WriteLost, RowWritten, rows
<1>7. CASE ReadLost
  <2>1. Write(Current, "pending", 0 + 1)
    BY <1>7 DEF ReadLost, WriteFailure
  <2>2. 0 + 1 \in 0 .. MaxRetries /\ 0 + 1 >= 1
    OBVIOUS
  <2>3. QED
    BY <1>1, <1>7, <2>1, <2>2 DEF ReadLost, RowWritten
<1> QED
  BY <1>3, <1>4, <1>5, <1>6, <1>7

-----------------------------------------------------------------------------
\* A new row is pending, has no request and is not in the batch.
LEMMA CreateStep == IInv /\ CreateWebhookEvent => IInv'
<1> SUFFICES ASSUME IInv, CreateWebhookEvent PROVE IInv'
  OBVIOUS
<1> USE WebhookConstants DEF WebhookConstants, CreateWebhookEvent, memory, ghosts, IInv
<1>1. TypeOK'
  BY DEF TypeOK
<1>2. BatchIsSelected' /\ SuccessWasAccepted' /\ LateIsInHand'
  BY DEF BatchIsSelected, Selected, SuccessWasAccepted, LateIsInHand, Current
<1>3. RequestsAreCounted'
  BY DEF RequestsAreCounted, Unrecorded, Current, Allowance
<1>4. NewIsPending'
  BY DEF NewIsPending, TypeOK, Events
<1>5. DeliveredWasAccepted'
  <2> SUFFICES ASSUME NEW e \in 1 .. count + 1, status[e] = "delivered"
               PROVE  e \in accepted
    BY DEF DeliveredWasAccepted
  <2>1. e \in Events /\ ~(e > count)
    BY DEF NewIsPending, TypeOK, Events
  <2>2. e \in 1 .. count
    BY <2>1 DEF TypeOK
  <2>3. QED
    BY <2>2 DEF DeliveredWasAccepted
<1> QED
  BY <1>1, <1>2, <1>3, <1>4, <1>5

LEMMA DeactivateStep ==
    ASSUME IInv, NEW w \in Webhooks, DeleteWebhook(w)
    PROVE  IInv'
<1> USE DEF DeleteWebhook, memory, ghosts, IInv
<1>1. TypeOK'
  BY DEF TypeOK
<1>2. BatchIsSelected' /\ SuccessWasAccepted' /\ DeliveredWasAccepted'
  BY DEF BatchIsSelected, Selected, SuccessWasAccepted, DeliveredWasAccepted, Current
<1>3. LateIsInHand' /\ NewIsPending'
  BY DEF LateIsInHand, NewIsPending, Current, TypeOK
<1>4. RequestsAreCounted'
  BY DEF RequestsAreCounted, Unrecorded, Current, Allowance
<1> QED
  BY <1>1, <1>2, <1>3, <1>4

\* The fetched batch is not empty: its first event is before all others.
LEMMA FetchStep == IInv /\ FetchPendingEvents => IInv'
<1> SUFFICES ASSUME IInv, FetchPendingEvents PROVE IInv'
  OBVIOUS
<1> USE DEF FetchPendingEvents, rows, ghosts, IInv
<1>1. batch' # {}
  <2>1. Fetchable \in SUBSET Nat /\ Fetchable # {}
    BY DEF Fetchable
  <2>2. PICK m \in Fetchable : \A x \in Fetchable : m <= x
    BY <2>1, LeastElement
  <2>3. {f \in Fetchable : f < m} = {}
    <3>1. \A f \in Fetchable : f \in Nat /\ m \in Nat /\ m <= f
      BY <2>1, <2>2
    <3>2. \A f \in Fetchable : ~(f < m)
      BY <3>1
    <3>3. QED
      BY <3>2
  <2>4. Cardinality({f \in Fetchable : f < m}) = 0
    BY <2>3, FS_EmptySet
  <2>5. m \in batch'
    BY <2>2, <2>4, WebhookConstants DEF WebhookConstants
  <2>6. QED
    BY <2>5
<1>2. batch' \subseteq Fetchable
  OBVIOUS
<1>3. TypeOK'
  BY <1>1, <1>2 DEF TypeOK, Step, Fetchable
<1>4. BatchIsSelected'
  BY <1>2 DEF BatchIsSelected, Selected, Fetchable
<1>5. SuccessWasAccepted' /\ DeliveredWasAccepted' /\ LateIsInHand' /\ NewIsPending'
  BY DEF SuccessWasAccepted, DeliveredWasAccepted, LateIsInHand, NewIsPending
<1>6. RequestsAreCounted'
  <2>1. \A e \in Events : Unrecorded(e) = 0 /\ Unrecorded(e)' = 0
    BY DEF Unrecorded, Outcome
  <2>2. QED
    BY <2>1 DEF RequestsAreCounted, Allowance
<1> QED
  BY <1>3, <1>4, <1>5, <1>6

\* Only a webhook that is active now passes the lookup, and it has had no late
\* request.
LEMMA LookUpStep == IInv /\ LookUp => IInv'
<1> SUFFICES ASSUME IInv, LookUp PROVE IInv'
  OBVIOUS
<1> USE DEF LookUp, rows, ghosts, IInv
<1>1. TypeOK'
  BY DEF TypeOK, Step
<1>2. BatchIsSelected' /\ SuccessWasAccepted' /\ DeliveredWasAccepted'
  BY DEF BatchIsSelected, Selected, SuccessWasAccepted, DeliveredWasAccepted
<1>3. Current' = Current
  BY DEF Current
<1>4. LateIsInHand' /\ NewIsPending'
  BY <1>3 DEF LateIsInHand, NewIsPending, IsActive
<1>5. RequestsAreCounted'
  <2>1. \A e \in Events : Unrecorded(e) = 0 /\ Unrecorded(e)' = 0
    BY DEF Unrecorded, Outcome
  <2>2. QED
    BY <2>1 DEF RequestsAreCounted, Allowance
<1> QED
  BY <1>1, <1>2, <1>4, <1>5

\* A post adds one request, which is counted as not recorded yet.
LEMMA DeliverStep == IInv /\ Deliver => IInv'
<1> SUFFICES ASSUME IInv, Deliver PROVE IInv'
  OBVIOUS
<1> DEFINE c == Current
<1>1. /\ c \in batch /\ c \in 1 .. count /\ c \in Events /\ hook[c] \in Webhooks
      /\ status[c] = "pending" /\ retries[c] \in Nat /\ retries[c] < MaxRetries
  BY HandFacts DEF Deliver
<1>2. /\ step = "post" /\ step' \in Outcome /\ batch' = batch /\ Current' = Current
      /\ active' = active /\ count' = count /\ hook' = hook /\ faults' = faults
      /\ status' = status /\ retries' = retries
      /\ accepted \subseteq accepted' /\ accepted' \subseteq accepted \cup {c}
      /\ step' = "ok" => c \in accepted'
  BY DEF Deliver, rows, Current
<1>3. /\ attempts' \in [Events -> Nat] /\ attempts'[c] = attempts[c] + 1
      /\ \A e \in Events : e # c => attempts'[e] = attempts[e]
  BY <1>1 DEF Deliver, IInv, TypeOK
<1>4. /\ late' \in [Webhooks -> Nat]
      /\ \A w \in Webhooks :
             \/ late'[w] = late[w]
             \/ w = hook[c] /\ ~active[w] /\ late'[w] = late[w] + 1
  BY <1>1 DEF Deliver, IInv, TypeOK
<1>5. TypeOK'
  BY <1>1, <1>2, <1>3, <1>4 DEF IInv, TypeOK, Step, Outcome
<1>6. BatchIsSelected' /\ SuccessWasAccepted' /\ DeliveredWasAccepted'
  BY <1>2 DEF IInv, BatchIsSelected, Selected, SuccessWasAccepted, DeliveredWasAccepted
<1>7. LateIsInHand'
  <2> SUFFICES ASSUME NEW w \in Webhooks
               PROVE  (active[w] => late'[w] = 0) /\ late'[w] <= 1
    BY <1>2 DEF LateIsInHand, Outcome
  <2>1. late[w] \in Nat
    BY DEF IInv, TypeOK
  <2>2. CASE late'[w] = late[w]
    BY <2>2 DEF IInv, LateIsInHand
  <2>3. CASE w = hook[c] /\ ~active[w] /\ late'[w] = late[w] + 1
    <3>1. late[w] = 0
      BY <1>2, <2>3 DEF IInv, LateIsInHand
    <3>2. QED
      BY <2>3, <3>1
  <2>4. QED
    BY <1>4, <2>2, <2>3
<1>8. RequestsAreCounted'
  <2> SUFFICES ASSUME NEW e \in Events
               PROVE  /\ status[e] = "pending" =>
                             attempts'[e] <= retries[e] + Unrecorded(e)' + Allowance(faults)
                      /\ attempts'[e] <= MaxRetries + Allowance(faults)
    BY <1>2 DEF RequestsAreCounted, Allowance
  <2>1. /\ Allowance(faults) \in Nat /\ attempts[e] \in Nat /\ retries[e] \in Nat
        /\ Unrecorded(e) = 0 /\ MaxRetries \in Nat
    BY <1>2, NumberFacts, WebhookConstants DEF WebhookConstants, Unrecorded, Outcome
  <2>2. /\ status[e] = "pending" => attempts[e] <= retries[e] + 0 + Allowance(faults)
        /\ attempts[e] <= MaxRetries + Allowance(faults)
    BY <2>1 DEF IInv, RequestsAreCounted
  <2>3. CASE e = c
    <3>1. Unrecorded(e)' = 1
      BY <1>2, <2>3 DEF Unrecorded
    <3>2. QED
      BY <1>1, <1>3, <2>1, <2>2, <2>3, <3>1
  <2>4. CASE e # c
    <3>1. Unrecorded(e)' = 0
      BY <1>2, <2>4 DEF Unrecorded
    <3>2. QED
      BY <1>3, <2>1, <2>2, <2>4, <3>1
  <2>5. QED
    BY <2>3, <2>4
<1>9. NewIsPending'
  BY <1>2 DEF IInv, NewIsPending
<1> QED
  BY <1>5, <1>6, <1>7, <1>8, <1>9 DEF IInv

\* A restart forgets the batch; a request that was not recorded is one that the
\* fault pays for.
LEMMA LoseStep == IInv /\ LoseBatch => IInv'
<1> SUFFICES ASSUME IInv, LoseBatch PROVE IInv'
  OBVIOUS
<1>1. /\ batch' = {} /\ step' = "idle" /\ faults' = faults + 1 /\ faults < MaxFaults
      /\ UNCHANGED <<active, count, hook, status, retries, attempts, accepted, late>>
  BY DEF LoseBatch, Fault, rows, ghosts
<1>2. TypeOK'
  BY <1>1, WebhookConstants DEF WebhookConstants, IInv, TypeOK, Step
<1>3. /\ BatchIsSelected' /\ SuccessWasAccepted' /\ DeliveredWasAccepted'
      /\ LateIsInHand' /\ NewIsPending'
  BY <1>1 DEF IInv, BatchIsSelected, SuccessWasAccepted, DeliveredWasAccepted,
     LateIsInHand, NewIsPending
<1>4. RequestsAreCounted'
  <2> SUFFICES ASSUME NEW e \in Events
               PROVE  /\ status[e] = "pending" =>
                             attempts[e] <= retries[e] + Unrecorded(e)' + Allowance(faults + 1)
                      /\ attempts[e] <= MaxRetries + Allowance(faults + 1)
    BY <1>1 DEF RequestsAreCounted, Allowance
  <2>1. /\ Allowance(faults) \in Nat
        /\ Allowance(faults + 1) = Allowance(faults) + MoreAttempts
        /\ attempts[e] \in Nat /\ retries[e] \in Nat /\ Unrecorded(e) \in {0, 1}
        /\ MoreAttempts \in Nat /\ MoreAttempts >= 1 /\ MaxRetries \in Nat
    BY NumberFacts, AllowanceFacts, WebhookConstants DEF WebhookConstants
  <2>2. Unrecorded(e)' = 0
    BY <1>1 DEF Unrecorded, Outcome
  <2>3. /\ status[e] = "pending" => attempts[e] <= retries[e] + Unrecorded(e) + Allowance(faults)
        /\ attempts[e] <= MaxRetries + Allowance(faults)
    BY DEF IInv, RequestsAreCounted
  <2>4. QED
    BY <2>1, <2>2, <2>3
<1> QED
  BY <1>2, <1>3, <1>4 DEF IInv

LEMMA StutterStep == IInv /\ UNCHANGED vars => IInv'
<1> SUFFICES ASSUME IInv, UNCHANGED vars PROVE IInv'
  OBVIOUS
<1> USE DEF vars, rows, memory, ghosts, IInv
<1>1. TypeOK' /\ BatchIsSelected' /\ DeliveredWasAccepted' /\ NewIsPending'
  BY DEF TypeOK, BatchIsSelected, Selected, DeliveredWasAccepted, NewIsPending
<1>2. SuccessWasAccepted' /\ LateIsInHand'
  BY DEF SuccessWasAccepted, LateIsInHand, Current
<1>3. RequestsAreCounted'
  BY DEF RequestsAreCounted, Unrecorded, Current, Allowance
<1> QED
  BY <1>1, <1>2, <1>3

LEMMA InvStep == IInv /\ [Next]_vars => IInv'
BY CreateStep, DeactivateStep, FetchStep, LookUpStep, DeliverStep, LoseStep, StutterStep,
   RecordingSteps, RowWrittenStep
DEF Next, Dispatch

LEMMA InvCorrect == Spec => []IInv
  BY InitInv, InvStep, PTL DEF Spec

-----------------------------------------------------------------------------
\* The rows and the dispatcher's memory are well typed; it is idle exactly when
\* it has no event in hand.
THEOREM TypeCorrect == Spec => []TypeOK
<1>1. IInv => TypeOK
  BY DEF IInv
<1> QED
  BY <1>1, InvCorrect, PTL

\* A row marked delivered was accepted by its receiver.
THEOREM DeliveredCorrect == Spec => []DeliveredWasAccepted
<1>1. IInv => DeliveredWasAccepted
  BY DEF IInv
<1> QED
  BY <1>1, InvCorrect, PTL

\* An event is posted at most MaxRetries times, and MoreAttempts times more for
\* every fault.
THEOREM AttemptsCorrect == Spec => []AttemptsAreBounded
<1>1. IInv => AttemptsAreBounded
  <2> SUFFICES ASSUME IInv, NEW e \in 1 .. count
               PROVE  attempts[e] <= MaxRetries + MoreAttempts * faults
    BY DEF AttemptsAreBounded
  <2>1. e \in Events
    BY WebhookConstants DEF WebhookConstants, IInv, TypeOK, Events
  <2>2. attempts[e] <= MaxRetries + Allowance(faults)
    BY <2>1 DEF IInv, RequestsAreCounted
  <2>3. QED
    BY <2>2 DEF Allowance
<1> QED
  BY <1>1, InvCorrect, PTL

\* A deactivated webhook receives at most the request already past its lookup.
THEOREM LateRequestCorrect == Spec => []AtMostOneLateRequest
<1>1. IInv => AtMostOneLateRequest
  BY DEF IInv, LateIsInHand, AtMostOneLateRequest
<1> QED
  BY <1>1, InvCorrect, PTL

\* A settled row never changes again: only the event in hand is written, and it
\* is pending.
THEOREM SettledCorrect == Spec => SettledIsFinal
<1>1. ASSUME IInv, [Next]_vars, NEW e \in 1 .. count
      PROVE  KeepsSettled(e)
  <2> SUFFICES ASSUME status[e] # "pending" PROVE status'[e] = status[e]
    BY DEF KeepsSettled
  <2>1. CASE RowWritten
    <3>1. Current \in Events /\ e # Current
      BY <1>1, <2>1, HandFacts DEF RowWritten
    <3>2. status' = status \/ \E st : status' = [status EXCEPT ![Current] = st]
      BY <2>1 DEF RowWritten, Write
    <3>3. e \in Events /\ status \in [Events -> {"pending", "delivered", "failed"}]
      BY <1>1, WebhookConstants DEF WebhookConstants, IInv, TypeOK, Events
    <3>4. QED
      BY <3>1, <3>2, <3>3
  <2>2. CASE status' = status
    BY <2>2
  <2>3. RowWritten \/ status' = status
    BY <1>1, RecordingSteps
    DEF Next, Dispatch, CreateWebhookEvent, DeleteWebhook, FetchPendingEvents, LookUp,
        Deliver, LoseBatch, vars, rows
  <2>4. QED
    BY <2>1, <2>2, <2>3
<1>2. IInv /\ [Next]_vars => \A e \in 1 .. count : KeepsSettled(e)
  BY <1>1
<1> QED
  BY <1>2, InvCorrect, PTL DEF Spec, SettledIsFinal
=============================================================================
