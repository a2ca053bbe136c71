------------------------- MODULE WebhookDispatcher -------------------------
(***************************************************************************)
(* Webhook delivery (backend/src/services/webhook_dispatcher.rs and        *)
(* webhooks/mod.rs).  Events are rows of webhook_events; one task fetches  *)
(* a batch of the oldest deliverable ones every 5 seconds and, for each,   *)
(* looks its webhook up, posts it and records the outcome: three awaits,   *)
(* between which webhooks are deactivated, a database call may fail and    *)
(* the process may stop (a crash, or the shutdown signal, which drops the  *)
(* task at its await).                                                     *)
(*                                                                         *)
(* An event is named by its place in created_at order.  `attempts`,        *)
(* `faults`, `accepted` and `late` are not in the code: they remember      *)
(* what was sent and what the receivers accepted, for the properties.      *)
(***************************************************************************)
EXTENDS Naturals, FiniteSets

CONSTANTS
    Webhooks,    \* registered webhooks
    MaxEvents,   \* bound of the model on the rows created
    BatchLimit,  \* get_pending_events(10)
    MaxRetries,  \* 3, in get_pending_events and in the dispatcher
    MaxFaults    \* bound of the model on database errors and restarts

ASSUME WebhookConstants ==
    /\ MaxEvents \in Nat
    /\ BatchLimit \in Nat \ {0}
    /\ MaxRetries \in Nat \ {0}
    /\ MaxFaults \in Nat

Events == 1 .. MaxEvents

VARIABLES
    active,    \* webhooks.is_active
    count,     \* rows of webhook_events: events 1 .. count
    hook,      \* webhook_events.webhook_id
    status,    \* webhook_events.status
    retries,   \* webhook_events.retries
    batch,     \* events the dispatcher has fetched and not finished
    step,      \* the await the dispatcher is at
    faults,    \* database errors and restarts met so far
    attempts,  \* requests posted for each event
    accepted,  \* events some request of which the receiver accepted
    late       \* requests posted to each webhook after its deactivation

rows == <<active, count, hook, status, retries>>
memory == <<batch, step>>
ghosts == <<attempts, accepted, late>>
vars == <<rows, memory, faults, ghosts>>

\* What came of a request: the receiver accepted it and its answer arrived, or
\* accepted it and the answer was lost, or answered with an error, or the
\* request did not arrive.
Outcome == {"ok", "timeout", "rejected", "lost"}
Step == {"idle", "lookup", "post"} \cup Outcome

TypeOK ==
    /\ active \in [Webhooks -> BOOLEAN]
    /\ count \in 0 .. MaxEvents
    /\ hook \in [Events -> Webhooks]
    /\ status \in [Events -> {"pending", "delivered", "failed"}]
    /\ retries \in [Events -> 0 .. MaxRetries]
    /\ batch \subseteq 1 .. count
    /\ step \in Step
    /\ step = "idle" <=> batch = {}
    /\ faults \in 0 .. MaxFaults
    /\ attempts \in [Events -> Nat]
    /\ accepted \subseteq 1 .. count
    /\ late \in [Webhooks -> Nat]

Init ==
    /\ active = [w \in Webhooks |-> TRUE]
    /\ count = 0
    /\ hook \in [Events -> Webhooks]
    /\ status = [e \in Events |-> "pending"]
    /\ retries = [e \in Events |-> 0]
    /\ batch = {}
    /\ step = "idle"
    /\ faults = 0
    /\ attempts = [e \in Events |-> 0]
    /\ accepted = {}
    /\ late = [w \in Webhooks |-> 0]

-----------------------------------------------------------------------------
\* create_webhook_event; the webhook was drawn in Init.
CreateWebhookEvent ==
    /\ count < MaxEvents
    /\ count' = count + 1
    /\ UNCHANGED <<active, hook, status, retries, memory, faults, ghosts>>

\* delete_webhook only deactivates, and nothing activates a webhook again.
DeleteWebhook(w) ==
    /\ active' = [active EXCEPT ![w] = FALSE]
    /\ UNCHANGED <<count, hook, status, retries, memory, faults, ghosts>>

-----------------------------------------------------------------------------
\* get_pending_events: the rows it selects, and the first BatchLimit of them.
UnsentRow(e) == retries[e] < MaxRetries       \* mutant: the status is ignored
PendingRow(e) == status[e] = "pending"        \* mutant: the retries are ignored
Selected(e) == status[e] = "pending" /\ retries[e] < MaxRetries

Fetchable == {e \in 1 .. count : Selected(e)}

FetchPendingEvents ==
    /\ step = "idle"
    /\ Fetchable # {}
    /\ batch' = {e \in Fetchable :
                     Cardinality({f \in Fetchable : f < e}) < BatchLimit}
    /\ step' = "lookup"
    /\ UNCHANGED <<rows, faults, ghosts>>

\* The event in hand; the batch is worked through in created_at order.
Current == CHOOSE e \in batch : \A f \in batch : e <= f

StepAfter(done) == IF batch = {done} THEN "idle" ELSE "lookup"

Finish(done) ==
    /\ batch' = batch \ {done}
    /\ step' = StepAfter(done)

Write(e, newStatus, newRetries) ==
    /\ status' = [status EXCEPT ![e] = newStatus]
    /\ retries' = [retries EXCEPT ![e] = newRetries]

AlwaysActive(e) == TRUE   \* mutant: is_active is not looked at
IsActive(e) == active[hook[e]]

InactiveStatusKept == "pending"   \* mutant: the row is skipped, not failed
InactiveStatus == "failed"

SkipInactive ==
    /\ step = "lookup"
    /\ ~IsActive(Current)
    /\ Write(Current, InactiveStatus, 0)
    /\ Finish(Current)
    /\ UNCHANGED <<active, count, hook, faults, ghosts>>

LookUp ==
    /\ step = "lookup"
    /\ IsActive(Current)
    /\ step' = "post"
    /\ UNCHANGED <<rows, batch, faults, ghosts>>

\* deliver_webhook: one request; whether its outcome is recorded comes later.
Deliver ==
    /\ step = "post"
    /\ step' \in Outcome
    /\ attempts' = [attempts EXCEPT ![Current] = @ + 1]
    /\ accepted' = IF step' \in {"ok", "timeout"} THEN accepted \cup {Current} ELSE accepted
    /\ late' = IF active[hook[Current]] THEN late
               ELSE [late EXCEPT ![hook[Current]] = @ + 1]
    /\ UNCHANGED <<rows, batch, faults>>

AnyAnswer == step \in {"ok", "rejected"}  \* mutant: the HTTP status is ignored
Success == step = "ok"

RecordSuccess ==
    /\ Success
    /\ Write(Current, "delivered", 0)
    /\ Finish(Current)
    /\ UNCHANGED <<active, count, hook, faults, ghosts>>

\* The row after a failed request when the stored retries were read as n.
WriteFailure(e, n) ==
    IF n < MaxRetries THEN Write(e, "pending", n + 1) ELSE Write(e, "failed", 3)

RecordFailure ==
    /\ step \in Outcome
    /\ ~Success
    /\ WriteFailure(Current, retries[Current])
    /\ Finish(Current)
    /\ UNCHANGED <<active, count, hook, faults, ghosts>>

-----------------------------------------------------------------------------
Fault == faults < MaxFaults /\ faults' = faults + 1

\* The lookup fails: `?` leaves the whole batch for the next tick.  A restart
\* forgets the batch, too.
LoseBatch ==
    /\ step # "idle"
    /\ Fault
    /\ batch' = {}
    /\ step' = "idle"
    /\ UNCHANGED <<rows, ghosts>>

\* The outcome is not written; the error is ignored.
WriteLost ==
    /\ step \in Outcome \/ (step = "lookup" /\ ~IsActive(Current))
    /\ Fault
    /\ Finish(Current)
    /\ UNCHANGED <<rows, ghosts>>

\* The stored retries cannot be read: unwrap_or(0) starts them over.
ReadLost ==
    /\ step \in Outcome
    /\ ~Success
    /\ Fault
    /\ WriteFailure(Current, 0)
    /\ Finish(Current)
    /\ UNCHANGED <<active, count, hook, ghosts>>

Dispatch ==
    \/ FetchPendingEvents
    \/ SkipInactive
    \/ LookUp
    \/ Deliver
    \/ RecordSuccess
    \/ RecordFailure

Next ==
    \/ CreateWebhookEvent
    \/ \E w \in Webhooks : DeleteWebhook(w)
    \/ Dispatch
    \/ LoseBatch
    \/ WriteLost
    \/ ReadLost

\* The loop runs on an interval and every request has a 10 second timeout.
Spec == Init /\ [][Next]_vars
FairSpec == Spec /\ WF_vars(Dispatch)

-----------------------------------------------------------------------------
\* A row marked delivered was accepted by its receiver at least once, whatever
\* was lost or restarted on the way.
DeliveredWasAccepted ==
    \A e \in 1 .. count : status[e] = "delivered" => e \in accepted

\* An event is posted at most MaxRetries times, and every database error or
\* restart adds at most MaxRetries - 1 requests (at least one) to all events
\* together.
MoreAttempts == IF MaxRetries = 1 THEN 1 ELSE MaxRetries - 1
AttemptsAreBounded ==
    \A e \in 1 .. count : attempts[e] <= MaxRetries + MoreAttempts * faults

\* A deactivated webhook receives at most the one request that was already past
\* its lookup.
AtMostOneLateRequest == \A w \in Webhooks : late[w] <= 1

\* A settled row never changes again: a stale batch cannot reopen it.
KeepsSettled(e) == status[e] # "pending" => status'[e] = status[e]
SettledIsFinal == [][\A e \in 1 .. count : KeepsSettled(e)]_vars

\* No event is starved by older ones that keep failing: every event the
\* dispatcher may fetch is settled or runs out of retries.
QueueDrains == \A e \in Events : e \in Fetchable ~> e \notin Fetchable

\* "// Max retries exceeded" (webhook_dispatcher.rs:112): an event whose retries
\* are used up is marked failed.
ExhaustedIsFailed ==
    \A e \in 1 .. count : retries[e] >= MaxRetries => status[e] = "failed"
=============================================================================
