# A TLA+ model of Stellar Insights

Stellar Insights is a Rust system. Soroban contracts publish hashes of analytics
snapshots on the Stellar network and govern themselves (`contracts/`), a backend
service ingests ledgers, computes metrics, submits snapshots and delivers
webhooks (`backend/`), and a Next.js front end reads its HTTP API (`frontend/`).

This directory holds TLA+ models of the parts in which the order of steps, time,
failures or restarts decide what is correct, TLC configurations that check them
on small instances, and TLAPS proofs of theorems for every value of the
constants. `PROJECT.json` names, for every definition that models code, the
lines it stands for; it also lists the hazards of the code with the properties
that cover them.

Contents: [inventory](#1-inventory) ·
[modules](#2-modules-and-how-they-correspond-to-the-code) · [runs](#3-runs) ·
[fairness](#4-fairness) · [proofs](#5-proofs) · [findings](#6-findings) ·
[assumptions and bounds](#7-assumptions-and-bounds) ·
[not modelled](#8-not-modelled) · [plan](#9-plan)

## 1. Inventory

### How the parts interact

```
 users, deployer ── transactions ──> governance ── set_*_by_governance ──> analytics
                                     snapshot-contract, stellar_insights <── admin
                                            ^                |
                        submit_snapshot     |                | events, reads
                        (RPC, retried)      |                v
 backend:  SnapshotService ── ContractService         indexers, verifiers
           replay ── contract_events table ── checkpoints
           ledger ingestion ─┐
           corridor handlers ┴─ RPC client: with_retry + breaker + limiter ──> RPC service
           webhook dispatcher <── webhook_events table ── event producers
           job scheduler ── metrics sync ── cache invalidation ── cached HTTP handlers
           sockets at /ws <── broadcast channel ── handlers that update
           main: spawns the tasks, broadcasts shutdown, closes the database
```

The contracts run one transaction at a time; a panic or an error leaves no
effect. The backend is one process of tokio tasks over one SQLite database: tasks
interleave at awaits, share `Arc<Mutex/RwLock>` state, and may be dropped at any
await by the shutdown signal.

### Components

| component | state | operations | what is hard | what makes it correct | status |
|---|---|---|---|---|---|
| governance contract | admin, quorum, period, proposals, votes, tallies | initialize, create (plain, parameter), vote, finalize, mark_executed | votes racing the deadline; a tally kept beside the votes; a cross-contract call inside an operation; `now + period` overflow | the tally is a recount; a verdict fits its votes for ever; execution and effect are one step | modelled, proved |
| analytics contract | admin, governance, paused, latest epoch, snapshot map | initialize, submit, set_admin, pause, unpause, set_governance, two `*_by_governance` | the latest epoch kept beside the map; several authorities over one contract | an append-only log of epochs | modelled, proved |
| snapshot contract | admin, metadata, stopped, paused, latest epoch, map | initialize, stop, resume, transfer, upgrade, submit, pause, unpause, three verifications | two separate switches (stopped, paused) guard different operations; anyone submits | verifications agree and are never taken back | modelled, proved |
| stellar_insights contract | admin, paused, latest epoch, map, event log | initialize, submit, pause, unpause | indexers only see events | events rebuild the map | modelled, proved |
| snapshot publication | snapshots table, transactions in flight, the contract | store, submit with retries, verify | a retry after a confirmation that only arrived late; another submitter | what the backend put on chain has its row, what was reported is on chain | modelled, proved |
| RPC circuit breaker and retry | circuit state and counters under a lock | is_open, record outcome, with_retry | requests run outside the lock; calls are dropped; time | counters are evidence; an open circuit sends nothing | modelled, safety proved |
| RPC client | the corridor handlers' second breaker, pages fetched | retried calls, paginated fetches, list and detail handler | a breaker around a client that has its own | requests come back; both circuits close again | partly, safety proved |
| RPC rate limiter | tokens, capacity, queue permits | acquire, observe_headers, on_rate_limited | headers of concurrent answers out of order | the queue gets on | modelled, safety proved |
| webhook delivery | webhooks, webhook_events | create, deactivate, fetch batch, look up, post, record | lost answers, lost writes, restarts, stale batch, batch limit | delivered means accepted; bounded attempts; nobody starves | partly, safety proved |
| ledger ingestion | ledgers, transactions, payments, fee bumps, merges, cursor | run_ingestion and its four stages, save_cursor | each stage fails on its own; restart between rows and cursor | no silent gap, bounded replay, progress | modelled, safety proved |
| event replay | event store, marks, snapshots, checkpoints, metadata, state builder | start, batch, checkpoint, resume, delete | limits that drop events, two sessions on one store, deletion under a session | nothing behind a checkpoint is forgotten; the state is the fold of the range | modelled, safety proved |
| cache and invalidation | entries with a time to live, the anchors table | cached_query, delete_pattern | a query or a scan that others interleave with | what an invalidation passed is gone; nothing is stale for ever | partly, safety proved |
| metrics ingestion, scheduled jobs | the anchors table | sync_all_metrics, the jobs that invalidate | a sync that lists nothing succeeds at every tick | payments reach the table | partly |
| startup, tasks, shutdown | the signal, tasks, requests, sockets | serve, signal, drain, clean-up | requests that nothing ends, tasks that do not listen, a signal that comes early | a shutdown whose requests have ended ends | partly, safety proved |
| websocket broadcasting | a bounded channel, a send task per socket | connect, ping, receive, write, broadcast | a slow reader | nobody who is behind, and reads, is left behind | partly, safety proved |
| verification rewards | records, totals | verify_and_reward | five statements without a transaction | the overrun is bounded, the total is recorded | modelled, safety proved |

The remaining components are listed in `PROJECT.json` with the reason why they
are left out; [section 8](#8-not-modelled) summarises it.

## 2. Modules and how they correspond to the code

| module | models | built on |
|---|---|---|
| `EpochLog` | abstract: an append-only log of epoch → hash, epochs increasing | implemented by the three snapshot contracts |
| `Analytics` | `contracts/analytics/src/lib.rs` | `EpochLog` |
| `Governance` | `contracts/governance/src/lib.rs` | an instance of `Analytics` |
| `SnapshotContract` | `contracts/snapshot-contract/src/lib.rs` | `EpochLog` |
| `SnapshotPublication` | `services/snapshot.rs`, `services/contract.rs` | extends `SnapshotContract` |
| `StellarInsights` | `contracts/stellar_insights/src/lib.rs` | `EpochLog` |
| `CircuitBreaker` | `rpc/circuit_breaker.rs`, `rpc/error.rs` | |
| `RpcClient` | `rpc/stellar.rs`, `api/corridors_cached.rs` | extends `CircuitBreaker`, and a second instance of it |
| `RateLimiter` | `rpc/rate_limiter.rs`, `retry_request` of `rpc/stellar.rs` | the operators of `CircuitBreaker` |
| `WebhookDispatcher` | `services/webhook_dispatcher.rs`, `webhooks/mod.rs` | |
| `LedgerIngestion` | `ingestion/ledger.rs`, its loop in `main.rs` | an external RPC service |
| `ReplayEngine` | `replay/` | |
| `CachedQuery` | `cache/`, `api/anchors_cached.rs`, `ingestion/mod.rs`, `jobs/` | |
| `VerificationRewards` | `services/verification_rewards.rs` | |
| `WebSocketHub` | `websocket.rs` | |
| `Shutdown` | `shutdown.rs`, the end of `main.rs` | extends `WebSocketHub` |

(Paths without `contracts/` are under `backend/src/`.) `MC*` modules and the
`.cfg` files beside them are the small instances. `MCContracts` puts two
contracts on one ledger, where they share clock and users; `MCServices` adds to
`CachedQuery` three parts that share nothing with it or each other, and each
behaviour runs one of the four. `*Proofs` modules hold the theorems. Operators
marked `mutant:` are plausible bugs of the definition that follows them. No
specification uses them; they show that each property notices one.

**Contracts.** A variable is a storage key; a key that is not set has a value of
its own (`NoAddress`, `NoSnapshot`) or the default that `unwrap_or` gives it. An
operation is one action: its guard is the conjunction of the checks that do not
panic or return an error, because a failed transaction changes nothing.
`require_auth` is membership in `Users`. Ledger time is `now` and moves between
transactions. `Governance` calls `A!SetAdminByGovernance` and
`A!SetPausedByGovernance` inside `MarkExecuted`, in the same step; when the
call is not enabled the whole transaction is not, which is what a panic in the
callee does. Transactions that address the analytics contract directly
(`AnalyticsStep`) interleave with those of governance. In `SnapshotContract` the
guards of `stopped` and of `paused` are where the code has them, which is not
everywhere. `StellarInsights` keeps the events it emits, in ledger order; what an
indexer makes of them (`Indexed`) is the last one of each epoch.

**SnapshotPublication.** A job is one call of `generate_and_submit_snapshot`:
`step` is where it is between its awaits, `rows` the backend's table. It stores
its row first; each attempt simulates against the contract of that moment, sends
a transaction and waits for it. A sent transaction is included after any delay
or never, also after its job has given up, and it runs the contract's own
`SubmitSnapshot`, refusals included. The contract's other users and its admin go
on using it: they submit any hash at any epoch, the hashes of the jobs included,
which are public once a transaction is sent. Without a contract service a job
ends after its row (`"stored"`). A snapshot is its hash, which contains the time
of its generation.

**CircuitBreaker.** `Admit`/`Refuse` are `is_open` under the lock together with
the decision of the caller; the request then runs without the lock (`pc =
"calling"`), and `Succeed` or one of the three `Fail*` records its outcome under
the lock, in whatever state the circuit is by then. The three failures are the
classes `with_retry` and `record` treat differently: transient (counted and
retried), server (counted, not retried) and other (neither). `Drop` is the
future dropped at an await. `Open(left)` carries what is left of the timeout, so
no clock is needed.

**RpcClient.** A handler's request is a list of fetches, each of some pages, each
page one client call through the client's breaker. Fetches of one page and those
of the detail handler run in a second `with_retry` with a breaker of the
handlers' own (`Outer`, an instance of `CircuitBreaker`), which classifies the
inner error by the words of its message. The bare fetches of the list handler
turn an error into an empty result.

**RateLimiter.** A throttled attempt takes a permit, waits for a token, sends,
returns the permit and lets the limiter look at the answer's headers, one look
under the lock at a time. Tokens are whole; a tick is the time one token takes,
whatever the rate. `Burst = 0` stands for any burst size below one token. What
the breaker does not count (a 4xx answer, one that cannot be parsed) is `"other"`.

**WebhookDispatcher.** Events are rows in `created_at` order. `batch` and `step`
are the dispatcher's memory between its awaits: fetch, look the webhook up,
post, record. A post has four outcomes, because an accepted request whose answer
is lost looks like a failure. `LoseBatch` is a failed look-up or a restart,
`WriteLost` an ignored error of the update, `ReadLost` the `unwrap_or(0)` on the
stored retries. `attempts`, `accepted` and `late` are history variables.

**LedgerIngestion.** `stage`, `next` and `end` are the task's program counter over
a batch. Each stage may fail alone, as in the code, which logs and goes on.
`CutShort` is every error that ends the run, a crash, or the shutdown signal, at
any await and possibly with some of a ledger's rows already inserted. `KeepCursor` is
an answer without a cursor, after which nothing is saved. The RPC
service is external: it serves the ledgers after the cursor, and the cursor it
returns is the sequence of the last ledger it served, as in the client's own
mock. A payment carries a count of its rows, since its insert has no conflict
clause; fee bumps and merges have one, so a flag per ledger is enough.

**ReplayEngine.** `Log` is `contract_events` in the order of the query. A session
goes through ranges of ledgers; for each event it asks whether it is marked,
whether its snapshot exists, inserts it and marks it, in four awaits with
retries. The events it still has to do are a set of positions in `Log`, of which
the least is in hand. An event is also applied to the state in memory.
Checkpoints, which are ordered by the time they were created, metadata and the
final state are rows; a session may start at another's checkpoint, be
deleted while it runs, fail at any statement or end with the process. Dry runs
and modes that build no state are part of `Modes`.

**CachedQuery.** `version` counts the writes to the anchors table; an answer is
the version it was computed from. A request looks up, reads, asks the network
and stores. A job invalidates with `delete_pattern`: a SCAN of the next part of
the key space, then an UNLINK of what it found. The corridor job syncs and then
invalidates keys that are no anchor pages, so its scan is empty. A sync may write
the anchors, be of no effect because each anchor fails by itself, or fail as a
whole. Redis may fail at every call, a request may be dropped, entries expire.
`floor` and `late` are ghosts that
remember what a scan has passed.

**VerificationRewards.** `stage` is a request's place among its five statements;
`today` counts the day's records, `recorded` sums their points and `total` is
the user's row. Each statement may fail, and the client may go away.

**WebSocketHub and Shutdown.** A socket's send task selects between its ping and
the channel. `unread` is the channel's content for it, `missed` the overflow.
An error of the channel disables that branch until another one has been taken
(`"lagged"`). `phase` is where `main` is: serving, draining the requests, then
the four steps of the clean-up with their time-outs. A background task is
`Whole`, `Cut`, `Napping` or `Deaf` by how it treats the signal: `Napping` is the
ingestion loop, whose sleeps are in the body of its select branch, where the
signal does not reach it. A task may also end by itself (`TaskEnds`): by a panic,
or by returning, as the Slack bot does when it has lagged. A signal that arrives
before the server is polled for the first time is lost. A request ends at some
time or never (`EndRequest`), and so does a write to a socket.

## 3. Runs

The states are distinct states of complete runs.

| run | instance | states | shows |
|---|---|---|---|
| `contracts` | 2 users, 1 other contract, epochs 0..3, 2 hashes, time 0..2 | 881 052 | `LatestIsNewest`, `RecordedInEpochOrder`, `IndexersAgree`, `InsightsIsEpochLog` |
| `governance` | 3 users, 1 proposal, both contracts complete, period 0 or 1, quorum 2, `MaxU64` 2, time 0..2 | 976 569 | `TallyCountsVotes`, `OutcomeMatchesVotes`, `DecidedAfterDeadline`, `BallotsAreFinal`, `ExecutionTakesEffect`, `GovernedHistoryIsEpochLog` |
| `publication` | 2 jobs of 2 attempts, epochs 0..2; the hashes of the jobs and a short string from other users | 1 428 294 | `VerificationsAgree`, `PublishedHasRow`, `ReportsAreTrue`, `ImplementsEpochLog` |
| `rpc_client` | a list handler that is always asked again, a detail handler that may hang up, thresholds 2, timeout 1, 2 attempts in each layer, 2 pages | 141 192 | `CountersAreEvidence`, `SwitchesOnEvidence`, `FailsFast`, `RequestsReturn`, `BothRecover` |
| `webhook_delivery` | 1 webhook, 3 events, batches of 2, 3 retries, 2 faults | 203 491 | `DeliveredWasAccepted`, `AttemptsAreBounded`, `AtMostOneLateRequest`, `SettledIsFinal`, `QueueDrains` |
| `webhook_exhausted` | 2 webhooks, the same events, 1 fault | – | violated: `ExhaustedIsFailed` |
| `ingestion` | ledgers 2..4, batches of 2, 1 payment each, 1 run that saves no cursor | 140 283 | `NoSilentGap`, `ChildrenHaveParents`, `ReplaysAreBounded`, `CursorAdvances`, `CatchesUp` |
| `ingestion_twice` | the same | – | violated: `PaymentsAreStoredOnce` |
| `replay` | 2 sessions, 4 events in 3 ledgers, batches and checkpoint interval of 2, 1 retry, 2 faults | 552 860 | `MarkedIsStored`, `NothingBehindACheckpointIsForgotten`, `BuiltStateIsFold`, `ReplaysEnd` |
| `replay_resumed` | the same | – | violated: `ResumedStateIsWhole` |
| `services` | rewards: 2 requests, limit 2; cache: 2 requests, 1 page, 3 jobs; limiter: 2 callers, 1 permit; shutdown: 1 socket, 2 requests, one task of each kind | 221 973 | `OverrunIsBounded`, `TotalIsRecorded`, `InvalidatedIsGone`, `EventuallyFresh`, `SomebodyIsSent`, `ShutdownEnds`, `NobodyIsLeftBehind` |
| `metrics_sync` | 1 request, 1 job, 3 anchors | – | violated: `SyncReachesDatabase` |

The modules' `TypeOK` is not among the runs' properties, because it is proved.
Symmetry is used only where identifiers are compared for equality alone and no
liveness property is checked.

What the properties say:

- *Contracts.* The latest epoch is the greatest stored one, and of two stored
  epochs the greater is the later. The tally is a recount of the votes; a verdict
  fits its votes and the quorum and came after the whole configured period; votes of
  a decided
  proposal never change; an executed proposal has had its effect on the analytics
  contract in the same step. Governing never rewrites what was published. A
  replica that applies the events has the map.
- *Publication.* The contract's three verifications agree. A transaction of a job
  that took effect has its row in the database, and the contract verifies that
  row's hash at its epoch; nothing is said of the epochs at which others submit
  the same hash. A job that reported success is on chain with
  its own hash, and exactly one of its transactions took effect, whatever others
  submitted meanwhile.
- *RPC client.* A counter is the number of outcomes recorded since it was reset,
  a switch of the circuit rests on enough of them, an open circuit sends nothing
  before its time. Requests come back in a bounded number of steps of their own,
  and once the endpoint is healthy both circuits close.
- *Webhooks, ingestion.* What is stored as delivered was accepted by the receiver.
  Requests for one event are bounded by the retries and the faults. A deactivated
  webhook gets at most the one request in hand. A settled row stays settled.
  Nothing the cursor has passed is missing without a report; children have their
  parent's row; a payment is stored once, and once more for each run that saved no
  cursor; and both queues move on.
- *Replay.* A mark follows its snapshot. Whatever lies behind a checkpoint was
  marked, failed or cut off by the limit. Between batches the built state is the
  fold of the session's range without the events it lost. A session comes to its
  end whatever fails.
- *Services.* Concurrent requests pass the daily limit by at most their number
  less one. The total never has more points than the records. What a scan has
  passed does not come back but for answers already on their way, and no stale
  answer stays. Throttled requests do not get stuck. A shutdown whose requests
  have ended ends, whatever the tasks and the sockets do. A socket that fell
  behind hears again, fails, or ends with the process, if each write to it ends.

Why the instances are large enough:

- *Epochs 0..3.* 0 is the rejected argument; three others allow a gap, a
  duplicate and an epoch before the latest. Two jobs need only two.
- *Governance.* With a quorum of 2 of 3 voters the verdict depends on turnout
  and majority independently. Time 0..2 with a period of 1 puts votes before, at
  and after the deadline; with a period of 0 nobody can vote; `MaxU64 = 2` makes
  the checked addition panic at the last instant, where it would otherwise wrap
  to a deadline long past. Other quorums are proved. That a second proposal
  leaves the first alone is proved (`DenseCorrect` and the theorems that use
  it).
- *Publication.* Two attempts let the first transaction arrive while the second
  is simulated, sent or refused.
- *RPC client.* With thresholds of 2 one outcome never decides alone. Two
  handlers leave one late answer while the other probes. `MaxStreak = 2` is where
  equal outcomes stop being counted.
- *Webhooks.* Three events and batches of two: one waits behind two that may
  fail. Two faults let a lost write follow a lost read.
- *Ingestion.* Three ledgers in batches of two: a full batch, a batch the end of
  the chain cuts off, and an empty one.
- *Replay.* The second batch has one event more than its limit and an event the
  processor does not know; two contracts published the same epoch; two faults let
  a restart follow a failed insert.
- *Services.* Two requests race for the last place of the day; two jobs scan one
  page while two requests store it (a scan of several pages in parts is proved,
  `InvalidatedCorrect`); one permit for two callers; a channel of two
  messages and four updates let a reader lag twice.

Deadlock is not checked (`CHECK_DEADLOCK FALSE`) where an instance ends because
a bound of the model is reached (`MaxTime`, `MaxProposals`, the finite sets of
epochs, `MaxEvents`, `MaxUpdates`, `MaxRecorded`, the sessions) or because the
program ends (`Shutdown`). It is checked in the RPC client and ingestion runs,
where nothing ever stops.

## 4. Fairness

Only the specifications with `Fair` in their name assume any, and only the liveness
properties need it. Faults, restarts, deactivations and hang-ups are never fair.

- `RpcClient` (over `CircuitBreaker`): time passes for an open circuit; each
  request in flight ends, because the HTTP client has a timeout; a caller in
  backoff asks again, because its sleep ends; a handler takes its next step; the
  list handler is requested again and again. Nothing is assumed of callers that
  may be dropped, nor of the endpoint: `BothRecover` speaks of behaviours in
  which it stays healthy.
- `WebhookDispatcher`: weak fairness of the dispatcher's own steps, which run in
  a loop on a five-second interval with a ten-second request timeout.
- `LedgerIngestion`: weak fairness of the task's own steps as a whole, never of
  the success of one of them: `FailToPersist` and the stages that store nothing
  are as fair as the others. `CatchesUp` therefore holds whatever cannot be
  stored. Answers without a cursor are bounded with the other faults: a service
  that never gave one would keep ingestion at its first batch.
- `ReplayEngine`: weak fairness of each session's steps, failing ones included.
- `CachedQuery`: requests and jobs are polled and entries expire. For
  `SyncReachesDatabase` alone a sync is strongly fair, that is, the database and
  the network do not fail it every time; the property is violated in spite of that.
- `RateLimiter`: the bucket refills, and when a token is there some waiting caller
  takes one. Which one is not said: the callers poll, and none is owed the next
  token.
- `Shutdown`: `main` goes on and its time-outs fire; a socket's task is polled and
  its ping timer fires; and a task whose channel has messages again and again
  takes that branch at some time (strong fairness), because `select!` begins with
  a random branch. Nothing is assumed of requests or of writes to sockets, which
  have no time-out: `ShutdownEnds` begins where the last request has ended, and
  `NobodyIsLeftBehind` speaks of a client whose writes end, with or without
  success.

## 5. Proofs

Every invariant, action property and refinement that a passing run checks is
also a theorem. A theorem holds for any sets and numbers that satisfy the
assumptions on the constants (`AnalyticsConstants`, `GovernanceConstants`, and so
on): epochs are naturals, "not set" is not an address or an entry, what is
counted is finite (the users of governance, the requests for a reward, the
callers of the limiter), jobs have different hashes, limits are naturals, the log
of events is ordered by ledger. They are `ASSUME`d, so TLC evaluates them in the
runs; a module that instantiates another asserts the other's
(`ContractsConstants`, `ServicesConstants`).

**`ContractsProofs`.** *Analytics:* `TypeCorrect`, `LatestIsNewestCorrect`,
`RecordedInEpochOrderCorrect` and `EpochLogRefinement`. The properties are not
inductive by themselves. `IInv` adds that every stored epoch is positive and at
most `latestEpoch`, so that the contract's comparison with one number is a
comparison with the whole history; that no entry has a time stamp later than
`now`, so that a new one has the greatest; and that nothing is stored before
`initialize`, so that the map it resets was empty. `HistorySteps` reduces every
operation to three kinds: none, initialization, submission. The refinement maps
a submission to `EpochLog`'s `Publish` and everything else to a stutter.

*Stellar Insights:* `InsightsTypeCorrect`, `EventsInOrderCorrect`,
`IndexersAgreeCorrect` and `InsightsLogRefinement`, for the ledger both contracts
are on. `InsightsInv` relates the map to the events in both directions: an event
has its entry in the map (`EventsAreStored`), an entry has its event
(`StoredIsEmitted`), and the last event is of `latestEpoch` (`LastIsLatest`), so a
new one keeps the order. An indexer agrees because no epoch has two events.
`ContractsShareTheLedger` says that what TLC runs is a behaviour of either
contract: a transaction of the one is a stutter, or a tick, of the other.

**`GovernanceProofs`.** `GovernanceRefinesAnalytics` shows that every step of
the composition is a step of the analytics contract or leaves it alone; with the
theorem of `ContractsProofs`, `GovernedHistoryCorrect` follows: governing the
contract cannot rewrite what it published. `IInv` for the rest is the
conjunction of the type invariant, the tally being a recount, the verdict
fitting the tally, the deadline of a decided proposal being past, the
identifiers being dense with the deadlines that the period gives (the 64-bit sum
is the sum where its check lets it pass, `DeadlineIsExact`), and nothing
existing before initialization. They need each other: a recount stays right only
if a new proposal never reuses an identifier, which needs density, which needs
that `initialize` does not run twice; a verdict stays right only if no vote
follows it, which needs the status, and the quorum must not change under it.
`RecountAfterVote` is the lemma on cardinalities. The action properties
(`LifecycleCorrect`, `BallotsFinalCorrect`, `ExecutionCorrect`) are proved
operation by operation from the same invariant.

**`SnapshotPublicationProofs`.** `PublicationUsesContract` shows that every step
of the composition is a step of the contract or leaves it alone, so the
contract's theorems (`AgreementCorrect`, `EpochLogRefinement`,
`VerifiabilityCorrect`: what was published can be verified for ever) are proved
from the contract's operations with `CInv` (types, the latest epoch bounds the
stored ones, metadata is set) and hold while the backend publishes.
`RowCorrect` and `ReportsCorrect` need `JInv`: a job has its row before its
first attempt (`RowFirst`), attempts it has not reached have sent nothing
(`LaterAttemptsUnsent`, `NewIsUnsent`), the entry of a transaction that succeeded
is on chain with the job's hash (`SuccessIsOnChain`), at most one did
(`OneSuccess`), and a result that claims success saw it (`ClaimsSucceeded`). The
converse, that the job's hash on chain is the job's doing, does not hold: anybody
may submit it.

**`RpcClientProofs`.** *The breaker alone:* `TypeCorrect` (counters stay below
their thresholds, and attempts below their maximum), `EvidenceCorrect`,
`SwitchesCorrect` and `FailsFastCorrect`, for any number of callers. The invariant
is the type invariant with `CountersAreEvidence`; a switch is justified because
the counter it compares is the number of recorded outcomes.

*Under the handlers:* `ClientUsesBreaker` shows that each step of the handlers,
with their retries, their own breaker and their dropped futures, is a step of the
inner breaker or leaves it alone, so `ClientBreakerCorrect` carries the three
theorems over. It rests on `OneCallCorrect` and `ClientTypeCorrect`: a handler is in
at most one call, the one its fetch waits for, and a call that is over has left
nothing behind (`Rest`).

**`WebhookDispatcherProofs`.** `DeliveredCorrect`, `AttemptsCorrect`,
`LateRequestCorrect` and `SettledCorrect`. The invariant relates the
dispatcher's memory to the rows: what is in the batch was selected and is not
settled (`BatchIsSelected`), a success in hand was accepted
(`SuccessWasAccepted`), a late request is the one in hand (`LateIsInHand`),
and requests are counted by the stored retries plus what each fault can hide
(`RequestsAreCounted` with `Allowance`). Ordering by creation time takes the
least element of a set of naturals.

**`LedgerIngestionProofs`.** All four safety properties of the run, for any chain
and batch size. `IInv`: a batch lies behind the cursor's next ledger and before
its end (`InBatch`); whatever is before the task's position is stored or was
reported (`NothingLost`); the stages after the row find it in hand
(`RowInHand`); copies of a payment are bounded by the runs that saved no cursor
(`CopiesBounded`).

**`ReplayEngineProofs`.** `MarkedCorrect`, `NothingForgottenCorrect` and
`BuiltStateCorrect`, for any log, batch size and interval, and any number of
sessions and faults. The properties speak of what a session has left behind, the
invariant of what it is doing: what it has in hand belongs to its batch
(`HandIsOfBatch`) and comes after what it has done (`DoneComesFirst`), what it
gave up lies behind it (`LostIsBehind`), and an event is marked only when its
epoch is stored (`MarkIsBacked`), which holds although others insert, because a
stored snapshot is replaced by nothing. `NothingIsSkipped` says of every step
what the property says of checkpoints: from the beginning of the chain of resumed
sessions to the position of this one, each event is marked or was given up by one
of the chain. It needs the query's limit to cut a batch at its end, which is
where the first events of an ordered log are its least positions. `StateIsFold`
holds at every step and becomes `BuiltStateIsFold` between two batches.

**`ServicesProofs`.** `PartsRunTheComponents` shows that a behaviour of the run is
one of each of the four parts, to which the theorems then apply.

- *Cache* (`InvalidatedCorrect`). The cache cannot be spoken of alone: an answer
  no scan has overtaken is as new as the last scan of its page while it is still
  in a request's hands (`AnswersAreNotOvertaken`), and no scan is newer than the
  table (`ScansAreInThePast`). `WritesAreCounted` is for the types.
- *Rewards* (`OverrunCorrect`, `TotalCorrect`). The requests that have passed the
  limit and not yet recorded, together with the day's records, stay below the
  limit plus the number of requests. The total and the points still owed to it
  stay within the records (`NoPointTwice`); what is owed is a set with one pair
  for each point of a request between its two statements (`Owed`), so that a sum
  over the requests is a cardinality, of which the library has the facts.
- *Limiter* (`QueueCorrect`, `BucketCorrect`). Permits are never outnumbered; and
  whatever was configured and whichever headers are believed, in whatever order,
  the bucket has room for a token, without which waiting for one would never end.
- *Shutdown and sockets* (`DrainCorrect`, `EarlySignalIsLost`, `ChannelCorrect`).
  No request is left when the clean-up begins; a signal that came before the
  server was polled never starts a drain, because the only signal that is listened
  for is spent (`SignalComesOnce`); a socket misses messages only while its share
  of the channel is full. These three and the two of the limiter
  are proved only, beside the liveness properties that TLC checks of the same
  modules.

**Only model-checked.** The nine liveness properties (`RequestsReturn`,
`BothRecover`, `QueueDrains`, `CatchesUp`, `ReplaysEnd`, `EventuallyFresh`, and
`SomebodyIsSent` with `ShutdownEnds` and `NobodyIsLeftBehind` of the services): the
prover does not reason about fairness or ENABLED. The violated properties of
section 6 are shown by counterexamples of TLC.

## 6. Findings

Each has a run that expects the violation of one property.

1. `webhook_exhausted`: an event that failed three times stays `pending` for
   ever. The query stops selecting it at three retries, one short of what the
   branch "Max retries exceeded" needs to see.
2. `ingestion_twice`: a run cut short between a batch's payments and its cursor
   stores the payments twice, since their table has no unique key; the cursor is
   saved "for restart safety".
3. `replay_resumed`: a session resumed from a checkpoint builds its state from an
   empty one and stores the result as the state of the replay, while the document
   promises to "Resume from any checkpoint".
4. `metrics_sync`: `sync_anchor_metrics` passes offset and limit in each other's
   place (`ingestion/mod.rs:36`, `list_anchors(0, 100)`), lists no anchor, and
   succeeds; nothing is synchronised.

Observed in the code and built into the models without a run of their own:

- *Contracts and publication.* A stopped snapshot contract still accepts
  submissions: `submit_snapshot` looks at `Paused` only (`lib.rs:252-254`), while
  the contract calls the switch "emergency halt active" (`lib.rs:47`). The
  backend's signing is a stub that refuses; `submit_to_contract` of the snapshot
  handler is ignored (`snapshot_handlers.rs:37`, `54-65`);
  `version_hash_and_submit` has no caller. Migrations 002 and 022 both create a
  table `snapshots`.
- *RPC.* A late success from before the circuit opened closes it at once
  (`circuit_breaker.rs:116`). `half_open_max_calls` is read by nothing, while the
  module's doc promises "a limited number of test requests"
  (`circuit_breaker.rs:4`). Refusals of the inner breaker and 4xx answers count as
  failures of the outer one, and the paginated fetches hide the cause in a
  context, so that the outer layer never retries them. A failed list is answered,
  and cached, as an empty one (`corridors_cached.rs:373-378`). The limiter
  throttles only `retry_request`, which one function uses (`stellar.rs:1405`),
  although `RPC_RATE_LIMITING.md:3` speaks of every call. A full queue is recorded
  as a failure of the endpoint, so more than 100 throttled requests at a time can
  open the circuit for everybody. A 429 holds back only the caller that got it.
  A throttled request that was admitted before the circuit opened waits for its
  token and is then sent although the circuit is open (`stellar.rs:1498-1505`);
  `FailsFast` speaks of the fetches that are not throttled.
- *Webhooks and ingestion.* The delivery id is fresh for every request, so a
  receiver cannot recognise a repetition (`webhook_dispatcher.rs:138`). A ledger
  that cannot be stored is passed by the cursor and only logged (`ledger.rs:91`),
  which is why `NoSilentGap` says "stored or logged"; an empty answer resets
  `last_ledger_sequence` to 0 while the cursor stays (`ledger.rs:252`).
- *Replay.* The HTTP handler composes a processor without members
  (`replay_handlers.rs:124`), to which every event is unknown, and a constant
  session id; filters are never bound; pause and resume do nothing; an interrupted
  session stays `InProgress`; a real run may resume the checkpoint of a dry one.
- *Cache.* The handlers that update an anchor do not invalidate
  (`handlers.rs:200`), although `CACHING_IMPLEMENTATION.md:38` says "On anchor
  metrics update". When the network does not answer for an anchor its row's
  metrics take the place of the payments, and are cached.
- *Shutdown and sockets.* The first corridor monitor (`main.rs:548-553`) and the
  Slack bot never subscribe to the signal, contrary to `GRACEFUL_SHUTDOWN.md`,
  so the wait for the tasks reaches its ten seconds unless these have ended by
  themselves; the time-out detaches them, while the comment says "forcefully
  aborted" (`shutdown.rs:139`). The wait for the requests has no limit at all
  (`main.rs:1347`): one handler that hangs, in Redis or on a client that does
  not read its answer, keeps the process from ending, although
  `graceful_timeout` is the "Maximum time to wait for in-flight requests to
  complete" (`shutdown.rs:13-14`) and `GRACEFUL_SHUTDOWN.md` promises the same;
  nothing reads it. The ingestion loop does not hear the signal in its sleeps
  (`main.rs:418`, `426`). A socket's write has no time-out either
  (`websocket.rs:376`, `386`): a client that stays connected and stops reading
  blocks its send task for ever. A second signal is ignored, and one that
  arrives before the server is first polled is lost (`main.rs:1331`). Sockets
  are not closed by `close_all_connections`, the job scheduler is never stopped.
  A socket that lagged hears nothing until its next ping, up to 30 seconds, and
  may miss the notice of the shutdown; messages it missed are dropped silently.
  Subscribers of a channel never get its updates: `broadcast_to_channel` has no
  caller, and the realtime broadcaster's own map is filled by nothing. A
  detached receive task may insert its subscription again after the clean-up
  (`websocket.rs:408`).
- *Rewards.* The daily limit can be exceeded, by as much as `OverrunIsBounded`
  says. A user may be rewarded again for the same snapshot (no unique key in
  migration 013). Points whose update of the total failed are lost.

## 7. Assumptions and bounds

- Any address may be passed as an argument; only users sign. The two
  `*_by_governance` operations compare their argument with the stored address
  without asking for its authorization, and the model enables them accordingly
  for every address, of a user or a contract.
- `SnapshotContract.Upgrade` installs code with the same behaviour. What another
  code would do cannot be said of this one.
- Publication is checked with signing available (`CanSign`), as it will be when
  the stub is replaced; the theorems hold for both.
- Thresholds of the breaker may be 0 (they come from the environment) and then
  act as 1, as the code's comparison after the increment does.
- The database executes one statement atomically; statements of one handler
  interleave with everything else unless the code opens a transaction.
- Redis executes one command atomically; a SCAN sees each key of its part of the
  key space.
- Bounds of the models, all in guards or constants: `MaxTime` (ledger time),
  `MaxVersion` of `SnapshotContract` (upgrades) and of `CachedQuery` (updates of
  anchors), `MaxNetwork` (payments made), `MaxProposals`, `MaxU64` (the width of
  time stamps), `Epochs` (arguments in use), `MaxStreak` (where equal outcomes
  stop being counted), `MaxEvents`, `MaxFaults` (database errors, restarts,
  deletions, runs cut short or answered without a cursor), `MaxLedger` (the
  chain), `MaxCopies` (where equal rows stop being counted; one more than
  `ReplaysAreBounded` allows, so its violation would be seen), `MaxRecorded`
  (points handed out), `MaxRetryAfter`, `MaxUpdates` (broadcasts).

## 8. Not modelled

Left out inside the modelled components: read-only queries that no property is
about, the text of events and errors, `prepare_upgrade` and `migrate` (they only
emit events), time to live of storage entries; the durations of backoffs and
intervals; secrets, signatures and event filters of webhooks, and their creation,
which adds a row; the fields of ledgers, payments and fee bumps; replay's
filters and statistics; the `subscriptions` map, which nothing reads; the mock
mode of the RPC client. The producers of webhook events are in
`webhook_event_service.rs`, which `services/mod.rs` does not declare.

Left out entirely: components without state of their own that a step could
break (metrics computation, HTTP handlers, proxies, formatting, observability),
clients of external services that cache or forward (price feed, asset metadata,
mail, Telegram, Slack, secret store), credential checks, a mirror of governance
records that nothing feeds, payment indexing that only tests call, the realtime
broadcaster without connections, code that is not built (`secure-contract`, the
drafts under `contracts/` and `Sponsored Reserves Monitor`, `gdpr`, `graphql`),
the front end and the deployment files.

Most of the lines of the implementation are of these kinds: SQL statements with
their row types, HTTP handlers with their request and response types, documented
routes, parsers of what the network answers, metrics in floating point, message
texts. They are sequential and have no state that two steps could put at odds; a
model of them would repeat them. The modelled share of the code is therefore
small by lines, and covers the parts where interleavings, failures or time
decide.

## 9. Plan

Done, in this order: the epoch log and the analytics contract; governance
composed with it; the other two snapshot contracts; the circuit breaker; webhook
delivery; ledger ingestion; publication on the snapshot contract; replay; the
RPC client and the limiter; the cache with its jobs; rewards; sockets and
shutdown; proofs of the safety of all of them.

Worth adding, most important first:

1. Refinements of more abstract promises than the invariants: of the dispatcher
   by a queue that delivers at least once, of a replay by a fold that is resumed,
   with their theorems.
2. Asset revalidation, should it be started by something: oldest first, with
   failing assets that stay the oldest.
3. The payment indexer and the governance records, once the program uses them.
4. The contract's own access to the archived state (time to live of persistent
   entries), on which `VerificationsAgree` silently relies.
