---------------------------- MODULE ReplayEngine ----------------------------
(***************************************************************************)
(* Replay of stored contract events (backend/src/replay).  A session reads *)
(* the events of a range of ledgers in batches, gives each to the snapshot *)
(* processor (which writes `snapshots` and `processed_events`), applies it *)
(* to a state built in memory, leaves checkpoints on its way and stores    *)
(* the state at the end.  Sessions run side by side over one database,     *)
(* every statement is an await, and a new session may begin at a           *)
(* checkpoint of an earlier one.                                           *)
(*                                                                         *)
(* `base`, `inherited` and `lost` are not stored: they remember where the  *)
(* chain of resumed sessions began and what was given up on the way.       *)
(***************************************************************************)
EXTENDS Naturals, Sequences, FiniteSetsExt

CONSTANTS
    Sessions,           \* sessions started so far and to come
    Log,                \* contract_events in the order (ledger, id):
                        \* records [ledger, epoch, hash, known]
    NoHash,             \* no row of snapshots for this epoch
    NoSession,          \* the session of a start that is not a checkpoint
    StartLedgers,       \* the starts asked for (0 for All and To)
    Modes,              \* records [dry, full]: dry_run, and whether the mode
                        \* builds state (Full, Verification)
    EndLedger,          \* the end asked for, or the latest ledger
    BatchSize,          \* batch_size
    CheckpointInterval, \* checkpoint_interval
    MaxRetries,         \* max_retries
    MaxFaults           \* bound of the model on errors, restarts and deletions

Events == 1 .. Len(Log)

ASSUME ReplayConstants ==
    /\ Len(Log) \in Nat
    /\ \A i \in Events : Log[i].ledger \in 1 .. EndLedger /\ Log[i].hash # NoHash
    /\ \A i, j \in Events : i <= j => Log[i].ledger <= Log[j].ledger
    /\ EndLedger \in Nat /\ StartLedgers \subseteq 0 .. EndLedger
    /\ BatchSize \in Nat \ {0} /\ CheckpointInterval \in Nat \ {0}
    /\ MaxRetries \in Nat /\ MaxFaults \in Nat
    /\ Modes \subseteq [dry : BOOLEAN, full : BOOLEAN]
    /\ NoSession \notin Sessions

Epochs == {Log[i].epoch : i \in Events}
Hash == {Log[i].hash : i \in Events}
Ledgers == 0 .. EndLedger + 1
EmptyState == [ledger |-> 0, snapshots |-> [e \in Epochs |-> NoHash]]
Checkpoint == [session : Sessions, ledger : Ledgers, at : Nat]
Request == [from : [session : Sessions \cup {NoSession}, ledger : Ledgers],
            dry : BOOLEAN, full : BOOLEAN]
From(ledger) == [session |-> NoSession, ledger |-> ledger]
Unset == [from |-> From(0), dry |-> FALSE, full |-> FALSE]
Running == {"range", "fetch", "event", "lookup", "insert", "mark", "save",
            "persist", "completed", "failed"}

VARIABLES
    snapshots,   \* snapshots: epoch |-> hash
    marks,       \* processed_events
    checkpoints, \* replay_checkpoints: records [session, ledger, at], created in
                 \* the order of `at` (created_at)
    rows,        \* replay_sessions: the status of each session
    states,      \* replay_state: ledger |-> state
    pc,          \* what the task of a session does next
    config,      \* the request that started it
    start,       \* its first ledger
    current,     \* current_ledger
    pending,     \* events of its batch not yet processed
    tries,       \* attempts of process_with_retry for the first of them
    builder,     \* the state it builds
    faults,      \* errors, restarts and deletions so far
    base,        \* history: where the chain of resumed sessions began
    inherited,   \* history: what the earlier sessions of the chain gave up
    lost         \* history: events it counted as failed or did not fetch

store == <<snapshots, marks>>
task == <<start, current, pending, tries, builder>>
history == <<base, inherited, lost>>
vars == <<store, checkpoints, rows, states, pc, config, task, faults, history>>

State == [ledger : Ledgers, snapshots : [Epochs -> Hash \cup {NoHash}]]

TypeOK ==
    /\ snapshots \in [Epochs -> Hash \cup {NoHash}]
    /\ marks \subseteq Events
    /\ checkpoints \subseteq Checkpoint
    /\ rows \in [Sessions -> {"none", "Pending", "InProgress", "Completed", "Failed"}]
    /\ states \in [Ledgers -> State]
    /\ pc \in [Sessions -> Running \cup {"new", "ended", "gone"}]
    /\ config \in [Sessions -> Request]
    /\ start \in [Sessions -> Ledgers]
    /\ current \in [Sessions -> Ledgers]
    /\ pending \in [Sessions -> SUBSET Events]
    /\ tries \in [Sessions -> 0 .. MaxRetries]
    /\ builder \in [Sessions -> State]
    /\ faults \in 0 .. MaxFaults
    /\ base \in [Sessions -> Ledgers]
    /\ inherited \in [Sessions -> SUBSET Events]
    /\ lost \in [Sessions -> SUBSET Events]

Init ==
    /\ snapshots = [e \in Epochs |-> NoHash]
    /\ marks = {}
    /\ checkpoints = {}
    /\ rows = [s \in Sessions |-> "none"]
    /\ states = [l \in Ledgers |-> EmptyState]
    /\ pc = [s \in Sessions |-> "new"]
    /\ config = [s \in Sessions |-> Unset]
    /\ start = [s \in Sessions |-> 0]
    /\ current = [s \in Sessions |-> 0]
    /\ pending = [s \in Sessions |-> {}]
    /\ tries = [s \in Sessions |-> 0]
    /\ builder = [s \in Sessions |-> EmptyState]
    /\ faults = 0
    /\ base = [s \in Sessions |-> 0]
    /\ inherited = [s \in Sessions |-> {}]
    /\ lost = [s \in Sessions |-> {}]

\* Errors, restarts and deletions are bounded together.
Disturb == faults < MaxFaults /\ faults' = faults + 1

Goto(s, step) == pc' = [pc EXCEPT ![s] = step]

-----------------------------------------------------------------------------
\* A request names a checkpoint by its session and its ledger.
Named == {[session |-> c.session, ledger |-> c.ledger] : c \in checkpoints}

\* start: the request becomes a session of its own, with an empty builder.
Start(s) ==
    \E from \in {From(l) : l \in StartLedgers} \cup Named, mode \in Modes :
        /\ pc[s] = "new"
        /\ config' = [config EXCEPT ![s] = [from |-> from, dry |-> mode.dry, full |-> mode.full]]
        /\ rows' = [rows EXCEPT ![s] = "Pending"]
        /\ Goto(s, "range")
        /\ UNCHANGED <<store, checkpoints, states, task, faults, history>>

FirstLedger(s) ==
    IF config[s].from.session = NoSession \/ config[s].from \in Named
    THEN config[s].from.ledger
    ELSE 0 \* the checkpoint was deleted meanwhile

\* The chain of sessions goes on, unless the checkpoint is a dry run's.
Continues(s) ==
    /\ config[s].from \in Named
    /\ ~config[config[s].from.session].dry

DetermineRange(s) ==
    /\ pc[s] = "range"
    /\ start' = [start EXCEPT ![s] = FirstLedger(s)]
    /\ current' = [current EXCEPT ![s] = FirstLedger(s)]
    /\ rows' = [rows EXCEPT ![s] = "InProgress"]
    /\ IF Continues(s)
       THEN LET t == config[s].from.session IN
            /\ base' = [base EXCEPT ![s] = base[t]]
            /\ inherited' = [inherited EXCEPT ![s] = inherited[t] \cup lost[t]]
       ELSE /\ base' = [base EXCEPT ![s] = FirstLedger(s)]
            /\ UNCHANGED inherited
    /\ Goto(s, "fetch")
    /\ UNCHANGED <<store, checkpoints, states, config, pending, tries, builder, faults, lost>>

-----------------------------------------------------------------------------
Least(a, b) == IF a <= b THEN a ELSE b
BatchEnd(s) == Least(current[s] + BatchSize - 1, EndLedger)
InLedgers(first, last) == {i \in Events : Log[i].ledger \in first .. last}
FirstOf(events) == {i \in events : Cardinality({j \in events : j < i}) < BatchSize}

\* get_events_in_range: the batch size is also the limit of the query.
Fetch(s) ==
    LET all == InLedgers(current[s], BatchEnd(s)) IN
    /\ pc[s] = "fetch"
    /\ current[s] <= EndLedger
    /\ pending' = [pending EXCEPT ![s] = FirstOf(all)]
    /\ lost' = [lost EXCEPT ![s] = @ \cup (all \ FirstOf(all))]
    /\ Goto(s, "event")
    /\ UNCHANGED <<store, checkpoints, rows, states, config, start, current, tries, builder,
                   faults, base, inherited>>

\* The events of a batch are processed in their order.
InHand(s) == Min(pending[s])
EventIsNext(s) == pc[s] = "event" /\ pending[s] # {}

\* What follows the last statement for an event: it was processed, and the
\* state builder applies it (the first submission of an epoch stays) ...
AfterEvent(b, event) ==
    [ledger |-> IF event.ledger > b.ledger THEN event.ledger ELSE b.ledger,
     snapshots |-> [b.snapshots EXCEPT ![event.epoch] = IF @ = NoHash THEN event.hash ELSE @]]

TakeNext(s) ==
    /\ pending' = [pending EXCEPT ![s] = @ \ {InHand(s)}]
    /\ tries' = [tries EXCEPT ![s] = 0]
    /\ Goto(s, "event")

Apply(s) ==
    /\ TakeNext(s)
    /\ builder' = IF config[s].full
                  THEN [builder EXCEPT ![s] = AfterEvent(@, Log[InHand(s)])] ELSE builder
    /\ UNCHANGED lost

\* ... or it is counted as failed and left behind.
GiveUp(s) ==
    /\ TakeNext(s)
    /\ lost' = [lost EXCEPT ![s] = @ \cup {InHand(s)}]
    /\ UNCHANGED builder

\* Or its processing goes on.
Proceed(s, step) ==
    /\ Goto(s, step)
    /\ UNCHANGED <<pending, tries, builder, lost>>

\* is_processed, and the processor, which knows submissions only.
IsProcessedSkipsState(s) == \* mutant: a skipped event is not applied to the state
    /\ EventIsNext(s)
    /\ IF InHand(s) \in marks THEN TakeNext(s) /\ UNCHANGED <<builder, lost>>
       ELSE IF Log[InHand(s)].known THEN Proceed(s, "lookup") ELSE GiveUp(s)
    /\ UNCHANGED <<store, checkpoints, rows, states, config, start, current, faults, base, inherited>>

IsProcessed(s) ==
    /\ EventIsNext(s)
    /\ IF InHand(s) \in marks THEN Apply(s)
       ELSE IF Log[InHand(s)].known THEN Proceed(s, "lookup") ELSE GiveUp(s)
    /\ UNCHANGED <<store, checkpoints, rows, states, config, start, current, faults, base, inherited>>

\* process_snapshot_submission: EXISTS, then INSERT ... DO NOTHING, then
\* mark_processed; a dry run writes nothing.
LookupMarksDryRuns(s) == \* mutant: a dry run only keeps its hands off snapshots
    /\ pc[s] = "lookup"
    /\ Proceed(s, IF config[s].dry \/ snapshots[Log[InHand(s)].epoch] = Log[InHand(s)].hash
                  THEN "mark" ELSE "insert")
    /\ UNCHANGED <<store, checkpoints, rows, states, config, start, current, faults, base, inherited>>

Lookup(s) ==
    /\ pc[s] = "lookup"
    /\ IF config[s].dry THEN Apply(s)
       ELSE Proceed(s, IF snapshots[Log[InHand(s)].epoch] = Log[InHand(s)].hash
                       THEN "mark" ELSE "insert")
    /\ UNCHANGED <<store, checkpoints, rows, states, config, start, current, faults, base, inherited>>

InsertSnapshot(s) ==
    LET i == InHand(s) IN
    /\ pc[s] = "insert"
    /\ snapshots' = [snapshots EXCEPT ![Log[i].epoch] = IF @ = NoHash THEN Log[i].hash ELSE @]
    /\ Goto(s, "mark")
    /\ UNCHANGED <<marks, checkpoints, rows, states, config, task, faults, history>>

MarkProcessed(s) ==
    /\ pc[s] = "mark"
    /\ marks' = marks \cup {InHand(s)}
    /\ Apply(s)
    /\ UNCHANGED <<snapshots, checkpoints, rows, states, config, start, current, faults,
                   base, inherited>>

\* An attempt fails or times out, perhaps after its last statement landed.
AttemptFails(s) ==
    /\ EventIsNext(s) \/ pc[s] \in {"lookup", "insert", "mark"}
    /\ Disturb
    /\ marks' \in IF pc[s] = "mark" THEN {marks, marks \cup {InHand(s)}} ELSE {marks}
    /\ IF tries[s] < MaxRetries
       THEN /\ tries' = [tries EXCEPT ![s] = @ + 1]
            /\ Goto(s, "event")
            /\ UNCHANGED <<pending, builder, lost>>
       ELSE GiveUp(s)
    /\ UNCHANGED <<snapshots, checkpoints, rows, states, config, start, current, base, inherited>>

-----------------------------------------------------------------------------
CheckpointDue(ledger) == ledger % CheckpointInterval = 0

\* Later than every checkpoint there is.
Now == IF checkpoints = {} THEN 0 ELSE Max({c.at : c \in checkpoints}) + 1

\* create_checkpoint: its row refers to the session's, which must exist.
SaveCheckpoint(s, ledger, step) ==
    /\ IF rows[s] # "none"
       THEN /\ checkpoints' = checkpoints \cup {[session |-> s, ledger |-> ledger, at |-> Now]}
            /\ Goto(s, step)
       ELSE /\ Goto(s, "failed")
            /\ UNCHANGED checkpoints
    /\ UNCHANGED <<store, rows, states, config, task, faults, history>>

BatchDone(s) == pc[s] = "event" /\ pending[s] = {}
NextLedgerTooFar(s) == BatchEnd(s) + 2 \* mutant
NextLedgerStays(s) == BatchEnd(s)      \* mutant: the end of the batch is begun again
NextLedger(s) == BatchEnd(s) + 1

CreateCheckpoint(s) ==
    /\ BatchDone(s)
    /\ CheckpointDue(NextLedger(s))
    /\ SaveCheckpoint(s, NextLedger(s), "save")

SaveMetadata(s) ==
    /\ pc[s] = "save" \/ (BatchDone(s) /\ ~CheckpointDue(NextLedger(s)))
    /\ current' = [current EXCEPT ![s] = NextLedger(s)]
    /\ rows' = [rows EXCEPT ![s] = "InProgress"]
    /\ Goto(s, "fetch")
    /\ UNCHANGED <<store, checkpoints, states, config, start, pending, tries, builder, faults,
                   history>>

FinalCheckpoint(s) ==
    /\ pc[s] = "fetch"
    /\ current[s] > EndLedger
    /\ SaveCheckpoint(s, EndLedger, "persist")

PersistState(s) ==
    /\ pc[s] = "persist"
    /\ states' = IF config[s].dry THEN states
                 ELSE [states EXCEPT ![builder[s].ledger] = builder[s]]
    /\ Goto(s, "completed")
    /\ UNCHANGED <<store, checkpoints, rows, config, task, faults, history>>

Finish(s) ==
    /\ pc[s] \in {"completed", "failed"}
    /\ rows' = [rows EXCEPT ![s] = IF pc[s] = "completed" THEN "Completed" ELSE "Failed"]
    /\ Goto(s, "ended")
    /\ UNCHANGED <<store, checkpoints, states, config, task, faults, history>>

\* A statement of the engine itself fails: the session fails, or, before its
\* range is known and at its very end, start() returns the error.
StatementFails(s) ==
    /\ BatchDone(s) \/ pc[s] \in {"range", "fetch", "save", "persist", "completed", "failed"}
    /\ Disturb
    /\ Goto(s, IF pc[s] \in {"range", "completed", "failed"} THEN "gone" ELSE "failed")
    /\ UNCHANGED <<store, checkpoints, rows, states, config, task, history>>

-----------------------------------------------------------------------------
\* delete_session, whose checkpoints go with it, and cleanup_old.
DeleteSession(s) ==
    /\ rows[s] # "none"
    /\ Disturb
    /\ rows' = [rows EXCEPT ![s] = "none"]
    /\ checkpoints' = {c \in checkpoints : c.session # s}
    /\ UNCHANGED <<store, states, pc, config, task, history>>

CleanupOld ==
    \E last \in checkpoints :
        /\ Disturb
        /\ checkpoints' = {c \in checkpoints : c.at > last.at}
        /\ UNCHANGED <<store, rows, states, pc, config, task, history>>

\* The process ends, and every task of it with it.
Restart ==
    /\ faults < MaxFaults
    /\ \E s \in Sessions : pc[s] \in Running
    /\ faults' = faults + 1
    /\ pc' = [s \in Sessions |-> IF pc[s] \in Running THEN "gone" ELSE pc[s]]
    /\ UNCHANGED <<store, checkpoints, rows, states, config, task, history>>

Step(s) ==
    \/ DetermineRange(s) \/ Fetch(s)
    \/ IsProcessed(s) \/ Lookup(s) \/ InsertSnapshot(s) \/ MarkProcessed(s)
    \/ CreateCheckpoint(s) \/ SaveMetadata(s) \/ FinalCheckpoint(s)
    \/ PersistState(s) \/ Finish(s)

Next ==
    \/ \E s \in Sessions :
        Start(s) \/ Step(s) \/ AttemptFails(s) \/ StatementFails(s) \/ DeleteSession(s)
    \/ CleanupOld
    \/ Restart

Spec == Init /\ [][Next]_vars
FairSpec == Spec /\ \A s \in Sessions : WF_vars(Step(s))

-----------------------------------------------------------------------------
(* Properties *)

\* An event is marked as processed only after its snapshot is stored, so a
\* restart between the two repeats the event instead of losing it
\* (event_processor.rs:250, 260; idempotent processing).
MarkedIsStored ==
    \A i \in marks : snapshots[Log[i].epoch] # NoHash

\* Whatever a resumed session leaves to the sessions before it has been
\* processed by them: every event behind a checkpoint is marked, or was
\* counted as failed or cut off by the limit on the way (engine.rs:206-222).
NothingBehindACheckpointIsForgotten ==
    \A c \in checkpoints :
        LET s == c.session IN
        ~config[s].dry =>
            \A i \in Events :
                Log[i].ledger >= base[s] /\ Log[i].ledger < c.ledger
                    => i \in marks \cup lost[s] \cup inherited[s]

\* Deterministic replay: between two batches the state built so far is the
\* fold of the range's events, whatever other sessions have processed, and
\* whether or not the run is dry (engine.rs:178-203).
FirstSubmission(set, e) ==
    LET of == {i \in set : Log[i].epoch = e} IN
    IF of = {} THEN NoHash ELSE Log[Min(of)].hash

BuiltStateIsFold ==
    \A s \in Sessions :
        pc[s] \in {"fetch", "persist", "completed"} =>
            LET applied == {i \in Events \ lost[s] : Log[i].ledger \in start[s] .. current[s] - 1} IN
            builder[s].snapshots =
                [e \in Epochs |-> IF config[s].full THEN FirstSubmission(applied, e) ELSE NoHash]

\* A session that is not interrupted comes to its end, whatever fails in it
\* and whatever is deleted under it.
ReplaysEnd ==
    \A s \in Sessions : pc[s] = "range" ~> pc[s] \in {"ended", "gone"}

\* Resuming rebuilds what an uninterrupted replay would have: the state of a
\* completed session that resumed a chain begun at the first ledger holds
\* every stored epoch that none of its sessions gave up.
ResumedStateIsWhole ==
    \A s \in Sessions :
        pc[s] = "completed" /\ config[s].full /\ base[s] = 0 =>
            \A i \in Events \ (lost[s] \cup inherited[s]) :
                builder[s].snapshots[Log[i].epoch] # NoHash
=============================================================================
