-------------------------- MODULE StellarInsights --------------------------
(***************************************************************************)
(* The stellar_insights contract: the admin named at initialization        *)
(* submits one snapshot per epoch and every accepted submission emits an   *)
(* event, from which off-chain indexers rebuild the history.  An operation *)
(* that returns an error or panics has no effect.                          *)
(***************************************************************************)
EXTENDS Naturals, Sequences, FiniteSetsExt

CONSTANTS
    Users,      \* addresses that can sign
    Contracts,  \* addresses that cannot
    NoAddress,  \* Admin is not set
    Epochs,     \* epoch arguments, 0 included
    Hash,       \* 32-byte hashes
    NoSnapshot, \* no entry for this epoch
    MaxTime     \* bound of the model on ledger time

Address == Users \cup Contracts

StellarInsightsConstants ==
    /\ NoAddress \notin Address
    /\ Epochs \subseteq Nat
    /\ MaxTime \in Nat
    /\ NoSnapshot \notin [hash : Hash, timestamp : 0 .. MaxTime]

VARIABLES
    now,         \* env.ledger().timestamp()
    admin,       \* DataKey::Admin
    paused,      \* DataKey::Paused
    latestEpoch, \* DataKey::LatestEpoch
    snapshots,   \* DataKey::Snapshots, epoch |-> snapshot
    events       \* the SnapshotSubmitted events of the contract, in ledger order

history == <<latestEpoch, snapshots, events>>
vars == <<now, admin, paused, history>>

Snapshot == [hash : Hash, timestamp : 0 .. MaxTime]
SnapshotSubmitted ==
    [epoch : Epochs \ {0}, hash : Hash, timestamp : 0 .. MaxTime, submitter : Users]
Stored == {e \in Epochs : snapshots[e] # NoSnapshot}

TypeOK ==
    /\ now \in 0 .. MaxTime
    /\ admin \in Address \cup {NoAddress}
    /\ paused \in BOOLEAN
    /\ latestEpoch \in Epochs \cup {0}
    /\ snapshots \in [Epochs -> Snapshot \cup {NoSnapshot}]
    /\ events \in Seq(SnapshotSubmitted)

Init ==
    /\ now = 0
    /\ admin = NoAddress
    /\ paused = FALSE
    /\ latestEpoch = 0
    /\ snapshots = [e \in Epochs |-> NoSnapshot]
    /\ events = <<>>

-----------------------------------------------------------------------------
Reinitializable == TRUE   \* mutant: initialize does not look at Admin
Uninitialized == admin = NoAddress

\* initialize asks for no signature and resets LatestEpoch, not the map.
Initialize(newAdmin) ==
    /\ Uninitialized
    /\ admin' = newAdmin
    /\ latestEpoch' = 0
    /\ paused' = FALSE
    /\ UNCHANGED <<now, snapshots, events>>

AuthorizedAdmin(caller) == admin # NoAddress /\ caller = admin

\* Mutant: only duplicates are refused.
UnusedEpoch(epoch) == epoch # 0 /\ epoch \notin Stored
NewEpoch(epoch) ==
    /\ epoch # 0
    /\ epoch \notin Stored
    /\ epoch > latestEpoch

\* Mutant: the event carries the epoch before this one.
SubmittedLate(epoch, hash, caller) ==
    [epoch |-> latestEpoch, hash |-> hash, timestamp |-> now, submitter |-> caller]
Submitted(epoch, hash, caller) ==
    [epoch |-> epoch, hash |-> hash, timestamp |-> now, submitter |-> caller]

SubmitSnapshot(epoch, hash, caller) ==
    /\ ~paused
    /\ AuthorizedAdmin(caller)
    /\ NewEpoch(epoch)
    /\ snapshots' = [snapshots EXCEPT ![epoch] = [hash |-> hash, timestamp |-> now]]
    /\ latestEpoch' = epoch
    /\ events' = Append(events, Submitted(epoch, hash, caller))
    /\ UNCHANGED <<now, admin, paused>>

Pause(caller) ==
    /\ AuthorizedAdmin(caller)
    /\ paused' = TRUE
    /\ UNCHANGED <<now, admin, history>>

Unpause(caller) ==
    /\ AuthorizedAdmin(caller)
    /\ paused' = FALSE
    /\ UNCHANGED <<now, admin, history>>

Tick == now' \in now + 1 .. MaxTime /\ UNCHANGED <<admin, paused, history>>

Transaction ==
    \/ \E a \in Address : Initialize(a)
    \/ \E c \in Users, e \in Epochs, h \in Hash : SubmitSnapshot(e, h, c)
    \/ \E c \in Users : Pause(c)
    \/ \E c \in Users : Unpause(c)

Next == Transaction \/ Tick

Spec == Init /\ [][Next]_vars

-----------------------------------------------------------------------------
LatestSnapshot == IF latestEpoch = 0 THEN NoSnapshot ELSE snapshots[latestEpoch]

\* An indexer's table after it has applied every event in order: of each epoch
\* it keeps what the last event about it said.
Row(ev) == [hash |-> ev.hash, timestamp |-> ev.timestamp]
Indexed ==
    [e \in Epochs |-> LET about == {i \in DOMAIN events : events[i].epoch = e} IN
                      IF about = {} THEN NoSnapshot ELSE Row(events[Max(about)])]

\* "Event payload matches stored data exactly" (lib.rs:164): an indexer that
\* applies the events in ledger order holds the contract's own map, its last
\* event is what latest_snapshot answers, and every event names the admin.
IndexersAgree ==
    /\ Indexed = snapshots
    /\ events = <<>> <=> latestEpoch = 0
    /\ events # <<>> => LatestSnapshot = Row(events[Len(events)])
    /\ \A i \in DOMAIN events : events[i].submitter = admin

\* The events reach the indexer in increasing epochs and time: it never has to
\* go back, so applying a prefix of them gives a prefix of the history.
EventsInEpochOrder ==
    \A i, j \in DOMAIN events :
        i < j => /\ events[i].epoch < events[j].epoch
                 /\ events[i].timestamp <= events[j].timestamp

\* The contract is an append-only epoch log.
HashAt(e) == IF snapshots[e] = NoSnapshot THEN NoSnapshot ELSE snapshots[e].hash
Log == INSTANCE EpochLog WITH
           NoHash <- NoSnapshot, log <- [e \in Epochs |-> HashAt(e)]
ImplementsEpochLog == Log!Spec
=============================================================================
