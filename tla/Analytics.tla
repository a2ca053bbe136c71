----------------------------- MODULE Analytics -----------------------------
(***************************************************************************)
(* The analytics contract (contracts/analytics): an admin submits one      *)
(* snapshot hash per epoch, epochs strictly increasing; the admin may hand *)
(* over, pause and unpause; a governance contract named by the admin may   *)
(* do the same.  A Soroban transaction is atomic: a panic leaves the state *)
(* unchanged, so an operation is one action whose guard is the conjunction *)
(* of the checks that do not panic.                                        *)
(*                                                                         *)
(* Ledger time is `now`; only the environment advances it.                 *)
(***************************************************************************)
EXTENDS Naturals

CONSTANTS
    Users,      \* addresses that can authorise a transaction (require_auth)
    Contracts,  \* addresses of contracts: they sign nothing themselves
    NoAddress,  \* the storage key is not set
    Epochs,     \* epoch arguments callers use, 0 included
    Hash,       \* snapshot hashes
    NoSnapshot, \* no entry for this epoch in the Snapshots map
    MaxTime     \* bound of the model on ledger time

Address == Users \cup Contracts

ASSUME AnalyticsConstants ==
    /\ NoAddress \notin Address
    /\ Epochs \subseteq Nat
    /\ MaxTime \in Nat
    /\ NoSnapshot \notin [hash : Hash, timestamp : 0 .. MaxTime]

VARIABLES
    now,         \* env.ledger().timestamp()
    admin,       \* DataKey::Admin
    governance,  \* DataKey::Governance
    paused,      \* DataKey::Paused
    latestEpoch, \* DataKey::LatestEpoch
    snapshots    \* DataKey::Snapshots, epoch |-> metadata

config == <<admin, governance, paused>>
history == <<latestEpoch, snapshots>>
vars == <<now, config, history>>

Snapshot == [hash : Hash, timestamp : 0 .. MaxTime]
Stored == {e \in Epochs : snapshots[e] # NoSnapshot}

TypeOK ==
    /\ now \in 0 .. MaxTime
    /\ admin \in Address \cup {NoAddress}
    /\ governance \in Address \cup {NoAddress}
    /\ paused \in BOOLEAN
    /\ latestEpoch \in Epochs \cup {0}
    /\ snapshots \in [Epochs -> Snapshot \cup {NoSnapshot}]

\* The deployed contract before `initialize`: every get() yields its default.
Init ==
    /\ now = 0
    /\ admin = NoAddress
    /\ governance = NoAddress
    /\ paused = FALSE
    /\ latestEpoch = 0
    /\ snapshots = [e \in Epochs |-> NoSnapshot]

-----------------------------------------------------------------------------
\* The caller is the stored admin and has signed the transaction.
AuthorizedAdmin(caller) == caller \in Users /\ admin # NoAddress /\ caller = admin

Reinitializable == TRUE  \* mutant: initialize does not look at Admin
Uninitialized == admin = NoAddress

Initialize(newAdmin) ==
    /\ Uninitialized
    /\ admin' = newAdmin
    /\ latestEpoch' = 0
    /\ paused' = FALSE
    /\ snapshots' = [e \in Epochs |-> NoSnapshot]
    /\ UNCHANGED <<now, governance>>

\* Mutant: only the duplicate of the latest epoch is refused.
NotLatestEpoch(epoch) == epoch # 0 /\ epoch # latestEpoch
NewEpoch(epoch) == epoch # 0 /\ epoch > latestEpoch

\* Mutant: LatestEpoch holds the next epoch to accept.
SubmitSnapshotStoringNext(caller, epoch, hash) ==
    /\ ~paused
    /\ AuthorizedAdmin(caller)
    /\ NewEpoch(epoch)
    /\ snapshots' = [snapshots EXCEPT ![epoch] = [hash |-> hash, timestamp |-> now]]
    /\ latestEpoch' = epoch + 1
    /\ UNCHANGED <<now, config>>

SubmitSnapshot(caller, epoch, hash) ==
    /\ ~paused
    /\ AuthorizedAdmin(caller)
    /\ NewEpoch(epoch)
    /\ snapshots' = [snapshots EXCEPT ![epoch] = [hash |-> hash, timestamp |-> now]]
    /\ latestEpoch' = epoch
    /\ UNCHANGED <<now, config>>

SetAdmin(caller, newAdmin) ==
    /\ AuthorizedAdmin(caller)
    /\ admin' = newAdmin
    /\ UNCHANGED <<now, governance, paused, history>>

Pause(caller) ==
    /\ AuthorizedAdmin(caller)
    /\ paused' = TRUE
    /\ UNCHANGED <<now, admin, governance, history>>

Unpause(caller) ==
    /\ AuthorizedAdmin(caller)
    /\ paused' = FALSE
    /\ UNCHANGED <<now, admin, governance, history>>

SetGovernance(caller, gov) ==
    /\ AuthorizedAdmin(caller)
    /\ governance' = gov
    /\ UNCHANGED <<now, admin, paused, history>>

\* The two entry points for the governance contract compare their argument
\* with the stored address.
SetAdminByGovernance(caller, newAdmin) ==
    /\ governance # NoAddress
    /\ caller = governance
    /\ admin' = newAdmin
    /\ UNCHANGED <<now, governance, paused, history>>

SetPausedByGovernance(caller, value) ==
    /\ governance # NoAddress
    /\ caller = governance
    /\ paused' = value
    /\ UNCHANGED <<now, admin, governance, history>>

-----------------------------------------------------------------------------
GetLatestSnapshot ==
    IF latestEpoch = 0 THEN NoSnapshot ELSE snapshots[latestEpoch]

\* Ledgers close with non-decreasing timestamps.
Tick == now' \in now + 1 .. MaxTime /\ UNCHANGED <<config, history>>

\* Transactions signed by a user.
UserTransaction ==
    \/ \E a \in Address : Initialize(a)
    \/ \E c \in Users, e \in Epochs, h \in Hash : SubmitSnapshot(c, e, h)
    \/ \E c \in Users, a \in Address : SetAdmin(c, a)
    \/ \E c \in Users : Pause(c)
    \/ \E c \in Users : Unpause(c)
    \/ \E c \in Users, g \in Address : SetGovernance(c, g)

GovernanceCall ==
    \/ \E c, a \in Address : SetAdminByGovernance(c, a)
    \/ \E c \in Address, b \in BOOLEAN : SetPausedByGovernance(c, b)

Next == UserTransaction \/ GovernanceCall \/ Tick

Spec == Init /\ [][Next]_vars

-----------------------------------------------------------------------------
\* `latestEpoch`, kept apart from the map for quick access, always names the
\* greatest stored epoch: submit_snapshot's comparison with it is therefore a
\* comparison with the whole history, and get_latest_snapshot answers with the
\* newest snapshot as soon as there is one.
LatestIsNewest ==
    /\ \A e \in Stored : e <= latestEpoch
    /\ (Stored # {}) => GetLatestSnapshot # NoSnapshot
    /\ latestEpoch # 0 => latestEpoch \in Stored

\* Snapshots of later epochs were never recorded earlier: submit_snapshot
\* stamps ledger time and admits only increasing epochs, also across pauses
\* and changes of the admin.
RecordedInEpochOrder ==
    \A e, f \in Stored :
        e < f => snapshots[e].timestamp <= snapshots[f].timestamp

\* The contract is an append-only epoch log (doc of submit_snapshot: "Epochs
\* must be submitted in strictly increasing order"; "full history").
HashAt(e) == IF snapshots[e] = NoSnapshot THEN NoSnapshot ELSE snapshots[e].hash
Log == INSTANCE EpochLog WITH
           NoHash <- NoSnapshot, log <- [e \in Epochs |-> HashAt(e)]
ImplementsEpochLog == Log!Spec
=============================================================================
