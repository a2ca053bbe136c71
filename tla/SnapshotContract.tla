-------------------------- MODULE SnapshotContract --------------------------
(***************************************************************************)
(* The snapshot contract (contracts/snapshot-contract): snapshot hashes    *)
(* are accepted from anyone, in increasing epochs; an admin can stop and   *)
(* resume the contract, pause and unpause submissions, hand over its role  *)
(* and replace the code.  A transaction that panics has no effect, so an   *)
(* operation is one action; prepare_upgrade and migrate only emit events   *)
(* and are left out.  The code installed by `upgrade` is this one again.   *)
(***************************************************************************)
EXTENDS Naturals

CONSTANTS
    Users,      \* addresses that can sign
    Contracts,  \* addresses that cannot
    NoAddress,  \* Admin is not set
    Epochs,     \* epoch arguments, 0 included
    Bytes,      \* byte strings callers pass as a hash
    Hash,       \* those of HASH_SIZE
    NoSnapshot, \* no entry for this epoch
    NoMetadata, \* Metadata is not set
    MaxTime,    \* bound of the model on ledger time
    MaxVersion  \* bound of the model on the number of upgrades

Address == Users \cup Contracts

ASSUME SnapshotContractConstants ==
    /\ NoAddress \notin Address
    /\ Epochs \subseteq Nat
    /\ Hash \subseteq Bytes
    /\ MaxTime \in Nat
    /\ MaxVersion \in Nat \ {0}
    /\ NoSnapshot \notin [hash : Bytes, timestamp : 0 .. MaxTime]
    /\ NoMetadata \notin [version : 1 .. MaxVersion, upgraded : 0 .. MaxTime]

VARIABLES
    now,         \* env.ledger().timestamp()
    admin,       \* DataKey::Admin
    metadata,    \* DataKey::Metadata
    stopped,     \* DataKey::Stopped
    paused,      \* DataKey::Paused
    latestEpoch, \* DataKey::LatestEpoch; 0 stands for "not set"
    snapshots    \* DataKey::Snapshots, epoch |-> snapshot

history == <<latestEpoch, snapshots>>
vars == <<now, admin, metadata, stopped, paused, history>>

CONTRACT_VERSION == 1
Snapshot == [hash : Hash, timestamp : 0 .. MaxTime]
ContractMetadata == [version : 1 .. MaxVersion, upgraded : 0 .. MaxTime]
Stored == {e \in Epochs : snapshots[e] # NoSnapshot}

TypeOK ==
    /\ now \in 0 .. MaxTime
    /\ admin \in Address \cup {NoAddress}
    /\ metadata \in ContractMetadata \cup {NoMetadata}
    /\ stopped \in BOOLEAN
    /\ paused \in BOOLEAN
    /\ latestEpoch \in Epochs \cup {0}
    /\ snapshots \in [Epochs -> Snapshot \cup {NoSnapshot}]

Init ==
    /\ now = 0
    /\ admin = NoAddress
    /\ metadata = NoMetadata
    /\ stopped = FALSE
    /\ paused = FALSE
    /\ latestEpoch = 0
    /\ snapshots = [e \in Epochs |-> NoSnapshot]

-----------------------------------------------------------------------------
\* The transaction carries the signature of the stored admin.
AdminSigns == admin \in Users

Initialize(newAdmin) ==
    /\ admin = NoAddress
    /\ newAdmin \in Users
    /\ admin' = newAdmin
    /\ metadata' = [version |-> CONTRACT_VERSION, upgraded |-> now]
    /\ stopped' = FALSE
    /\ UNCHANGED <<now, paused, history>>

StopContract ==
    /\ AdminSigns
    /\ stopped' = TRUE
    /\ UNCHANGED <<now, admin, metadata, paused, history>>

ResumeContract ==
    /\ AdminSigns
    /\ stopped' = FALSE
    /\ UNCHANGED <<now, admin, metadata, paused, history>>

NotStopped == ~stopped

TransferAdmin(newAdmin) ==
    /\ NotStopped
    /\ AdminSigns
    /\ admin' = newAdmin
    /\ UNCHANGED <<now, metadata, stopped, paused, history>>

Upgrade ==
    /\ NotStopped
    /\ AdminSigns
    /\ metadata.version < MaxVersion
    /\ metadata' = [version |-> metadata.version + 1, upgraded |-> now]
    /\ UNCHANGED <<now, admin, stopped, paused, history>>

AnyHash(hash) == TRUE     \* mutant: the length is not checked
HashSizeOK(hash) == hash \in Hash

\* Mutant: only the latest epoch is looked at, and only for equality.
NotLatestEpoch(epoch) == epoch # 0 /\ epoch # latestEpoch
NewEpoch(epoch) ==
    /\ epoch # 0
    /\ latestEpoch # 0 => epoch > latestEpoch
    /\ epoch \notin Stored

\* Neither the caller nor `stopped` is looked at, nor whether the contract has
\* been initialized.
SubmitSnapshot(hash, epoch) ==
    /\ ~paused
    /\ HashSizeOK(hash)
    /\ NewEpoch(epoch)
    /\ snapshots' = [snapshots EXCEPT ![epoch] = [hash |-> hash, timestamp |-> now]]
    /\ latestEpoch' = epoch
    /\ UNCHANGED <<now, admin, metadata, stopped, paused>>

SetPaused(caller, value) ==
    /\ caller = admin
    /\ paused' = value
    /\ UNCHANGED <<now, admin, metadata, stopped, history>>

Pause(caller) == SetPaused(caller, TRUE)
Unpause(caller) == SetPaused(caller, FALSE)

Tick ==
    /\ now' \in now + 1 .. MaxTime
    /\ UNCHANGED <<admin, metadata, stopped, paused, history>>

AdminTransaction ==
    \/ \E a \in Users : Initialize(a)
    \/ StopContract
    \/ ResumeContract
    \/ \E a \in Address : TransferAdmin(a)
    \/ Upgrade
    \/ \E c \in Users : Pause(c)
    \/ \E c \in Users : Unpause(c)

Next ==
    \/ AdminTransaction
    \/ \E h \in Bytes, e \in Epochs : SubmitSnapshot(h, e)
    \/ Tick

Spec == Init /\ [][Next]_vars

-----------------------------------------------------------------------------
\* The answers of the read operations, where they do not panic.
LatestSnapshot == IF latestEpoch = 0 THEN NoSnapshot ELSE snapshots[latestEpoch]

VerifySnapshotAtEpoch(hash, epoch) ==
    snapshots[epoch] # NoSnapshot /\ snapshots[epoch].hash = hash
VerifyLatestSnapshot(hash) ==
    LatestSnapshot # NoSnapshot /\ LatestSnapshot.hash = hash
VerifySnapshot(hash) == \E e \in Stored : snapshots[e].hash = hash

\* The three verification entry points never contradict each other, although
\* one scans the map, one looks an epoch up and one goes by LatestEpoch, which
\* is stored apart from the map.
VerificationsAgree ==
    \A h \in Hash :
        /\ VerifyLatestSnapshot(h) =>
               /\ VerifySnapshotAtEpoch(h, latestEpoch)
               /\ \A e \in Stored : e <= latestEpoch
        /\ VerifySnapshot(h) <=> \E e \in Epochs : VerifySnapshotAtEpoch(h, e)
        /\ VerifySnapshot(h) => \E g \in Hash : VerifyLatestSnapshot(g)

\* A verifier that once got `true` for a hash at an epoch gets it in every
\* later state that answers: no submission, pause, stop, upgrade or change of
\* the admin takes a published hash back.
KeepsVerification(hash, epoch) ==
    VerifySnapshotAtEpoch(hash, epoch) => VerifySnapshotAtEpoch(hash, epoch)'
PublishedStaysVerifiable ==
    [][\A h \in Hash, e \in Epochs : KeepsVerification(h, e)]_vars

\* The contract is an append-only epoch log, whoever submits.
HashAt(e) == IF snapshots[e] = NoSnapshot THEN NoSnapshot ELSE snapshots[e].hash
Log == INSTANCE EpochLog WITH
           NoHash <- NoSnapshot, log <- [e \in Epochs |-> HashAt(e)]
ImplementsEpochLog == Log!Spec
=============================================================================
