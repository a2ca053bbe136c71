------------------------- MODULE SnapshotPublication -------------------------
(***************************************************************************)
(* The backend publishes analytics snapshots (services/snapshot.rs,        *)
(* services/contract.rs) on the snapshot contract, which other users and   *)
(* its admin go on using.  A job stores its snapshot's row, then simulates,*)
(* sends and waits for a transaction, up to MAX_RETRIES times, and asks    *)
(* the contract for what it published.                                     *)
(*                                                                         *)
(* The network is external: a transaction that was sent is included after  *)
(* any delay, or never.  Signing is external too: at this commit the code  *)
(* has a stub in its place that refuses, which is CanSign = FALSE.  The    *)
(* hash of a snapshot contains the time of its generation, so every job    *)
(* has a hash of its own.                                                  *)
(***************************************************************************)
EXTENDS SnapshotContract

CONSTANTS
    Jobs,      \* calls of generate_and_submit_snapshot
    HashOf,    \* the hash of the snapshot a job generates
    MaxRetries, \* MAX_RETRIES
    CanSign    \* prepare_and_sign_transaction returns a transaction

ASSUME PublicationConstants ==
    /\ HashOf \in [Jobs -> Hash]
    /\ \A i, j \in Jobs : HashOf[i] = HashOf[j] => i = j
    /\ MaxRetries \in Nat \ {0}
    /\ CanSign \in BOOLEAN

VARIABLES
    rows,    \* table snapshots of the backend: epoch and hash
    step,    \* what the job does next
    epochOf, \* its epoch
    attempt, \* its attempt
    tx,      \* the transactions it sent
    result   \* what it returned

contract == vars
job == <<rows, step, epochOf, attempt, tx, result>>
pubVars == <<contract, job>>

Attempts == 1 .. MaxRetries
Running == {"simulate", "send", "wait", "verify"}

PubTypeOK ==
    /\ TypeOK
    /\ rows \subseteq [epoch : Epochs, hash : Hash]
    /\ step \in [Jobs -> Running \cup {"new", "done"}]
    /\ epochOf \in [Jobs -> Epochs \cup {0}]
    /\ attempt \in [Jobs -> Attempts]
    /\ tx \in [Jobs -> [Attempts -> {"unsent", "pending", "success", "failed", "lost"}]]
    /\ result \in [Jobs -> {"none", "error", "stored", "unverified", "verified"}]

PubInit ==
    /\ Init
    /\ rows = {}
    /\ step = [j \in Jobs |-> "new"]
    /\ epochOf = [j \in Jobs |-> 0]
    /\ attempt = [j \in Jobs |-> 1]
    /\ tx = [j \in Jobs |-> [k \in Attempts |-> "unsent"]]
    /\ result = [j \in Jobs |-> "none"]

Goto(j, s) == step' = [step EXCEPT ![j] = s]

Return(j, r) ==
    /\ Goto(j, "done")
    /\ result' = [result EXCEPT ![j] = r]

-----------------------------------------------------------------------------
\* Mutant: the row is left for after the submission.
GenerateWithoutRow(j, epoch) ==
    /\ step[j] = "new"
    /\ epochOf' = [epochOf EXCEPT ![j] = epoch]
    /\ Goto(j, "simulate")
    /\ UNCHANGED <<contract, rows, attempt, tx, result>>

\* store_snapshot_in_database comes before the submission, which a service
\* that has no contract_service skips.
Generate(j, epoch) ==
    /\ step[j] = "new"
    /\ rows' = rows \cup {[epoch |-> epoch, hash |-> HashOf[j]]}
    /\ epochOf' = [epochOf EXCEPT ![j] = epoch]
    /\ \/ Goto(j, "simulate") /\ UNCHANGED result
       \/ Return(j, "stored")
    /\ UNCHANGED <<contract, attempt, tx>>

StoreFails(j) ==
    /\ step[j] = "new"
    /\ Return(j, "error")
    /\ UNCHANGED <<contract, rows, epochOf, attempt, tx>>

\* The loop of submit_snapshot_hash after an error.
Retry(j) ==
    IF attempt[j] >= MaxRetries
    THEN Return(j, "error") /\ UNCHANGED attempt
    ELSE /\ attempt' = [attempt EXCEPT ![j] = @ + 1]
         /\ Goto(j, "simulate")
         /\ UNCHANGED result

Accepts(j) == ~paused /\ HashSizeOK(HashOf[j]) /\ NewEpoch(epochOf[j])

\* The simulation runs against the contract of that moment.
Simulate(j) ==
    /\ step[j] = "simulate"
    /\ Accepts(j)
    /\ CanSign
    /\ Goto(j, "send")
    /\ UNCHANGED <<contract, rows, epochOf, attempt, tx, result>>

\* A simulation that fails, a transaction that cannot be signed, any request
\* that fails, and the confirmation that did not come in time.
AttemptFails(j) ==
    /\ step[j] \in {"simulate", "send", "wait"}
    /\ Retry(j)
    /\ UNCHANGED <<contract, rows, epochOf, tx>>

Send(j) ==
    /\ step[j] = "send"
    /\ tx' = [tx EXCEPT ![j][attempt[j]] = "pending"]
    /\ \/ Goto(j, "wait") /\ UNCHANGED <<attempt, result>>
       \/ Retry(j) \* the answer with its hash is lost
    /\ UNCHANGED <<contract, rows, epochOf>>

\* wait_for_transaction.
ConfirmedIfNotFailed(j) == tx[j][attempt[j]] # "failed" \* mutant
Confirmed(j) == tx[j][attempt[j]] = "success"

SeeSuccess(j) ==
    /\ step[j] = "wait"
    /\ Confirmed(j)
    /\ Goto(j, "verify")
    /\ UNCHANGED <<contract, rows, epochOf, attempt, tx, result>>

\* verify_snapshot_exists: a stopped contract panics and a request may fail,
\* and verify_submission_success takes both for "not verified".
Answers(hash) ==
    IF ~stopped /\ VerifySnapshot(hash) THEN {"verified", "unverified"} ELSE {"unverified"}

Verify(j) ==
    /\ step[j] = "verify"
    /\ \E r \in Answers(HashOf[j]) : Return(j, r)
    /\ UNCHANGED <<contract, rows, epochOf, attempt, tx>>

-----------------------------------------------------------------------------
\* The network executes the transaction, or never does.
Include(j, k) ==
    /\ tx[j][k] = "pending"
    /\ IF Accepts(j)
       THEN /\ SubmitSnapshot(HashOf[j], epochOf[j])
            /\ tx' = [tx EXCEPT ![j][k] = "success"]
       ELSE /\ tx' = [tx EXCEPT ![j][k] = "failed"]
            /\ UNCHANGED contract
    /\ UNCHANGED <<rows, step, epochOf, attempt, result>>

Lose(j, k) ==
    /\ tx[j][k] = "pending"
    /\ tx' = [tx EXCEPT ![j][k] = "lost"]
    /\ UNCHANGED <<contract, rows, step, epochOf, attempt, result>>

\* Anyone else may submit anything at any epoch, also the hash of a job: it can
\* be read from a transaction as soon as one is sent, and the contract asks for
\* no authority.  The ledger clock stands still here, since no guard of the
\* contract reads it.
OtherUser ==
    /\ AdminTransaction \/ \E h \in Bytes, e \in Epochs : SubmitSnapshot(h, e)
    /\ UNCHANGED job

JobStep(j) ==
    Simulate(j) \/ AttemptFails(j) \/ Send(j) \/ SeeSuccess(j) \/ Verify(j)

PubNext ==
    \/ \E j \in Jobs :
        \/ \E e \in Epochs : Generate(j, e)
        \/ StoreFails(j)
        \/ JobStep(j)
        \/ \E k \in Attempts : Include(j, k) \/ Lose(j, k)
    \/ OtherUser

PubSpec == PubInit /\ [][PubNext]_pubVars

-----------------------------------------------------------------------------
(* Properties *)

\* What a transaction of the backend put on chain can be traced to a row of the
\* same epoch and hash and is still what the contract holds at that epoch,
\* although the transaction may be included long after its job gave up, and
\* others may submit the same hash elsewhere: the row is stored before the first
\* transaction is sent (snapshot.rs:88-100).
PublishedHasRow ==
    \A j \in Jobs, k \in Attempts :
        tx[j][k] = "success" =>
            /\ [epoch |-> epochOf[j], hash |-> HashOf[j]] \in rows
            /\ VerifySnapshotAtEpoch(HashOf[j], epochOf[j])

\* A job that returned success published its hash at its epoch, and exactly
\* one of its transactions did, however many of them were sent and whatever
\* the admin and the other submitters did meanwhile (contract.rs:165-210).
ReportsAreTrue ==
    \A j \in Jobs :
        result[j] \in {"verified", "unverified"} =>
            /\ VerifySnapshotAtEpoch(HashOf[j], epochOf[j])
            /\ \E k \in Attempts : \A l \in Attempts : (tx[j][l] = "success") <=> (l = k)

=============================================================================
