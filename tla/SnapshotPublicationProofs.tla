--------------------- MODULE SnapshotPublicationProofs ---------------------
(***************************************************************************)
(* Theorems about the publication of snapshots, for every set of users,    *)
(* jobs, epochs and hashes and every number of attempts.  They come in two *)
(* layers.  The contract's own invariant CInv says that latestEpoch, which *)
(* is stored apart from the map, bounds the map; it makes the contract an  *)
(* epoch log, whoever calls it.  Every step of the backend is a step of    *)
(* the contract or leaves it alone, so that all of this holds of the       *)
(* composition, where JInv relates a job to the transactions it sent and   *)
(* these to what is on chain.                                              *)
(***************************************************************************)
EXTENDS SnapshotPublication, Integers, TLAPS

LatestBoundsStored ==
    /\ \A e \in Stored : e > 0 /\ e <= latestEpoch
    /\ latestEpoch # 0 => latestEpoch \in Stored

\* The metadata is written together with the first admin and stays.
MetadataIsSet == admin # NoAddress => metadata # NoMetadata

CInv == TypeOK /\ LatestBoundsStored /\ MetadataIsSet

\* A step either leaves the history alone or is a submission.
LEMMA HistorySteps ==
    ASSUME [Next]_vars
    PROVE  \/ UNCHANGED history
           \/ \E h \in Bytes, e \in Epochs : SubmitSnapshot(h, e)
BY DEF Next, vars, AdminTransaction, Initialize, StopContract, ResumeContract,
       TransferAdmin, Upgrade, Pause, Unpause, SetPaused, Tick, history

\* The metadata of an upgrade or an initialization is a metadata record.
LEMMA AdminStep ==
    ASSUME TypeOK, MetadataIsSet, AdminTransaction
    PROVE  TypeOK' /\ MetadataIsSet' /\ UNCHANGED history
<1> USE SnapshotContractConstants
    DEF SnapshotContractConstants, TypeOK, MetadataIsSet, Address, history
<1>1. ASSUME NEW a \in Users, Initialize(a)
      PROVE  TypeOK' /\ MetadataIsSet' /\ UNCHANGED history
  <2>1. [version |-> CONTRACT_VERSION, upgraded |-> now] \in ContractMetadata
    BY DEF ContractMetadata, CONTRACT_VERSION
  <2>2. ContractMetadata = [version : 1 .. MaxVersion, upgraded : 0 .. MaxTime]
    BY DEF ContractMetadata
  <2>3. metadata' \in ContractMetadata /\ metadata' # NoMetadata
    BY <1>1, <2>1, <2>2 DEF Initialize
  <2>4. QED
    BY <1>1, <2>3 DEF Initialize
<1>2. CASE StopContract \/ ResumeContract
  BY <1>2 DEF StopContract, ResumeContract
<1>3. ASSUME NEW a \in Address, TransferAdmin(a)
      PROVE  TypeOK' /\ MetadataIsSet' /\ UNCHANGED history
  BY <1>3 DEF TransferAdmin, AdminSigns
<1>4. CASE Upgrade
  <2>1. metadata \in ContractMetadata
    BY <1>4 DEF Upgrade, AdminSigns
  <2>2. metadata.version \in 1 .. MaxVersion
    BY <2>1 DEF ContractMetadata
  <2>3. [version |-> metadata.version + 1, upgraded |-> now] \in ContractMetadata
    BY <1>4, <2>2 DEF Upgrade, ContractMetadata
  <2>4. ContractMetadata = [version : 1 .. MaxVersion, upgraded : 0 .. MaxTime]
    BY DEF ContractMetadata
  <2>5. metadata' \in ContractMetadata /\ metadata' # NoMetadata
    BY <1>4, <2>3, <2>4 DEF Upgrade
  <2>6. QED
    BY <1>4, <2>5 DEF Upgrade
<1>5. ASSUME NEW c \in Users, Pause(c) \/ Unpause(c)
      PROVE  TypeOK' /\ MetadataIsSet' /\ UNCHANGED history
  BY <1>5 DEF Pause, Unpause, SetPaused
<1> QED
  BY <1>1, <1>2, <1>3, <1>4, <1>5 DEF AdminTransaction

\* What a submission does to the set of stored epochs.
LEMMA SubmitFacts ==
    ASSUME TypeOK, NEW h \in Bytes, NEW e \in Epochs, SubmitSnapshot(h, e)
    PROVE  /\ h \in Hash
           /\ e \in Nat /\ e > 0 /\ e > latestEpoch /\ latestEpoch' = e
           /\ e \notin Stored
           /\ snapshots'[e] = [hash |-> h, timestamp |-> now]
           /\ snapshots'[e] \in Snapshot /\ snapshots'[e] # NoSnapshot
           /\ \A f \in Epochs : f # e => snapshots'[f] = snapshots[f]
           /\ Stored' = Stored \cup {e}
           /\ TypeOK'
           /\ UNCHANGED <<now, admin, metadata, stopped, paused>>
<1> USE SnapshotContractConstants DEF SnapshotContractConstants, TypeOK
<1>1. /\ h \in Hash /\ e \in Nat /\ e > 0 /\ e > latestEpoch /\ latestEpoch' = e
      /\ e \notin Stored
      /\ snapshots'[e] = [hash |-> h, timestamp |-> now]
      /\ \A f \in Epochs : f # e => snapshots'[f] = snapshots[f]
      /\ UNCHANGED <<now, admin, metadata, stopped, paused>>
  BY DEF SubmitSnapshot, NewEpoch, HashSizeOK
<1>2. [hash |-> h, timestamp |-> now] \in [hash : Bytes, timestamp : 0 .. MaxTime]
  BY <1>1
<1>3. [hash |-> h, timestamp |-> now] \in Snapshot
  BY <1>1 DEF Snapshot
<1>4. snapshots'[e] \in Snapshot /\ snapshots'[e] # NoSnapshot
  BY <1>1, <1>2, <1>3
<1>5. Stored' = Stored \cup {e}
  BY <1>1, <1>4 DEF Stored
<1>6. snapshots' \in [Epochs -> Snapshot \cup {NoSnapshot}]
  BY <1>3 DEF SubmitSnapshot
<1> QED
  BY <1>1, <1>4, <1>5, <1>6

\* The contract's invariant holds initially, and every transaction keeps it.
LEMMA ContractInit == Init => CInv
<1> SUFFICES ASSUME Init PROVE CInv
  OBVIOUS
<1>1. Stored = {} /\ latestEpoch = 0
  BY DEF Init, Stored
<1>2. now \in 0 .. MaxTime
  BY SnapshotContractConstants DEF SnapshotContractConstants, Init
<1>3. TypeOK
  BY <1>2 DEF Init, TypeOK
<1> QED
  BY <1>1, <1>3 DEF CInv, LatestBoundsStored, MetadataIsSet, Init

LEMMA ContractStep == CInv /\ [Next]_vars => CInv'
<1> SUFFICES ASSUME CInv, [Next]_vars PROVE CInv'
  OBVIOUS
<1> USE DEF CInv
<1>1. CASE UNCHANGED history /\ TypeOK' /\ MetadataIsSet'
  BY <1>1 DEF history, LatestBoundsStored, Stored
<1>2. CASE AdminTransaction
  BY <1>1, <1>2, AdminStep
<1>3. ASSUME NEW h \in Bytes, NEW e \in Epochs, SubmitSnapshot(h, e) PROVE CInv'
  <2>1. /\ e \in Nat /\ e > 0 /\ e > latestEpoch /\ latestEpoch' = e
        /\ Stored' = Stored \cup {e} /\ TypeOK'
        /\ admin' = admin /\ metadata' = metadata
    BY <1>3, SubmitFacts
  <2>2. latestEpoch \in Nat /\ \A f \in Stored : f \in Nat
    BY SnapshotContractConstants DEF SnapshotContractConstants, TypeOK, Stored
  <2>3. LatestBoundsStored'
    BY <2>1, <2>2 DEF LatestBoundsStored
  <2>4. QED
    BY <2>1, <2>3 DEF MetadataIsSet
<1>4. CASE Tick
  <2>1. now' \in 0 .. MaxTime
    BY <1>4, SnapshotContractConstants DEF Tick, SnapshotContractConstants, TypeOK
  <2>2. QED
    BY <1>1, <1>4, <2>1 DEF Tick, history, TypeOK, MetadataIsSet
<1>5. CASE UNCHANGED vars
  BY <1>1, <1>5 DEF vars, history, TypeOK, MetadataIsSet
<1> QED
  BY <1>2, <1>3, <1>4, <1>5 DEF Next

LEMMA ContractInvCorrect == Spec => []CInv
  BY ContractInit, ContractStep, PTL DEF Spec

-----------------------------------------------------------------------------
\* The verification entry points agree, since latestEpoch is the greatest
\* stored epoch whenever there is one.
LEMMA InvImpliesAgreement == CInv => VerificationsAgree
<1> SUFFICES ASSUME CInv, NEW h \in Hash
             PROVE  /\ VerifyLatestSnapshot(h) =>
                          /\ VerifySnapshotAtEpoch(h, latestEpoch)
                          /\ \A e \in Stored : e <= latestEpoch
                    /\ VerifySnapshot(h) <=> \E e \in Epochs : VerifySnapshotAtEpoch(h, e)
                    /\ VerifySnapshot(h) => \E g \in Hash : VerifyLatestSnapshot(g)
  BY DEF VerificationsAgree
<1> USE DEF CInv, VerifyLatestSnapshot, VerifySnapshotAtEpoch, VerifySnapshot
<1>1. VerifyLatestSnapshot(h) =>
          /\ VerifySnapshotAtEpoch(h, latestEpoch)
          /\ \A e \in Stored : e <= latestEpoch
  BY DEF LatestSnapshot, LatestBoundsStored
<1>2. VerifySnapshot(h) <=> \E e \in Epochs : VerifySnapshotAtEpoch(h, e)
  BY DEF Stored
<1>3. ASSUME VerifySnapshot(h) PROVE \E g \in Hash : VerifyLatestSnapshot(g)
  <2>1. PICK e \in Stored : e > 0 /\ e <= latestEpoch
    BY <1>3 DEF LatestBoundsStored
  <2>2. e \in Nat /\ latestEpoch \in Nat
    BY SnapshotContractConstants DEF SnapshotContractConstants, TypeOK, Stored
  <2>3. latestEpoch \in Stored /\ LatestSnapshot = snapshots[latestEpoch]
    BY <2>1, <2>2 DEF LatestBoundsStored, LatestSnapshot
  <2>4. snapshots[latestEpoch] \in Snapshot
    BY <2>3 DEF Stored, TypeOK
  <2>5. QED
    BY <2>3, <2>4 DEF Stored, Snapshot
<1> QED
  BY <1>1, <1>2, <1>3

\* No step takes a published hash back.
LEMMA KeepsSnapshots ==
    ASSUME CInv, [Next]_vars, NEW e \in Stored
    PROVE  e \in Stored' /\ snapshots'[e] = snapshots[e]
<1>1. CASE UNCHANGED history
  BY <1>1 DEF history, Stored
<1>2. ASSUME NEW h \in Bytes, NEW f \in Epochs, SubmitSnapshot(h, f)
      PROVE  e \in Stored' /\ snapshots'[e] = snapshots[e]
  <2>1. f # e /\ e \in Epochs
    BY <1>2, SubmitFacts DEF CInv, Stored
  <2>2. QED
    BY <1>2, <2>1, SubmitFacts DEF CInv
<1> QED
  BY <1>1, <1>2, HistorySteps

\* The contract implements the append-only epoch log, although anyone submits.
LEMMA LogStep == CInv /\ [Next]_vars => [Log!Next]_([e \in Epochs |-> HashAt(e)])
<1> SUFFICES ASSUME CInv, [Next]_vars
             PROVE  [Log!Next]_([e \in Epochs |-> HashAt(e)])
  OBVIOUS
<1> DEFINE log == [e \in Epochs |-> HashAt(e)]
<1>1. CASE UNCHANGED history
  <2>1. \A e : HashAt(e)' = HashAt(e)
    BY <1>1 DEF history, HashAt
  <2>2. QED
    BY <2>1
<1>2. ASSUME NEW h \in Bytes, NEW e \in Epochs, SubmitSnapshot(h, e)
      PROVE  h \in Hash /\ Log!Publish(e, h)
  <2>1. /\ h \in Hash /\ e \in Nat /\ e > 0 /\ e > latestEpoch
        /\ snapshots'[e] = [hash |-> h, timestamp |-> now]
        /\ snapshots'[e] # NoSnapshot
        /\ \A f \in Epochs : f # e => snapshots'[f] = snapshots[f]
    BY <1>2, SubmitFacts DEF CInv
  <2>2. latestEpoch \in Nat /\ \A f \in Stored : f \in Nat
    BY SnapshotContractConstants DEF SnapshotContractConstants, CInv, TypeOK, Stored
  <2>3. \A f \in Log!Published : f \in Stored
    BY DEF Log!Published, Stored, HashAt
  <2>4. \A f \in Log!Published : f < e
    BY <2>1, <2>2, <2>3 DEF CInv, LatestBoundsStored
  <2>5. HashAt(e)' = h /\ \A f \in Epochs : f # e => HashAt(f)' = HashAt(f)
    <3>1. snapshots'[e].hash = h
      BY <2>1
    <3>2. QED
      BY <2>1, <3>1 DEF HashAt
  <2>6. log' = [log EXCEPT ![e] = h]
    BY <2>5
  <2>7. QED
    BY <2>1, <2>4, <2>6 DEF Log!Publish
<1> QED
  BY <1>1, <1>2, HistorySteps DEF Log!Next

LEMMA ContractRefinement == Spec => ImplementsEpochLog
<1>1. Init => Log!Init
  BY DEF Init, Log!Init, HashAt
<1> QED
  BY <1>1, LogStep, ContractInvCorrect, PTL DEF Spec, ImplementsEpochLog, Log!Spec

-----------------------------------------------------------------------------
\* The jobs.  Whatever a job has begun, its row is stored.
RowFirst ==
    \A j \in Jobs :
        (step[j] \in Running \/ \E k \in Attempts : tx[j][k] # "unsent") =>
            [epoch |-> epochOf[j], hash |-> HashOf[j]] \in rows

\* Attempts that are still to come have sent nothing.
LaterAttemptsUnsent ==
    \A j \in Jobs, k \in Attempts :
        (k > attempt[j] \/ (k = attempt[j] /\ step[j] \in {"new", "simulate", "send"}))
            => tx[j][k] = "unsent"

\* A job that has not begun has sent nothing.
NewIsUnsent == \A j \in Jobs, k \in Attempts : step[j] = "new" => tx[j][k] = "unsent"

\* What a transaction of a job put on chain is there.
SuccessIsOnChain ==
    \A j \in Jobs, k \in Attempts :
            tx[j][k] = "success" =>
            epochOf[j] \in Epochs /\ VerifySnapshotAtEpoch(HashOf[j], epochOf[j])

OneSuccess ==
    \A j \in Jobs : \A k, l \in Attempts :
        tx[j][k] = "success" /\ tx[j][l] = "success" => k = l

\* A job that has seen its confirmation has one.
ClaimsSucceeded ==
    \A j \in Jobs :
        (step[j] = "verify" \/ result[j] \in {"verified", "unverified"}) =>
            \E k \in Attempts : tx[j][k] = "success"

JInv ==
    /\ RowFirst
    /\ LaterAttemptsUnsent
    /\ NewIsUnsent
    /\ SuccessIsOnChain
    /\ OneSuccess
    /\ ClaimsSucceeded

PInv == PubTypeOK /\ CInv /\ JInv

\* An inclusion is a submission by an ordinary caller, or nothing.
LEMMA IncludeIsSubmission ==
    ASSUME PubTypeOK, NEW j \in Jobs, NEW k \in Attempts, Include(j, k)
    PROVE  [Next]_vars
<1>1. CASE Accepts(j)
  <2>1. HashOf[j] \in Bytes /\ epochOf[j] \in Epochs
    BY <1>1, PublicationConstants, SnapshotContractConstants
    DEF PublicationConstants, SnapshotContractConstants, PubTypeOK, Accepts, NewEpoch
  <2>2. QED
    BY <1>1, <2>1 DEF Include, Next
<1>2. CASE ~Accepts(j)
  BY <1>2 DEF Include, contract
<1> QED
  BY <1>1, <1>2

\* The backend only uses the contract's operations: every step of the
\* composition is a step of the contract or leaves it alone.
LEMMA ContractSteps == PubTypeOK /\ [PubNext]_pubVars => [Next]_vars
<1> SUFFICES ASSUME PubTypeOK, [PubNext]_pubVars PROVE [Next]_vars
  OBVIOUS
<1>1. ASSUME NEW j \in Jobs, NEW k \in Attempts, Include(j, k) PROVE [Next]_vars
  BY <1>1, IncludeIsSubmission
<1>2. CASE OtherUser
  BY <1>2 DEF OtherUser, Next
<1>3. ASSUME NEW j \in Jobs, JobStep(j) PROVE [Next]_vars
  BY <1>3 DEF JobStep, Simulate, AttemptFails, Send, SeeSuccess, Verify, contract
<1>4. ASSUME NEW j \in Jobs, NEW e \in Epochs, Generate(j, e) \/ StoreFails(j)
      PROVE  [Next]_vars
  BY <1>4 DEF Generate, StoreFails, contract
<1>5. ASSUME NEW j \in Jobs, StoreFails(j) PROVE [Next]_vars
  BY <1>5 DEF StoreFails, contract
<1>6. ASSUME NEW j \in Jobs, NEW k \in Attempts, Lose(j, k) PROVE [Next]_vars
  BY <1>6 DEF Lose, contract
<1>7. CASE UNCHANGED pubVars
  BY <1>7 DEF pubVars, contract
<1> QED
  BY <1>1, <1>2, <1>3, <1>4, <1>5, <1>6, <1>7 DEF PubNext

LEMMA PubInitInv == PubInit => PInv
<1> SUFFICES ASSUME PubInit PROVE PInv
  OBVIOUS
<1>1. CInv
  BY ContractInit DEF PubInit
<1>2. Stored = {}
  BY DEF PubInit, Init, Stored
<1>3. PubTypeOK
  BY <1>1, PublicationConstants
  DEF PublicationConstants, PubInit, PubTypeOK, CInv, Attempts
<1>4. JInv
  BY <1>2 DEF PubInit, JInv, RowFirst, LaterAttemptsUnsent, NewIsUnsent, SuccessIsOnChain,
     OneSuccess, ClaimsSucceeded, Running, Attempts
<1> QED
  BY <1>1, <1>3, <1>4 DEF PInv

-----------------------------------------------------------------------------
\* Steps of a job that send nothing keep everything but its place.
LEMMA QuietStep ==
    ASSUME PInv, NEW j \in Jobs,
           UNCHANGED <<contract, rows, epochOf, tx>>,
           step[j] \in Running,
           \/ /\ UNCHANGED <<attempt, result>>
              /\ \/ step[j] = "simulate" /\ Goto(j, "send")
                 \/ step[j] = "wait" /\ Confirmed(j) /\ Goto(j, "verify")
           \/ step[j] \in {"simulate", "send", "wait"} /\ Retry(j)
           \/ step[j] = "verify" /\ UNCHANGED attempt
              /\ \E r \in {"verified", "unverified"} : Return(j, r)
    PROVE  JInv'
<1> USE DEF PInv, JInv, PubTypeOK, Goto, Return, Retry
<1>1. /\ \A i \in Jobs : i # j => /\ step'[i] = step[i] /\ attempt'[i] = attempt[i]
                                  /\ result'[i] = result[i]
      /\ step'[j] \in Running \cup {"done"}
      /\ step'[j] \in {"simulate", "send"} =>
             \/ attempt'[j] = attempt[j] + 1
             \/ attempt'[j] = attempt[j] /\ step[j] = "simulate"
      /\ step'[j] = "verify" => Confirmed(j)
      /\ result'[j] \in {"verified", "unverified"} =>
             step[j] = "verify" \/ result[j] \in {"verified", "unverified"}
      /\ attempt'[j] \in Int /\ attempt'[j] >= attempt[j]
  BY PublicationConstants DEF PublicationConstants, Attempts, Running
<1>2. /\ tx' = tx /\ rows' = rows /\ epochOf' = epochOf /\ snapshots' = snapshots
      /\ Stored' = Stored
      /\ \A h, e : VerifySnapshotAtEpoch(h, e)' = VerifySnapshotAtEpoch(h, e)
  BY DEF contract, vars, history, Stored, VerifySnapshotAtEpoch
<1>3. RowFirst'
  <2> SUFFICES ASSUME NEW i \in Jobs,
                      step'[i] \in Running \/ \E k \in Attempts : tx[i][k] # "unsent"
               PROVE  [epoch |-> epochOf[i], hash |-> HashOf[i]] \in rows
    BY <1>2 DEF RowFirst
  <2>1. step[i] \in Running \/ \E k \in Attempts : tx[i][k] # "unsent"
    BY <1>1
  <2>2. QED
    BY <2>1 DEF RowFirst
<1>4. LaterAttemptsUnsent'
  <2> SUFFICES ASSUME NEW i \in Jobs, NEW k \in Attempts,
                      \/ k > attempt'[i]
                      \/ k = attempt'[i] /\ step'[i] \in {"new", "simulate", "send"}
               PROVE  tx[i][k] = "unsent"
    BY <1>2 DEF LaterAttemptsUnsent
  <2>1. CASE i # j
    BY <1>1, <2>1 DEF LaterAttemptsUnsent
  <2>2. CASE i = j
    <3>1. attempt[j] \in Nat /\ k \in Nat
      BY PublicationConstants DEF PublicationConstants, Attempts
    <3>2. k > attempt[j] \/ (k = attempt[j] /\ step[j] = "simulate")
      BY <1>1, <2>2, <3>1 DEF Running
    <3>3. QED
      BY <2>2, <3>2 DEF LaterAttemptsUnsent
  <2>3. QED
    BY <2>1, <2>2
<1>5. NewIsUnsent' /\ SuccessIsOnChain' /\ OneSuccess'
  BY <1>1, <1>2 DEF Running, NewIsUnsent, SuccessIsOnChain, OneSuccess
<1>6. ClaimsSucceeded'
  <2>1. Confirmed(j) => \E k \in Attempts : tx[j][k] = "success"
    BY DEF Confirmed
  <2>2. QED
    BY <1>1, <1>2, <2>1 DEF ClaimsSucceeded
<1> QED
  BY <1>3, <1>4, <1>5, <1>6

\* A transaction is sent by an attempt that had sent none, and changes no row.
LEMMA SendStep ==
    ASSUME PInv, NEW j \in Jobs, Send(j)
    PROVE  JInv'
<1> USE DEF PInv, JInv, PubTypeOK
<1> DEFINE a == attempt[j]
<1>1. /\ a \in Attempts /\ tx[j][a] = "unsent" /\ step[j] = "send"
      /\ tx'[j][a] = "pending"
      /\ \A k \in Attempts : k # a => tx'[j][k] = tx[j][k]
      /\ \A i \in Jobs : i # j => tx'[i] = tx[i]
  BY DEF Send, LaterAttemptsUnsent, Attempts
<1>2. /\ \A i \in Jobs : i # j => /\ step'[i] = step[i] /\ attempt'[i] = attempt[i]
                                  /\ result'[i] = result[i]
      /\ step'[j] \in {"wait", "simulate", "done"}
      /\ step'[j] = "simulate" => attempt'[j] = a + 1
      /\ attempt'[j] \in {a, a + 1}
      /\ result'[j] \in {"verified", "unverified"} => result[j] \in {"verified", "unverified"}
  BY DEF Send, Goto, Return, Retry
<1>3. /\ rows' = rows /\ epochOf' = epochOf /\ snapshots' = snapshots
      /\ Stored' = Stored
      /\ \A h, e : VerifySnapshotAtEpoch(h, e)' = VerifySnapshotAtEpoch(h, e)
  BY DEF Send, contract, vars, history, Stored, VerifySnapshotAtEpoch
<1>4. \A i \in Jobs, k \in Attempts : tx'[i][k] = "success" <=> tx[i][k] = "success"
  BY <1>1
<1>5. RowFirst'
  <2> SUFFICES ASSUME NEW i \in Jobs,
                      step'[i] \in Running \/ \E k \in Attempts : tx'[i][k] # "unsent"
               PROVE  [epoch |-> epochOf[i], hash |-> HashOf[i]] \in rows
    BY <1>3 DEF RowFirst
  <2>1. step[i] \in Running \/ \E k \in Attempts : tx[i][k] # "unsent"
    <3>1. CASE i = j
      BY <1>1, <3>1 DEF Running
    <3>2. CASE i # j
      BY <1>1, <1>2, <3>2
    <3>3. QED
      BY <3>1, <3>2
  <2>2. QED
    BY <2>1 DEF RowFirst
<1>6. LaterAttemptsUnsent'
  <2> SUFFICES ASSUME NEW i \in Jobs, NEW k \in Attempts,
                      \/ k > attempt'[i]
                      \/ k = attempt'[i] /\ step'[i] \in {"new", "simulate", "send"}
               PROVE  tx'[i][k] = "unsent"
    BY DEF LaterAttemptsUnsent
  <2>1. CASE i # j
    BY <1>1, <1>2, <2>1 DEF LaterAttemptsUnsent
  <2>2. CASE i = j
    <3>1. a \in Nat /\ k \in Nat
      BY <1>1, PublicationConstants DEF PublicationConstants, Attempts
    <3>2. k > a
      BY <1>2, <2>2, <3>1
    <3>3. tx[j][k] = "unsent" /\ k # a
      BY <3>1, <3>2 DEF LaterAttemptsUnsent
    <3>4. QED
      BY <1>1, <2>2, <3>3
  <2>3. QED
    BY <2>1, <2>2
<1>7. NewIsUnsent' /\ SuccessIsOnChain' /\ OneSuccess'
  <2>1. NewIsUnsent'
    BY <1>1, <1>2, <1>3, <1>4 DEF NewIsUnsent
  <2>2. SuccessIsOnChain'
    BY <1>1, <1>2, <1>3, <1>4 DEF SuccessIsOnChain
  <2>3. OneSuccess'
    BY <1>1, <1>2, <1>3, <1>4 DEF OneSuccess
  <2>4. QED
    BY <2>1, <2>2, <2>3
<1>8. ClaimsSucceeded'
  BY <1>2, <1>4 DEF ClaimsSucceeded
<1> QED
  BY <1>5, <1>6, <1>7, <1>8

\* A job's row and epoch are written before anything of it is sent.
LEMMA GenerateStep ==
    ASSUME PInv, NEW j \in Jobs, NEW e \in Epochs, Generate(j, e)
    PROVE  JInv'
<1> USE DEF PInv, JInv, PubTypeOK
<1>1. /\ step[j] = "new" /\ step'[j] \in {"simulate", "done"}
      /\ epochOf'[j] = e /\ [epoch |-> e, hash |-> HashOf[j]] \in rows'
      /\ rows \subseteq rows'
      /\ \A i \in Jobs : i # j => step'[i] = step[i] /\ epochOf'[i] = epochOf[i]
      /\ attempt' = attempt /\ tx' = tx
      /\ \A i \in Jobs : result'[i] = result[i] \/ result'[i] = "stored"
  BY DEF Generate, Goto, Return
<1>2. /\ snapshots' = snapshots /\ Stored' = Stored
      /\ \A h, f : VerifySnapshotAtEpoch(h, f)' = VerifySnapshotAtEpoch(h, f)
  BY DEF Generate, contract, vars, history, Stored, VerifySnapshotAtEpoch
<1>3. \A k \in Attempts : tx[j][k] # "success"
  <2> SUFFICES ASSUME NEW k \in Attempts, tx[j][k] = "success" PROVE FALSE
    OBVIOUS
  <2>1. tx[j][k] # "unsent"
    OBVIOUS
  <2>2. QED
    BY <1>1, <2>1 DEF NewIsUnsent
<1>4. RowFirst'
  BY <1>1 DEF RowFirst
<1>5. LaterAttemptsUnsent'
  BY <1>1 DEF LaterAttemptsUnsent
<1>6. NewIsUnsent' /\ SuccessIsOnChain' /\ OneSuccess'
  BY <1>1, <1>2, <1>3 DEF NewIsUnsent, SuccessIsOnChain, OneSuccess
<1>7. ClaimsSucceeded'
  BY <1>1 DEF ClaimsSucceeded
<1> QED
  BY <1>4, <1>5, <1>6, <1>7

\* An included transaction publishes its job's hash at the job's epoch; once
\* that is so, no other transaction of the job is accepted.
LEMMA IncludeStep ==
    ASSUME PInv, NEW j \in Jobs, NEW k \in Attempts, Include(j, k)
    PROVE  JInv'
<1> USE DEF PInv, JInv, PubTypeOK
<1>1. /\ rows' = rows /\ step' = step /\ epochOf' = epochOf /\ attempt' = attempt
      /\ result' = result
      /\ tx[j][k] = "pending" /\ tx'[j][k] \in {"success", "failed"}
      /\ tx'[j][k] = "success" <=> Accepts(j)
      /\ \A l \in Attempts : l # k => tx'[j][l] = tx[j][l]
      /\ \A i \in Jobs : i # j => tx'[i] = tx[i]
  BY DEF Include
<1>2. \A i \in Jobs, l \in Attempts :
          /\ tx'[i][l] # "unsent" <=> tx[i][l] # "unsent"
          /\ tx[i][l] = "success" => tx'[i][l] = "success"
          /\ tx'[i][l] = "success" => tx[i][l] = "success" \/ (i = j /\ l = k /\ Accepts(j))
  BY <1>1
<1>3. RowFirst' /\ LaterAttemptsUnsent' /\ NewIsUnsent' /\ ClaimsSucceeded'
  <2>1. RowFirst'
    <3> SUFFICES ASSUME NEW i \in Jobs,
                        step[i] \in Running \/ \E l \in Attempts : tx'[i][l] # "unsent"
                 PROVE  [epoch |-> epochOf[i], hash |-> HashOf[i]] \in rows
      BY <1>1 DEF RowFirst
    <3>1. step[i] \in Running \/ \E l \in Attempts : tx[i][l] # "unsent"
      BY <1>2
    <3>2. QED
      BY <3>1 DEF RowFirst
  <2>2. LaterAttemptsUnsent' /\ NewIsUnsent' /\ ClaimsSucceeded'
    BY <1>1, <1>2 DEF LaterAttemptsUnsent, NewIsUnsent, ClaimsSucceeded
  <2>3. QED
    BY <2>1, <2>2
<1>4. CASE ~Accepts(j)
  <2>1. UNCHANGED history
    BY <1>4 DEF Include, contract, vars
  <2>2. /\ snapshots' = snapshots /\ Stored' = Stored
        /\ \A h, f : VerifySnapshotAtEpoch(h, f)' = VerifySnapshotAtEpoch(h, f)
    BY <2>1 DEF history, Stored, VerifySnapshotAtEpoch
  <2>3. SuccessIsOnChain' /\ OneSuccess'
    BY <1>1, <1>2, <1>4, <2>2 DEF SuccessIsOnChain, OneSuccess
  <2>4. QED
    BY <1>3, <2>3
<1>5. CASE Accepts(j)
  <2> DEFINE e == epochOf[j]
  <2>1. SubmitSnapshot(HashOf[j], e) /\ tx'[j][k] = "success"
    BY <1>1, <1>5 DEF Include
  <2>2. HashOf[j] \in Bytes /\ e \in Epochs
    BY <1>5, PublicationConstants, SnapshotContractConstants
    DEF PublicationConstants, SnapshotContractConstants, Accepts, NewEpoch
  <2>3. /\ e \notin Stored /\ Stored' = Stored \cup {e}
        /\ snapshots'[e] = [hash |-> HashOf[j], timestamp |-> now]
        /\ snapshots'[e] # NoSnapshot
        /\ \A f \in Epochs : f # e => snapshots'[f] = snapshots[f]
    BY <2>1, <2>2, SubmitFacts DEF CInv
  <2>4. snapshots'[e].hash = HashOf[j]
    BY <2>3
  <2>5. \A f \in Stored : f # e /\ f \in Epochs /\ snapshots'[f] = snapshots[f]
    BY <2>3 DEF Stored
  <2>6. \A l \in Attempts : tx[j][l] # "success"
    BY <2>3, <2>2 DEF SuccessIsOnChain, VerifySnapshotAtEpoch, Stored
  <2>7. SuccessIsOnChain'
    <3> SUFFICES ASSUME NEW i \in Jobs, NEW l \in Attempts, tx'[i][l] = "success"
                 PROVE  /\ epochOf[i] \in Epochs
                        /\ snapshots'[epochOf[i]] # NoSnapshot
                        /\ snapshots'[epochOf[i]].hash = HashOf[i]
      BY <1>1 DEF SuccessIsOnChain, VerifySnapshotAtEpoch
    <3>1. CASE i = j
      BY <2>2, <2>3, <2>4, <3>1
    <3>2. CASE i # j
      <4>1. VerifySnapshotAtEpoch(HashOf[i], epochOf[i])
        BY <1>2, <3>2 DEF SuccessIsOnChain
      <4>2. epochOf[i] \in Stored
        BY <1>2, <3>2, <4>1 DEF SuccessIsOnChain, VerifySnapshotAtEpoch, Stored
      <4>4. QED
        BY <2>5, <4>1, <4>2 DEF VerifySnapshotAtEpoch, Stored
    <3>3. QED
      BY <3>1, <3>2
  <2>8. OneSuccess'
    BY <1>2, <2>6 DEF OneSuccess
  <2>9. QED
    BY <1>3, <2>7, <2>8
<1> QED
  BY <1>4, <1>5

\* Everyone else may submit anything, and takes nothing back.
LEMMA OtherStep ==
    ASSUME PInv, OtherUser
    PROVE  JInv'
<1> USE DEF PInv, JInv, PubTypeOK
<1>1. UNCHANGED <<rows, step, epochOf, attempt, tx, result>>
  BY DEF OtherUser, job
<1>2. RowFirst' /\ LaterAttemptsUnsent' /\ NewIsUnsent' /\ OneSuccess' /\ ClaimsSucceeded'
  <2>1. RowFirst'
    BY <1>1 DEF RowFirst
  <2>2. LaterAttemptsUnsent' /\ NewIsUnsent'
    BY <1>1 DEF LaterAttemptsUnsent, NewIsUnsent
  <2>3. OneSuccess' /\ ClaimsSucceeded'
    BY <1>1 DEF OneSuccess, ClaimsSucceeded
  <2>4. QED
    BY <2>1, <2>2, <2>3
<1>3. [Next]_vars
  BY DEF OtherUser, Next
<1>4. SuccessIsOnChain'
  <2> SUFFICES ASSUME NEW j \in Jobs, NEW k \in Attempts, tx[j][k] = "success"
               PROVE  /\ epochOf[j] \in Epochs
                      /\ VerifySnapshotAtEpoch(HashOf[j], epochOf[j])'
    BY <1>1 DEF SuccessIsOnChain, VerifySnapshotAtEpoch
  <2>1. epochOf[j] \in Stored /\ snapshots[epochOf[j]].hash = HashOf[j]
    BY DEF SuccessIsOnChain, VerifySnapshotAtEpoch, Stored
  <2>2. epochOf[j] \in Stored' /\ snapshots'[epochOf[j]] = snapshots[epochOf[j]]
    BY <1>3, <2>1, KeepsSnapshots
  <2>3. QED
    BY <1>1, <2>1, <2>2 DEF VerifySnapshotAtEpoch, Stored
<1> QED
  BY <1>2, <1>4

\* Giving up before anything was stored, and losing a transaction.
LEMMA FailureStep ==
    ASSUME PInv, NEW j \in Jobs,
           StoreFails(j) \/ \E k \in Attempts : Lose(j, k)
    PROVE  JInv'
<1> USE DEF PInv, JInv, PubTypeOK
<1>1. /\ rows' = rows /\ epochOf' = epochOf /\ attempt' = attempt
      /\ snapshots' = snapshots /\ Stored' = Stored
      /\ \A h, e : VerifySnapshotAtEpoch(h, e)' = VerifySnapshotAtEpoch(h, e)
  BY DEF StoreFails, Lose, contract, vars, history, Stored, VerifySnapshotAtEpoch
<1>2. \A i \in Jobs, l \in Attempts :
          /\ tx'[i][l] # "unsent" <=> tx[i][l] # "unsent"
          /\ tx'[i][l] = "success" <=> tx[i][l] = "success"
  BY DEF StoreFails, Lose
<1>3. \A i \in Jobs :
          /\ step'[i] = step[i] \/ step'[i] = "done"
          /\ result'[i] = result[i] \/ result'[i] = "error"
  BY DEF StoreFails, Lose, Return, Goto
<1>4. RowFirst'
  <2> SUFFICES ASSUME NEW i \in Jobs,
                      step'[i] \in Running \/ \E l \in Attempts : tx'[i][l] # "unsent"
               PROVE  [epoch |-> epochOf[i], hash |-> HashOf[i]] \in rows
    BY <1>1 DEF RowFirst
  <2>1. step[i] \in Running \/ \E l \in Attempts : tx[i][l] # "unsent"
    BY <1>2, <1>3 DEF Running
  <2>2. QED
    BY <2>1 DEF RowFirst
<1>5. LaterAttemptsUnsent' /\ NewIsUnsent'
  BY <1>1, <1>2, <1>3 DEF LaterAttemptsUnsent, NewIsUnsent
<1>6. SuccessIsOnChain' /\ OneSuccess'
  BY <1>1, <1>2 DEF SuccessIsOnChain, OneSuccess
<1>7. ClaimsSucceeded'
  BY <1>2, <1>3 DEF ClaimsSucceeded
<1> QED
  BY <1>4, <1>5, <1>6, <1>7

\* The jobs' variables stay well typed.
LEMMA JobsTyped == PInv /\ [PubNext]_pubVars => PubTypeOK'
<1> SUFFICES ASSUME PInv, [PubNext]_pubVars PROVE PubTypeOK'
  OBVIOUS
<1>1. TypeOK'
  BY ContractSteps, ContractStep DEF PInv, CInv
<1> DEFINE JobsOK ==
      /\ rows \subseteq [epoch : Epochs, hash : Hash]
      /\ step \in [Jobs -> Running \cup {"new", "done"}]
      /\ epochOf \in [Jobs -> Epochs \cup {0}]
      /\ attempt \in [Jobs -> Attempts]
      /\ tx \in [Jobs -> [Attempts -> {"unsent", "pending", "success", "failed", "lost"}]]
      /\ result \in [Jobs -> {"none", "error", "stored", "unverified", "verified"}]
<1> SUFFICES JobsOK'
  BY <1>1 DEF PubTypeOK
<1>2. JobsOK
  BY DEF PInv, PubTypeOK
<1>3. ASSUME NEW j \in Jobs, Retry(j)
      PROVE  /\ attempt' \in [Jobs -> Attempts]
             /\ step' \in [Jobs -> Running \cup {"new", "done"}]
             /\ result' \in [Jobs -> {"none", "error", "stored", "unverified", "verified"}]
  <2>1. attempt[j] \in Nat /\ MaxRetries \in Nat
    BY <1>2, PublicationConstants DEF PublicationConstants, Attempts
  <2>2. CASE attempt[j] >= MaxRetries
    BY <1>2, <1>3, <2>2 DEF Retry, Return, Goto
  <2>3. CASE ~(attempt[j] >= MaxRetries)
    <3>1. attempt[j] + 1 \in Attempts
      BY <1>2, <2>1, <2>3 DEF Attempts
    <3>2. QED
      BY <1>2, <1>3, <2>3, <3>1 DEF Retry, Goto, Running
  <2>4. QED
    BY <2>2, <2>3
<1>4. ASSUME NEW j \in Jobs, NEW e \in Epochs, Generate(j, e) PROVE JobsOK'
  <2>1. [epoch |-> e, hash |-> HashOf[j]] \in [epoch : Epochs, hash : Hash]
    BY PublicationConstants DEF PublicationConstants
  <2>2. rows' \subseteq [epoch : Epochs, hash : Hash]
    BY <1>2, <1>4, <2>1 DEF Generate
  <2>3. epochOf' \in [Jobs -> Epochs \cup {0}]
    BY <1>2, <1>4 DEF Generate
  <2>4. /\ step' \in [Jobs -> Running \cup {"new", "done"}]
        /\ result' \in [Jobs -> {"none", "error", "stored", "unverified", "verified"}]
    BY <1>2, <1>4 DEF Generate, Goto, Return, Running
  <2>5. QED
    BY <1>2, <1>4, <2>2, <2>3, <2>4 DEF Generate
<1>5. ASSUME NEW j \in Jobs, StoreFails(j) PROVE JobsOK'
  BY <1>2, <1>5 DEF StoreFails, Return, Goto
<1>6. ASSUME NEW j \in Jobs, JobStep(j) PROVE JobsOK'
  <2>1. CASE Simulate(j)
    BY <1>2, <2>1 DEF Simulate, Goto, Running
  <2>2. CASE AttemptFails(j)
    BY <1>2, <1>3, <2>2 DEF AttemptFails
  <2>3. CASE Send(j)
    <3>1. tx' \in [Jobs -> [Attempts -> {"unsent", "pending", "success", "failed", "lost"}]]
      BY <1>2, <2>3 DEF Send
    <3>2. QED
      <4>1. CASE Goto(j, "wait") /\ UNCHANGED <<attempt, result>>
        BY <1>2, <2>3, <3>1, <4>1 DEF Send, Goto, Running
      <4>2. CASE Retry(j)
        BY <1>2, <1>3, <2>3, <3>1, <4>2 DEF Send
      <4>3. QED
        BY <2>3, <4>1, <4>2 DEF Send
  <2>4. CASE SeeSuccess(j)
    BY <1>2, <2>4 DEF SeeSuccess, Goto, Running
  <2>5. CASE Verify(j)
    BY <1>2, <2>5 DEF Verify, Answers, Return, Goto
  <2>6. QED
    BY <1>6, <2>1, <2>2, <2>3, <2>4, <2>5 DEF JobStep
<1>7. ASSUME NEW j \in Jobs, NEW k \in Attempts, Include(j, k) \/ Lose(j, k) PROVE JobsOK'
  BY <1>2, <1>7 DEF Include, Lose
<1>8. CASE OtherUser
  BY <1>2, <1>8 DEF OtherUser, job
<1>9. CASE UNCHANGED pubVars
  BY <1>2, <1>9 DEF pubVars, job
<1> HIDE DEF JobsOK
<1> QED
  BY <1>4, <1>5, <1>6, <1>7, <1>8, <1>9 DEF PubNext

LEMMA PubStep == PInv /\ [PubNext]_pubVars => PInv'
<1> SUFFICES ASSUME PInv, [PubNext]_pubVars PROVE PInv'
  OBVIOUS
<1>1. PubTypeOK' /\ CInv'
  BY JobsTyped, ContractSteps, ContractStep DEF PInv
<1>2. ASSUME NEW j \in Jobs, JobStep(j) PROVE JInv'
  <2>1. CASE Send(j)
    BY <2>1, SendStep
  <2>2. CASE Simulate(j) \/ SeeSuccess(j) \/ AttemptFails(j) \/ Verify(j)
    BY <2>2, QuietStep
    DEF Simulate, SeeSuccess, AttemptFails, Verify, Answers, Running, contract
  <2>3. QED
    BY <1>2, <2>1, <2>2 DEF JobStep
<1>3. CASE UNCHANGED pubVars
  <2>1. UNCHANGED <<rows, step, epochOf, attempt, tx, result, snapshots>>
    BY <1>3 DEF pubVars, contract, vars, history, job
  <2>2. QED
    <3>1. RowFirst'
      BY <2>1 DEF PInv, JInv, RowFirst
    <3>2. LaterAttemptsUnsent' /\ NewIsUnsent'
      BY <2>1 DEF PInv, JInv, LaterAttemptsUnsent, NewIsUnsent
    <3>3. SuccessIsOnChain'
      BY <2>1 DEF PInv, JInv, SuccessIsOnChain,
         VerifySnapshotAtEpoch, Stored
    <3>4. OneSuccess' /\ ClaimsSucceeded'
      BY <2>1 DEF PInv, JInv, OneSuccess, ClaimsSucceeded
    <3>5. QED
      BY <1>1, <3>1, <3>2, <3>3, <3>4 DEF PInv, JInv
<1>4. ASSUME NEW j \in Jobs, NEW e \in Epochs, Generate(j, e) PROVE JInv'
  BY <1>4, GenerateStep
<1>5. ASSUME NEW j \in Jobs, StoreFails(j) PROVE JInv'
  BY <1>5, FailureStep
<1>6. ASSUME NEW j \in Jobs, NEW k \in Attempts, Lose(j, k) PROVE JInv'
  BY <1>6, FailureStep
<1>7. ASSUME NEW j \in Jobs, NEW k \in Attempts, Include(j, k) PROVE JInv'
  BY <1>7, IncludeStep
<1>8. CASE OtherUser
  BY <1>1, <1>8, OtherStep DEF PInv
<1> QED
  BY <1>1, <1>2, <1>3, <1>4, <1>5, <1>6, <1>7, <1>8 DEF PInv, PubNext

LEMMA PubInvCorrect == PubSpec => []PInv
  BY PubInitInv, PubStep, PTL DEF PubSpec

-----------------------------------------------------------------------------
\* The contract's storage, the rows and the jobs are well typed in every
\* reachable state of the composition.
THEOREM TypeCorrect == PubSpec => []PubTypeOK
<1>1. PInv => PubTypeOK
  BY DEF PInv
<1> QED
  BY <1>1, PubInvCorrect, PTL

\* Every behaviour of the backend and of the other users together is one of the
\* contract.
THEOREM PublicationUsesContract == PubSpec => Spec
<1>1. PubInit => Init
  BY DEF PubInit
<1>2. PInv /\ [PubNext]_pubVars => [Next]_vars
  BY ContractSteps DEF PInv
<1> QED
  BY <1>1, <1>2, PubInvCorrect, PTL DEF PubSpec, Spec

\* verify_snapshot, verify_snapshot_at_epoch and verify_latest_snapshot never
\* contradict each other, whoever submits and whatever the admin does.
THEOREM AgreementCorrect == PubSpec => []VerificationsAgree
  BY InvImpliesAgreement, ContractInvCorrect, PublicationUsesContract, PTL

\* The published history is an append-only epoch log.
THEOREM EpochLogRefinement == PubSpec => ImplementsEpochLog
  BY ContractRefinement, PublicationUsesContract, PTL

\* A published hash stays verifiable at its epoch for ever: no submission,
\* pause, stop, upgrade or change of the admin takes it back.
THEOREM VerifiabilityCorrect == PubSpec => PublishedStaysVerifiable
<1>1. CInv /\ [Next]_vars => \A h \in Hash, e \in Epochs : KeepsVerification(h, e)
  BY KeepsSnapshots DEF KeepsVerification, VerifySnapshotAtEpoch, Stored
<1> QED
  BY <1>1, ContractInvCorrect, PublicationUsesContract, PTL
  DEF Spec, PublishedStaysVerifiable

\* What a transaction of the backend put on chain has its row, at the same epoch
\* and with the same hash, and is there still, whatever others submit.
THEOREM RowCorrect == PubSpec => []PublishedHasRow
<1>1. PInv => PublishedHasRow
  <2> SUFFICES ASSUME PInv, NEW j \in Jobs, NEW k \in Attempts, tx[j][k] = "success"
               PROVE  /\ [epoch |-> epochOf[j], hash |-> HashOf[j]] \in rows
                      /\ VerifySnapshotAtEpoch(HashOf[j], epochOf[j])
    BY DEF PublishedHasRow
  <2>1. tx[j][k] # "unsent"
    OBVIOUS
  <2>2. QED
    BY <2>1 DEF PInv, JInv, RowFirst, SuccessIsOnChain
<1> QED
  BY <1>1, PubInvCorrect, PTL

\* A job that returned success published its hash at its epoch, with exactly one
\* of its transactions.
THEOREM ReportsCorrect == PubSpec => []ReportsAreTrue
<1>1. PInv => ReportsAreTrue
  <2> SUFFICES ASSUME PInv, NEW j \in Jobs, result[j] \in {"verified", "unverified"}
               PROVE  /\ VerifySnapshotAtEpoch(HashOf[j], epochOf[j])
                      /\ \E k \in Attempts : \A l \in Attempts :
                             (tx[j][l] = "success") <=> (l = k)
    BY DEF ReportsAreTrue
  <2>1. PICK k \in Attempts : tx[j][k] = "success"
    BY DEF PInv, JInv, ClaimsSucceeded
  <2>2. QED
    BY <2>1 DEF PInv, JInv, SuccessIsOnChain, OneSuccess
<1> QED
  BY <1>1, PubInvCorrect, PTL
=============================================================================
