-------------------------- MODULE ContractsProofs --------------------------
(***************************************************************************)
(* Theorems about the analytics and the stellar_insights contract, alone   *)
(* and on the ledger they share, for every set of users, epochs and        *)
(* hashes.                                                                 *)
(*                                                                         *)
(* Of analytics the inductive invariant is TypeOK with LatestBoundsStored  *)
(* and NoFutureSnapshots: the first makes submit_snapshot's comparison     *)
(* with latestEpoch a comparison with the whole history, the second makes  *)
(* the time stamp of a new entry the greatest one.  Of stellar_insights it *)
(* is that the map and the events tell of the same epochs                  *)
(* (EventsAreStored, StoredIsEmitted), that the events are in order and    *)
(* that the last of them is of latestEpoch, which bounds what is stored.   *)
(***************************************************************************)
EXTENDS MCContracts, TLAPS

-----------------------------------------------------------------------------
(* The analytics contract *)

LatestBoundsStored ==
    /\ \A e \in Stored : e > 0 /\ e <= latestEpoch
    /\ latestEpoch # 0 => latestEpoch \in Stored

NoFutureSnapshots ==
    \A e \in Stored : snapshots[e].timestamp <= now

\* Before initialize nothing is stored, so the reset it performs loses nothing.
EmptyUntilInitialized == admin = NoAddress => Stored = {}

IInv ==
    /\ TypeOK
    /\ LatestBoundsStored
    /\ NoFutureSnapshots
    /\ EmptyUntilInitialized
    /\ RecordedInEpochOrder

\* An operation either leaves the history alone, or is the initialization, or
\* is a submission.
LEMMA HistorySteps ==
    ASSUME [Next]_vars
    PROVE  \/ UNCHANGED history
           \/ \E a \in Address : Initialize(a)
           \/ \E c \in Users, e \in Epochs, h \in Hash : SubmitSnapshot(c, e, h)
BY DEF Next, vars, UserTransaction, GovernanceCall, Tick, SetAdmin, Pause, Unpause,
       SetGovernance, SetAdminByGovernance, SetPausedByGovernance, history

\* TypeOK is an inductive invariant: whatever transactions run, the contract's
\* storage holds values of the declared types.
LEMMA TypeStep == TypeOK /\ [Next]_vars => TypeOK'
<1> SUFFICES ASSUME TypeOK, [Next]_vars PROVE TypeOK'
  OBVIOUS
<1> USE AnalyticsConstants DEF AnalyticsConstants, TypeOK, Snapshot, Address
<1>1. ASSUME NEW a \in Address, Initialize(a) PROVE TypeOK'
  BY <1>1 DEF Initialize, Uninitialized
<1>2. ASSUME NEW c \in Users, NEW e \in Epochs, NEW h \in Hash, SubmitSnapshot(c, e, h)
      PROVE  TypeOK'
  <2>1. [hash |-> h, timestamp |-> now] \in Snapshot
    OBVIOUS
  <2>2. QED
    BY <1>2, <2>1 DEF SubmitSnapshot, NewEpoch, config
<1>3. ASSUME NEW c \in Users, NEW a \in Address, SetAdmin(c, a) PROVE TypeOK'
  BY <1>3 DEF SetAdmin, history
<1>4. ASSUME NEW c \in Users, Pause(c) \/ Unpause(c) PROVE TypeOK'
  BY <1>4 DEF Pause, Unpause, history
<1>5. ASSUME NEW c \in Users, NEW g \in Address, SetGovernance(c, g) PROVE TypeOK'
  BY <1>5 DEF SetGovernance, history
<1>6. ASSUME NEW c \in Address, NEW a \in Address, SetAdminByGovernance(c, a)
      PROVE  TypeOK'
  BY <1>6 DEF SetAdminByGovernance, history
<1>7. ASSUME NEW c \in Address, NEW b \in BOOLEAN, SetPausedByGovernance(c, b)
      PROVE  TypeOK'
  BY <1>7 DEF SetPausedByGovernance, history
<1>8. CASE Tick
  BY <1>8 DEF Tick, config, history
<1>9. CASE UNCHANGED vars
  BY <1>9 DEF vars, config, history
<1> QED
  BY <1>1, <1>2, <1>3, <1>4, <1>5, <1>6, <1>7, <1>8, <1>9
  DEF Next, UserTransaction, GovernanceCall

LEMMA InitTyped == Init => TypeOK
<1> SUFFICES ASSUME Init PROVE TypeOK
  OBVIOUS
<1>1. now \in 0 .. MaxTime
  BY AnalyticsConstants DEF AnalyticsConstants, Init
<1>2. snapshots \in [Epochs -> Snapshot \cup {NoSnapshot}]
  BY DEF Init
<1> QED
  BY <1>1, <1>2 DEF Init, TypeOK

\* The values a typed history holds.
LEMMA TypeFacts ==
    ASSUME TypeOK
    PROVE  /\ Stored \subseteq Nat /\ Stored \subseteq Epochs
           /\ now \in Nat /\ latestEpoch \in Nat
           /\ \A e \in Stored : snapshots[e].timestamp \in Nat
<1>1. Epochs \subseteq Nat /\ MaxTime \in Nat
  BY AnalyticsConstants DEF AnalyticsConstants
<1>2. now \in Nat /\ latestEpoch \in Nat
  BY <1>1 DEF TypeOK
<1>3. ASSUME NEW e \in Stored PROVE snapshots[e].timestamp \in Nat
  <2>1. snapshots[e] \in Snapshot
    BY DEF TypeOK, Stored
  <2>2. QED
    BY <1>1, <2>1 DEF Snapshot
<1> QED
  BY <1>1, <1>2, <1>3 DEF Stored

\* Every reachable state of the contract is well typed.
THEOREM TypeCorrect == Spec => []TypeOK
<1>1. Init => TypeOK
  BY InitTyped
<1>2. QED
  BY <1>1, TypeStep, PTL DEF Spec

-----------------------------------------------------------------------------
\* What a submission does to the set of stored epochs.
LEMMA SubmitFacts ==
    ASSUME TypeOK, NEW c \in Users, NEW e \in Epochs, NEW h \in Hash,
           SubmitSnapshot(c, e, h)
    PROVE  /\ e \in Nat /\ e > 0 /\ e > latestEpoch /\ latestEpoch' = e
           /\ admin # NoAddress /\ admin' = admin /\ now' = now
           /\ snapshots'[e] = [hash |-> h, timestamp |-> now]
           /\ \A f \in Epochs : f # e => snapshots'[f] = snapshots[f]
           /\ Stored' = Stored \cup {e}
<1> USE AnalyticsConstants DEF AnalyticsConstants, SubmitSnapshot, NewEpoch, TypeOK, config
<1>1. /\ e \in Nat /\ e > 0 /\ e > latestEpoch /\ latestEpoch' = e
      /\ snapshots'[e] = [hash |-> h, timestamp |-> now]
      /\ \A f \in Epochs : f # e => snapshots'[f] = snapshots[f]
  OBVIOUS
<1>2. [hash |-> h, timestamp |-> now] # NoSnapshot
  OBVIOUS
<1>3. Stored' = Stored \cup {e}
  BY <1>1, <1>2 DEF Stored
<1>4. admin # NoAddress /\ admin' = admin /\ now' = now
  BY DEF AuthorizedAdmin
<1> QED
  BY <1>1, <1>3, <1>4

\* The inductive invariant is preserved by every step: a submission is the only
\* step that adds to the history, and it adds at its end.
LEMMA InvStep == IInv /\ [Next]_vars => IInv'
<1> SUFFICES ASSUME IInv, [Next]_vars PROVE IInv'
  OBVIOUS
<1> USE DEF IInv
<1>1. TypeOK'
  BY TypeStep
<1>2. CASE UNCHANGED history
  <2>1. Stored' = Stored /\ snapshots' = snapshots /\ latestEpoch' = latestEpoch
    BY <1>2 DEF history, Stored
  <2>2. now <= now' /\ now \in Nat /\ now' \in Nat
    BY <1>1, AnalyticsConstants
    DEF TypeOK, AnalyticsConstants, Next, vars, UserTransaction, GovernanceCall, Tick,
        Initialize, SubmitSnapshot, SetAdmin, Pause, Unpause, SetGovernance,
        SetAdminByGovernance, SetPausedByGovernance, config
  <2>3. NoFutureSnapshots'
    BY <2>1, <2>2, TypeFacts DEF NoFutureSnapshots
  <2>4. EmptyUntilInitialized'
    <3>1. admin = NoAddress \/ admin' # NoAddress
      BY AnalyticsConstants
      DEF AnalyticsConstants, Next, vars, UserTransaction, GovernanceCall, Tick,
          Initialize, SubmitSnapshot, SetAdmin, Pause, Unpause, SetGovernance,
          SetAdminByGovernance, SetPausedByGovernance, config
    <3>2. QED
      BY <2>1, <3>1 DEF EmptyUntilInitialized
  <2>5. LatestBoundsStored' /\ RecordedInEpochOrder'
    BY <2>1 DEF LatestBoundsStored, RecordedInEpochOrder
  <2>6. QED
    BY <1>1, <2>3, <2>4, <2>5
<1>3. ASSUME NEW a \in Address, Initialize(a) PROVE IInv'
  <2>1. Stored' = {} /\ latestEpoch' = 0
    BY <1>3 DEF Initialize, Stored
  <2>2. QED
    BY <1>1, <2>1 DEF LatestBoundsStored, NoFutureSnapshots, EmptyUntilInitialized,
       RecordedInEpochOrder
<1>4. ASSUME NEW c \in Users, NEW e \in Epochs, NEW h \in Hash, SubmitSnapshot(c, e, h)
      PROVE  IInv'
  <2>1. /\ e \in Nat /\ e > 0 /\ e > latestEpoch /\ latestEpoch' = e
        /\ admin # NoAddress /\ admin' = admin /\ now' = now
        /\ snapshots'[e] = [hash |-> h, timestamp |-> now]
        /\ \A f \in Epochs : f # e => snapshots'[f] = snapshots[f]
        /\ Stored' = Stored \cup {e}
    BY <1>4, SubmitFacts
  <2>2. /\ Stored \subseteq Nat /\ now \in Nat /\ latestEpoch \in Nat
        /\ \A f \in Stored : snapshots[f].timestamp \in Nat
    BY TypeFacts
  <2>3. \A f \in Stored : f < e /\ f # e /\ f \in Epochs
    BY <2>1, <2>2 DEF LatestBoundsStored, Stored
  <2>4. LatestBoundsStored'
    BY <2>1, <2>2, <2>3 DEF LatestBoundsStored
  <2>5. NoFutureSnapshots'
    <3>1. snapshots'[e].timestamp <= now'
      BY <2>1, <2>2
    <3>2. \A f \in Stored : snapshots'[f].timestamp <= now'
      BY <2>1, <2>3 DEF NoFutureSnapshots
    <3>3. QED
      BY <2>1, <3>1, <3>2 DEF NoFutureSnapshots
  <2>6. EmptyUntilInitialized'
    BY <2>1 DEF EmptyUntilInitialized
  <2>7. RecordedInEpochOrder'
    <3> SUFFICES ASSUME NEW f \in Stored', NEW g \in Stored', f < g
                 PROVE  snapshots'[f].timestamp <= snapshots'[g].timestamp
      BY DEF RecordedInEpochOrder
    <3>1. f # e
      BY <2>1, <2>2, <2>3
    <3>2. CASE g = e
      <4>1. f \in Stored /\ snapshots'[f] = snapshots[f]
        BY <2>1, <2>3, <3>1
      <4>2. snapshots'[g].timestamp = now
        BY <2>1, <3>2
      <4>3. QED
        BY <4>1, <4>2 DEF NoFutureSnapshots
    <3>3. CASE g # e
      BY <2>1, <2>3, <3>1, <3>3 DEF RecordedInEpochOrder
    <3>4. QED
      BY <3>2, <3>3
  <2>8. QED
    BY <1>1, <2>4, <2>5, <2>6, <2>7
<1> QED
  BY <1>2, <1>3, <1>4, HistorySteps

LEMMA InvCorrect == Spec => []IInv
<1>1. Init => IInv
  <2> SUFFICES ASSUME Init PROVE IInv
    OBVIOUS
  <2>1. Stored = {} /\ latestEpoch = 0
    BY DEF Init, Stored
  <2>2. QED
    BY <2>1, InitTyped
    DEF IInv, LatestBoundsStored, NoFutureSnapshots, EmptyUntilInitialized,
        RecordedInEpochOrder
<1>2. QED
  BY <1>1, InvStep, PTL DEF Spec

\* latestEpoch is the greatest stored epoch, so get_latest_snapshot returns the
\* newest snapshot whenever one exists.
THEOREM LatestIsNewestCorrect == Spec => []LatestIsNewest
<1>1. IInv => LatestIsNewest
  <2> SUFFICES ASSUME IInv PROVE LatestIsNewest
    OBVIOUS
  <2>1. Stored # {} => latestEpoch # 0 /\ latestEpoch \in Stored
    BY TypeFacts DEF IInv, LatestBoundsStored
  <2>2. QED
    BY <2>1 DEF IInv, LatestBoundsStored, LatestIsNewest, GetLatestSnapshot, Stored
<1>2. QED
  BY <1>1, InvCorrect, PTL

\* Ledger time stamps never decrease along the epochs.
THEOREM RecordedInEpochOrderCorrect == Spec => []RecordedInEpochOrder
<1>1. IInv => RecordedInEpochOrder
  BY DEF IInv
<1>2. QED
  BY <1>1, InvCorrect, PTL

\* The contract implements the append-only epoch log.
THEOREM EpochLogRefinement == Spec => ImplementsEpochLog
<1>1. Init => Log!Init
  BY DEF Init, Log!Init, HashAt
<1>2. IInv /\ [Next]_vars => [Log!Next]_([e \in Epochs |-> HashAt(e)])
  <2> SUFFICES ASSUME IInv, [Next]_vars
               PROVE  [Log!Next]_([e \in Epochs |-> HashAt(e)])
    OBVIOUS
  <2> DEFINE log == [e \in Epochs |-> HashAt(e)]
  <2>1. CASE UNCHANGED history
    <3>1. \A e : HashAt(e)' = HashAt(e)
      BY <2>1 DEF history, HashAt
    <3>2. QED
      BY <3>1
  <2>2. ASSUME NEW a \in Address, Initialize(a) PROVE log' = log
    <3>1. \A e \in Epochs : snapshots[e] = NoSnapshot /\ snapshots'[e] = NoSnapshot
      BY <2>2 DEF Initialize, Uninitialized, IInv, EmptyUntilInitialized, Stored
    <3>2. QED
      BY <3>1 DEF HashAt
  <2>3. ASSUME NEW c \in Users, NEW e \in Epochs, NEW h \in Hash, SubmitSnapshot(c, e, h)
        PROVE  Log!Publish(e, h)
    <3>1. /\ e \in Nat /\ e > 0 /\ e > latestEpoch
          /\ snapshots'[e] = [hash |-> h, timestamp |-> now]
          /\ \A f \in Epochs : f # e => snapshots'[f] = snapshots[f]
      BY <2>3, SubmitFacts DEF IInv
    <3>2. \A f \in Log!Published : f \in Stored
      BY DEF Log!Published, Stored, HashAt
    <3>3. \A f \in Log!Published : f < e
      BY <3>1, <3>2, TypeFacts DEF IInv, LatestBoundsStored
    <3>4. [hash |-> h, timestamp |-> now] # NoSnapshot
      BY AnalyticsConstants DEF AnalyticsConstants, IInv, TypeOK
    <3>5. HashAt(e)' = h /\ \A f \in Epochs : f # e => HashAt(f)' = HashAt(f)
      BY <3>1, <3>4 DEF HashAt
    <3>6. log' = [log EXCEPT ![e] = h]
      BY <3>5
    <3>7. QED
      BY <3>1, <3>3, <3>6 DEF Log!Publish
  <2> QED
    BY <2>1, <2>2, <2>3, HistorySteps DEF Log!Next
<1>3. QED
  BY <1>1, <1>2, InvCorrect, PTL DEF Spec, ImplementsEpochLog, Log!Spec

-----------------------------------------------------------------------------
(* The stellar_insights contract *)

InsightsLatestBounds == \A e \in SI!Stored : e > 0 /\ e <= insightsLatest

\* Before initialize there is nothing, so the reset it performs loses nothing.
InsightsEmpty == insightsAdmin = NoAddress => events = <<>> /\ SI!Stored = {}

\* Every event tells what is stored, by whom, and not from the future ...
EventsAreStored ==
    \A i \in DOMAIN events :
        /\ insightsSnapshots[events[i].epoch] = SI!Row(events[i])
        /\ events[i].submitter = insightsAdmin
        /\ events[i].timestamp <= now

\* ... and everything stored was told.
StoredIsEmitted == \A e \in SI!Stored : \E i \in DOMAIN events : events[i].epoch = e

LastIsLatest ==
    insightsLatest = IF events = <<>> THEN 0 ELSE events[Len(events)].epoch

InsightsInv ==
    /\ SI!TypeOK
    /\ InsightsLatestBounds
    /\ InsightsEmpty
    /\ EventsAreStored
    /\ StoredIsEmitted
    /\ EventsInEpochOrder
    /\ LastIsLatest

\* What the types say of an event, and of the map.
LEMMA InsightsFacts ==
    ASSUME SI!TypeOK
    PROVE  /\ now \in Nat /\ insightsLatest \in Nat /\ Epochs \subseteq Nat
           /\ Len(events) \in Nat /\ DOMAIN events = 1 .. Len(events)
           /\ \A i \in DOMAIN events :
                  /\ events[i].epoch \in Epochs /\ events[i].epoch \in Nat /\ events[i].epoch > 0
                  /\ events[i].hash \in Hash
                  /\ events[i].timestamp \in 0 .. MaxTime /\ events[i].timestamp \in Nat
                  /\ SI!Row(events[i]) # NoSnapshot
<1>0. /\ MaxTime \in Nat /\ Epochs \subseteq Nat
      /\ NoSnapshot \notin [hash : Hash, timestamp : 0 .. MaxTime]
  BY ContractsConstants DEF SI!StellarInsightsConstants
<1>1. now \in Nat /\ insightsLatest \in Nat /\ Epochs \subseteq Nat
  BY <1>0 DEF SI!TypeOK
<1>2. Len(events) \in Nat /\ DOMAIN events = 1 .. Len(events)
  BY DEF SI!TypeOK
<1>3. ASSUME NEW i \in DOMAIN events
      PROVE  /\ events[i].epoch \in Epochs /\ events[i].epoch \in Nat /\ events[i].epoch > 0
             /\ events[i].hash \in Hash
             /\ events[i].timestamp \in 0 .. MaxTime /\ events[i].timestamp \in Nat
             /\ SI!Row(events[i]) # NoSnapshot
  <2>1. events[i] \in SI!SnapshotSubmitted
    BY <1>2, <1>3 DEF SI!TypeOK
  <2>2. /\ events[i].epoch \in Epochs /\ events[i].epoch # 0 /\ events[i].hash \in Hash
        /\ events[i].timestamp \in 0 .. MaxTime
    BY <2>1 DEF SI!SnapshotSubmitted
  <2>3. SI!Row(events[i]) \in [hash : Hash, timestamp : 0 .. MaxTime]
    BY <2>2 DEF SI!Row
  <2>4. /\ events[i].epoch \in Nat /\ events[i].epoch > 0
        /\ events[i].timestamp \in Nat
    <3>1. events[i].epoch \in Nat /\ events[i].epoch # 0
      BY <1>0, <2>2
    <3>2. events[i].timestamp \in Nat
      BY <1>0, <2>2
    <3> QED
      BY <3>1, <3>2
  <2>5. SI!Row(events[i]) # NoSnapshot
    BY <1>0, <2>3
  <2> QED
    BY <2>2, <2>4, <2>5
<1> QED
  BY <1>1, <1>2, <1>3

\* What an accepted submission does: it adds an epoch beyond all others, and
\* an event beyond all others.
LEMMA InsightsSubmitFacts ==
    ASSUME SI!TypeOK, NEW e \in Epochs, NEW h \in Hash, NEW c \in Users,
           SI!SubmitSnapshot(e, h, c)
    PROVE  /\ e \in Nat /\ e > 0 /\ e > insightsLatest /\ insightsLatest' = e
           /\ insightsAdmin = c /\ insightsAdmin' = insightsAdmin /\ insightsAdmin # NoAddress
           /\ now' = now
           /\ insightsSnapshots'[e] = [hash |-> h, timestamp |-> now]
           /\ \A f \in Epochs : f # e => insightsSnapshots'[f] = insightsSnapshots[f]
           /\ SI!Stored' = SI!Stored \cup {e}
           /\ Len(events') = Len(events) + 1 /\ DOMAIN events' = 1 .. Len(events) + 1
           /\ \A i \in DOMAIN events : events'[i] = events[i]
           /\ events'[Len(events) + 1] =
                  [epoch |-> e, hash |-> h, timestamp |-> now, submitter |-> c]
           /\ SI!TypeOK'
<1> USE ContractsConstants DEF SI!StellarInsightsConstants
<1>1. /\ e \in Nat /\ e > 0 /\ e > insightsLatest /\ insightsLatest' = e
      /\ insightsAdmin = c /\ insightsAdmin' = insightsAdmin /\ insightsAdmin # NoAddress
      /\ now' = now /\ insightsPaused' = insightsPaused
  BY DEF SI!SubmitSnapshot, SI!NewEpoch, SI!AuthorizedAdmin, SI!TypeOK
<1>2. insightsSnapshots' = [insightsSnapshots EXCEPT ![e] = [hash |-> h, timestamp |-> now]]
  BY DEF SI!SubmitSnapshot
<1>3. /\ insightsSnapshots'[e] = [hash |-> h, timestamp |-> now]
      /\ \A f \in Epochs : f # e => insightsSnapshots'[f] = insightsSnapshots[f]
  BY <1>2 DEF SI!TypeOK
<1>4. [hash |-> h, timestamp |-> now] \in SI!Snapshot
      /\ [hash |-> h, timestamp |-> now] # NoSnapshot
  BY DEF SI!TypeOK, SI!Snapshot
<1>5. SI!Stored' = SI!Stored \cup {e}
  BY <1>3, <1>4 DEF SI!Stored
<1> DEFINE ev == [epoch |-> e, hash |-> h, timestamp |-> now, submitter |-> c]
<1>6. events' = Append(events, ev) /\ ev \in SI!SnapshotSubmitted
  BY <1>1 DEF SI!SubmitSnapshot, SI!Submitted, SI!SnapshotSubmitted, SI!TypeOK
<1>7. events \in Seq(SI!SnapshotSubmitted)
  BY DEF SI!TypeOK
<1> HIDE DEF ev
<1>8. /\ Len(events') = Len(events) + 1 /\ DOMAIN events' = 1 .. Len(events) + 1
      /\ \A i \in DOMAIN events : events'[i] = events[i]
      /\ events'[Len(events) + 1] = ev
      /\ events' \in Seq(SI!SnapshotSubmitted)
  BY <1>6, <1>7
<1>9. SI!TypeOK'
  <2>1. insightsSnapshots' \in [Epochs -> SI!Snapshot \cup {NoSnapshot}]
    BY <1>2, <1>4 DEF SI!TypeOK
  <2> QED
    BY <1>1, <1>8, <2>1 DEF SI!TypeOK, SI!Snapshot, SI!SnapshotSubmitted, SI!Address
<1> QED
  BY <1>1, <1>3, <1>5, <1>8, <1>9 DEF ev

LEMMA InsightsSteps ==
    ASSUME [SI!Next]_(SI!vars)
    PROVE  \/ /\ UNCHANGED <<insightsAdmin, insightsLatest, insightsSnapshots, events>>
              /\ insightsPaused' \in BOOLEAN \cup {insightsPaused}
              /\ now' \in (now + 1 .. MaxTime) \cup {now}
           \/ \E a \in SI!Address : SI!Initialize(a)
           \/ \E e \in Epochs, h \in Hash, c \in Users : SI!SubmitSnapshot(e, h, c)
BY DEF SI!Next, SI!vars, SI!history, SI!Transaction, SI!Tick, SI!Pause, SI!Unpause

LEMMA InsightsInit == SI!Init => InsightsInv
<1> SUFFICES ASSUME SI!Init PROVE InsightsInv
  OBVIOUS
<1>1. SI!TypeOK
  <2>1. now \in 0 .. MaxTime
    BY ContractsConstants DEF SI!StellarInsightsConstants, SI!Init
  <2>2. events \in Seq(SI!SnapshotSubmitted)
    BY DEF SI!Init
  <2>3. insightsSnapshots \in [Epochs -> SI!Snapshot \cup {NoSnapshot}]
    BY DEF SI!Init
  <2> QED
    BY <2>1, <2>2, <2>3 DEF SI!Init, SI!TypeOK
<1>2. SI!Stored = {} /\ events = <<>> /\ DOMAIN events = {} /\ insightsLatest = 0
  BY DEF SI!Init, SI!Stored
<1> QED
  BY <1>1, <1>2
     DEF InsightsInv, InsightsLatestBounds, InsightsEmpty, EventsAreStored, StoredIsEmitted,
         EventsInEpochOrder, SI!EventsInEpochOrder, LastIsLatest

\* Operations that publish nothing keep what was published.
LEMMA InsightsQuiet ==
    ASSUME InsightsInv, UNCHANGED <<insightsAdmin, insightsLatest, insightsSnapshots, events>>,
           insightsPaused' \in BOOLEAN \cup {insightsPaused},
           now' \in (now + 1 .. MaxTime) \cup {now}
    PROVE  InsightsInv'
<1>1. SI!TypeOK /\ now \in Nat /\ now' \in Nat /\ now <= now' /\ now' \in 0 .. MaxTime
  BY ContractsConstants, InsightsFacts DEF SI!StellarInsightsConstants, InsightsInv, SI!TypeOK
<1>2. SI!TypeOK'
  BY <1>1 DEF SI!TypeOK, SI!Snapshot, SI!SnapshotSubmitted, SI!Address
<1>3. SI!Stored' = SI!Stored
  BY DEF SI!Stored
<1>4. EventsAreStored'
  BY <1>1, InsightsFacts DEF InsightsInv, EventsAreStored, SI!Row
<1> QED
  BY <1>2, <1>3, <1>4
     DEF InsightsInv, InsightsLatestBounds, InsightsEmpty, StoredIsEmitted, EventsInEpochOrder,
         SI!EventsInEpochOrder, LastIsLatest

\* A submission adds to the map and to the events alike, at the end of both.
LEMMA InsightsSubmit ==
    ASSUME InsightsInv, NEW e \in Epochs, NEW h \in Hash, NEW c \in Users,
           SI!SubmitSnapshot(e, h, c)
    PROVE  InsightsInv'
<1> DEFINE n == Len(events)
           new == [epoch |-> e, hash |-> h, timestamp |-> now, submitter |-> c]
<1>1. /\ e \in Nat /\ e > 0 /\ e > insightsLatest /\ insightsLatest' = e
      /\ insightsAdmin = c /\ insightsAdmin' = insightsAdmin /\ insightsAdmin # NoAddress
      /\ now' = now
      /\ insightsSnapshots'[e] = [hash |-> h, timestamp |-> now]
      /\ \A f \in Epochs : f # e => insightsSnapshots'[f] = insightsSnapshots[f]
      /\ SI!Stored' = SI!Stored \cup {e}
      /\ SI!TypeOK'
  BY InsightsSubmitFacts DEF InsightsInv
<1>2. /\ Len(events') = n + 1 /\ DOMAIN events' = 1 .. n + 1
      /\ \A i \in DOMAIN events : events'[i] = events[i]
      /\ events'[n + 1] = new
  BY InsightsSubmitFacts DEF InsightsInv
<1>3. /\ now \in Nat /\ insightsLatest \in Nat /\ Epochs \subseteq Nat
      /\ n \in Nat /\ DOMAIN events = 1 .. n
      /\ \A i \in DOMAIN events :
             /\ events[i].epoch \in Epochs /\ events[i].epoch \in Nat
             /\ events[i].timestamp \in Nat /\ SI!Row(events[i]) # NoSnapshot
  BY InsightsFacts DEF InsightsInv
<1>4. /\ new.epoch = e /\ new.hash = h /\ new.timestamp = now /\ new.submitter = c
      /\ SI!Row(new) = [hash |-> h, timestamp |-> now]
  BY DEF SI!Row
<1> HIDE DEF n, new
<1>5. \A i \in DOMAIN events' : i \in DOMAIN events \/ i = n + 1
  BY <1>2, <1>3
<1>6. \A i \in DOMAIN events : events[i].epoch \in SI!Stored /\ events[i].epoch < e
  <2>1. \A i \in DOMAIN events : events[i].epoch \in SI!Stored
    BY <1>3 DEF InsightsInv, EventsAreStored, SI!Stored
  <2> QED
    BY <1>1, <1>3, <2>1 DEF InsightsInv, InsightsLatestBounds
<1>7. InsightsLatestBounds'
  <2> SUFFICES ASSUME NEW f \in SI!Stored PROVE f > 0 /\ f <= e
    BY <1>1 DEF InsightsLatestBounds
  <2>1. f \in Nat /\ f > 0 /\ f <= insightsLatest
    BY <1>3 DEF InsightsInv, InsightsLatestBounds, SI!Stored
  <2> QED
    BY <1>1, <1>3, <2>1
<1>8. InsightsEmpty'
  BY <1>1 DEF InsightsEmpty
<1>9. EventsAreStored'
  <2> SUFFICES ASSUME NEW i \in DOMAIN events'
               PROVE  /\ insightsSnapshots'[events'[i].epoch] = SI!Row(events'[i])
                      /\ events'[i].submitter = insightsAdmin'
                      /\ events'[i].timestamp <= now'
    BY DEF EventsAreStored, SI!Row
  <2>1. CASE i \in DOMAIN events
    <3>1. events[i].epoch \in Epochs /\ events[i].epoch # e
      BY <1>1, <1>3, <1>6, <2>1
    <3> QED
      BY <1>1, <1>2, <2>1, <3>1 DEF InsightsInv, EventsAreStored
  <2>2. CASE i = n + 1
    BY <1>1, <1>2, <1>3, <1>4, <2>2
  <2> QED
    BY <1>5, <2>1, <2>2
<1>10. StoredIsEmitted'
  <2> SUFFICES ASSUME NEW f \in SI!Stored'
               PROVE  \E i \in DOMAIN events' : events'[i].epoch = f
    BY DEF StoredIsEmitted
  <2>1. CASE f = e
    <3>1. n + 1 \in DOMAIN events'
      BY <1>2, <1>3
    <3> QED
      BY <1>2, <1>4, <2>1, <3>1
  <2>2. CASE f \in SI!Stored
    <3>1. PICK i \in DOMAIN events : events[i].epoch = f
      BY <2>2 DEF InsightsInv, StoredIsEmitted
    <3>2. i \in DOMAIN events'
      BY <1>2, <1>3
    <3> QED
      BY <1>2, <3>1, <3>2
  <2> QED
    BY <1>1, <2>1, <2>2
<1>11. EventsInEpochOrder'
  <2> SUFFICES ASSUME NEW i \in DOMAIN events', NEW j \in DOMAIN events', i < j
               PROVE  /\ events'[i].epoch < events'[j].epoch
                      /\ events'[i].timestamp <= events'[j].timestamp
    BY DEF EventsInEpochOrder, SI!EventsInEpochOrder
  <2>1. i \in DOMAIN events
    BY <1>2, <1>3, <1>5
  <2>2. CASE j \in DOMAIN events
    BY <1>2, <2>1, <2>2 DEF InsightsInv, EventsInEpochOrder, SI!EventsInEpochOrder
  <2>3. CASE j = n + 1
    BY <1>2, <1>4, <1>6, <2>1, <2>3 DEF InsightsInv, EventsAreStored
  <2> QED
    BY <1>5, <2>2, <2>3
<1>12. LastIsLatest'
  <2>1. events' # <<>>
    BY <1>2, <1>3
  <2> QED
    BY <1>1, <1>2, <1>4, <2>1 DEF LastIsLatest
<1> QED
  BY <1>1, <1>7, <1>8, <1>9, <1>10, <1>11, <1>12 DEF InsightsInv

LEMMA InsightsStep == InsightsInv /\ [SI!Next]_(SI!vars) => InsightsInv'
<1> SUFFICES ASSUME InsightsInv, [SI!Next]_(SI!vars) PROVE InsightsInv'
  OBVIOUS
<1>1. ASSUME NEW a \in SI!Address, SI!Initialize(a)
      PROVE  InsightsInv'
  <2>1. /\ events = <<>> /\ SI!Stored = {} /\ events' = events /\ insightsLatest' = 0
        /\ insightsSnapshots' = insightsSnapshots /\ now' = now /\ DOMAIN events = {}
    BY <1>1 DEF SI!Initialize, SI!Uninitialized, InsightsInv, InsightsEmpty
  <2>2. SI!Stored' = {}
    BY <2>1 DEF SI!Stored
  <2>3. SI!TypeOK'
    BY <1>1, <2>1 DEF InsightsInv, SI!Initialize, SI!TypeOK, SI!Snapshot, SI!SnapshotSubmitted
  <2> QED
    BY <2>1, <2>2, <2>3
       DEF InsightsInv, InsightsLatestBounds, InsightsEmpty, EventsAreStored, StoredIsEmitted,
           EventsInEpochOrder, SI!EventsInEpochOrder, LastIsLatest
<1> QED
  BY <1>1, InsightsSteps, InsightsQuiet, InsightsSubmit

-----------------------------------------------------------------------------
(* The ledger they share *)

\* On the ledger each contract behaves as it does alone: the other's
\* transactions do not touch it.
THEOREM ContractsShareTheLedger == LedgerSpec => Spec /\ SI!Spec
<1>1. LedgerInit => Init /\ SI!Init
  BY DEF LedgerInit
<1>2. [LedgerNext]_<<vars, insights>> => [Next]_vars
  BY DEF LedgerNext, Next, vars, config, history, SI!Transaction, SI!Initialize,
         SI!SubmitSnapshot, SI!Pause, SI!Unpause
<1>3. [LedgerNext]_<<vars, insights>> => [SI!Next]_(SI!vars)
  <2> SUFFICES ASSUME [LedgerNext]_<<vars, insights>> PROVE [SI!Next]_(SI!vars)
    OBVIOUS
  <2> USE DEF insights, SI!vars, SI!history
  <2>1. CASE UNCHANGED <<vars, insights>>
    BY <2>1 DEF vars
  <2>2. CASE (UserTransaction \/ GovernanceCall) /\ UNCHANGED insights
    <3>1. now' = now
      BY <2>2 DEF UserTransaction, GovernanceCall, Initialize, SubmitSnapshot, SetAdmin, Pause,
         Unpause, SetGovernance, SetAdminByGovernance, SetPausedByGovernance
    <3> QED
      BY <2>2, <3>1
  <2>3. CASE SI!Transaction
    BY <2>3 DEF SI!Next
  <2>4. CASE Tick /\ UNCHANGED insights
    BY <2>4 DEF Tick, SI!Tick, SI!Next
  <2> QED
    BY <2>1, <2>2, <2>3, <2>4 DEF LedgerNext
<1> QED
  BY <1>1, <1>2, <1>3, PTL DEF LedgerSpec, Spec, SI!Spec

LEMMA InsightsInvCorrect == LedgerSpec => []InsightsInv
<1>1. SI!Spec => []InsightsInv
  BY InsightsInit, InsightsStep, PTL DEF SI!Spec
<1> QED
  BY <1>1, ContractsShareTheLedger

\* The storage and the events of stellar_insights are well typed.
THEOREM InsightsTypeCorrect == LedgerSpec => []SI!TypeOK
<1>1. InsightsInv => SI!TypeOK
  BY DEF InsightsInv
<1> QED
  BY <1>1, InsightsInvCorrect, PTL

\* Its events reach an indexer in the order of their epochs and times.
THEOREM EventsInOrderCorrect == LedgerSpec => []EventsInEpochOrder
<1>1. InsightsInv => EventsInEpochOrder
  BY DEF InsightsInv
<1> QED
  BY <1>1, InsightsInvCorrect, PTL

\* An indexer that applies the events of stellar_insights holds the contract's
\* own map, and the last event is what latest_snapshot answers.
THEOREM IndexersAgreeCorrect == LedgerSpec => []IndexersAgree
<1>1. InsightsInv => IndexersAgree
  <2> SUFFICES ASSUME InsightsInv PROVE IndexersAgree
    OBVIOUS
  <2>1. /\ Len(events) \in Nat /\ DOMAIN events = 1 .. Len(events)
        /\ \A i \in DOMAIN events : events[i].epoch \in Nat /\ events[i].epoch > 0
                                    /\ events[i].epoch \in Epochs
                                    /\ SI!Row(events[i]) # NoSnapshot
    BY InsightsFacts DEF InsightsInv
  <2>2. \A i, j \in DOMAIN events : events[i].epoch = events[j].epoch => i = j
    <3> SUFFICES ASSUME NEW i \in DOMAIN events, NEW j \in DOMAIN events, i # j,
                        events[i].epoch = events[j].epoch
                 PROVE  FALSE
      OBVIOUS
    <3>1. i < j \/ j < i
      BY <2>1
    <3>2. events[i].epoch < events[j].epoch \/ events[j].epoch < events[i].epoch
      BY <3>1 DEF InsightsInv, EventsInEpochOrder, SI!EventsInEpochOrder
    <3> QED
      BY <2>1, <3>2
  <2>3. ASSUME NEW e \in Epochs
        PROVE  SI!Indexed[e] = insightsSnapshots[e]
    <3> DEFINE about == {i \in DOMAIN events : events[i].epoch = e}
    <3>1. SI!Indexed[e] = IF about = {} THEN NoSnapshot ELSE SI!Row(events[SI!Max(about)])
      BY DEF SI!Indexed
    <3>2. CASE about = {}
      <4>1. e \notin SI!Stored
        BY <3>2 DEF InsightsInv, StoredIsEmitted
      <4> QED
        BY <3>1, <3>2, <4>1 DEF SI!Stored
    <3>3. ASSUME NEW i \in about
          PROVE  SI!Indexed[e] = insightsSnapshots[e]
      <4>1. about = {i} /\ i \in Nat
        BY <2>1, <2>2, <3>3
      <4>2. i \in about /\ \A j \in about : i >= j
        BY <4>1
      <4>3. SI!Max(about) \in about
        <5> HIDE DEF about
        <5> QED
          BY <4>2 DEF SI!Max
      <4>4. SI!Max(about) = i
        BY <4>1, <4>3
      <4>5. insightsSnapshots[e] = SI!Row(events[i])
        BY <3>3 DEF InsightsInv, EventsAreStored
      <4> QED
        BY <3>1, <3>3, <4>4, <4>5
    <3> QED
      BY <3>2, <3>3
  <2>4. SI!Indexed = insightsSnapshots
    BY <2>3 DEF InsightsInv, SI!TypeOK, SI!Indexed
  <2>5. events = <<>> <=> insightsLatest = 0
    <3>1. events # <<>> => Len(events) \in DOMAIN events
      BY <2>1 DEF InsightsInv, SI!TypeOK
    <3> QED
      BY <2>1, <3>1 DEF InsightsInv, LastIsLatest
  <2>6. events # <<>> => SI!LatestSnapshot = SI!Row(events[Len(events)])
    <3>1. events # <<>> => Len(events) \in DOMAIN events
      BY <2>1 DEF InsightsInv, SI!TypeOK
    <3> QED
      BY <2>5, <3>1 DEF InsightsInv, LastIsLatest, EventsAreStored, SI!LatestSnapshot
  <2>7. \A i \in DOMAIN events : events[i].submitter = insightsAdmin
    BY DEF InsightsInv, EventsAreStored
  <2> QED
    BY <2>4, <2>5, <2>6, <2>7 DEF IndexersAgree, SI!IndexersAgree
<1> QED
  BY <1>1, InsightsInvCorrect, PTL

\* stellar_insights implements the append-only epoch log.
THEOREM InsightsLogRefinement == LedgerSpec => InsightsIsEpochLog
<1> DEFINE log == [e \in Epochs |-> SI!HashAt(e)]
<1>1. SI!Init => SI!Log!Init
  BY DEF SI!Init, SI!Log!Init, SI!HashAt
<1>2. InsightsInv /\ [SI!Next]_(SI!vars) => [SI!Log!Next]_([e \in Epochs |-> SI!HashAt(e)])
  <2> SUFFICES ASSUME InsightsInv, [SI!Next]_(SI!vars)
               PROVE  [SI!Log!Next]_([e \in Epochs |-> SI!HashAt(e)])
    OBVIOUS
  <2>1. ASSUME insightsSnapshots' = insightsSnapshots PROVE log' = log
    BY <2>1 DEF SI!HashAt
  <2>2. ASSUME NEW e \in Epochs, NEW h \in Hash, NEW c \in Users, SI!SubmitSnapshot(e, h, c)
        PROVE  SI!Log!Publish(e, h)
    <3>1. /\ e \in Nat /\ e > 0 /\ e > insightsLatest
          /\ insightsSnapshots'[e] = [hash |-> h, timestamp |-> now]
          /\ \A f \in Epochs : f # e => insightsSnapshots'[f] = insightsSnapshots[f]
      BY <2>2, InsightsSubmitFacts DEF InsightsInv
    <3>2. \A f \in SI!Log!Published : f \in SI!Stored
      BY DEF SI!Log!Published, SI!Stored, SI!HashAt
    <3>3. \A f \in SI!Log!Published : f < e
      <4>1. insightsLatest \in Nat /\ Epochs \subseteq Nat
        BY InsightsFacts DEF InsightsInv
      <4>2. \A f \in SI!Stored : f \in Nat /\ f <= insightsLatest
        BY <4>1 DEF InsightsInv, InsightsLatestBounds, SI!Stored
      <4> QED
        BY <3>1, <3>2, <4>1, <4>2
    <3>4. [hash |-> h, timestamp |-> now] # NoSnapshot
      BY ContractsConstants DEF SI!StellarInsightsConstants, InsightsInv, SI!TypeOK
    <3>5. SI!HashAt(e)' = h /\ \A f \in Epochs : f # e => SI!HashAt(f)' = SI!HashAt(f)
      BY <3>1, <3>4 DEF SI!HashAt
    <3>6. log' = [log EXCEPT ![e] = h]
      BY <3>5
    <3> QED
      BY <3>1, <3>3, <3>6 DEF SI!Log!Publish
  <2>3. ASSUME NEW a \in SI!Address, SI!Initialize(a) PROVE insightsSnapshots' = insightsSnapshots
    BY <2>3 DEF SI!Initialize
  <2> QED
    BY <2>1, <2>2, <2>3, InsightsSteps DEF SI!Log!Next
<1>3. SI!Spec /\ []InsightsInv => SI!Log!Spec
  BY <1>1, <1>2, PTL DEF SI!Spec, SI!Log!Spec
<1> QED
  BY <1>3, InsightsInvCorrect, ContractsShareTheLedger
     DEF InsightsIsEpochLog, SI!ImplementsEpochLog
=============================================================================
