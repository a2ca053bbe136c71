------------------------- MODULE ReplayEngineProofs -------------------------
(***************************************************************************)
(* Theorems about the replay of events, for any number of sessions and     *)
(* faults, any log, batch size and checkpoint interval.  The three         *)
(* properties are not inductive, since they speak of what a session has    *)
(* left behind and not of what it is doing.  The invariant adds, for each  *)
(* session on its way: what it has in hand belongs to its batch and comes  *)
(* after what it has done (HandIsOfBatch, DoneComesFirst); what it gave up *)
(* lies behind it (LostIsBehind); nothing between the beginning of its     *)
(* chain and its position is missing (NothingIsSkipped); and the state is  *)
(* the fold of what it has applied at every step, not only between two     *)
(* batches (StateIsFold).                                                  *)
(***************************************************************************)
EXTENDS ReplayEngine, Integers, WellFoundedInduction, TLAPS

\* The steps of a batch, and the position its session has reached: the first
\* ledger none of whose events it has in hand or behind it.
InBatch == {"event", "lookup", "insert", "mark", "save"}
Replaying == InBatch \cup {"fetch", "persist", "completed"}
Reach(s) == IF pc[s] \in InBatch THEN NextLedger(s) ELSE current[s]

\* Before its range is known a session has done nothing.
FreshIsEmpty(s) ==
    pc[s] \in {"new", "range"} =>
        /\ builder[s] = EmptyState /\ pending[s] = {} /\ lost[s] = {}
        /\ \A c \in checkpoints : c.session # s

\* What a session has in hand is what its step needs, and of its batch.
HandIsOfBatch(s) ==
    /\ pc[s] \in Replaying => start[s] <= current[s]
    /\ pc[s] \in InBatch =>
           /\ current[s] <= EndLedger
           /\ \A i \in pending[s] : current[s] <= Log[i].ledger /\ Log[i].ledger <= BatchEnd(s)
    /\ pc[s] \in {"lookup", "insert", "mark"} => pending[s] # {}
    /\ pc[s] \in {"save", "fetch", "persist", "completed"} => pending[s] = {}
    /\ pc[s] \in {"persist", "completed"} => current[s] > EndLedger

\* An event is marked next only if its epoch is stored.
MarkIsBacked(s) == pc[s] = "mark" => snapshots[Log[InHand(s)].epoch] # NoHash

\* What was given up lies behind, and is not in hand.
LostIsBehind(s) ==
    pc[s] \in Replaying => \A i \in lost[s] : Log[i].ledger < Reach(s) /\ i \notin pending[s]

\* The events of the batch that are done come before those that are not.
DoneComesFirst(s) ==
    pc[s] \in InBatch =>
        \A i \in Events \ (lost[s] \cup pending[s]), j \in pending[s] :
            Log[i].ledger < Reach(s) => i < j

\* Nothing of the chain's range is behind a session but what it may leave there.
Covered(s, ledger) ==
    \A i \in Events :
        base[s] <= Log[i].ledger /\ Log[i].ledger < ledger
            => i \in marks \cup lost[s] \cup inherited[s] \cup pending[s]

NothingIsSkipped(s) == pc[s] \in Replaying /\ ~config[s].dry => Covered(s, Reach(s))

\* The state is the fold of the events that are applied, at every step.
Applied(s) ==
    {i \in Events \ (lost[s] \cup pending[s]) :
        start[s] <= Log[i].ledger /\ Log[i].ledger < Reach(s)}

StateIsFold(s) ==
    pc[s] \in Replaying =>
        builder[s].snapshots =
            [e \in Epochs |-> IF config[s].full THEN FirstSubmission(Applied(s), e) ELSE NoHash]

SessionInv(s) ==
    /\ FreshIsEmpty(s)
    /\ HandIsOfBatch(s)
    /\ MarkIsBacked(s)
    /\ LostIsBehind(s)
    /\ DoneComesFirst(s)
    /\ NothingIsSkipped(s)
    /\ StateIsFold(s)

\* Every checkpoint is older than some time.
TimeIsFinite == \E now \in Nat : \A c \in checkpoints : c.at <= now

IInv ==
    /\ TypeOK
    /\ TimeIsFinite
    /\ MarkedIsStored
    /\ NothingBehindACheckpointIsForgotten
    /\ \A s \in Sessions : SessionInv(s)

-----------------------------------------------------------------------------
(* Events, numbers and positions *)

LEMMA EventFacts ==
    /\ Events \subseteq Nat /\ EndLedger \in Nat /\ BatchSize \in Nat /\ BatchSize >= 1
    /\ \A i \in Events :
           /\ Log[i].ledger \in Nat /\ 1 <= Log[i].ledger /\ Log[i].ledger <= EndLedger
           /\ Log[i].epoch \in Epochs /\ Log[i].hash \in Hash /\ Log[i].hash # NoHash
    /\ \A i, j \in Events : Log[i].ledger < Log[j].ledger => i < j
<1>1. Events \subseteq Nat
  BY ReplayConstants DEF ReplayConstants, Events
<1>2. /\ EndLedger \in Nat /\ BatchSize \in Nat /\ BatchSize >= 1
      /\ \A i \in Events : Log[i].ledger \in 1 .. EndLedger /\ Log[i].hash # NoHash
      /\ \A i, j \in Events : i <= j => Log[i].ledger <= Log[j].ledger
  BY ReplayConstants DEF ReplayConstants
<1>3. \A i \in Events : Log[i].epoch \in Epochs /\ Log[i].hash \in Hash
  BY DEF Epochs, Hash
<1>4. ASSUME NEW i \in Events, NEW j \in Events, Log[i].ledger < Log[j].ledger
      PROVE  i < j
  <2>1. ~(j <= i)
    BY <1>2, <1>4
  <2> QED
    BY <1>1, <2>1
<1> QED
  BY <1>1, <1>2, <1>3, <1>4

\* A set of numbers that is not empty has a least element.
LEMMA LeastElement ==
    ASSUME NEW S \in SUBSET Nat, S # {}
    PROVE  Min(S) \in S /\ \A x \in S : Min(S) <= x
<1>1. PICK m \in S : \A x \in S : ~(<<x, m>> \in OpToRel(<, Nat))
  BY NatLessThanWellFounded, WFMin
<1>2. \A x \in S : ~(x < m)
  BY <1>1 DEF OpToRel
<1>3. \A x \in S : m <= x
  BY <1>2
<1> QED
  BY <1>3 DEF Min

LEMMA MinIsUnique ==
    ASSUME NEW S \in SUBSET Nat, NEW m \in S, \A x \in S : m <= x
    PROVE  Min(S) = m
<1>1. Min(S) \in S /\ \A x \in S : Min(S) <= x
  BY LeastElement
<1>2. Min(S) \in Nat /\ m \in Nat /\ Min(S) <= m /\ m <= Min(S)
  BY <1>1
<1> QED
  BY <1>2

\* The event in hand is the first of those pending.
LEMMA HandFacts ==
    ASSUME TypeOK, NEW s \in Sessions, pending[s] # {}
    PROVE  /\ InHand(s) \in pending[s] /\ InHand(s) \in Events /\ InHand(s) \in Nat
           /\ \A j \in pending[s] : InHand(s) <= j
           /\ pending[s] \subseteq Events
<1>1. pending[s] \subseteq Events /\ pending[s] \subseteq Nat
  BY EventFacts DEF TypeOK
<1> QED
  BY <1>1, LeastElement DEF InHand

\* A batch begins at the current ledger and ends within the range.
LEMMA BatchFacts ==
    ASSUME TypeOK, NEW s \in Sessions
    PROVE  /\ current[s] \in Nat /\ start[s] \in Nat /\ base[s] \in Nat
           /\ BatchEnd(s) \in Int /\ NextLedger(s) = BatchEnd(s) + 1
           /\ BatchEnd(s) <= EndLedger
           /\ current[s] <= EndLedger =>
                  /\ current[s] <= BatchEnd(s) /\ BatchEnd(s) \in Nat
                  /\ NextLedger(s) \in Ledgers
BY EventFacts DEF TypeOK, Ledgers, BatchEnd, NextLedger, Least

LEMMA ReachFacts ==
    ASSUME TypeOK, NEW s \in Sessions
    PROVE  Reach(s) \in Int
BY BatchFacts DEF Reach

-----------------------------------------------------------------------------
(* The first submission of an epoch *)

LEMMA FirstOfNothing == \A e : FirstSubmission({}, e) = NoHash
BY DEF FirstSubmission

\* An event after all the others adds the epoch if there is none of it yet.
LEMMA FirstWithOneMore ==
    ASSUME NEW S \in SUBSET Events, NEW i \in Events, \A j \in S : j < i, NEW e
    PROVE  /\ FirstSubmission(S \cup {i}, e) =
                  IF Log[i].epoch = e /\ FirstSubmission(S, e) = NoHash
                  THEN Log[i].hash ELSE FirstSubmission(S, e)
<1> DEFINE old == {j \in S : Log[j].epoch = e}
           new == {j \in S \cup {i} : Log[j].epoch = e}
<1>1. old \in SUBSET Nat /\ new \in SUBSET Nat /\ i \in Nat
  BY EventFacts
<1>2. CASE Log[i].epoch # e
  <2>1. new = old
    BY <1>2
  <2> QED
    BY <1>2, <2>1 DEF FirstSubmission
<1>3. CASE Log[i].epoch = e /\ old = {}
  <2>1. new = {i}
    BY <1>3
  <2>2. Min(new) = i
    <3>1. i \in new /\ \A x \in new : i <= x
      BY <1>1, <2>1
    <3> QED
      BY <1>1, <3>1, MinIsUnique
  <2>3. FirstSubmission(S, e) = NoHash /\ FirstSubmission(S \cup {i}, e) = Log[i].hash
    BY <1>3, <2>1, <2>2 DEF FirstSubmission
  <2> QED
    BY <1>3, <2>3
<1>4. CASE Log[i].epoch = e /\ old # {}
  <2>1. Min(old) \in old /\ \A x \in old : Min(old) <= x
    BY <1>1, <1>4, LeastElement
  <2>2. Min(old) \in new /\ \A x \in new : Min(old) <= x
    <3>1. Min(old) \in S /\ Min(old) \in new /\ Min(old) < i /\ Min(old) \in Nat
      BY <1>1, <2>1
    <3>2. \A x \in new : x \in old \/ x = i
      OBVIOUS
    <3> HIDE DEF old, new
    <3> QED
      BY <1>1, <2>1, <3>1, <3>2
  <2>3. Min(new) = Min(old)
    BY <1>1, <2>2, MinIsUnique
  <2>4. /\ FirstSubmission(S, e) = Log[Min(old)].hash
        /\ FirstSubmission(S \cup {i}, e) = Log[Min(new)].hash
    BY <1>4, <2>2 DEF FirstSubmission
  <2>5. Log[Min(old)].hash # NoHash
    BY <2>1, EventFacts
  <2> QED
    BY <1>4, <2>3, <2>4, <2>5
<1> QED
  BY <1>2, <1>3, <1>4

-----------------------------------------------------------------------------
(* What a step leaves alone *)

\* What was asked of a session and where it stands, and all it has besides.
Stays(s) ==
    /\ config'[s] = config[s]
    /\ start'[s] = start[s]
    /\ current'[s] = current[s]
    /\ base'[s] = base[s]
    /\ inherited'[s] = inherited[s]

Same(s) ==
    /\ Stays(s)
    /\ pc'[s] = pc[s]
    /\ pending'[s] = pending[s]
    /\ builder'[s] = builder[s]
    /\ lost'[s] = lost[s]

\* No step takes a mark or a stored epoch back.
StoreGrows ==
    /\ marks \subseteq marks'
    /\ \A e \in Epochs : snapshots[e] # NoHash => snapshots'[e] # NoHash

LEMMA PositionStays ==
    ASSUME NEW s \in Sessions, Stays(s)
    PROVE  BatchEnd(s)' = BatchEnd(s) /\ NextLedger(s)' = NextLedger(s)
BY DEF Stays, BatchEnd, NextLedger

\* A session keeps its invariant while others take steps.
LEMMA SameKeepsInv ==
    ASSUME IInv, NEW s \in Sessions, Same(s), StoreGrows,
           \A c \in checkpoints' : c.session = s => c \in checkpoints
    PROVE  SessionInv(s)'
<1> USE DEF Same
<1>1. BatchEnd(s)' = BatchEnd(s) /\ NextLedger(s)' = NextLedger(s)
  BY PositionStays
<1>2. Reach(s)' = Reach(s) /\ InHand(s)' = InHand(s)
  BY <1>1 DEF Reach, InHand, Stays
<1>3. SessionInv(s) /\ TypeOK
  BY DEF IInv
<1>4. FreshIsEmpty(s)' /\ HandIsOfBatch(s)'
  BY <1>1, <1>3 DEF SessionInv, FreshIsEmpty, HandIsOfBatch, Stays
<1>5. MarkIsBacked(s)'
  <2> SUFFICES ASSUME pc[s] = "mark"
               PROVE  snapshots'[Log[InHand(s)].epoch] # NoHash
    BY <1>2 DEF MarkIsBacked
  <2>1. snapshots[Log[InHand(s)].epoch] # NoHash /\ pending[s] # {}
    BY <1>3 DEF SessionInv, MarkIsBacked, HandIsOfBatch
  <2>2. Log[InHand(s)].epoch \in Epochs
    BY <1>3, <2>1, HandFacts, EventFacts
  <2> QED
    BY <2>1, <2>2 DEF StoreGrows
<1>6. LostIsBehind(s)' /\ DoneComesFirst(s)'
  BY <1>2, <1>3 DEF SessionInv, LostIsBehind, DoneComesFirst
<1>7. NothingIsSkipped(s)'
  BY <1>2, <1>3 DEF SessionInv, NothingIsSkipped, Covered, StoreGrows, Stays
<1>8. StateIsFold(s)'
  <2>1. Applied(s)' = Applied(s)
    BY <1>2 DEF Applied, Stays
  <2> QED
    BY <1>3, <2>1 DEF SessionInv, StateIsFold, Stays
<1> QED
  BY <1>4, <1>5, <1>6, <1>7, <1>8 DEF SessionInv

\* A session that is over, one way or the other, has nothing to keep.
LEMMA OverKeepsInv ==
    ASSUME NEW s \in Sessions, pc'[s] \in {"failed", "ended", "gone"}
    PROVE  SessionInv(s)'
BY DEF SessionInv, FreshIsEmpty, HandIsOfBatch, MarkIsBacked, LostIsBehind, DoneComesFirst,
       NothingIsSkipped, StateIsFold, InBatch, Replaying

\* Old checkpoints stay safe to resume from: what lies behind them was marked,
\* or given up, and so it remains.
LEMMA CheckpointsStaySafe ==
    ASSUME NothingBehindACheckpointIsForgotten, checkpoints' \subseteq checkpoints, StoreGrows,
           \A c \in checkpoints :
               /\ config'[c.session] = config[c.session]
               /\ base'[c.session] = base[c.session]
               /\ inherited'[c.session] = inherited[c.session]
               /\ lost[c.session] \subseteq lost'[c.session]
    PROVE  NothingBehindACheckpointIsForgotten'
BY DEF NothingBehindACheckpointIsForgotten, StoreGrows

LEMMA MarksStayStored ==
    ASSUME TypeOK, MarkedIsStored, StoreGrows, marks' = marks
    PROVE  MarkedIsStored'
BY EventFacts DEF TypeOK, MarkedIsStored, StoreGrows

-----------------------------------------------------------------------------
(* The steps for one event *)

Handling == {"event", "lookup", "insert", "mark"}

\* The event stays in hand.
LEMMA HeldKeepsInv ==
    ASSUME IInv, NEW s \in Sessions, pc[s] \in Handling, pc'[s] \in Handling, pending[s] # {},
           Stays(s), pending'[s] = pending[s], builder'[s] = builder[s], lost'[s] = lost[s],
           StoreGrows, MarkIsBacked(s)'
    PROVE  SessionInv(s)'
<1> USE DEF InBatch, Replaying, Handling
<1>1. BatchEnd(s)' = BatchEnd(s) /\ NextLedger(s)' = NextLedger(s)
  BY PositionStays
<1>2. Reach(s)' = Reach(s) /\ SessionInv(s)
  BY <1>1 DEF Reach, IInv
<1>3. FreshIsEmpty(s)' /\ HandIsOfBatch(s)'
  BY <1>1, <1>2 DEF SessionInv, FreshIsEmpty, HandIsOfBatch, Stays
<1>4. LostIsBehind(s)' /\ DoneComesFirst(s)'
  BY <1>2 DEF SessionInv, LostIsBehind, DoneComesFirst
<1>5. NothingIsSkipped(s)'
  BY <1>2 DEF SessionInv, NothingIsSkipped, Covered, StoreGrows, Stays
<1>6. StateIsFold(s)'
  <2>1. Applied(s)' = Applied(s)
    BY <1>2 DEF Applied, Stays
  <2> QED
    BY <1>2, <2>1 DEF SessionInv, StateIsFold, Stays
<1> QED
  BY <1>3, <1>4, <1>5, <1>6 DEF SessionInv

\* The event is left behind, counted as failed.
LEMMA GivenUpKeepsInv ==
    ASSUME IInv, NEW s \in Sessions, pc[s] \in Handling, pc'[s] = "event", pending[s] # {},
           Stays(s), pending'[s] = pending[s] \ {InHand(s)}, builder'[s] = builder[s],
           lost'[s] = lost[s] \cup {InHand(s)}, StoreGrows
    PROVE  SessionInv(s)'
<1> USE DEF InBatch, Replaying, Handling
<1>1. BatchEnd(s)' = BatchEnd(s) /\ NextLedger(s)' = NextLedger(s)
  BY PositionStays
<1>2. Reach(s)' = Reach(s) /\ SessionInv(s) /\ TypeOK /\ Reach(s) = NextLedger(s)
  BY <1>1 DEF Reach, IInv
<1>3. InHand(s) \in pending[s] /\ InHand(s) \in Events
  BY <1>2, HandFacts
<1>4. FreshIsEmpty(s)' /\ HandIsOfBatch(s)' /\ MarkIsBacked(s)'
  BY <1>1, <1>2 DEF SessionInv, FreshIsEmpty, HandIsOfBatch, MarkIsBacked, Stays
<1>5. LostIsBehind(s)'
  <2>1. Log[InHand(s)].ledger \in Nat /\ Log[InHand(s)].ledger <= BatchEnd(s)
    BY <1>2, <1>3, EventFacts DEF SessionInv, HandIsOfBatch
  <2>2. Log[InHand(s)].ledger < Reach(s)
    BY <1>2, <2>1, BatchFacts
  <2> QED
    BY <1>2, <2>2 DEF SessionInv, LostIsBehind
<1>6. DoneComesFirst(s)'
  BY <1>2 DEF SessionInv, DoneComesFirst
<1>7. NothingIsSkipped(s)'
  BY <1>2, <1>3 DEF SessionInv, NothingIsSkipped, Covered, StoreGrows, Stays
<1>8. StateIsFold(s)'
  <2>1. Applied(s)' = Applied(s)
    BY <1>2, <1>3 DEF Applied, Stays
  <2> QED
    BY <1>2, <2>1 DEF SessionInv, StateIsFold, Stays
<1> QED
  BY <1>4, <1>5, <1>6, <1>7, <1>8 DEF SessionInv

\* The event was processed, and is applied to the state.
LEMMA AppliedKeepsInv ==
    ASSUME IInv, NEW s \in Sessions, pc[s] \in Handling, pc'[s] = "event", pending[s] # {},
           Stays(s), pending'[s] = pending[s] \ {InHand(s)}, lost'[s] = lost[s],
           builder'[s] = IF config[s].full THEN AfterEvent(builder[s], Log[InHand(s)])
                                           ELSE builder[s],
           config[s].dry \/ InHand(s) \in marks', StoreGrows
    PROVE  SessionInv(s)'
<1> DEFINE i == InHand(s)
<1> USE DEF InBatch, Replaying, Handling
<1>1. BatchEnd(s)' = BatchEnd(s) /\ NextLedger(s)' = NextLedger(s)
  BY PositionStays
<1>2. Reach(s)' = Reach(s) /\ SessionInv(s) /\ TypeOK /\ Reach(s) = NextLedger(s)
  BY <1>1 DEF Reach, IInv
<1>3. /\ i \in pending[s] /\ i \in Events /\ i \in Nat /\ pending[s] \subseteq Events
      /\ \A j \in pending[s] : i <= j
  BY <1>2, HandFacts
<1>4. FreshIsEmpty(s)' /\ HandIsOfBatch(s)' /\ MarkIsBacked(s)'
  BY <1>1, <1>2 DEF SessionInv, FreshIsEmpty, HandIsOfBatch, MarkIsBacked, Stays
<1>5. LostIsBehind(s)'
  BY <1>2 DEF SessionInv, LostIsBehind
<1>6. DoneComesFirst(s)'
  <2> SUFFICES ASSUME NEW k \in Events, k \notin lost[s], k \notin pending[s] \ {i},
                      NEW j \in pending[s] \ {i}, Log[k].ledger < Reach(s)
               PROVE  k < j
    BY <1>2 DEF DoneComesFirst
  <2>1. CASE k = i
    <3>1. j \in Nat /\ i <= j /\ i # j
      BY <1>3, EventFacts
    <3> QED
      BY <1>3, <2>1, <3>1
  <2>2. CASE k # i
    BY <1>2, <2>2 DEF SessionInv, DoneComesFirst
  <2> QED
    BY <2>1, <2>2
<1>7. NothingIsSkipped(s)'
  BY <1>2, <1>3 DEF SessionInv, NothingIsSkipped, Covered, StoreGrows, Stays
<1>8. StateIsFold(s)'
  <2>1. start[s] <= Log[i].ledger /\ Log[i].ledger < Reach(s) /\ i \notin lost[s]
    <3>1. /\ Log[i].ledger \in Nat
          /\ start[s] <= current[s]
          /\ current[s] <= Log[i].ledger /\ Log[i].ledger <= BatchEnd(s) /\ i \notin lost[s]
      BY <1>2, <1>3, EventFacts DEF SessionInv, HandIsOfBatch, LostIsBehind
    <3> QED
      BY <1>2, <3>1, BatchFacts
  <2>2. Applied(s)' = Applied(s) \cup {i}
    BY <1>2, <1>3, <2>1 DEF Applied, Stays
  <2>3. \A j \in Applied(s) : j < i
    BY <1>2, <1>3 DEF SessionInv, DoneComesFirst, Applied
  <2>4. builder[s].snapshots =
            [e \in Epochs |-> IF config[s].full THEN FirstSubmission(Applied(s), e) ELSE NoHash]
    BY <1>2 DEF SessionInv, StateIsFold
  <2>5. \A e : FirstSubmission(Applied(s)', e) =
            IF Log[i].epoch = e /\ FirstSubmission(Applied(s), e) = NoHash
            THEN Log[i].hash ELSE FirstSubmission(Applied(s), e)
    <3>1. Applied(s) \in SUBSET Events
      BY DEF Applied
    <3> QED
      BY <1>3, <2>2, <2>3, <3>1, FirstWithOneMore
  <2>6. builder'[s].snapshots =
            [e \in Epochs |-> IF config[s].full THEN FirstSubmission(Applied(s)', e) ELSE NoHash]
    <3>1. CASE ~config[s].full
      BY <2>4, <3>1
    <3>2. CASE config[s].full
      <4> DEFINE old == [e \in Epochs |-> FirstSubmission(Applied(s), e)]
      <4>1. builder[s].snapshots = old
        BY <2>4, <3>2
      <4>2. builder'[s].snapshots =
                [builder[s].snapshots EXCEPT ![Log[i].epoch] =
                    IF builder[s].snapshots[Log[i].epoch] = NoHash THEN Log[i].hash
                    ELSE builder[s].snapshots[Log[i].epoch]]
        BY <3>2 DEF AfterEvent
      <4>3. Log[i].epoch \in Epochs
        BY <1>3, EventFacts
      <4>4. builder'[s].snapshots =
                [e \in Epochs |-> IF e = Log[i].epoch
                                  THEN IF old[e] = NoHash THEN Log[i].hash ELSE old[e]
                                  ELSE old[e]]
        BY <4>1, <4>2, <4>3
      <4>5. \A e \in Epochs : FirstSubmission(Applied(s)', e) =
                IF e = Log[i].epoch THEN IF old[e] = NoHash THEN Log[i].hash ELSE old[e]
                ELSE old[e]
        BY <2>5
      <4> HIDE DEF old
      <4> QED
        BY <3>2, <4>4, <4>5
    <3> QED
      BY <3>1, <3>2
  <2> QED
    BY <2>6 DEF StateIsFold, Stays, FirstSubmission
<1> QED
  BY <1>4, <1>5, <1>6, <1>7, <1>8 DEF SessionInv
-----------------------------------------------------------------------------
(* Types *)

\* There is a latest checkpoint, if there is one at all.
LEMMA NowFacts ==
    ASSUME TypeOK, TimeIsFinite
    PROVE  Now \in Nat
<1> DEFINE times == {c.at : c \in checkpoints}
           bounds == {n \in Nat : \A t \in times : t <= n}
<1>1. times \in SUBSET Nat /\ bounds \in SUBSET Nat
  BY DEF TypeOK, Checkpoint
<1>2. bounds # {}
  BY DEF TimeIsFinite
<1>3. PICK m \in bounds : \A n \in bounds : m <= n
  BY <1>1, <1>2, LeastElement
<1>4. CASE checkpoints = {}
  BY <1>4 DEF Now
<1>5. CASE checkpoints # {}
  <2>1. PICK t \in times : TRUE
    BY <1>5
  <2>2. m \in times
    <3> SUFFICES ASSUME m \notin times PROVE FALSE
      OBVIOUS
    <3>1. m \in Nat /\ t \in Nat /\ \A u \in times : u \in Nat /\ u <= m /\ u # m
      BY <1>1, <1>3, <2>1
    <3>2. m - 1 \in Nat /\ \A u \in times : u <= m - 1
      <4> HIDE DEF times, bounds
      <4>1. t <= m /\ t # m
        BY <2>1, <3>1
      <4>2. m - 1 \in Nat
        BY <3>1, <4>1
      <4>3. ASSUME NEW u \in times PROVE u <= m - 1
        BY <3>1
      <4> QED
        BY <4>2, <4>3
    <3>3. m - 1 \in bounds
      BY <3>2
    <3> QED
      BY <1>3, <3>1, <3>3
  <2>3. \A u \in times : m >= u
    BY <1>1, <1>3
  <2>4. Max(times) \in times
    BY <2>2, <2>3 DEF Max
  <2>5. Max(times) \in Nat
    BY <1>1, <2>4
  <2>6. Now = Max(times) + 1
    BY <1>5 DEF Now
  <2> HIDE DEF times
  <2> QED
    BY <2>5, <2>6
<1> QED
  BY <1>4, <1>5

\* Time goes on with every checkpoint.
LEMMA TimeStaysFinite ==
    ASSUME TypeOK, TimeIsFinite, NEW new,
           new.at = Now, checkpoints' \subseteq checkpoints \cup {new}
    PROVE  TimeIsFinite'
<1>1. PICK now \in Nat : \A c \in checkpoints : c.at <= now
  BY DEF TimeIsFinite
<1>2. Now \in Nat /\ \A c \in checkpoints : c.at \in Nat
  BY NowFacts DEF TypeOK, Checkpoint
<1>3. now + Now \in Nat /\ \A c \in checkpoints' : c.at <= now + Now
  BY <1>1, <1>2
<1> QED
  BY <1>3 DEF TimeIsFinite

LEMMA TimeStaysFiniteWithout ==
    ASSUME TimeIsFinite, checkpoints' \subseteq checkpoints
    PROVE  TimeIsFinite'
BY DEF TimeIsFinite

LEMMA EmptyStateType == EmptyState \in State
BY EventFacts DEF EmptyState, State, Ledgers

LEMMA InitInv == Init => IInv
<1> SUFFICES ASSUME Init PROVE IInv
  OBVIOUS
<1> USE DEF Init
<1>1. TypeOK
  <2>1. 0 \in Ledgers /\ 0 \in 0 .. MaxRetries /\ 0 \in 0 .. MaxFaults
    BY EventFacts, ReplayConstants DEF ReplayConstants, Ledgers
  <2>2. Unset \in Request
    BY <2>1 DEF Unset, From, Request
  <2> QED
    BY <2>1, <2>2, EmptyStateType DEF TypeOK
<1>2. TimeIsFinite /\ MarkedIsStored /\ NothingBehindACheckpointIsForgotten
  BY DEF TimeIsFinite, MarkedIsStored, NothingBehindACheckpointIsForgotten
<1>3. ASSUME NEW s \in Sessions PROVE SessionInv(s)
  BY DEF SessionInv, FreshIsEmpty, HandIsOfBatch, MarkIsBacked, LostIsBehind, DoneComesFirst,
         NothingIsSkipped, StateIsFold, InBatch, Replaying
<1> QED
  BY <1>1, <1>2, <1>3 DEF IInv

\* An event in hand leaves the batch or stays; the state it is applied to stays one.
LEMMA AfterEventType ==
    ASSUME NEW b \in State, NEW i \in Events
    PROVE  AfterEvent(b, Log[i]) \in State
<1>1. Log[i].ledger \in Ledgers /\ Log[i].epoch \in Epochs /\ Log[i].hash \in Hash
  BY EventFacts DEF Ledgers
<1>2. b.ledger \in Ledgers /\ b.snapshots \in [Epochs -> Hash \cup {NoHash}]
  BY DEF State
<1> QED
  BY <1>1, <1>2 DEF AfterEvent, State

LEMMA HandlingTypes ==
    ASSUME TypeOK, NEW s \in Sessions, pending[s] # {}
    PROVE  /\ TakeNext(s) => /\ pending' \in [Sessions -> SUBSET Events]
                             /\ tries' \in [Sessions -> 0 .. MaxRetries]
                             /\ pc' \in [Sessions -> Running \cup {"new", "ended", "gone"}]
           /\ Apply(s) => builder' \in [Sessions -> State] /\ lost' = lost
           /\ GiveUp(s) => builder' = builder /\ lost' \in [Sessions -> SUBSET Events]
<1>1. InHand(s) \in Events /\ builder[s] \in State
  BY HandFacts DEF TypeOK
<1>2. 0 \in 0 .. MaxRetries
  BY ReplayConstants DEF ReplayConstants
<1>3. TakeNext(s) => /\ pending' \in [Sessions -> SUBSET Events]
                     /\ tries' \in [Sessions -> 0 .. MaxRetries]
                     /\ pc' \in [Sessions -> Running \cup {"new", "ended", "gone"}]
  BY <1>2 DEF TypeOK, TakeNext, Goto, Running
<1>4. Apply(s) => builder' \in [Sessions -> State] /\ lost' = lost
  <2>1. AfterEvent(builder[s], Log[InHand(s)]) \in State
    BY <1>1, AfterEventType
  <2> QED
    BY <2>1 DEF TypeOK, Apply
<1>5. GiveUp(s) => builder' = builder /\ lost' \in [Sessions -> SUBSET Events]
  BY <1>1 DEF TypeOK, GiveUp
<1> QED
  BY <1>3, <1>4, <1>5

\* The steps for one event: where there is one in hand, what they may do with it.
HandlingStep(s) ==
    IsProcessed(s) \/ Lookup(s) \/ InsertSnapshot(s) \/ MarkProcessed(s) \/ AttemptFails(s)

LEMMA HandlingHasEvent ==
    ASSUME IInv, NEW s \in Sessions, HandlingStep(s)
    PROVE  /\ pc[s] \in Handling /\ pending[s] # {}
           /\ InHand(s) \in Events
           /\ UNCHANGED <<checkpoints, rows, states, config, start, current, base, inherited>>
<1>1. TypeOK /\ SessionInv(s)
  BY DEF IInv
<1>2. pc[s] \in Handling
  BY DEF HandlingStep, IsProcessed, Lookup, InsertSnapshot, MarkProcessed, AttemptFails,
         EventIsNext, Handling
<1>3. pending[s] # {}
  BY <1>1 DEF HandlingStep, IsProcessed, Lookup, InsertSnapshot, MarkProcessed, AttemptFails,
         EventIsNext, SessionInv, HandIsOfBatch
<1>4. UNCHANGED <<checkpoints, rows, states, config, start, current, base, inherited>>
  BY DEF HandlingStep, IsProcessed, Lookup, InsertSnapshot, MarkProcessed, AttemptFails,
         task, history
<1> QED
  BY <1>1, <1>2, <1>3, <1>4, HandFacts

LEMMA HandlingType ==
    ASSUME IInv, NEW s \in Sessions, HandlingStep(s)
    PROVE  TypeOK'
<1>1. TypeOK /\ pending[s] # {} /\ InHand(s) \in Events
  BY HandlingHasEvent DEF IInv
<1> USE HandlingTypes, <1>1
<1>2. CASE IsProcessed(s)
  BY <1>2 DEF IsProcessed, Proceed, Goto, Apply, GiveUp, TypeOK, Running, store
<1>3. CASE Lookup(s)
  BY <1>3 DEF Lookup, Proceed, Goto, Apply, TypeOK, Running, store
<1>4. CASE InsertSnapshot(s)
  <2>1. Log[InHand(s)].hash \in Hash
    BY EventFacts
  <2> QED
    BY <1>4, <2>1 DEF InsertSnapshot, Goto, TypeOK, Running, task, history
<1>5. CASE MarkProcessed(s)
  BY <1>5 DEF MarkProcessed, Apply, TypeOK
<1>6. CASE AttemptFails(s)
  <2>1. faults' \in 0 .. MaxFaults /\ marks' \subseteq Events
    BY <1>6, ReplayConstants DEF AttemptFails, Disturb, ReplayConstants, TypeOK
  <2>2. tries[s] < MaxRetries => tries[s] + 1 \in 0 .. MaxRetries
    BY ReplayConstants DEF ReplayConstants, TypeOK
  <2> QED
    BY <1>6, <2>1, <2>2 DEF AttemptFails, Goto, GiveUp, TypeOK, Running
<1> QED
  BY <1>2, <1>3, <1>4, <1>5, <1>6 DEF HandlingStep
-----------------------------------------------------------------------------
(* The invariant after the steps for one event *)

\* What the session that takes a step leaves to the others.
ActsAlone(s) == StoreGrows /\ \A r \in Sessions \ {s} : Same(r)

LEMMA HandlingIsAlone ==
    ASSUME IInv, NEW s \in Sessions, HandlingStep(s)
    PROVE  ActsAlone(s)
<1>1. UNCHANGED <<checkpoints, rows, states, config, start, current, base, inherited>>
  BY HandlingHasEvent
<1>2. TypeOK
  BY DEF IInv
<1>3. ASSUME NEW r \in Sessions, r # s
      PROVE  pc'[r] = pc[r] /\ pending'[r] = pending[r] /\ builder'[r] = builder[r]
             /\ lost'[r] = lost[r]
  BY <1>2, <1>3
  DEF TypeOK, HandlingStep, IsProcessed, Lookup, InsertSnapshot, MarkProcessed, AttemptFails,
      Proceed, Goto, Apply, GiveUp, TakeNext, task, history
<1>4. StoreGrows
  <2>1. CASE InsertSnapshot(s)
    BY <1>2, <2>1, EventFacts DEF InsertSnapshot, StoreGrows, TypeOK
  <2>2. CASE IsProcessed(s) \/ Lookup(s) \/ MarkProcessed(s) \/ AttemptFails(s)
    BY <2>2 DEF IsProcessed, Lookup, MarkProcessed, AttemptFails, StoreGrows, store
  <2> QED
    BY <2>1, <2>2 DEF HandlingStep
<1> QED
  BY <1>1, <1>3, <1>4 DEF ActsAlone, Same, Stays

\* Each of them holds the event, gives it up, or applies it.
LEMMA HandlingKeepsInv ==
    ASSUME IInv, NEW s \in Sessions, HandlingStep(s)
    PROVE  SessionInv(s)'
<1> DEFINE i == InHand(s)
<1>1. /\ pc[s] \in Handling /\ pending[s] # {} /\ i \in Events
      /\ UNCHANGED <<checkpoints, rows, states, config, start, current, base, inherited>>
  BY HandlingHasEvent
<1>2. TypeOK /\ StoreGrows /\ Stays(s)
  BY <1>1, HandlingIsAlone DEF IInv, ActsAlone, Stays
<1>3. ASSUME Apply(s), config[s].dry \/ i \in marks'
      PROVE  SessionInv(s)'
  <2>1. /\ pc'[s] = "event" /\ pending'[s] = pending[s] \ {i} /\ lost'[s] = lost[s]
        /\ builder'[s] = IF config[s].full THEN AfterEvent(builder[s], Log[i]) ELSE builder[s]
    BY <1>2, <1>3 DEF TypeOK, Apply, TakeNext, Goto
  <2> QED
    BY <1>1, <1>2, <1>3, <2>1, AppliedKeepsInv
<1>4. ASSUME GiveUp(s)
      PROVE  SessionInv(s)'
  <2>1. /\ pc'[s] = "event" /\ pending'[s] = pending[s] \ {i} /\ lost'[s] = lost[s] \cup {i}
        /\ builder'[s] = builder[s]
    BY <1>2, <1>4 DEF TypeOK, GiveUp, TakeNext, Goto
  <2> QED
    BY <1>1, <1>2, <2>1, GivenUpKeepsInv
<1>5. ASSUME NEW step \in Handling, Goto(s, step), UNCHANGED <<pending, builder, lost>>,
             step = "mark" => snapshots'[Log[i].epoch] # NoHash
      PROVE  SessionInv(s)'
  <2>1. pc'[s] = step /\ InHand(s)' = i
    BY <1>2, <1>5 DEF TypeOK, Goto, InHand
  <2>2. MarkIsBacked(s)'
    BY <1>5, <2>1 DEF MarkIsBacked
  <2> QED
    BY <1>1, <1>2, <1>5, <2>1, <2>2, HeldKeepsInv
<1>6. CASE IsProcessed(s)
  <2>1. CASE i \in marks
    BY <1>3, <1>6, <2>1 DEF IsProcessed, store
  <2>2. CASE i \notin marks /\ Log[i].known
    BY <1>5, <1>6, <2>2 DEF IsProcessed, Proceed, Handling
  <2>3. CASE i \notin marks /\ ~Log[i].known
    BY <1>4, <1>6, <2>3 DEF IsProcessed
  <2> QED
    BY <2>1, <2>2, <2>3
<1>7. CASE Lookup(s)
  <2>1. CASE config[s].dry
    BY <1>3, <1>7, <2>1 DEF Lookup
  <2>2. CASE ~config[s].dry /\ snapshots[Log[i].epoch] = Log[i].hash
    <3>1. snapshots'[Log[i].epoch] # NoHash
      BY <1>1, <1>7, <2>2, EventFacts DEF Lookup, store
    <3> QED
      BY <1>5, <1>7, <2>2, <3>1 DEF Lookup, Proceed, Handling
  <2>3. CASE ~config[s].dry /\ snapshots[Log[i].epoch] # Log[i].hash
    BY <1>5, <1>7, <2>3 DEF Lookup, Proceed, Handling
  <2> QED
    BY <2>1, <2>2, <2>3
<1>8. CASE InsertSnapshot(s)
  <2>1. snapshots'[Log[i].epoch] # NoHash
    BY <1>1, <1>2, <1>8, EventFacts DEF InsertSnapshot, TypeOK
  <2> QED
    BY <1>5, <1>8, <2>1 DEF InsertSnapshot, task, history, Handling
<1>9. CASE MarkProcessed(s)
  BY <1>3, <1>9 DEF MarkProcessed
<1>10. CASE AttemptFails(s)
  <2>1. CASE tries[s] < MaxRetries
    BY <1>5, <1>10, <2>1 DEF AttemptFails, Handling
  <2>2. CASE ~(tries[s] < MaxRetries)
    BY <1>4, <1>10, <2>2 DEF AttemptFails
  <2> QED
    BY <2>1, <2>2
<1> QED
  BY <1>6, <1>7, <1>8, <1>9, <1>10 DEF HandlingStep

\* A mark is only made of the event at "mark", whose epoch is stored.
LEMMA HandlingKeepsMarks ==
    ASSUME IInv, NEW s \in Sessions, HandlingStep(s)
    PROVE  MarkedIsStored'
<1>1. TypeOK /\ MarkedIsStored /\ SessionInv(s) /\ InHand(s) \in Events
  BY HandlingHasEvent DEF IInv
<1>2. StoreGrows
  BY HandlingIsAlone DEF ActsAlone
<1>3. CASE marks' = marks
  BY <1>1, <1>2, <1>3, MarksStayStored
<1>4. CASE pc[s] = "mark" /\ marks' = marks \cup {InHand(s)}
  BY <1>1, <1>2, <1>4, EventFacts
     DEF SessionInv, MarkIsBacked, MarkedIsStored, StoreGrows, TypeOK
<1>5. marks' = marks \/ (pc[s] = "mark" /\ marks' = marks \cup {InHand(s)})
  BY DEF HandlingStep, IsProcessed, Lookup, InsertSnapshot, MarkProcessed, AttemptFails, store
<1> QED
  BY <1>3, <1>4, <1>5

LEMMA HandlingInv ==
    ASSUME IInv, NEW s \in Sessions, HandlingStep(s)
    PROVE  IInv'
<1>1. checkpoints' = checkpoints /\ StoreGrows /\ \A r \in Sessions \ {s} : Same(r)
  BY HandlingHasEvent, HandlingIsAlone DEF ActsAlone
<1>2. TypeOK /\ UNCHANGED <<config, base, inherited>> /\ lost[s] \subseteq lost'[s]
  BY HandlingHasEvent
  DEF IInv, TypeOK, HandlingStep, IsProcessed, Lookup, InsertSnapshot, MarkProcessed,
      AttemptFails, Proceed, Apply, GiveUp, history
<1>3. NothingBehindACheckpointIsForgotten'
  <2>1. \A c \in checkpoints : lost[c.session] \subseteq lost'[c.session]
    BY <1>1, <1>2 DEF Same, TypeOK, Checkpoint
  <2> QED
    BY <1>1, <1>2, <2>1, CheckpointsStaySafe DEF IInv
<1>4. \A r \in Sessions : SessionInv(r)'
  BY <1>1, SameKeepsInv, HandlingKeepsInv
<1>5. TimeIsFinite'
  BY <1>1, TimeStaysFiniteWithout DEF IInv
<1> QED
  BY <1>3, <1>4, <1>5, HandlingType, HandlingKeepsMarks DEF IInv
-----------------------------------------------------------------------------
(* The other steps of a session *)

\* A step that writes no checkpoint keeps the invariant if its session does,
\* and if it changes what its own checkpoints rest on only before there are any.
LEMMA SessionStepInv ==
    ASSUME IInv, NEW s \in Sessions, TypeOK', UNCHANGED store, checkpoints' \subseteq checkpoints,
           \A r \in Sessions \ {s} : Same(r),
           pc[s] \in {"new", "range"} \/ (Stays(s) /\ lost[s] \subseteq lost'[s])
             \/ (config'[s] = config[s] /\ base'[s] = base[s] /\ inherited'[s] = inherited[s]
                 /\ lost'[s] = lost[s]),
           SessionInv(s)'
    PROVE  IInv'
<1>1. StoreGrows
  BY DEF StoreGrows, store
<1>2. TypeOK /\ FreshIsEmpty(s)
  BY DEF IInv, SessionInv
<1>3. NothingBehindACheckpointIsForgotten'
  <2>1. ASSUME NEW c \in checkpoints
        PROVE  /\ config'[c.session] = config[c.session]
               /\ base'[c.session] = base[c.session]
               /\ inherited'[c.session] = inherited[c.session]
               /\ lost[c.session] \subseteq lost'[c.session]
    <3>1. c.session \in Sessions
      BY <1>2 DEF TypeOK, Checkpoint
    <3>2. CASE c.session # s
      BY <3>1, <3>2 DEF Same, Stays
    <3>3. CASE c.session = s
      BY <1>2, <3>3 DEF FreshIsEmpty, Stays
    <3> QED
      BY <3>2, <3>3
  <2> QED
    BY <1>1, <2>1, CheckpointsStaySafe DEF IInv
<1>4. ASSUME NEW r \in Sessions PROVE SessionInv(r)'
  BY <1>1, <1>4, SameKeepsInv
<1>5. MarkedIsStored'
  BY <1>1, <1>2, MarksStayStored DEF IInv, store
<1>6. TimeIsFinite'
  BY TimeStaysFiniteWithout DEF IInv
<1> QED
  BY <1>3, <1>4, <1>5, <1>6 DEF IInv

LEMMA StartInv ==
    ASSUME IInv, NEW s \in Sessions, Start(s)
    PROVE  IInv'
<1> USE DEF Start, Goto, task, history
<1>1. TypeOK /\ SessionInv(s) /\ pc[s] = "new" /\ pc'[s] = "range"
  BY DEF IInv, TypeOK
<1>2. PICK from \in {From(l) : l \in StartLedgers} \cup Named, mode \in Modes :
          config' = [config EXCEPT ![s] = [from |-> from, dry |-> mode.dry, full |-> mode.full]]
  OBVIOUS
<1>3. config'[s] \in Request
  <2>1. from \in [session : Sessions \cup {NoSession}, ledger : Ledgers]
    <3>1. CASE from \in {From(l) : l \in StartLedgers}
      BY <3>1, ReplayConstants DEF ReplayConstants, From, Ledgers
    <3>2. CASE from \in Named
      BY <1>1, <3>2 DEF TypeOK, Named, Checkpoint
    <3> QED
      BY <3>1, <3>2
  <2>2. mode.dry \in BOOLEAN /\ mode.full \in BOOLEAN
    BY ReplayConstants DEF ReplayConstants
  <2> QED
    BY <1>1, <1>2, <2>1, <2>2 DEF Request, TypeOK
<1>4. TypeOK'
  <2>1. config' \in [Sessions -> Request]
    BY <1>1, <1>2, <1>3 DEF TypeOK
  <2> QED
    BY <1>1, <2>1 DEF TypeOK, Running, store
<1>5. SessionInv(s)'
  BY <1>1 DEF SessionInv, FreshIsEmpty, HandIsOfBatch, MarkIsBacked, LostIsBehind,
              DoneComesFirst, NothingIsSkipped, StateIsFold, InBatch, Replaying
<1>6. \A r \in Sessions \ {s} : Same(r)
  BY <1>1 DEF TypeOK, Same, Stays
<1> QED
  BY <1>1, <1>4, <1>5, <1>6, SessionStepInv

\* A resumed session begins where nothing is missing: at a checkpoint of its
\* chain, or, when that is gone, at the beginning of a chain of its own.
LEMMA DetermineRangeInv ==
    ASSUME IInv, NEW s \in Sessions, DetermineRange(s)
    PROVE  IInv'
<1> DEFINE t == config[s].from.session
           first == FirstLedger(s)
<1> USE DEF DetermineRange, Goto
<1>1. /\ TypeOK /\ SessionInv(s) /\ pc[s] = "range" /\ pc'[s] = "fetch"
      /\ NothingBehindACheckpointIsForgotten
  BY DEF IInv, TypeOK
<1>2. /\ builder[s] = EmptyState /\ pending[s] = {} /\ lost[s] = {}
      /\ \A c \in checkpoints : c.session # s
  BY <1>1 DEF SessionInv, FreshIsEmpty
<1>3. first \in Ledgers /\ first \in Nat
  BY <1>1, EventFacts DEF TypeOK, Request, FirstLedger, Ledgers
<1>4. start'[s] = first /\ current'[s] = first /\ Reach(s)' = first
  BY <1>1 DEF TypeOK, Reach, InBatch
<1>5. ASSUME Continues(s)
      PROVE  TypeOK' /\ NothingIsSkipped(s)'
  <2>1. PICK c \in checkpoints : config[s].from = [session |-> c.session, ledger |-> c.ledger]
    BY <1>5 DEF Continues, Named
  <2>2. t = c.session /\ first = c.ledger /\ t \in Sessions /\ ~config[t].dry
    BY <1>1, <1>5, <2>1 DEF Continues, FirstLedger, TypeOK, Checkpoint
  <2>3. base'[s] = base[t] /\ inherited'[s] = inherited[t] \cup lost[t]
    BY <1>1, <1>5 DEF TypeOK
  <2>4. TypeOK'
    <3>1. base' \in [Sessions -> Ledgers] /\ inherited' \in [Sessions -> SUBSET Events]
      <4>1. base[t] \in Ledgers /\ inherited[t] \cup lost[t] \in SUBSET Events
        BY <1>1, <2>2 DEF TypeOK
      <4> QED
        BY <1>1, <1>5, <4>1 DEF TypeOK
    <3>2. start' \in [Sessions -> Ledgers] /\ current' \in [Sessions -> Ledgers]
      BY <1>1, <1>3 DEF TypeOK
    <3> QED
      BY <1>1, <3>1, <3>2 DEF TypeOK, Running, store
  <2>5. NothingIsSkipped(s)'
    <3> SUFFICES ASSUME NEW i \in Events, base[t] <= Log[i].ledger, Log[i].ledger < c.ledger
                 PROVE  i \in marks \cup lost[t] \cup inherited[t]
      BY <1>4, <2>2, <2>3 DEF NothingIsSkipped, Covered, store
    <3>1. Log[i].ledger >= base[t]
      BY <1>1, <2>2, EventFacts DEF TypeOK, Ledgers
    <3> QED
      BY <1>1, <2>2, <3>1 DEF NothingBehindACheckpointIsForgotten
  <2> QED
    BY <2>4, <2>5
<1>6. ASSUME ~Continues(s)
      PROVE  TypeOK' /\ NothingIsSkipped(s)'
  <2>1. base'[s] = first /\ inherited' = inherited
    BY <1>1, <1>6 DEF TypeOK
  <2>2. TypeOK'
    <3>1. base' \in [Sessions -> Ledgers]
      BY <1>1, <1>3, <1>6 DEF TypeOK
    <3>2. start' \in [Sessions -> Ledgers] /\ current' \in [Sessions -> Ledgers]
      BY <1>1, <1>3 DEF TypeOK
    <3> QED
      BY <1>1, <2>1, <3>1, <3>2 DEF TypeOK, Running, store
  <2>3. NothingIsSkipped(s)'
    BY <1>3, <1>4, <2>1, EventFacts DEF NothingIsSkipped, Covered
  <2> QED
    BY <2>2, <2>3
<1>7. TypeOK' /\ NothingIsSkipped(s)'
  BY <1>5, <1>6
<1>8. StateIsFold(s)'
  <2>1. Applied(s)' = {}
    BY <1>3, <1>4, EventFacts DEF Applied
  <2>2. builder'[s].snapshots = [e \in Epochs |-> NoHash]
    BY <1>2 DEF EmptyState
  <2>3. \A e \in Epochs : FirstSubmission(Applied(s)', e) = NoHash
    BY <2>1, FirstOfNothing
  <2>4. builder'[s].snapshots =
            [e \in Epochs |-> IF config[s].full THEN FirstSubmission(Applied(s)', e) ELSE NoHash]
    BY <2>2, <2>3
  <2> QED
    BY <2>4 DEF StateIsFold, FirstSubmission
<1>9. SessionInv(s)'
  BY <1>1, <1>2, <1>3, <1>4, <1>7, <1>8
     DEF SessionInv, FreshIsEmpty, HandIsOfBatch, MarkIsBacked, LostIsBehind, DoneComesFirst,
         InBatch
<1>10. \A r \in Sessions \ {s} : Same(r)
  BY <1>1 DEF TypeOK, Same, Stays
<1> QED
  BY <1>1, <1>7, <1>9, <1>10, SessionStepInv DEF store

\* A fetched batch is in hand, but for what the limit cuts off, which is given up.
LEMMA FetchInv ==
    ASSUME IInv, NEW s \in Sessions, Fetch(s)
    PROVE  IInv'
<1> DEFINE all == InLedgers(current[s], BatchEnd(s))
           taken == FirstOf(all)
<1>1. TypeOK /\ SessionInv(s) /\ pc[s] = "fetch" /\ pc'[s] = "event" /\ current[s] <= EndLedger
  BY DEF IInv, Fetch, Goto, TypeOK
<1>2. /\ all \subseteq Events /\ taken \subseteq all
      /\ \A i \in Events : i \in all <=> current[s] <= Log[i].ledger /\ Log[i].ledger <= BatchEnd(s)
  <2>1. \A i \in Events : Log[i].ledger \in current[s] .. BatchEnd(s)
            <=> current[s] <= Log[i].ledger /\ Log[i].ledger <= BatchEnd(s)
    BY <1>1, BatchFacts, EventFacts
  <2> QED
    BY <2>1 DEF InLedgers, FirstOf
<1>3. /\ pending[s] = {} /\ pending' = [pending EXCEPT ![s] = taken] /\ pending'[s] = taken
      /\ lost' = [lost EXCEPT ![s] = @ \cup (all \ taken)] /\ lost'[s] = lost[s] \cup (all \ taken)
      /\ \A i \in lost[s] : i \in Events /\ Log[i].ledger < current[s]
  <2>1. pending' = [pending EXCEPT ![s] = taken] /\ lost' = [lost EXCEPT ![s] = @ \cup (all \ taken)]
    BY DEF Fetch
  <2>2. /\ pending[s] = {}
        /\ \A i \in lost[s] : i \in Events /\ Log[i].ledger < current[s]
    BY <1>1 DEF SessionInv, HandIsOfBatch, LostIsBehind, Replaying, Reach, InBatch, TypeOK
  <2> HIDE DEF all, taken
  <2> QED
    BY <1>1, <2>1, <2>2 DEF TypeOK
<1>4. UNCHANGED <<store, checkpoints, rows, states, config, start, current, tries, builder,
                  faults, base, inherited>>
  BY DEF Fetch
<1> HIDE DEF all, taken
<1>5. BatchEnd(s)' = BatchEnd(s) /\ Reach(s)' = NextLedger(s) /\ Reach(s) = current[s]
  BY <1>1, <1>4, PositionStays DEF Reach, InBatch, Stays
<1>6. /\ current[s] \in Nat /\ NextLedger(s) = BatchEnd(s) + 1 /\ BatchEnd(s) \in Nat
      /\ current[s] <= BatchEnd(s) /\ \A i \in Events : Log[i].ledger \in Nat
      /\ start[s] \in Nat /\ base[s] \in Nat
  BY <1>1, BatchFacts, EventFacts
<1>7. TypeOK'
  <2>1. pending' \in [Sessions -> SUBSET Events] /\ lost' \in [Sessions -> SUBSET Events]
    BY <1>1, <1>2, <1>3 DEF TypeOK
  <2>2. pc' \in [Sessions -> Running \cup {"new", "ended", "gone"}]
    BY <1>1 DEF TypeOK, Fetch, Goto, Running
  <2> QED
    BY <1>1, <1>4, <2>1, <2>2 DEF TypeOK, store
<1>8. FreshIsEmpty(s)' /\ HandIsOfBatch(s)' /\ MarkIsBacked(s)'
  BY <1>1, <1>2, <1>3, <1>4, <1>5 DEF SessionInv, FreshIsEmpty, HandIsOfBatch, MarkIsBacked,
     Replaying, InBatch
<1>9. LostIsBehind(s)'
  <2> SUFFICES ASSUME NEW i \in lost'[s]
               PROVE  Log[i].ledger < NextLedger(s) /\ i \notin taken
    BY <1>3, <1>5 DEF LostIsBehind
  <2>1. CASE i \in lost[s]
    BY <1>2, <1>3, <1>6, <2>1
  <2>2. CASE i \in all \ taken
    BY <1>2, <1>6, <2>2
  <2> QED
    BY <1>3, <2>1, <2>2
<1>10. ASSUME NEW i \in Events, Log[i].ledger < NextLedger(s)
       PROVE  Log[i].ledger < current[s] \/ i \in all
  BY <1>2, <1>6, <1>10
<1>11. DoneComesFirst(s)'
  <2> SUFFICES ASSUME NEW i \in Events, i \notin lost'[s], i \notin taken, NEW j \in taken,
                      Log[i].ledger < NextLedger(s)
               PROVE  i < j
    BY <1>3, <1>5 DEF DoneComesFirst
  <2>1. Log[i].ledger < current[s]
    BY <1>3, <1>10
  <2>2. j \in Events /\ current[s] <= Log[j].ledger
    BY <1>2
  <2>3. Log[i].ledger < Log[j].ledger
    BY <1>6, <2>1, <2>2
  <2> QED
    BY <2>2, <2>3, EventFacts
<1>12. NothingIsSkipped(s)'
  <2> SUFFICES ASSUME ~config[s].dry, NEW i \in Events,
                      base[s] <= Log[i].ledger, Log[i].ledger < NextLedger(s)
               PROVE  i \in marks \cup lost'[s] \cup inherited[s] \cup taken
    BY <1>3, <1>4, <1>5 DEF NothingIsSkipped, Covered, store
  <2>1. CASE Log[i].ledger < current[s]
    BY <1>1, <1>3, <1>5, <2>1 DEF SessionInv, NothingIsSkipped, Covered, Replaying
  <2> QED
    BY <1>3, <1>10, <2>1
<1>13. StateIsFold(s)'
  <2>1. \A i \in Events : i \in Applied(s) <=>
            i \notin lost[s] /\ start[s] <= Log[i].ledger /\ Log[i].ledger < current[s]
    BY <1>3, <1>5 DEF Applied
  <2>2. \A i \in Events : i \in Applied(s)' <=>
            i \notin lost'[s] /\ i \notin taken
            /\ start[s] <= Log[i].ledger /\ Log[i].ledger < NextLedger(s)
    BY <1>3, <1>4, <1>5 DEF Applied
  <2>3. \A i \in Events : Log[i].ledger < current[s] => i \notin all /\ Log[i].ledger < NextLedger(s)
    BY <1>2, <1>6
  <2>4. \A i \in Events : i \in Applied(s)' <=> i \in Applied(s)
    BY <1>2, <1>3, <1>10, <2>1, <2>2, <2>3
  <2>5. Applied(s)' = Applied(s)
    BY <2>4 DEF Applied
  <2> QED
    BY <1>1, <1>4, <2>5 DEF SessionInv, StateIsFold, Replaying
<1>14. SessionInv(s)'
  BY <1>8, <1>9, <1>11, <1>12, <1>13 DEF SessionInv
<1>15. \A r \in Sessions \ {s} : Same(r)
  BY <1>1, <1>3, <1>4 DEF TypeOK, Fetch, Goto, Same, Stays
<1>16. Stays(s) /\ lost[s] \subseteq lost'[s]
  BY <1>3, <1>4 DEF Stays
<1> QED
  BY <1>4, <1>7, <1>14, <1>15, <1>16, SessionStepInv

\* A batch that is done is a position one batch further.
LEMMA SaveMetadataInv ==
    ASSUME IInv, NEW s \in Sessions, SaveMetadata(s)
    PROVE  IInv'
<1> USE DEF SaveMetadata, BatchDone, Goto, history
<1>1. TypeOK /\ SessionInv(s) /\ pc[s] \in InBatch /\ pc'[s] = "fetch"
  BY DEF IInv, TypeOK, InBatch
<1>2. current[s] <= EndLedger /\ pending[s] = {} /\ start[s] <= current[s]
  BY <1>1 DEF SessionInv, HandIsOfBatch, InBatch, Replaying
<1>3. NextLedger(s) \in Ledgers /\ NextLedger(s) \in Nat /\ start[s] <= NextLedger(s)
  BY <1>1, <1>2, BatchFacts
<1>4. current'[s] = NextLedger(s) /\ Reach(s)' = NextLedger(s) /\ Reach(s) = NextLedger(s)
  BY <1>1 DEF TypeOK, Reach, InBatch
<1>5. /\ UNCHANGED <<store, checkpoints, states, config, start, pending, tries, builder, faults,
                     base, inherited, lost>>
  OBVIOUS
<1>6. TypeOK'
  <2>1. current' \in [Sessions -> Ledgers]
    BY <1>1, <1>3 DEF TypeOK
  <2>2. rows' \in [Sessions -> {"none", "Pending", "InProgress", "Completed", "Failed"}]
    BY <1>1 DEF TypeOK
  <2>3. pc' \in [Sessions -> Running \cup {"new", "ended", "gone"}]
    BY <1>1 DEF TypeOK, Running
  <2> QED
    BY <1>1, <1>5, <2>1, <2>2, <2>3 DEF TypeOK, store
<1>7. FreshIsEmpty(s)' /\ HandIsOfBatch(s)' /\ MarkIsBacked(s)' /\ DoneComesFirst(s)'
  BY <1>1, <1>2, <1>3, <1>4, <1>5 DEF FreshIsEmpty, HandIsOfBatch, MarkIsBacked, DoneComesFirst,
     InBatch
<1>8. LostIsBehind(s)' /\ NothingIsSkipped(s)'
  BY <1>1, <1>4, <1>5 DEF SessionInv, LostIsBehind, NothingIsSkipped, Covered, Replaying, store
<1>9. StateIsFold(s)'
  <2>1. Applied(s)' = Applied(s)
    BY <1>4, <1>5 DEF Applied
  <2> QED
    BY <1>1, <1>5, <2>1 DEF SessionInv, StateIsFold, Replaying
<1>10. SessionInv(s)'
  BY <1>7, <1>8, <1>9 DEF SessionInv
<1>11. \A r \in Sessions \ {s} : Same(r)
  BY <1>1, <1>5 DEF TypeOK, Same, Stays
<1> QED
  BY <1>5, <1>6, <1>10, <1>11, SessionStepInv

\* A checkpoint is saved where everything before it is done: it is safe to
\* resume from, and if it cannot be saved the session fails.
LEMMA SaveCheckpointInv ==
    ASSUME IInv, NEW s \in Sessions, NEW ledger \in Ledgers, NEW step \in {"save", "persist"},
           SaveCheckpoint(s, ledger, step), pc[s] \in Replaying, pending[s] = {},
           ledger <= Reach(s), pc'[s] = step => SessionInv(s)'
    PROVE  IInv'
<1> DEFINE new == [session |-> s, ledger |-> ledger, at |-> Now]
<1>1. TypeOK /\ TimeIsFinite /\ SessionInv(s)
  BY DEF IInv
<1>2. /\ \/ checkpoints' = checkpoints \cup {new} /\ pc' = [pc EXCEPT ![s] = step]
         \/ checkpoints' = checkpoints /\ pc' = [pc EXCEPT ![s] = "failed"]
      /\ UNCHANGED <<store, rows, states, config, start, current, pending, tries, builder, faults,
                     base, inherited, lost>>
  BY DEF SaveCheckpoint, Goto, task, history
<1>3. pc'[s] \in {step, "failed"} /\ checkpoints' \subseteq checkpoints \cup {new}
  BY <1>1, <1>2 DEF TypeOK
<1>4. new \in Checkpoint
  BY <1>1, NowFacts DEF Checkpoint
<1>5. TypeOK'
  <2>1. checkpoints' \subseteq Checkpoint
    BY <1>1, <1>3, <1>4 DEF TypeOK
  <2>2. pc' \in [Sessions -> Running \cup {"new", "ended", "gone"}]
    BY <1>1, <1>2 DEF TypeOK, Running
  <2> QED
    BY <1>1, <1>2, <2>1, <2>2 DEF TypeOK, store
<1>6. TimeIsFinite'
  BY <1>1, <1>3, TimeStaysFinite
<1>7. StoreGrows
  BY <1>2 DEF StoreGrows, store
<1>8. MarkedIsStored'
  BY <1>1, <1>2, <1>7, MarksStayStored DEF IInv, store
<1>9. SessionInv(s)'
  <2>1. CASE pc'[s] = "failed"
    BY <2>1, OverKeepsInv
  <2> QED
    BY <1>3, <2>1
<1>10. ASSUME NEW r \in Sessions, r # s
       PROVE  SessionInv(r)'
  <2>1. Same(r)
    BY <1>1, <1>2, <1>10 DEF TypeOK, Same, Stays
  <2>2. \A c \in checkpoints' : c.session = r => c \in checkpoints
    BY <1>3, <1>10
  <2> QED
    BY <1>7, <2>1, <2>2, SameKeepsInv
<1>11. NothingBehindACheckpointIsForgotten'
  <2> SUFFICES ASSUME NEW c \in checkpoints', ~config[c.session].dry, NEW i \in Events,
                      Log[i].ledger >= base[c.session], Log[i].ledger < c.ledger
               PROVE  i \in marks \cup lost[c.session] \cup inherited[c.session]
    BY <1>2 DEF NothingBehindACheckpointIsForgotten, store
  <2>1. CASE c \in checkpoints
    BY <2>1 DEF IInv, NothingBehindACheckpointIsForgotten
  <2>2. CASE c = new
    <3>1. base[s] <= Log[i].ledger /\ Log[i].ledger < Reach(s)
      <4>1. /\ Log[i].ledger \in Nat /\ base[s] \in Nat /\ ledger \in Nat /\ Reach(s) \in Int
            /\ Log[i].ledger >= base[s] /\ Log[i].ledger < ledger
        BY <1>1, <2>2, EventFacts, BatchFacts, ReachFacts DEF Ledgers
      <4> QED
        BY <4>1
    <3>2. Covered(s, Reach(s))
      BY <1>1, <2>2 DEF SessionInv, NothingIsSkipped
    <3> QED
      BY <2>2, <3>1, <3>2 DEF Covered
  <2> QED
    BY <1>3, <2>1, <2>2
<1> QED
  BY <1>5, <1>6, <1>8, <1>9, <1>10, <1>11 DEF IInv

LEMMA CreateCheckpointInv ==
    ASSUME IInv, NEW s \in Sessions, CreateCheckpoint(s)
    PROVE  IInv'
<1>1. /\ TypeOK /\ SessionInv(s) /\ pc[s] = "event" /\ pending[s] = {}
      /\ SaveCheckpoint(s, NextLedger(s), "save")
  BY DEF IInv, CreateCheckpoint, BatchDone
<1>2. current[s] <= EndLedger /\ Reach(s) = NextLedger(s)
  BY <1>1 DEF SessionInv, HandIsOfBatch, InBatch, Reach
<1>3. NextLedger(s) \in Ledgers /\ NextLedger(s) <= Reach(s)
  BY <1>1, <1>2, BatchFacts
<1>4. ASSUME pc'[s] = "save"
      PROVE  SessionInv(s)'
  <2>1. Stays(s) /\ pending'[s] = {} /\ UNCHANGED <<lost, builder, config, store>>
    BY <1>1 DEF SaveCheckpoint, task, history, Stays
  <2>2. BatchEnd(s)' = BatchEnd(s) /\ Reach(s)' = Reach(s)
    BY <1>2, <1>4, <2>1, PositionStays DEF Reach, InBatch
  <2>3. FreshIsEmpty(s)' /\ HandIsOfBatch(s)' /\ MarkIsBacked(s)' /\ LostIsBehind(s)'
        /\ DoneComesFirst(s)'
    BY <1>1, <1>4, <2>1, <2>2 DEF SessionInv, FreshIsEmpty, HandIsOfBatch, MarkIsBacked,
       LostIsBehind, DoneComesFirst, InBatch, Replaying, Stays
  <2>4. NothingIsSkipped(s)'
    BY <1>1, <2>1, <2>2 DEF SessionInv, NothingIsSkipped, Covered, InBatch, Replaying, Stays, store
  <2>5. Applied(s)' = Applied(s)
    BY <1>1, <2>1, <2>2 DEF Applied, Stays
  <2>6. StateIsFold(s)'
    BY <1>1, <2>1, <2>5 DEF SessionInv, StateIsFold, InBatch, Replaying
  <2> QED
    BY <2>3, <2>4, <2>6 DEF SessionInv
<1> QED
  BY <1>1, <1>3, <1>4, SaveCheckpointInv DEF InBatch, Replaying

\* A session at its end, which does not move any more, and whatever it stores.
LEMMA AtTheEnd ==
    ASSUME IInv, NEW s \in Sessions, pc[s] \in {"fetch", "persist"},
           pc'[s] \in {"persist", "completed"}, current[s] > EndLedger,
           Stays(s), pending'[s] = pending[s], UNCHANGED <<lost, builder, config, store>>
    PROVE  SessionInv(s)'
<1>1. SessionInv(s) /\ Reach(s)' = Reach(s) /\ pending[s] = {}
  BY DEF IInv, SessionInv, HandIsOfBatch, Reach, InBatch, Stays
<1>2. FreshIsEmpty(s)' /\ HandIsOfBatch(s)' /\ MarkIsBacked(s)' /\ LostIsBehind(s)'
      /\ DoneComesFirst(s)'
  BY <1>1 DEF SessionInv, FreshIsEmpty, HandIsOfBatch, MarkIsBacked, LostIsBehind, DoneComesFirst,
     InBatch, Replaying, Stays
<1>3. NothingIsSkipped(s)'
  BY <1>1 DEF SessionInv, NothingIsSkipped, Covered, Replaying, Stays, store
<1>4. Applied(s)' = Applied(s)
  BY <1>1 DEF Applied, Stays
<1>5. StateIsFold(s)'
  BY <1>1, <1>4 DEF SessionInv, StateIsFold, Replaying
<1> QED
  BY <1>2, <1>3, <1>5 DEF SessionInv

LEMMA FinalCheckpointInv ==
    ASSUME IInv, NEW s \in Sessions, FinalCheckpoint(s)
    PROVE  IInv'
<1>1. /\ TypeOK /\ SessionInv(s) /\ pc[s] = "fetch" /\ current[s] > EndLedger
      /\ SaveCheckpoint(s, EndLedger, "persist")
  BY DEF IInv, FinalCheckpoint
<1>2. pending[s] = {} /\ Reach(s) = current[s]
  BY <1>1 DEF SessionInv, HandIsOfBatch, InBatch, Reach
<1>3. EndLedger \in Ledgers /\ EndLedger <= Reach(s)
  BY <1>1, <1>2, EventFacts, BatchFacts DEF Ledgers
<1>4. Stays(s) /\ pending'[s] = pending[s] /\ UNCHANGED <<lost, builder, config, store>>
  BY <1>1 DEF SaveCheckpoint, task, history, Stays
<1>5. pc'[s] = "persist" => SessionInv(s)'
  BY <1>1, <1>4, AtTheEnd
<1> QED
  BY <1>1, <1>2, <1>3, <1>5, SaveCheckpointInv DEF Replaying

LEMMA PersistStateInv ==
    ASSUME IInv, NEW s \in Sessions, PersistState(s)
    PROVE  IInv'
<1> USE DEF PersistState, Goto, task, history
<1>1. TypeOK /\ SessionInv(s) /\ pc[s] = "persist" /\ pc'[s] = "completed" /\ current[s] > EndLedger
  BY DEF IInv, SessionInv, HandIsOfBatch, TypeOK
<1>2. TypeOK'
  <2>1. builder[s] \in State /\ builder[s].ledger \in Ledgers
    BY <1>1 DEF TypeOK, State
  <2>2. states' \in [Ledgers -> State]
    BY <1>1, <2>1 DEF TypeOK
  <2> QED
    BY <1>1, <2>2 DEF TypeOK, Running, store
<1>3. Stays(s) /\ pending'[s] = pending[s] /\ UNCHANGED <<lost, builder, config, store>>
  BY DEF Stays
<1>4. SessionInv(s)'
  BY <1>1, <1>3, AtTheEnd
<1>5. \A r \in Sessions \ {s} : Same(r)
  BY <1>1 DEF TypeOK, Same, Stays
<1> QED
  BY <1>2, <1>3, <1>4, <1>5, SessionStepInv

LEMMA FinishInv ==
    ASSUME IInv, NEW s \in Sessions, Finish(s)
    PROVE  IInv'
<1> USE DEF Finish, Goto, task, history
<1>1. TypeOK /\ pc'[s] = "ended" /\ Stays(s) /\ UNCHANGED <<lost, checkpoints, store>>
  BY DEF IInv, TypeOK, Stays
<1>2. TypeOK'
  BY <1>1 DEF TypeOK, Running, store
<1>3. \A r \in Sessions \ {s} : Same(r)
  BY <1>1 DEF TypeOK, Same, Stays
<1> QED
  BY <1>1, <1>2, <1>3, OverKeepsInv, SessionStepInv

LEMMA StatementFailsInv ==
    ASSUME IInv, NEW s \in Sessions, StatementFails(s)
    PROVE  IInv'
<1> USE DEF StatementFails, Goto, task, history
<1>1. /\ TypeOK /\ pc'[s] \in {"gone", "failed"} /\ Stays(s)
      /\ UNCHANGED <<lost, checkpoints, store>>
  BY DEF IInv, TypeOK, Stays
<1>2. TypeOK'
  <2>1. faults' \in 0 .. MaxFaults
    BY <1>1, ReplayConstants DEF TypeOK, Disturb, ReplayConstants
  <2> QED
    BY <1>1, <2>1 DEF TypeOK, Running, store
<1>3. \A r \in Sessions \ {s} : Same(r)
  BY <1>1 DEF TypeOK, Same, Stays
<1> QED
  BY <1>1, <1>2, <1>3, OverKeepsInv, SessionStepInv

-----------------------------------------------------------------------------
(* Deletions and restarts *)

\* Where sessions stay, or are over, and checkpoints only go, the invariant stays.
LEMMA OutsideStepInv ==
    ASSUME IInv, TypeOK', UNCHANGED <<store, config, task, history>>,
           checkpoints' \subseteq checkpoints,
           \A s \in Sessions : pc'[s] = pc[s] \/ pc'[s] = "gone"
    PROVE  IInv'
<1>1. StoreGrows
  BY DEF StoreGrows, store
<1>2. NothingBehindACheckpointIsForgotten'
  BY <1>1, CheckpointsStaySafe DEF IInv, history
<1>3. MarkedIsStored'
  BY <1>1, MarksStayStored DEF IInv, store
<1>4. TimeIsFinite'
  BY TimeStaysFiniteWithout DEF IInv
<1>5. ASSUME NEW s \in Sessions
      PROVE  SessionInv(s)'
  <2>1. CASE pc'[s] = pc[s]
    <3>1. Same(s)
      BY <2>1 DEF Same, Stays, task, history
    <3> QED
      BY <1>1, <3>1, SameKeepsInv
  <2>2. CASE pc'[s] = "gone"
    BY <2>2, OverKeepsInv
  <2> QED
    BY <2>1, <2>2
<1> QED
  BY <1>2, <1>3, <1>4, <1>5 DEF IInv

LEMMA OutsideInv ==
    ASSUME IInv, (\E s \in Sessions : DeleteSession(s)) \/ CleanupOld \/ Restart
    PROVE  IInv'
<1>1. TypeOK /\ (Disturb => faults' \in 0 .. MaxFaults)
  BY ReplayConstants DEF IInv, TypeOK, Disturb, ReplayConstants
<1>2. ASSUME NEW s \in Sessions, DeleteSession(s)
      PROVE  IInv'
  <2>1. TypeOK'
    BY <1>1, <1>2 DEF DeleteSession, TypeOK, store, task, history
  <2> QED
    BY <1>2, <2>1, OutsideStepInv DEF DeleteSession
<1>3. ASSUME CleanupOld
      PROVE  IInv'
  <2>1. TypeOK'
    BY <1>1, <1>3 DEF CleanupOld, TypeOK, store, task, history
  <2> QED
    BY <1>3, <2>1, OutsideStepInv DEF CleanupOld
<1>4. ASSUME Restart
      PROVE  IInv'
  <2>1. pc' \in [Sessions -> Running \cup {"new", "ended", "gone"}]
    BY <1>1, <1>4 DEF Restart, TypeOK
  <2>2. TypeOK'
    BY <1>1, <1>4, <2>1 DEF Restart, Disturb, TypeOK, store, task, history
  <2> QED
    BY <1>4, <2>2, OutsideStepInv DEF Restart
<1> QED
  BY <1>2, <1>3, <1>4

LEMMA StutterInv ==
    ASSUME IInv, UNCHANGED vars
    PROVE  IInv'
<1>1. TypeOK'
  BY DEF IInv, TypeOK, vars, store, task, history
<1> QED
  BY <1>1, OutsideStepInv DEF vars

LEMMA StepInv == IInv /\ [Next]_vars => IInv'
<1> SUFFICES ASSUME IInv, [Next]_vars PROVE IInv'
  OBVIOUS
<1>1. CASE UNCHANGED vars
  BY <1>1, StutterInv
<1>2. ASSUME NEW s \in Sessions, Start(s) \/ Step(s) \/ AttemptFails(s) \/ StatementFails(s)
      PROVE  IInv'
  BY <1>2, StartInv, DetermineRangeInv, FetchInv, HandlingInv, CreateCheckpointInv,
     SaveMetadataInv, FinalCheckpointInv, PersistStateInv, FinishInv, StatementFailsInv
     DEF Step, HandlingStep
<1>3. CASE (\E s \in Sessions : DeleteSession(s)) \/ CleanupOld \/ Restart
  BY <1>3, OutsideInv
<1> QED
  BY <1>1, <1>2, <1>3 DEF Next

LEMMA InvCorrect == Spec => []IInv
<1> QED
  BY InitInv, StepInv, PTL DEF Spec

\* What is stored and what a session holds is always of its type.
THEOREM TypeCorrect == Spec => []TypeOK
<1>1. IInv => TypeOK
  BY DEF IInv
<1> QED
  BY <1>1, InvCorrect, PTL

\* Whatever restarts, fails or is retried, and however many sessions process
\* the same event: an event that is marked has its epoch stored.
THEOREM MarkedCorrect == Spec => []MarkedIsStored
<1>1. IInv => MarkedIsStored
  BY DEF IInv
<1> QED
  BY <1>1, InvCorrect, PTL

\* Resuming from any checkpoint there is skips no event: what lies behind it in
\* the chain of sessions it continues was processed, or given up there.
THEOREM NothingForgottenCorrect == Spec => []NothingBehindACheckpointIsForgotten
<1>1. IInv => NothingBehindACheckpointIsForgotten
  BY DEF IInv
<1> QED
  BY <1>1, InvCorrect, PTL

\* Between two batches and at its end the state of a session is the fold of
\* the events of its range that it did not give up, and of nothing else.
THEOREM BuiltStateCorrect == Spec => []BuiltStateIsFold
<1>1. IInv => BuiltStateIsFold
  <2> SUFFICES ASSUME IInv, NEW s \in Sessions, pc[s] \in {"fetch", "persist", "completed"}
               PROVE  LET applied == {i \in Events \ lost[s] :
                                          Log[i].ledger \in start[s] .. current[s] - 1} IN
                      builder[s].snapshots =
                          [e \in Epochs |-> IF config[s].full
                                            THEN FirstSubmission(applied, e) ELSE NoHash]
    BY DEF BuiltStateIsFold
  <2> DEFINE applied == {i \in Events \ lost[s] : Log[i].ledger \in start[s] .. current[s] - 1}
  <2>1. /\ TypeOK /\ pending[s] = {} /\ Reach(s) = current[s]
        /\ builder[s].snapshots =
               [e \in Epochs |-> IF config[s].full THEN FirstSubmission(Applied(s), e) ELSE NoHash]
    BY DEF IInv, SessionInv, HandIsOfBatch, StateIsFold, Reach, InBatch, Replaying
  <2>2. ASSUME NEW i \in Events
        PROVE  Log[i].ledger \in start[s] .. current[s] - 1
                   <=> start[s] <= Log[i].ledger /\ Log[i].ledger < current[s]
    BY <2>1, EventFacts, BatchFacts
  <2>3. applied = Applied(s)
    BY <2>1, <2>2 DEF Applied
  <2> HIDE DEF applied
  <2>4. builder[s].snapshots =
            [e \in Epochs |-> IF config[s].full THEN FirstSubmission(applied, e) ELSE NoHash]
    BY <2>1, <2>3
  <2> QED
    BY <2>4 DEF applied
<1> QED
  BY <1>1, InvCorrect, PTL
=============================================================================
