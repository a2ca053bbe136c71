------------------------ MODULE LedgerIngestionProofs ------------------------
(***************************************************************************)
(* The safety of LedgerIngestion for every chain, batch size, set of       *)
(* payments and number of runs cut short.  The inductive invariant says    *)
(* where the task is in its batch (InBatch), that everything it has        *)
(* reached is stored or reported (NothingLost), and how many copies of a   *)
(* payment there can be on either side of the point its inserts have       *)
(* reached (CopiesBounded): a run cut short moves that point back to the   *)
(* cursor and adds one fault, which pays for the replay.                   *)
(***************************************************************************)
EXTENDS LedgerIngestion, Integers, TLAPS

Working == {"persist", "payments", "feeBumps", "merges"}

InBatch ==
    /\ end <= latest
    /\ cursor # NoCursor => cursor <= latest
    /\ stage \in Working => Start <= next
    /\ stage = "save" => end \in Ledgers /\ Start <= end + 1

\* The last ledger that the current pass is done with, or has persisted.
Reached == IF stage = "fetch" THEN Start - 1
           ELSE IF stage = "persist" THEN next - 1
           ELSE IF stage = "save" THEN end
           ELSE next

NothingLost == \A l \in Ledgers : l <= Reached => l \in transactions \cup skipped

\* The ledger in hand has its row from the persist stage on.
RowInHand == stage \in {"payments", "feeBumps", "merges"} => next \in ledgers

\* The last ledger whose payments the current pass has inserted.
Inserted == IF stage = "fetch" THEN Start - 1
            ELSE IF stage \in {"persist", "payments"} THEN next - 1
            ELSE IF stage = "save" THEN end
            ELSE next

CopiesBounded ==
    \A l \in Ledgers, p \in Payments :
        /\ payments[l][p] <= 1 + faults
        /\ l > Inserted => payments[l][p] <= faults

IInv ==
    /\ TypeOK
    /\ InBatch
    /\ NothingLost
    /\ RowInHand
    /\ ChildrenHaveParents
    /\ CopiesBounded

-----------------------------------------------------------------------------
\* Facts about the operators of the model.
LEMMA StartIsLedger ==
    ASSUME TypeOK
    PROVE  /\ Start \in Nat
           /\ OldestLedger <= Start
           /\ Start <= MaxLedger + 1
           /\ cursor # NoCursor => Start = cursor + 1
BY IngestionConstants DEF TypeOK, Start, Ledgers

LEMMA StartKeeps == cursor' = cursor => Start' = Start
BY DEF Start

\* What the service serves ends at the chain, and only an empty answer ends
\* before it starts.
LEMMA ServedFacts ==
    ASSUME TypeOK
    PROVE  /\ Served \in Nat
           /\ Served <= latest
           /\ Served < Start => Served = latest
           /\ Served \in Ledgers \/ Served < Start
<1>1. latest \in Ledgers /\ latest \in Nat /\ OldestLedger <= latest /\ latest <= MaxLedger
  BY IngestionConstants DEF TypeOK, Ledgers
<1> QED
  BY <1>1, StartIsLedger, IngestionConstants DEF Served, Least, Ledgers

\* Inserting some payments of a ledger adds at most one copy of each, and none
\* to other ledgers.
LEMMA InsertFacts ==
    ASSUME TypeOK, InsertSomePayments, next \in Ledgers
    PROVE  /\ payments' \in [Ledgers -> [Payments -> 0 .. MaxCopies]]
           /\ \A l \in Ledgers, p \in Payments :
                 /\ payments'[l][p] <= payments[l][p] + 1
                 /\ l # next => payments'[l][p] = payments[l][p]
<1>1. PICK inserted \in SUBSET Payments :
          payments' = [payments EXCEPT ![next] =
            [p \in Payments |-> IF p \in inserted
                                THEN Least(payments[next][p] + 1, MaxCopies)
                                ELSE payments[next][p]]]
  BY DEF InsertSomePayments
<1>2. MaxCopies \in Nat
  BY IngestionConstants DEF MaxCopies
<1>3. \A p \in Payments : payments[next][p] \in 0 .. MaxCopies
  BY DEF TypeOK
<1>4. \A p \in Payments :
          /\ Least(payments[next][p] + 1, MaxCopies) \in 0 .. MaxCopies
          /\ Least(payments[next][p] + 1, MaxCopies) <= payments[next][p] + 1
  BY <1>2, <1>3 DEF Least
<1>5. payments' \in [Ledgers -> [Payments -> 0 .. MaxCopies]]
  BY <1>1, <1>3, <1>4 DEF TypeOK
<1>6. ASSUME NEW l \in Ledgers, NEW p \in Payments
      PROVE  /\ payments'[l][p] <= payments[l][p] + 1
             /\ l # next => payments'[l][p] = payments[l][p]
  <2>1. payments[l][p] \in 0 .. MaxCopies
    BY DEF TypeOK
  <2>2. CASE l = next
    BY <1>1, <1>2, <1>3, <1>4, <2>1, <2>2 DEF TypeOK
  <2>3. CASE l # next
    BY <1>1, <1>2, <2>1, <2>3 DEF TypeOK
  <2> QED
    BY <2>2, <2>3
<1> QED
  BY <1>5, <1>6

\* A ledger being worked on is one of the chain.
LEMMA NextInHand ==
    ASSUME TypeOK, stage \in Working
    PROVE  next \in Ledgers /\ next \in Nat /\ end \in Nat /\ next <= end /\ end \in Ledgers
BY IngestionConstants DEF TypeOK, Working, Ledgers
-----------------------------------------------------------------------------
LEMMA InvInit == Init => IInv
<1> SUFFICES ASSUME Init PROVE IInv
  OBVIOUS
<1> USE IngestionConstants
<1>1. TypeOK
  BY DEF Init, TypeOK, Ledgers, MaxCopies, Stage
<1>2. Start = OldestLedger
  BY DEF Init, Start
<1>3. InBatch
  BY <1>2 DEF Init, InBatch, Working, Ledgers
<1>4. NothingLost
  BY <1>2 DEF Init, NothingLost, Reached, Ledgers
<1>5. RowInHand
  BY DEF Init, RowInHand
<1>6. ChildrenHaveParents
  BY DEF Init, ChildrenHaveParents
<1>7. CopiesBounded
  BY <1>2 DEF Init, CopiesBounded, Inserted, Ledgers
<1> QED
  BY <1>1, <1>3, <1>4, <1>5, <1>6, <1>7 DEF IInv

\* An answer without a cursor leaves what a run cut short before its save does.
LEMMA KeepIsCut == KeepCursor => CutShort
BY DEF KeepCursor, CutShort

\* The end of the work on a ledger leads to the next one or to saving.
LEMMA NextLedgerFacts ==
    ASSUME TypeOK, stage \in Working, NextLedger
    PROVE  /\ next' = next + 1 /\ end' = end
           /\ next' \in OldestLedger .. MaxLedger + 1
           /\ \/ stage' = "persist" /\ next' <= end'
              \/ stage' = "save" /\ end' = next
BY NextInHand, IngestionConstants DEF NextLedger, MoreLedgers, TypeOK, Ledgers

LEMMA TypeStep == TypeOK /\ InBatch /\ RowInHand /\ [Next]_vars => TypeOK'
<1> SUFFICES ASSUME TypeOK, InBatch, RowInHand, [Next]_vars PROVE TypeOK'
  OBVIOUS
<1> USE IngestionConstants DEF Ledgers
<1>1. CASE Fetch
  <2>1. /\ next' \in OldestLedger .. MaxLedger + 1
        /\ end' \in OldestLedger - 1 .. MaxLedger
        /\ stage' \in {"persist", "save"}
        /\ stage' = "persist" => next' <= end'
    <3>1. latest \in Ledgers
      BY DEF TypeOK
    <3>2. Start \in OldestLedger .. MaxLedger + 1 /\ Served \in OldestLedger - 1 .. MaxLedger
      BY <3>1, StartIsLedger, ServedFacts
    <3> QED
      BY <1>1, <3>2 DEF Fetch
  <2> QED
    BY <1>1, <2>1 DEF Fetch, TypeOK, Stage, stored, rows
<1>2. CASE Persist
  <2>1. next \in Ledgers
    BY <1>2, NextInHand DEF Persist, Working
  <2> QED
    BY <1>2, <2>1 DEF Persist, TypeOK, Stage, stored
<1>3. CASE FailToPersist
  <2>1. stage \in Working /\ NextLedger
    BY <1>3 DEF FailToPersist, Continue, Working
  <2>2. next \in Ledgers
    BY <2>1, NextInHand
  <2> QED
    BY <1>3, <2>1, <2>2, NextLedgerFacts DEF FailToPersist, TypeOK, Stage, stored
<1>4. CASE StorePayments
  <2>1. next \in Ledgers
    BY <1>4, NextInHand DEF StorePayments, Working
  <2> QED
    BY <1>4, <2>1, InsertFacts DEF StorePayments, TypeOK, Stage, stored
<1>5. CASE StoreFeeBumps
  <2>1. next \in Ledgers
    BY <1>5, NextInHand DEF StoreFeeBumps, Working
  <2> QED
    BY <1>5, <2>1 DEF StoreFeeBumps, TypeOK, Stage, stored
<1>6. CASE StoreMerges
  <2>1. stage \in Working /\ NextLedger
    BY <1>6 DEF StoreMerges, Working
  <2>2. next \in Ledgers
    BY <2>1, NextInHand
  <2> QED
    BY <1>6, <2>1, <2>2, NextLedgerFacts DEF StoreMerges, TypeOK, Stage, stored
<1>7. CASE SaveCursor
  BY <1>7 DEF SaveCursor, AnswerCursor, InBatch, TypeOK, Stage, rows
<1>8. CASE CutShort
  <2>1. CASE UNCHANGED rows
    BY <1>8, <2>1 DEF CutShort, TypeOK, Stage, stored, rows
  <2>2. CASE stage = "persist" /\ ledgers' = ledgers \cup {next}
             /\ UNCHANGED <<transactions, payments, feeBumps, merges>>
    <3>1. next \in Ledgers
      BY <2>2, NextInHand DEF Working
    <3> QED
      BY <1>8, <2>2, <3>1 DEF CutShort, TypeOK, Stage, stored
  <2>3. CASE stage = "payments" /\ InsertSomePayments
             /\ UNCHANGED <<ledgers, transactions, feeBumps, merges>>
    <3>1. next \in Ledgers
      BY <2>3, NextInHand DEF Working
    <3>2. payments' \in [Ledgers -> [Payments -> 0 .. MaxCopies]]
      BY <2>3, <3>1, InsertFacts
    <3> QED
      BY <1>8, <2>3, <3>1, <3>2 DEF CutShort, TypeOK, Stage, stored
  <2> QED
    BY <1>8, <2>1, <2>2, <2>3 DEF CutShort
<1>9. CASE LedgerCloses
  BY <1>9 DEF LedgerCloses, TypeOK, Stage, stored, rows, run
<1>10. CASE UNCHANGED vars
  BY <1>10 DEF vars, TypeOK, stored, rows, run
<1> QED
  BY <1>1, <1>2, <1>3, <1>4, <1>5, <1>6, <1>7, <1>8, <1>9, <1>10, KeepIsCut DEF Next, RunIngestion
-----------------------------------------------------------------------------
\* The values that two points of the pass have, stage by stage.
LEMMA PassFacts ==
    ASSUME TypeOK, InBatch
    PROVE  /\ Start - 1 <= Reached
           /\ Start - 1 <= Inserted
           /\ Reached \in Int /\ Inserted \in Int
<1>1. Start \in Nat /\ next \in Nat /\ end \in Int
  BY StartIsLedger, IngestionConstants DEF TypeOK
<1>2. stage \in Stage
  BY DEF TypeOK
<1> QED
  BY <1>1, <1>2 DEF InBatch, Reached, Inserted, Working, Stage

LEMMA InBatchStep == TypeOK /\ InBatch /\ [Next]_vars => InBatch'
<1> SUFFICES ASSUME TypeOK, InBatch, [Next]_vars PROVE InBatch'
  OBVIOUS
<1>0. /\ Start \in Nat /\ latest \in Nat /\ latest <= MaxLedger /\ OldestLedger <= latest
      /\ next \in Nat /\ end \in Int /\ OldestLedger \in Nat /\ MaxLedger \in Nat
      /\ cursor # NoCursor => cursor \in Nat
  BY StartIsLedger, IngestionConstants DEF TypeOK, Ledgers
<1>a. Start <= latest + 1
  BY <1>0 DEF Start, InBatch
<1>1. CASE Fetch
  <2>1. /\ end' = Served /\ next' = Start /\ Start' = Start
        /\ latest' = latest /\ cursor' = cursor
    BY <1>1, StartKeeps DEF Fetch, stored
  <2>2. stage' = IF Start <= Served THEN "persist" ELSE "save"
    BY <1>1 DEF Fetch
  <2>3. ~(Start <= Served) => Served = latest /\ Start <= latest + 1
    BY <1>0, <1>a, ServedFacts
  <2> QED
    BY <1>0, <2>1, <2>2, <2>3, ServedFacts DEF InBatch, Working, Ledgers
<1>2. CASE Persist
  <2>1. stage \in Working /\ stage' = "payments"
    BY <1>2 DEF Persist, Working
  <2>2. UNCHANGED <<latest, cursor, next, end>>
    BY <1>2 DEF Persist, stored
  <2> QED
    BY <2>1, <2>2, StartKeeps DEF InBatch, Working
<1>3. CASE FailToPersist \/ StoreMerges
  <2>1. stage \in Working /\ NextLedger
    BY <1>3 DEF FailToPersist, Continue, StoreMerges, Working
  <2>2. UNCHANGED <<latest, cursor>> /\ Start' = Start
    BY <1>3, StartKeeps DEF FailToPersist, StoreMerges, stored
  <2> QED
    BY <1>0, <2>1, <2>2, NextLedgerFacts, NextInHand DEF InBatch, Working
<1>4. CASE StorePayments \/ StoreFeeBumps
  <2>1. stage \in Working /\ stage' \in {"feeBumps", "merges"}
    BY <1>4 DEF StorePayments, StoreFeeBumps, Working
  <2>2. UNCHANGED <<latest, cursor, next, end>>
    BY <1>4 DEF StorePayments, StoreFeeBumps, stored
  <2> QED
    BY <2>1, <2>2, StartKeeps DEF InBatch, Working
<1>5. CASE SaveCursor
  BY <1>5, <1>0 DEF SaveCursor, AnswerCursor, InBatch, Working
<1>6. CASE CutShort
  BY <1>6 DEF CutShort, InBatch, Working, stored
<1>7. CASE LedgerCloses
  BY <1>7, <1>0, StartKeeps DEF LedgerCloses, InBatch, Working, stored, run, Ledgers
<1>8. CASE UNCHANGED vars
  BY <1>8, StartKeeps DEF vars, InBatch, stored, run
<1> QED
  BY <1>1, <1>2, <1>3, <1>4, <1>5, <1>6, <1>7, <1>8, KeepIsCut DEF Next, RunIngestion
-----------------------------------------------------------------------------
\* What is reached grows by no more than the ledger that a step stores or
\* reports; a run cut short gives up what it had reached beyond the cursor.
LEMMA NothingLostStep ==
    TypeOK /\ InBatch /\ NothingLost /\ [Next]_vars => NothingLost'
<1> SUFFICES ASSUME TypeOK, InBatch, NothingLost, [Next]_vars,
                    NEW l \in Ledgers, l <= Reached'
             PROVE  l \in (transactions \cup skipped)'
  BY DEF NothingLost
<1>0. /\ l \in Nat /\ next \in Nat /\ end \in Int /\ Start \in Nat
      /\ Start - 1 <= Reached /\ Reached \in Int
  <2>1. l \in Nat
    BY IngestionConstants DEF Ledgers
  <2>2. next \in Nat /\ end \in Int
    BY IngestionConstants DEF TypeOK
  <2> QED
    BY <2>1, <2>2, StartIsLedger, PassFacts
<1>1. CASE Fetch
  <2>1. Reached' <= Start - 1 /\ Reached' \in Int
    <3>1. next' = Start /\ end' = Served
      BY <1>1 DEF Fetch
    <3>2. \/ stage' = "persist" /\ Reached' = next' - 1
          \/ stage' = "save" /\ Served < Start /\ Reached' = end'
      <4>1. CASE Start <= Served
        <5>1. stage' = "persist"
          BY <1>1, <4>1 DEF Fetch
        <5> QED
          BY <5>1 DEF Reached
      <4>2. CASE ~(Start <= Served)
        <5>1. stage' = "save"
          BY <1>1, <4>2 DEF Fetch
        <5>2. Served < Start
          BY <4>2, <1>0, ServedFacts
        <5> QED
          BY <5>1, <5>2 DEF Reached
      <4> QED
        BY <4>1, <4>2
    <3> QED
      BY <3>1, <3>2, <1>0, ServedFacts
  <2>2. l <= Reached
    BY <2>1, <1>0
  <2> QED
    BY <1>1, <2>2 DEF Fetch, rows, NothingLost
<1>2. CASE Persist
  <2>1. Reached' = next /\ Reached = next - 1
    BY <1>2 DEF Persist, Reached
  <2>2. l = next \/ l <= Reached
    BY <2>1, <1>0
  <2> QED
    BY <1>2, <2>2 DEF Persist, NothingLost
<1>3. CASE FailToPersist
  <2>1. stage = "persist" /\ NextLedger
    BY <1>3 DEF FailToPersist, Continue
  <2>2. Reached' = next /\ Reached = next - 1
    BY <2>1, <1>0, NextLedgerFacts DEF Reached, Working
  <2>3. l = next \/ l <= Reached
    BY <2>2, <1>0
  <2> QED
    BY <1>3, <2>3 DEF FailToPersist, NothingLost
<1>4. CASE StorePayments \/ StoreFeeBumps
  BY <1>4 DEF StorePayments, StoreFeeBumps, NothingLost, Reached
<1>5. CASE StoreMerges
  <2>1. stage = "merges" /\ NextLedger
    BY <1>5 DEF StoreMerges
  <2>2. Reached' = Reached
    BY <2>1, <1>0, NextLedgerFacts DEF Reached, Working
  <2> QED
    BY <1>5, <2>2 DEF StoreMerges, NothingLost
<1>6. CASE SaveCursor
  <2>1. Reached' = end /\ Reached = end
    <3>1. stage' = "fetch" /\ cursor' = end /\ stage = "save"
      BY <1>6 DEF SaveCursor, AnswerCursor
    <3>2. end \in Nat /\ end # NoCursor
      BY <3>1, IngestionConstants DEF InBatch, Ledgers
    <3> QED
      BY <3>1, <3>2 DEF Reached, Start
  <2> QED
    BY <1>6, <2>1 DEF SaveCursor, rows, NothingLost
<1>7. CASE CutShort
  <2>1. Reached' = Start - 1
    BY <1>7, StartKeeps DEF CutShort, stored, Reached
  <2>2. l <= Reached
    BY <2>1, <1>0
  <2>3. l \in transactions \cup skipped
    BY <2>2 DEF NothingLost
  <2> QED
    BY <1>7, <2>3 DEF CutShort, rows
<1>8. CASE LedgerCloses \/ UNCHANGED vars
  <2>1. Reached' = Reached
    BY <1>8, StartKeeps DEF LedgerCloses, vars, stored, run, Reached
  <2> QED
    BY <1>8, <2>1 DEF LedgerCloses, vars, rows, NothingLost
<1> QED
  BY <1>1, <1>2, <1>3, <1>4, <1>5, <1>6, <1>7, <1>8, KeepIsCut DEF Next, RunIngestion

LEMMA RowsStep ==
    TypeOK /\ RowInHand /\ ChildrenHaveParents /\ [Next]_vars
        => RowInHand' /\ ChildrenHaveParents'
<1> SUFFICES ASSUME TypeOK, RowInHand, ChildrenHaveParents, [Next]_vars
             PROVE  RowInHand' /\ ChildrenHaveParents'
  OBVIOUS
\* Only the ledger in hand gets children, and no row is ever deleted.
<1>1. ledgers \subseteq ledgers'
  BY KeepIsCut DEF Next, RunIngestion, Fetch, Persist, FailToPersist, StorePayments, StoreFeeBumps,
         StoreMerges, SaveCursor, CutShort, LedgerCloses, vars, rows
<1>2. RowInHand'
  <2>1. CASE Fetch \/ SaveCursor \/ CutShort
    BY <2>1 DEF Fetch, SaveCursor, CutShort, RowInHand
  <2>2. CASE Persist
    BY <2>2 DEF Persist, RowInHand
  <2>3. CASE FailToPersist \/ StoreMerges
    <3>1. stage' \in {"persist", "save"}
      BY <2>3 DEF FailToPersist, StoreMerges, Continue, NextLedger
    <3> QED
      BY <3>1 DEF RowInHand
  <2>4. CASE StorePayments \/ StoreFeeBumps
    BY <2>4 DEF StorePayments, StoreFeeBumps, RowInHand
  <2>5. CASE LedgerCloses \/ UNCHANGED vars
    BY <2>5 DEF LedgerCloses, vars, rows, run, RowInHand
  <2> QED
    BY <2>1, <2>2, <2>3, <2>4, <2>5, KeepIsCut DEF Next, RunIngestion
<1>3. ChildrenHaveParents'
  <2> SUFFICES ASSUME NEW l \in Ledgers,
                      (l \in feeBumps \cup merges \/ \E p \in Payments : payments[l][p] > 0)'
               PROVE  l \in ledgers
    BY <1>1 DEF ChildrenHaveParents
  <2>1. CASE InsertSomePayments /\ stage = "payments" /\ UNCHANGED <<feeBumps, merges>>
    <3>1. next \in Ledgers /\ next \in ledgers
      BY <2>1, NextInHand DEF RowInHand, Working
    <3>2. CASE l = next
      BY <3>1, <3>2
    <3>3. CASE l # next
      BY <2>1, <3>1, <3>3, InsertFacts DEF ChildrenHaveParents
    <3> QED
      BY <3>2, <3>3
  <2>2. CASE StoreFeeBumps \/ StoreMerges
    BY <2>2 DEF StoreFeeBumps, StoreMerges, RowInHand, ChildrenHaveParents
  <2>3. CASE UNCHANGED <<payments, feeBumps, merges>>
    BY <2>3 DEF ChildrenHaveParents
  <2> QED
    BY <2>1, <2>2, <2>3, KeepIsCut DEF Next, RunIngestion, Fetch, Persist, FailToPersist, StorePayments,
       SaveCursor, CutShort, LedgerCloses, vars, rows
<1> QED
  BY <1>2, <1>3
\* A step that stores no payment and does not go back keeps the bound.
LEMMA QuietStep ==
    ASSUME TypeOK, InBatch, CopiesBounded, payments' = payments, faults' = faults,
           Inserted' \in Int, Inserted <= Inserted'
    PROVE  CopiesBounded'
<1> SUFFICES ASSUME NEW l \in Ledgers, NEW p \in Payments
             PROVE  /\ payments[l][p] <= 1 + faults
                    /\ l > Inserted' => payments[l][p] <= faults
  BY DEF CopiesBounded
<1>1. l \in Nat /\ Inserted \in Int
  BY PassFacts, IngestionConstants DEF Ledgers
<1> QED
  BY <1>1 DEF CopiesBounded

LEMMA CopiesStep ==
    TypeOK /\ InBatch /\ CopiesBounded /\ [Next]_vars => CopiesBounded'
<1> SUFFICES ASSUME TypeOK, InBatch, CopiesBounded, [Next]_vars
             PROVE  CopiesBounded'
  OBVIOUS
<1>0. /\ next \in Nat /\ end \in Int /\ Start \in Nat /\ faults \in Nat
      /\ \A l \in Ledgers : l \in Nat
      /\ \A l \in Ledgers, p \in Payments : payments[l][p] \in Nat
  <2>1. next \in Nat /\ end \in Int /\ faults \in Nat
    BY IngestionConstants DEF TypeOK
  <2>2. \A l \in Ledgers : l \in Nat
    BY IngestionConstants DEF Ledgers
  <2>3. ASSUME NEW l \in Ledgers, NEW p \in Payments PROVE payments[l][p] \in 0 .. MaxCopies
    BY DEF TypeOK
  <2>4. MaxCopies \in Nat
    BY IngestionConstants DEF MaxCopies
  <2> QED
    BY <2>1, <2>2, <2>3, <2>4, StartIsLedger
<1>1. CASE Fetch
  <2>1. /\ Inserted = Start - 1 /\ next' = Start /\ end' = Served
        /\ payments' = payments /\ faults' = faults
        /\ stage' = IF Start <= Served THEN "persist" ELSE "save"
    BY <1>1 DEF Fetch, Inserted, rows
  <2>2. CASE Start <= Served
    <3>1. Inserted' = Start - 1
      BY <2>1, <2>2 DEF Inserted
    <3> QED
      BY <3>1, <2>1, <1>0, QuietStep
  <2>3. CASE ~(Start <= Served)
    <3>1. Inserted' = Served
      BY <2>1, <2>3 DEF Inserted
    <3>2. Start <= latest + 1
      BY IngestionConstants DEF Start, InBatch, TypeOK, Ledgers
    <3>3. Served = latest /\ Served \in Nat
      BY <1>0, <2>3, ServedFacts
    <3>4. Inserted' \in Int /\ Inserted <= Inserted'
      BY <3>1, <3>2, <3>3, <2>1, <1>0
    <3> QED
      BY <3>4, <2>1, QuietStep
  <2> QED
    BY <2>2, <2>3
<1>2. CASE Persist
  <2>1. Inserted = next - 1 /\ Inserted' = next - 1 /\ UNCHANGED <<payments, faults>>
    BY <1>2 DEF Persist, Inserted
  <2> QED
    BY <2>1, <1>0, QuietStep
<1>3. CASE FailToPersist \/ StoreMerges
  <2>1. stage \in {"persist", "merges"} /\ NextLedger /\ UNCHANGED <<payments, faults>>
    BY <1>3 DEF FailToPersist, StoreMerges, Continue
  <2>2. Inserted \in {next - 1, next} /\ Inserted' = next
    BY <2>1, <1>0, NextLedgerFacts DEF Inserted, Working
  <2> QED
    BY <2>1, <2>2, <1>0, QuietStep
<1>4. CASE StorePayments
  <2>1. Inserted = next - 1 /\ Inserted' = next /\ faults' = faults /\ next \in Ledgers
    BY <1>4, NextInHand DEF StorePayments, Inserted, Working
  <2>2. ASSUME NEW l \in Ledgers, NEW p \in Payments
        PROVE  /\ payments'[l][p] <= payments[l][p] + 1
               /\ l # next => payments'[l][p] = payments[l][p]
               /\ payments'[l][p] \in Nat
    <3>1. payments'[l][p] \in 0 .. MaxCopies
      BY <1>4, <2>1, InsertFacts DEF StorePayments
    <3>2. MaxCopies \in Nat
      BY IngestionConstants DEF MaxCopies
    <3>3. /\ payments'[l][p] <= payments[l][p] + 1
          /\ l # next => payments'[l][p] = payments[l][p]
      BY <1>4, <2>1, InsertFacts DEF StorePayments
    <3> QED
      BY <3>1, <3>2, <3>3
  <2>3. ASSUME NEW l \in Ledgers, NEW p \in Payments
        PROVE  /\ payments'[l][p] <= 1 + faults'
               /\ l > Inserted' => payments'[l][p] <= faults'
    BY <2>1, <2>2, <1>0 DEF CopiesBounded
  <2> QED
    BY <2>3 DEF CopiesBounded
<1>5. CASE StoreFeeBumps
  <2>1. Inserted = next /\ Inserted' = next /\ UNCHANGED <<payments, faults>>
    BY <1>5 DEF StoreFeeBumps, Inserted
  <2> QED
    BY <2>1, <1>0, QuietStep
<1>6. CASE SaveCursor
  <2>1. stage = "save" /\ stage' = "fetch" /\ cursor' = end /\ UNCHANGED <<payments, faults>>
    BY <1>6 DEF SaveCursor, AnswerCursor, rows
  <2>2. end \in Nat /\ end # NoCursor
    BY <2>1, IngestionConstants DEF InBatch, Ledgers
  <2>3. Inserted = end /\ Inserted' = end
    BY <2>1, <2>2 DEF Inserted, Start
  <2> QED
    BY <2>1, <2>2, <2>3, QuietStep
\* The fault pays for the replay of what is given up.
<1>7. CASE CutShort
  <2>1. faults' = faults + 1
    BY <1>7 DEF CutShort
  <2>2. \A l \in Ledgers, p \in Payments : payments'[l][p] <= 1 + faults
    <3>1. CASE payments' = payments
      BY <3>1 DEF CopiesBounded
    <3>2. CASE stage = "payments" /\ InsertSomePayments
      <4>1. Inserted = next - 1 /\ next \in Ledgers
        BY <3>2, NextInHand DEF Inserted, Working
      <4>2. ASSUME NEW l \in Ledgers, NEW p \in Payments
            PROVE  /\ payments'[l][p] \in 0 .. MaxCopies
                   /\ payments'[l][p] <= payments[l][p] + 1
                   /\ l # next => payments'[l][p] = payments[l][p]
        BY <3>2, <4>1, InsertFacts
      <4>3. MaxCopies \in Nat
        BY IngestionConstants DEF MaxCopies
      <4> QED
        BY <4>1, <4>2, <4>3, <1>0 DEF CopiesBounded
    <3> QED
      BY <1>7, <3>1, <3>2 DEF CutShort, rows
  <2>3. \A l \in Ledgers, p \in Payments : payments'[l][p] \in Nat
    <3>2. CASE payments' = payments
      BY <1>0, <3>2
    <3>3. CASE stage = "payments" /\ InsertSomePayments
      <4>1. next \in Ledgers
        BY <3>3, NextInHand DEF Working
      <4>2. \A l \in Ledgers, p \in Payments : payments'[l][p] \in 0 .. MaxCopies
        BY <3>3, <4>1, InsertFacts
      <4> QED
        BY <4>2, IngestionConstants DEF MaxCopies
    <3> QED
      BY <1>7, <3>2, <3>3 DEF CutShort, rows
  <2> QED
    BY <2>1, <2>2, <2>3, <1>0 DEF CopiesBounded
<1>8. CASE LedgerCloses \/ UNCHANGED vars
  <2>1. Inserted' = Inserted /\ UNCHANGED <<payments, faults>>
    BY <1>8, StartKeeps DEF LedgerCloses, vars, stored, rows, run, Inserted
  <2> QED
    BY <2>1, PassFacts, QuietStep
<1> QED
  BY <1>1, <1>2, <1>3, <1>4, <1>5, <1>6, <1>7, <1>8, KeepIsCut DEF Next, RunIngestion
-----------------------------------------------------------------------------
LEMMA InvStep == IInv /\ [Next]_vars => IInv'
BY TypeStep, InBatchStep, NothingLostStep, RowsStep, CopiesStep DEF IInv

LEMMA InvCorrect == Spec => []IInv
BY InvInit, InvStep, PTL DEF Spec

\* The tables, the cursor and the task's place in its batch are well typed.
THEOREM TypeCorrect == Spec => []TypeOK
<1>1. IInv => TypeOK
  BY DEF IInv
<1> QED
  BY <1>1, InvCorrect, PTL

\* Whatever fails and wherever a run is cut short, each ledger behind the cursor
\* is stored with its transaction or was reported.
THEOREM NoSilentGapCorrect == Spec => []NoSilentGap
<1>1. IInv => NoSilentGap
  <2> SUFFICES ASSUME IInv, NEW l \in Passed PROVE l \in transactions \cup skipped
    BY DEF NoSilentGap
  <2>1. cursor # NoCursor /\ cursor \in Ledgers /\ l \in OldestLedger .. cursor
    BY DEF Passed, IInv, TypeOK
  <2>2. l \in Ledgers /\ l \in Nat /\ l <= cursor /\ cursor \in Nat
    BY <2>1, IngestionConstants DEF Ledgers
  <2>3. l <= Reached
    BY <2>1, <2>2, StartIsLedger, PassFacts DEF IInv
  <2> QED
    BY <2>2, <2>3 DEF IInv, NothingLost
<1> QED
  BY <1>1, InvCorrect, PTL

\* Payments, fee bumps and merges are only stored of ledgers that have their row.
THEOREM ChildrenHaveParentsCorrect == Spec => []ChildrenHaveParents
<1>1. IInv => ChildrenHaveParents
  BY DEF IInv
<1> QED
  BY <1>1, InvCorrect, PTL

\* A payment is stored at most once more often than runs were cut short.
THEOREM ReplaysAreBoundedCorrect == Spec => []ReplaysAreBounded
<1>1. IInv => ReplaysAreBounded
  BY DEF IInv, CopiesBounded, ReplaysAreBounded
<1> QED
  BY <1>1, InvCorrect, PTL

\* The cursor only moves forward and never past the chain.
THEOREM CursorAdvancesCorrect == Spec => CursorAdvances
<1>1. ASSUME IInv, [Next]_vars
      PROVE  /\ cursor' # NoCursor => cursor' <= latest'
             /\ cursor # NoCursor => cursor' # NoCursor /\ cursor <= cursor'
  <2>1. InBatch'
    BY <1>1, InvStep DEF IInv
  <2>2. CASE SaveCursor
    <3>1. cursor' = end /\ end \in Ledgers /\ Start <= end + 1
      BY <1>1, <2>2 DEF SaveCursor, AnswerCursor, IInv, InBatch
    <3>2. end \in Nat /\ end # NoCursor /\ (cursor # NoCursor => cursor \in Nat)
      BY <1>1, <3>1, IngestionConstants DEF IInv, TypeOK, Ledgers
    <3>3. cursor # NoCursor => Start = cursor + 1
      BY DEF Start
    <3> QED
      BY <2>1, <3>1, <3>2, <3>3 DEF InBatch
  <2>3. CASE cursor' = cursor
    <3>1. cursor # NoCursor => cursor \in Nat
      BY <1>1, IngestionConstants DEF IInv, TypeOK, Ledgers
    <3> QED
      BY <2>1, <2>3, <3>1 DEF InBatch
  <2> QED
    BY <1>1, <2>2, <2>3, KeepIsCut DEF Next, RunIngestion, Fetch, Persist, FailToPersist, StorePayments,
       StoreFeeBumps, StoreMerges, CutShort, LedgerCloses, vars, stored
<1> QED
  BY <1>1, InvCorrect, PTL DEF Spec, CursorAdvances
=============================================================================
