-------------------------- MODULE LedgerIngestion --------------------------
(***************************************************************************)
(* Ledger ingestion (backend/src/ingestion/ledger.rs): one task fetches a  *)
(* batch of ledgers after the stored cursor, works each through four       *)
(* stages (the ledger and its placeholder transaction, its payments, its   *)
(* fee bumps, its account merges), every one with its own network and      *)
(* database calls whose errors are logged and passed over, and then saves  *)
(* the cursor.  The task may fail or stop at any await and starts over     *)
(* from the database.                                                      *)
(*                                                                         *)
(* The RPC service is external: it serves the ledgers up to `latest`, and  *)
(* a cursor is the sequence of the last ledger served, as in the client's  *)
(* own mock.  `skipped` and `faults` are not stored: they remember the     *)
(* warnings logged and the runs that saved no cursor, for the properties.  *)
(***************************************************************************)
EXTENDS Naturals

CONSTANTS
    OldestLedger, \* health.oldest_ledger, where an empty database starts
    MaxLedger,    \* bound of the model on the chain
    BatchSize,    \* run_ingestion(5)
    Payments,     \* the payments of a ledger
    NoCursor,     \* ingestion_cursor has no row
    MaxFaults     \* bound of the model on runs that do not save the cursor

ASSUME IngestionConstants ==
    /\ OldestLedger \in Nat \ {0}
    /\ MaxLedger \in Nat
    /\ OldestLedger <= MaxLedger
    /\ BatchSize \in Nat \ {0}
    /\ MaxFaults \in Nat
    /\ NoCursor \notin Nat

Ledgers == OldestLedger .. MaxLedger
MaxCopies == MaxFaults + 2  \* the model stops counting equal rows here

VARIABLES
    latest,       \* the chain's last ledger
    cursor,       \* ingestion_cursor.cursor
    lastLedger,   \* ingestion_cursor.last_ledger_sequence
    ledgers,      \* rows of ledgers
    transactions, \* ledgers with their placeholder row in transactions
    payments,     \* rows of ledger_payments of each ledger and payment
    feeBumps,     \* ledgers whose fee bumps are stored
    merges,       \* ledgers whose account merges are stored
    stage,        \* what the task does next
    next,         \* the ledger in hand
    end,          \* the last ledger of the fetched batch
    faults,       \* runs so far that ended without saving the cursor
    skipped       \* ledgers passed over with "Failed to persist ledger"

stored == <<cursor, lastLedger>>
rows == <<ledgers, transactions, payments, feeBumps, merges>>
run == <<stage, next, end>>
vars == <<latest, stored, rows, run, faults, skipped>>

Stage == {"fetch", "persist", "payments", "feeBumps", "merges", "save"}

TypeOK ==
    /\ latest \in Ledgers
    /\ cursor \in Ledgers \cup {NoCursor}
    /\ lastLedger \in Ledgers \cup {0}
    /\ ledgers \subseteq Ledgers
    /\ transactions \subseteq ledgers
    /\ payments \in [Ledgers -> [Payments -> 0 .. MaxCopies]]
    /\ feeBumps \subseteq Ledgers
    /\ merges \subseteq Ledgers
    /\ stage \in Stage
    /\ next \in OldestLedger .. MaxLedger + 1
    /\ end \in OldestLedger - 1 .. MaxLedger
    /\ stage \in {"persist", "payments", "feeBumps", "merges"} => next <= end
    /\ faults \in 0 .. MaxFaults
    /\ skipped \subseteq Ledgers

Init ==
    /\ latest \in Ledgers
    /\ cursor = NoCursor
    /\ lastLedger = 0
    /\ ledgers = {}
    /\ transactions = {}
    /\ payments = [l \in Ledgers |-> [p \in Payments |-> 0]]
    /\ feeBumps = {}
    /\ merges = {}
    /\ stage = "fetch"
    /\ next = OldestLedger
    /\ end = OldestLedger - 1
    /\ faults = 0
    /\ skipped = {}

-----------------------------------------------------------------------------
\* The first ledger a request without or with a cursor answers with.
StartOver == OldestLedger   \* mutant: the stored cursor is not used
StartTooFar == IF cursor = NoCursor THEN OldestLedger ELSE cursor + 2 \* mutant
Start == IF cursor = NoCursor THEN OldestLedger ELSE cursor + 1
Least(a, b) == IF a <= b THEN a ELSE b
Served == Least(Start + BatchSize - 1, latest)

\* process_ledgers begins with the first ledger, if there is one.
Fetch ==
    /\ stage = "fetch"
    /\ next' = Start
    /\ end' = Served
    /\ stage' = IF Start <= Served THEN "persist" ELSE "save"
    /\ UNCHANGED <<latest, stored, rows, faults, skipped>>

MoreLedgers == next < end

NextLedger ==
    /\ next' = next + 1
    /\ stage' = IF MoreLedgers THEN "persist" ELSE "save"
    /\ UNCHANGED end

Persist ==
    /\ stage = "persist"
    /\ ledgers' = ledgers \cup {next}
    /\ transactions' = transactions \cup {next}
    /\ stage' = "payments"
    /\ UNCHANGED <<latest, stored, payments, feeBumps, merges, next, end, faults, skipped>>

\* Mutant: the task goes on with a ledger it could not persist.
ContinueAnyway == stage' = "payments" /\ UNCHANGED <<next, end>>
Continue == NextLedger

\* One of the two inserts fails: a warning, and `continue`.
FailToPersist ==
    /\ stage = "persist"
    /\ ledgers' \in {ledgers, ledgers \cup {next}}
    /\ skipped' = skipped \cup {next}
    /\ Continue
    /\ UNCHANGED <<latest, stored, transactions, payments, feeBumps, merges, faults>>

\* Each payment is inserted by itself, and one that cannot be is passed over;
\* when the request fails, none is.
InsertSomePayments ==
    \E inserted \in SUBSET Payments :
        payments' = [payments EXCEPT ![next] =
            [p \in Payments |-> IF p \in inserted THEN Least(@[p] + 1, MaxCopies) ELSE @[p]]]

StorePayments ==
    /\ stage = "payments"
    /\ InsertSomePayments
    /\ stage' = "feeBumps"
    /\ UNCHANGED <<latest, stored, ledgers, transactions, feeBumps, merges, next, end,
                   faults, skipped>>

\* ON CONFLICT DO NOTHING: storing a ledger's fee bumps again changes nothing.
StoreFeeBumps ==
    /\ stage = "feeBumps"
    /\ feeBumps' \in {feeBumps, feeBumps \cup {next}}
    /\ stage' = "merges"
    /\ UNCHANGED <<latest, stored, ledgers, transactions, payments, merges, next, end,
                   faults, skipped>>

StoreMerges ==
    /\ stage = "merges"
    /\ merges' \in {merges, merges \cup {next}}
    /\ NextLedger
    /\ UNCHANGED <<latest, stored, ledgers, transactions, payments, feeBumps, faults, skipped>>

\* The service answers with the last ledger served, or with its latest when
\* there was none after the cursor: `end` either way.
CursorOfLastLedger == IF Start <= end THEN end ELSE OldestLedger  \* mutant
AnswerCursor == end

\* save_cursor; `last_ledger` is unwrap_or(0) when no ledger was fetched.
SaveCursor ==
    /\ stage = "save"
    /\ cursor' = AnswerCursor
    /\ lastLedger' = IF Start <= end THEN end ELSE 0
    /\ stage' = "fetch"
    /\ UNCHANGED <<latest, rows, next, end, faults, skipped>>

\* An answer without a cursor: nothing is saved, and the batch comes again.
KeepCursor ==
    /\ stage = "save"
    /\ faults < MaxFaults
    /\ faults' = faults + 1
    /\ stage' = "fetch"
    /\ UNCHANGED <<latest, stored, rows, next, end, skipped>>

-----------------------------------------------------------------------------
\* A call whose error ends the run (reading the cursor, fetching, saving), the
\* shutdown signal or a crash, at any await; some of a ledger's payments may be
\* in the database already.
CutShort ==
    /\ faults < MaxFaults
    /\ faults' = faults + 1
    /\ stage' = "fetch"
    /\ \/ UNCHANGED rows
       \/ /\ stage = "persist"
          /\ ledgers' = ledgers \cup {next}
          /\ UNCHANGED <<transactions, payments, feeBumps, merges>>
       \/ /\ stage = "payments"
          /\ InsertSomePayments
          /\ UNCHANGED <<ledgers, transactions, feeBumps, merges>>
    /\ UNCHANGED <<latest, stored, next, end, skipped>>

LedgerCloses ==
    /\ latest < MaxLedger
    /\ latest' = latest + 1
    /\ UNCHANGED <<stored, rows, run, faults, skipped>>

RunIngestion ==
    \/ Fetch
    \/ Persist
    \/ FailToPersist
    \/ StorePayments
    \/ StoreFeeBumps
    \/ StoreMerges
    \/ SaveCursor
    \/ KeepCursor

Next == RunIngestion \/ CutShort \/ LedgerCloses

\* The task's loop runs for ever and its requests have timeouts.  (The service
\* answers with a cursor but for the bounded number of times of KeepCursor.)
Spec == Init /\ [][Next]_vars
FairSpec == Spec /\ WF_vars(RunIngestion)

-----------------------------------------------------------------------------
\* The ledgers the stored cursor claims to be done with.
Passed == IF cursor = NoCursor THEN {} ELSE OldestLedger .. cursor

\* The cursor never passes a ledger in silence: each one is stored with its
\* transaction, or was reported as not persisted, also after runs that were cut
\* short between the rows and the cursor.
NoSilentGap == \A l \in Passed : l \in transactions \/ l \in skipped

\* What was stored of a ledger hangs on the ledger's own row.
ChildrenHaveParents ==
    \A l \in Ledgers :
        (l \in feeBumps \cup merges \/ \E p \in Payments : payments[l][p] > 0)
            => l \in ledgers

\* A payment is stored once more for every run that was cut short or answered
\* without a cursor, never more often: the batch is replayed from the cursor, and
\* nothing else is.
ReplaysAreBounded ==
    \A l \in Ledgers, p \in Payments : payments[l][p] <= 1 + faults

\* The cursor only moves forward, and never past the chain.
CursorAdvances ==
    [][/\ cursor' # NoCursor => cursor' <= latest'
       /\ cursor # NoCursor => cursor' # NoCursor /\ cursor <= cursor']_vars

\* Ingestion catches up with a chain that pauses, whatever could not be stored.
CatchesUp == []<>(cursor = latest)

\* "I'm saving cursor for restart safety" (ledger.rs:75): a restart does not
\* count a payment twice.
PaymentsAreStoredOnce == \A l \in Ledgers, p \in Payments : payments[l][p] <= 1
=============================================================================
