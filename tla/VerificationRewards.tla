------------------------ MODULE VerificationRewards ------------------------
(***************************************************************************)
(* The rewards of one user for verifying snapshots (verify_and_reward).  A *)
(* request reads the number of today's records, then the snapshot, then    *)
(* inserts its record, then adds its points to the user's total and reads  *)
(* the total back: five statements without a transaction, so the requests  *)
(* a user sends at once interleave between them, and a failure or a client *)
(* that goes away leaves the earlier statements done.                      *)
(*                                                                         *)
(* Users do not share rows.  `recorded` is the sum of the points in the    *)
(* user's records; the rows themselves are left out.                       *)
(***************************************************************************)
EXTENDS Integers, FiniteSets

CONSTANTS
    Requests,            \* requests the user may have in progress at a time
    MaxPerDay,           \* MAX_VERIFICATIONS_PER_DAY
    Base,                \* BASE_REWARD_POINTS
    Bonus,               \* EARLY_VERIFICATION_BONUS
    Penalty,             \* FAILED_VERIFICATION_PENALTY (0)
    MaxRecorded          \* bound on the points the model hands out

VerificationRewardsConstants ==
    /\ IsFiniteSet(Requests)
    /\ MaxPerDay \in Nat \ {0}
    /\ Base \in Nat
    /\ Bonus \in Nat
    /\ Penalty \in Nat
    /\ MaxRecorded \in Nat

VARIABLES
    today,      \* records of this day
    recorded,   \* points in the records
    total,      \* user_rewards.total_points
    stage,      \* where each request is
    points      \* reward_points of each request

tables == <<today, recorded, total>>
vars == <<tables, stage, points>>

Rewards == {Base, Base + Bonus, Penalty}

TypeOK ==
    /\ today \in Nat
    /\ recorded \in Nat
    /\ total \in Nat
    /\ stage \in [Requests -> {"idle", "fetch", "record", "update", "read"}]
    /\ points \in [Requests -> Rewards \cup {0}]

Init ==
    /\ today = 0
    /\ recorded = 0
    /\ total = 0
    /\ stage = [r \in Requests |-> "idle"]
    /\ points = [r \in Requests |-> 0]

-----------------------------------------------------------------------------
Goto(r, s) == stage' = [stage EXCEPT ![r] = s]
Return(r) == Goto(r, "idle") /\ points' = [points EXCEPT ![r] = 0]

\* Mutant: the limit counts the request that would exceed it.
LooseLimitReached == today > MaxPerDay
LimitReached == today >= MaxPerDay

\* check_daily_limit
CheckDailyLimit(r) ==
    /\ stage[r] = "idle"
    /\ ~LimitReached
    /\ Goto(r, "fetch")
    /\ UNCHANGED <<tables, points>>

\* fetch_snapshot and the comparison: a match has a bonus if it is early.
FetchSnapshot(r) ==
    /\ stage[r] = "fetch"
    /\ \E p \in Rewards : points' = [points EXCEPT ![r] = p]
    /\ Goto(r, "record")
    /\ UNCHANGED tables

\* record_verification
RecordVerification(r) ==
    /\ stage[r] = "record"
    /\ recorded + points[r] <= MaxRecorded
    /\ today' = today + 1
    /\ recorded' = recorded + points[r]
    /\ Goto(r, "update")
    /\ UNCHANGED <<total, points>>

\* Mutant: the two statements of update_user_rewards are retried together.
UpdateAndRetry(r) ==
    /\ stage[r] = "update"
    /\ total' = total + points[r]
    /\ Goto(r, "read") \/ UNCHANGED stage
    /\ UNCHANGED <<today, recorded, points>>

\* update_user_rewards: one upsert that adds.
UpdateUserRewards(r) ==
    /\ stage[r] = "update"
    /\ total' = total + points[r]
    /\ Goto(r, "read")
    /\ UNCHANGED <<today, recorded, points>>

\* The total is read back, with what others added meanwhile.
ReadTotal(r) ==
    /\ stage[r] = "read"
    /\ Return(r)
    /\ UNCHANGED tables

\* The snapshot is not there, a statement fails, or the client goes away.
Abandon(r) ==
    /\ stage[r] # "idle"
    /\ Return(r)
    /\ UNCHANGED tables

\* Midnight, in UTC as the records are.
NewDay ==
    /\ today > 0
    /\ today' = 0
    /\ UNCHANGED <<recorded, total, stage, points>>

Step(r) ==
    \/ CheckDailyLimit(r) \/ FetchSnapshot(r) \/ RecordVerification(r)
    \/ UpdateUserRewards(r) \/ ReadTotal(r) \/ Abandon(r)

Next == NewDay \/ \E r \in Requests : Step(r)

Spec == Init /\ [][Next]_vars

-----------------------------------------------------------------------------
\* The limit of a day is exceeded by no more than the requests that were let
\* through together: with N in progress at a time there are at most N - 1 records
\* too many, however often the requests repeat and whatever fails.
Admitted == {r \in Requests : stage[r] \in {"fetch", "record"}}
OverrunIsBounded == today + Cardinality(Admitted) <= MaxPerDay - 1 + Cardinality(Requests)

\* Every point of the total is in a record: what fails or goes away between the two
\* statements loses points, and no interleaving of them invents any.
TotalIsRecorded == total <= recorded
=============================================================================
