----------------------------- MODULE MCServices -----------------------------
(***************************************************************************)
(* Four parts of the backend that share no state, each on a small          *)
(* instance: the rewards, the cached anchor list, the throttled requests   *)
(* and the shutdown.  A behaviour is one of one part, which the initial    *)
(* state chooses; in the interleavings of several nothing else happens to  *)
(* any of them.                                                            *)
(***************************************************************************)
EXTENDS CachedQuery

CONSTANTS
    Requests, MaxPerDay, Base, Bonus, Penalty, MaxRecorded,
    Callers, QueueSize, Burst, Limits, MaxRetryAfter, MaxAttempts,
    FailureThreshold, SuccessThreshold, Timeout, None,
    Clients, RingSize, HttpRequests, Whole, Cut, Napping, Deaf, MaxUpdates

VARIABLES
    part,
    today, recorded, total, progress, points,
    tokens, capacity, circuit, caller, attempt, result, left,
    sender, unread, missed, phase, listening, told, inFlight, task, updates

rewardVars == <<today, recorded, total, progress, points>>
limiterVars == <<tokens, capacity, circuit, caller, attempt, result, left>>
shutdownVars == <<sender, unread, missed, phase, listening, told, inFlight, task, updates>>

VR == INSTANCE VerificationRewards WITH stage <- progress
RL == INSTANCE RateLimiter WITH stage <- caller
SD == INSTANCE Shutdown WITH Requests <- HttpRequests

ASSUME ServicesConstants ==
    VR!VerificationRewardsConstants /\ RL!RateLimiterConstants /\ SD!ShutdownConstants

PartsInit ==
    /\ part \in {"rewards", "cache", "limiter", "shutdown"}
    /\ VR!Init /\ Init /\ RL!Init /\ SD!Init

PartsNext ==
    \/ part = "rewards" /\ VR!Next /\ UNCHANGED <<part, vars, limiterVars, shutdownVars>>
    \/ part = "cache" /\ Next /\ UNCHANGED <<part, rewardVars, limiterVars, shutdownVars>>
    \/ part = "limiter" /\ RL!Next /\ UNCHANGED <<part, rewardVars, vars, shutdownVars>>
    \/ part = "shutdown" /\ SD!Next /\ UNCHANGED <<part, rewardVars, vars, limiterVars>>

partsVars == <<part, rewardVars, vars, limiterVars, shutdownVars>>

\* The fairness of each part (Fairness, RL!FairSpec, SD!Fairness) when it runs.
PartsFairness ==
    /\ \A r \in Readers : WF_vars(part = "cache" /\ ReaderStep(r))
    /\ \A p \in Pages : WF_vars(part = "cache" /\ Expire(p))
    /\ \A j \in Jobs : WF_vars(part = "cache" /\ JobStep(j))
    /\ WF_limiterVars(part = "limiter" /\ RL!Tick)
    /\ WF_limiterVars(part = "limiter" /\ RL!TakeAnyToken)
    /\ WF_shutdownVars(part = "shutdown" /\ SD!MainStep)
    /\ \A c \in Clients :
          /\ WF_shutdownVars(part = "shutdown" /\ SD!Socket(SD!HandleSocket(c)))
          /\ WF_shutdownVars(part = "shutdown" /\ SD!Socket(SD!Ping(c)))
          /\ SF_shutdownVars(part = "shutdown" /\ SD!Socket(SD!Receive(c)))

PartsSpec == PartsInit /\ [][PartsNext]_partsVars /\ PartsFairness

\* The daily limit is overrun by no more than the requests let through together
\* (VerificationRewards).
OverrunIsBounded == VR!OverrunIsBounded

\* Every point of a user's total is in a record (VerificationRewards).
TotalIsRecorded == VR!TotalIsRecorded

\* The throttled requests in the queue are not stuck (RateLimiter).
SomebodyIsSent == RL!SomebodyIsSent

\* A shutdown whose requests have ended ends (Shutdown).
ShutdownEnds == SD!ShutdownEnds

\* A client that fell behind the channel, and reads, hears again (Shutdown).
NobodyIsLeftBehind == SD!NobodyIsLeftBehind
=============================================================================
