---------------------------- MODULE CachedQuery ----------------------------
(***************************************************************************)
(* The anchor list behind the cache (cached_query): a request looks its    *)
(* page up, and on a miss reads the database, asks the network for each    *)
(* anchor's payments and stores the answer, with any number of steps of    *)
(* others between any two of these.  The metrics sync and the refresh job  *)
(* delete the pages with delete_pattern, a SCAN in batches that takes its  *)
(* time as well; the handler that updates an anchor deletes nothing.       *)
(*                                                                         *)
(* Redis may fail at every call.  The payments are left out: what they are *)
(* worth is in RateLimiter.  `version` counts the writes to the anchors    *)
(* table.  `floor` and `late` are not in the code: they remember what a    *)
(* scan has passed, for the properties.                                    *)
(***************************************************************************)
EXTENDS Naturals

CONSTANTS
    Readers,       \* requests for the anchor list
    Pages,         \* cache keys anchor:list:<limit>:<offset>
    Jobs,          \* tasks that sync the metrics or invalidate anchor:*
    SyncJobs,      \* those that run sync_all_metrics
    CorridorJobs,  \* those that invalidate corridor:* only after it
    NumAnchors,    \* rows of the anchors table
    NoPage,
    MaxVersion,    \* bound on the updates of anchors by requests
    MaxNetwork     \* bound on the payments made in the network

ASSUME CachedQueryConstants ==
    /\ SyncJobs \subseteq Jobs
    /\ CorridorJobs \subseteq SyncJobs
    /\ NumAnchors \in Nat
    /\ NoPage \notin Pages
    /\ MaxVersion \in Nat
    /\ MaxNetwork \in Nat

VARIABLES
    cache,     \* [Pages -> the stored answer or Absent]
    version,   \* the state of the anchors table
    network,   \* the payments there are in the network
    synced,    \* the payments the anchors table was last computed from
    stage,     \* where each reader is
    page,      \* the page it answers
    seen,      \* the version it read
    late,      \* a scan has passed its page since it read
    job,       \* where each job is
    toScan,    \* the part of the key space its scan has not reached
    found,     \* the keys of the batch it is about to unlink
    floor      \* the version when the page was last scanned

tables == <<version, network, synced>>
reading == <<stage, page, seen, late>>
scanning == <<job, toScan, found, floor>>
vars == <<cache, tables, reading, scanning>>

Absent == [version |-> 0, late |-> TRUE, present |-> FALSE]
Entry(v, isLate) == [version |-> v, late |-> isLate, present |-> TRUE]

Versions == 0 .. MaxVersion + MaxNetwork

TypeOK ==
    /\ cache \in [Pages -> [version : Versions, late : BOOLEAN, present : BOOLEAN]]
    /\ version \in Versions
    /\ network \in 0 .. MaxNetwork
    /\ synced \in 0 .. MaxNetwork
    /\ stage \in [Readers -> {"idle", "query", "fetch", "store"}]
    /\ page \in [Readers -> Pages \cup {NoPage}]
    /\ seen \in [Readers -> Versions]
    /\ late \in [Readers -> BOOLEAN]
    /\ job \in [Jobs -> {"idle", "sync", "scan", "unlink"}]
    /\ toScan \in [Jobs -> SUBSET Pages]
    /\ found \in [Jobs -> SUBSET Pages]
    /\ floor \in [Pages -> Versions]
    /\ \A r \in Readers : stage[r] # "idle" => page[r] \in Pages

Init ==
    /\ cache = [p \in Pages |-> Absent]
    /\ version = 0
    /\ network = 0
    /\ synced = 0
    /\ stage = [r \in Readers |-> "idle"]
    /\ page = [r \in Readers |-> NoPage]
    /\ seen = [r \in Readers |-> 0]
    /\ late = [r \in Readers |-> FALSE]
    /\ job = [j \in Jobs |-> "idle"]
    /\ toScan = [j \in Jobs |-> {}]
    /\ found = [j \in Jobs |-> {}]
    /\ floor = [p \in Pages |-> 0]

-----------------------------------------------------------------------------
\* Requests.

Respond(r) ==
    /\ stage' = [stage EXCEPT ![r] = "idle"]
    /\ page' = [page EXCEPT ![r] = NoPage]
    /\ seen' = [seen EXCEPT ![r] = 0]
    /\ late' = [late EXCEPT ![r] = FALSE]

\* A miss, or a Redis that does not answer; a hit changes nothing.
Miss(r, p) ==
    /\ stage[r] = "idle"
    /\ stage' = [stage EXCEPT ![r] = "query"]
    /\ page' = [page EXCEPT ![r] = p]
    /\ UNCHANGED <<cache, tables, seen, late, scanning>>

\* db.list_anchors; an error of the database is the answer, and not stored.
ReadAnchors(r) ==
    /\ stage[r] = "query"
    /\ \/ /\ stage' = [stage EXCEPT ![r] = "fetch"]
          /\ seen' = [seen EXCEPT ![r] = version]
          /\ UNCHANGED <<page, late>>
       \/ Respond(r)
    /\ UNCHANGED <<cache, tables, scanning>>

\* The payments of the anchors, or the metrics of the table in their place.
FetchPayments(r) ==
    /\ stage[r] = "fetch"
    /\ stage' = [stage EXCEPT ![r] = "store"]
    /\ UNCHANGED <<cache, tables, page, seen, late, scanning>>

\* Storing is best effort: the answer is given either way.
Store(r) ==
    /\ stage[r] = "store"
    /\ \/ cache' = [cache EXCEPT ![page[r]] = Entry(seen[r], late[r])]
       \/ UNCHANGED cache
    /\ Respond(r)
    /\ UNCHANGED <<tables, scanning>>

\* The client goes away: the handler's future is dropped.
Hangup(r) ==
    /\ stage[r] # "idle"
    /\ Respond(r)
    /\ UNCHANGED <<cache, tables, scanning>>

\* SETEX: an entry lives for its time to live.
LivesForEver(p) == FALSE    \* mutant: SET without an expiry
Expires(p) == cache[p].present
Expire(p) ==
    /\ Expires(p)
    /\ cache' = [cache EXCEPT ![p] = Absent]
    /\ UNCHANGED <<tables, reading, scanning>>

\* PUT /api/anchors/:id/metrics and POST /api/anchors.
UpdateAnchor ==
    /\ version < MaxVersion
    /\ version' = version + 1
    /\ UNCHANGED <<cache, network, synced, reading, scanning>>

PaymentsAreMade ==
    /\ network < MaxNetwork
    /\ network' = network + 1
    /\ UNCHANGED <<cache, version, synced, reading, scanning>>

-----------------------------------------------------------------------------
\* Jobs.

StartJob(j) ==
    /\ job[j] = "idle"
    /\ job' = [job EXCEPT ![j] = IF j \in SyncJobs THEN "sync" ELSE "scan"]
    /\ toScan' = [toScan EXCEPT ![j] = IF j \in CorridorJobs THEN {} ELSE Pages]
    /\ UNCHANGED <<cache, tables, reading, found, floor>>

\* LIMIT and OFFSET over the anchors by reliability.
ListAnchors(limit, offset) == {i \in 1 .. NumAnchors : offset < i /\ i <= offset + limit}

\* The invalidation follows, if the job has pages to invalidate.
AfterSync(j) ==
    /\ job[j] = "sync"
    /\ job' = [job EXCEPT ![j] = IF toScan[j] = {} THEN "idle" ELSE "scan"]
    /\ UNCHANGED <<cache, reading, toScan, found, floor>>

\* sync_all_metrics writes the row of every anchor it lists from its payments; a
\* sync that finds no new ones does not count as a write.
SyncAllMetrics(j) ==
    /\ AfterSync(j)
    /\ IF ListAnchors(0, 100) = {}
       THEN UNCHANGED tables
       ELSE /\ version' = IF synced = network THEN version ELSE version + 1
            /\ synced' = network
            /\ UNCHANGED network

\* The payments or the update of every listed anchor fail, which is logged and
\* no error of the sync.  (One that reaches some of the anchors is one of these.)
AnchorsFail(j) ==
    /\ AfterSync(j)
    /\ UNCHANGED tables

\* An error of the database ends the iteration without an invalidation.
SyncFails(j) ==
    /\ job[j] = "sync"
    /\ job' = [job EXCEPT ![j] = "idle"]
    /\ toScan' = [toScan EXCEPT ![j] = {}]
    /\ UNCHANGED <<cache, tables, reading, found, floor>>

\* The ghosts note that the scan has passed the pages of `gone`: requests that
\* read the database before are overtaken.
Passed(gone) ==
    /\ floor' = [p \in Pages |-> IF p \in gone THEN version ELSE floor[p]]
    /\ late' = [r \in Readers |->
                    late[r] \/ (stage[r] \in {"fetch", "store"} /\ page[r] \in gone)]

\* One SCAN: the stored keys of the next part of the key space.
Scan(j) ==
    /\ job[j] = "scan"
    /\ toScan[j] # {}
    /\ \E batch \in SUBSET toScan[j] \ {{}} :
          /\ toScan' = [toScan EXCEPT ![j] = @ \ batch]
          /\ found' = [found EXCEPT ![j] = {p \in batch : cache[p].present}]
          /\ Passed({p \in batch : ~cache[p].present})
          /\ job' = [job EXCEPT ![j] = "unlink"]
          /\ UNCHANGED <<cache, tables, stage, page, seen>>

NothingUnlinked(j) == {}    \* mutant: the pipeline is built and not sent
Unlinked(j) == found[j]

\* The keys of the batch go at once, with whatever they hold by now.
Unlink(j) ==
    /\ job[j] = "unlink"
    /\ cache' = [p \in Pages |-> IF p \in Unlinked(j) THEN Absent ELSE cache[p]]
    /\ Passed(found[j])
    /\ job' = [job EXCEPT ![j] = IF toScan[j] = {} THEN "idle" ELSE "scan"]
    /\ found' = [found EXCEPT ![j] = {}]
    /\ UNCHANGED <<tables, stage, page, seen, toScan>>

\* An error of Redis ends the invalidation with the rest of the keys in place.
ScanFails(j) ==
    /\ job[j] \in {"scan", "unlink"}
    /\ job' = [job EXCEPT ![j] = "idle"]
    /\ toScan' = [toScan EXCEPT ![j] = {}]
    /\ found' = [found EXCEPT ![j] = {}]
    /\ UNCHANGED <<cache, tables, reading, floor>>

-----------------------------------------------------------------------------
ReaderStep(r) == ReadAnchors(r) \/ FetchPayments(r) \/ Store(r)
JobStep(j) ==
    \/ StartJob(j) \/ SyncAllMetrics(j) \/ AnchorsFail(j) \/ SyncFails(j)
    \/ Scan(j) \/ Unlink(j) \/ ScanFails(j)

Next ==
    \/ \E r \in Readers : (\E p \in Pages : Miss(r, p)) \/ ReaderStep(r) \/ Hangup(r)
    \/ \E j \in Jobs : JobStep(j)
    \/ \E p \in Pages : Expire(p)
    \/ UpdateAnchor
    \/ PaymentsAreMade

Spec == Init /\ [][Next]_vars

\* The runtime polls the requests and the jobs, Redis expires its keys, and the
\* database and the network do not fail every sync.
Fairness ==
    /\ \A r \in Readers : WF_vars(ReaderStep(r))
    /\ \A p \in Pages : WF_vars(Expire(p))
    /\ \A j \in Jobs : WF_vars(JobStep(j))
    /\ \A j \in SyncJobs : SF_vars(SyncAllMetrics(j))

FairSpec == Spec /\ Fairness

-----------------------------------------------------------------------------
\* What an invalidation has passed is gone: of the answers older than the scan
\* of their key, only those that requests in flight were still computing come
\* back.  Keys stored, expired and unlinked by several jobs between a SCAN and
\* its UNLINK do not let another one survive.
InvalidatedIsGone ==
    \A p \in Pages : cache[p].present /\ ~cache[p].late => cache[p].version >= floor[p]

\* No answer stays behind the database for ever: what an update without
\* invalidation or an overtaken request left in the cache goes with its time to
\* live ("fresh" is the database; the network is SyncReachesDatabase).
EventuallyFresh ==
    <>[](\A p \in Pages : cache[p].present => cache[p].version = version)

\* "Sync all metrics from Stellar network" (ingestion/mod.rs:22): payments that
\* are made reach the anchors table with one of the next syncs.
SyncReachesDatabase == \A n \in 1 .. MaxNetwork : network = n ~> synced >= n
=============================================================================
