--------------------------- MODULE ServicesProofs ---------------------------
(***************************************************************************)
(* Theorems about the four parts of MCServices - the cached anchor list,   *)
(* the rewards, the throttled requests and the shutdown - for any number   *)
(* of requests, pages, jobs, callers, tasks and connections, any limits    *)
(* and any rewards; and that the behaviours TLC checks for the parts       *)
(* together are behaviours of each of them.                                *)
(*                                                                         *)
(* InvalidatedIsGone speaks of the cache; its inductive form speaks of the *)
(* requests in flight as well: an answer that no scan has overtaken is at  *)
(* least as new as the last scan of its page (AnswersAreNotOvertaken), and *)
(* no scan is newer than the database (ScansAreInThePast).                 *)
(*                                                                         *)
(* The bound of the daily limit is inductive on top of the types: a        *)
(* request is admitted only below the limit, where all the admitted ones   *)
(* together leave room; it gives up its place when it records; and a new   *)
(* day starts at zero records.  That the total never exceeds the records   *)
(* is inductive only with the points that are recorded and not added yet   *)
(* (Owed): an interleaving must not let two requests add the same ones.    *)
(*                                                                         *)
(* The limiter's invariant bounds the permits and the bucket; it needs the *)
(* attempts that a waiting caller has left.  That of the shutdown says     *)
(* what the clean-up may rely on, and what the channel owes to a reader.   *)
(***************************************************************************)
EXTENDS MCServices, FiniteSetTheorems, TLAPS

\* Every counted write to the table is an update by a request, of which there
\* are at most MaxVersion, or a sync that found new payments.
WritesAreCounted ==
    /\ version <= MaxVersion + synced
    /\ synced <= network

ScansAreInThePast == \A p \in Pages : floor[p] <= version

AnswersAreNotOvertaken ==
    \A r \in Readers :
        stage[r] \in {"fetch", "store"} /\ ~late[r] => seen[r] >= floor[page[r]]

IInv ==
    /\ TypeOK
    /\ WritesAreCounted
    /\ ScansAreInThePast
    /\ AnswersAreNotOvertaken
    /\ InvalidatedIsGone

-----------------------------------------------------------------------------
LEMMA VersionFacts ==
    ASSUME TypeOK
    PROVE  /\ MaxVersion \in Nat /\ MaxNetwork \in Nat /\ Versions \subseteq Nat
           /\ version \in Nat /\ synced \in Nat /\ network \in Nat
           /\ 0 \in Versions /\ version \in Versions
           /\ \A p \in Pages : floor[p] \in Nat /\ cache[p].version \in Nat
           /\ \A r \in Readers : seen[r] \in Nat
<1> USE CachedQueryConstants DEF CachedQueryConstants, TypeOK, Versions
<1>1. \A p \in Pages : cache[p].version \in Versions
  OBVIOUS
<1> QED
  BY <1>1

LEMMA EntryFacts ==
    ASSUME NEW v, NEW b
    PROVE  /\ Entry(v, b).version = v /\ Entry(v, b).late = b /\ Entry(v, b).present
           /\ ~Absent.present
BY DEF Entry, Absent

LEMMA InitInv == Init => IInv
<1> SUFFICES ASSUME Init PROVE IInv
  OBVIOUS
<1> USE CachedQueryConstants DEF CachedQueryConstants, Init
<1>1. TypeOK
  <2>1. Absent \in [version : Versions, late : BOOLEAN, present : BOOLEAN]
    BY DEF Absent, Versions
  <2>2. QED
    BY <2>1 DEF TypeOK, Versions
<1>2. WritesAreCounted /\ ScansAreInThePast /\ AnswersAreNotOvertaken
  BY DEF WritesAreCounted, ScansAreInThePast, AnswersAreNotOvertaken
<1>3. InvalidatedIsGone
  BY EntryFacts DEF InvalidatedIsGone
<1> QED
  BY <1>1, <1>2, <1>3 DEF IInv

\* A request that gives its answer or goes away is idle again.
LEMMA RespondFacts ==
    ASSUME TypeOK, NEW r \in Readers, Respond(r)
    PROVE  /\ stage' \in [Readers -> {"idle", "query", "fetch", "store"}]
           /\ page' \in [Readers -> Pages \cup {NoPage}]
           /\ seen' \in [Readers -> Versions]
           /\ late' \in [Readers -> BOOLEAN]
           /\ stage'[r] = "idle"
           /\ \A q \in Readers : q # r => /\ stage'[q] = stage[q] /\ page'[q] = page[q]
                                          /\ seen'[q] = seen[q] /\ late'[q] = late[q]
<1>1. 0 \in Versions
  BY VersionFacts
<1> QED
  BY <1>1 DEF Respond, TypeOK

\* What a request does to its own place, and what it stores.
LEMMA ReaderInv ==
    ASSUME IInv, NEW r \in Readers,
           \/ \E p \in Pages : Miss(r, p)
           \/ ReaderStep(r)
           \/ Hangup(r)
    PROVE  IInv'
<1> USE DEF IInv
<1>1. /\ version \in Nat /\ version \in Versions /\ Versions \subseteq Nat
      /\ \A p \in Pages : floor[p] \in Nat /\ cache[p].version \in Nat
      /\ \A q \in Readers : seen[q] \in Nat
  BY VersionFacts
<1>2. UNCHANGED <<tables, scanning>>
  BY DEF Miss, ReaderStep, ReadAnchors, FetchPayments, Store, Hangup
<1>3. WritesAreCounted' /\ ScansAreInThePast'
  BY <1>2 DEF tables, scanning, WritesAreCounted, ScansAreInThePast
<1>4. ASSUME NEW p \in Pages, Miss(r, p) PROVE IInv'
  <2>1. TypeOK'
    BY <1>2, <1>4 DEF Miss, TypeOK, tables, scanning
  <2>2. AnswersAreNotOvertaken' /\ InvalidatedIsGone'
    BY <1>2, <1>4 DEF Miss, AnswersAreNotOvertaken, InvalidatedIsGone, scanning, TypeOK
  <2>3. QED
    BY <1>3, <2>1, <2>2
<1>5. CASE Respond(r) /\ UNCHANGED cache
  <2>1. TypeOK'
    BY <1>2, <1>5, RespondFacts DEF TypeOK, tables, scanning
  <2>2. AnswersAreNotOvertaken' /\ InvalidatedIsGone'
    BY <1>2, <1>5, RespondFacts DEF AnswersAreNotOvertaken, InvalidatedIsGone, scanning
  <2>3. QED
    BY <1>3, <2>1, <2>2
<1>6. CASE ReadAnchors(r) /\ ~Respond(r)
  <2>1. /\ stage[r] = "query" /\ cache' = cache /\ page' = page /\ late' = late
        /\ stage' = [stage EXCEPT ![r] = "fetch"] /\ seen' = [seen EXCEPT ![r] = version]
    BY <1>6 DEF ReadAnchors
  <2>2. TypeOK'
    BY <1>1, <1>2, <2>1 DEF TypeOK, tables, scanning
  <2>3. AnswersAreNotOvertaken'
    <3> SUFFICES ASSUME NEW q \in Readers, stage'[q] \in {"fetch", "store"}, ~late[q]
                 PROVE  seen'[q] >= floor[page[q]]
      BY <1>2, <2>1 DEF AnswersAreNotOvertaken, scanning
    <3>1. CASE q = r
      <4>1. page[r] \in Pages /\ seen'[r] = version
        BY <2>1 DEF TypeOK
      <4>2. floor[page[r]] <= version
        BY <4>1 DEF ScansAreInThePast
      <4>3. QED
        BY <1>1, <3>1, <4>1, <4>2
    <3>2. CASE q # r
      BY <2>1, <3>2 DEF AnswersAreNotOvertaken, TypeOK
    <3>3. QED
      BY <3>1, <3>2
  <2>4. InvalidatedIsGone'
    BY <1>2, <2>1 DEF InvalidatedIsGone, scanning
  <2>5. QED
    BY <1>3, <2>2, <2>3, <2>4
<1>7. CASE FetchPayments(r)
  <2>1. TypeOK'
    BY <1>2, <1>7 DEF FetchPayments, TypeOK, tables, scanning
  <2>2. AnswersAreNotOvertaken' /\ InvalidatedIsGone'
    BY <1>2, <1>7
    DEF FetchPayments, AnswersAreNotOvertaken, InvalidatedIsGone, scanning, TypeOK
  <2>3. QED
    BY <1>3, <2>1, <2>2
<1>8. CASE Store(r) /\ ~UNCHANGED cache
  <2> DEFINE p == page[r]
  <2>1. /\ stage[r] = "store" /\ Respond(r)
        /\ cache' = [cache EXCEPT ![p] = Entry(seen[r], late[r])]
    BY <1>8 DEF Store
  <2>2. p \in Pages /\ seen[r] \in Versions /\ late[r] \in BOOLEAN
    BY <2>1 DEF TypeOK
  <2>3. Entry(seen[r], late[r]) \in [version : Versions, late : BOOLEAN, present : BOOLEAN]
    BY <2>2 DEF Entry
  <2>4. cache' \in [Pages -> [version : Versions, late : BOOLEAN, present : BOOLEAN]]
    BY <2>1, <2>3 DEF TypeOK
  <2>5. TypeOK'
    BY <1>2, <2>1, <2>4, RespondFacts DEF TypeOK, tables, scanning
  <2>6. AnswersAreNotOvertaken'
    BY <1>2, <2>1, RespondFacts DEF AnswersAreNotOvertaken, scanning
  <2>7. InvalidatedIsGone'
    <3> SUFFICES ASSUME NEW q \in Pages, cache'[q].present, ~cache'[q].late
                 PROVE  cache'[q].version >= floor[q]
      BY <1>2 DEF InvalidatedIsGone, scanning
    <3>1. CASE q = p
      <4>1. cache'[q] = Entry(seen[r], late[r])
        BY <2>1, <2>2, <3>1 DEF TypeOK
      <4>2. cache'[q].version = seen[r] /\ ~late[r]
        BY <4>1, EntryFacts
      <4>3. QED
        BY <2>1, <3>1, <4>2 DEF AnswersAreNotOvertaken
    <3>2. CASE q # p
      <4>1. cache'[q] = cache[q]
        BY <2>1, <3>2 DEF TypeOK
      <4>2. QED
        BY <4>1 DEF InvalidatedIsGone
    <3>3. QED
      BY <3>1, <3>2
  <2>8. QED
    BY <1>3, <2>5, <2>6, <2>7
<1> QED
  BY <1>4, <1>5, <1>6, <1>7, <1>8 DEF ReaderStep, Hangup, Store, ReadAnchors


-----------------------------------------------------------------------------
\* A scan that passes pages sets their floor to the version of the moment and
\* marks the requests that have read them before.
LEMMA PassedFacts ==
    ASSUME IInv, NEW gone \in SUBSET Pages, Passed(gone),
           UNCHANGED <<tables, stage, page, seen>>,
           \A p \in gone : ~cache'[p].present,
           \A p \in Pages \ gone : cache'[p] = cache[p] \/ ~cache'[p].present
    PROVE  /\ floor' \in [Pages -> Versions] /\ late' \in [Readers -> BOOLEAN]
           /\ WritesAreCounted' /\ ScansAreInThePast'
           /\ AnswersAreNotOvertaken' /\ InvalidatedIsGone'
<1> USE DEF IInv
<1>1. /\ version \in Nat /\ version \in Versions
      /\ \A p \in Pages : floor[p] \in Nat
  BY VersionFacts
<1>2. /\ \A p \in Pages : floor'[p] = IF p \in gone THEN version ELSE floor[p]
      /\ floor' \in [Pages -> Versions]
  BY <1>1 DEF Passed, TypeOK
<1>3. /\ late' \in [Readers -> BOOLEAN]
      /\ \A r \in Readers :
             ~late'[r] => /\ ~late[r]
                          /\ stage[r] \in {"fetch", "store"} => page[r] \notin gone
  BY DEF Passed, TypeOK
<1>4. WritesAreCounted' /\ ScansAreInThePast'
  BY <1>1, <1>2 DEF tables, WritesAreCounted, ScansAreInThePast
<1>5. AnswersAreNotOvertaken'
  <2> SUFFICES ASSUME NEW r \in Readers, stage[r] \in {"fetch", "store"}, ~late'[r]
               PROVE  seen[r] >= floor'[page[r]]
    BY DEF AnswersAreNotOvertaken
  <2>1. page[r] \in Pages /\ page[r] \notin gone /\ ~late[r]
    BY <1>3 DEF TypeOK
  <2>2. QED
    BY <1>2, <2>1 DEF AnswersAreNotOvertaken
<1>6. InvalidatedIsGone'
  <2> SUFFICES ASSUME NEW p \in Pages, cache'[p].present, ~cache'[p].late
               PROVE  cache'[p].version >= floor'[p]
    BY DEF InvalidatedIsGone
  <2>1. p \notin gone /\ cache'[p] = cache[p]
    OBVIOUS
  <2>2. QED
    BY <1>2, <2>1 DEF InvalidatedIsGone
<1> QED
  BY <1>2, <1>3, <1>4, <1>5, <1>6

\* The steps of a job that leave the cache and the requests alone.
LEMMA JobMoves ==
    ASSUME IInv, NEW j \in Jobs,
           \/ StartJob(j) \/ SyncAllMetrics(j) \/ AnchorsFail(j)
           \/ SyncFails(j) \/ ScanFails(j)
    PROVE  IInv'
<1> USE DEF IInv
<1>1. /\ MaxVersion \in Nat /\ MaxNetwork \in Nat
      /\ version \in Nat /\ synced \in Nat /\ network \in Nat
      /\ \A p \in Pages : floor[p] \in Nat
  BY VersionFacts
<1>2. UNCHANGED <<cache, reading, floor>>
  BY DEF StartJob, SyncAllMetrics, AnchorsFail, AfterSync, SyncFails, ScanFails
<1>3. /\ version' >= version /\ version' \in Nat
      /\ synced' \in 0 .. MaxNetwork /\ network' = network
      /\ WritesAreCounted'
  <2>1. CASE UNCHANGED tables
    BY <1>1, <2>1 DEF tables, WritesAreCounted, TypeOK
  <2>2. CASE SyncAllMetrics(j) /\ ~UNCHANGED tables
    <3>1. /\ version' = IF synced = network THEN version ELSE version + 1
          /\ synced' = network /\ network' = network
      BY <2>2 DEF SyncAllMetrics
    <3>2. QED
      BY <1>1, <3>1 DEF WritesAreCounted, TypeOK
  <2>3. QED
    BY <2>1, <2>2 DEF StartJob, AnchorsFail, SyncFails, ScanFails
<1>4. version' \in Versions
  <2>1. version' <= MaxVersion + synced'
    BY <1>3 DEF WritesAreCounted
  <2>2. synced' \in Nat /\ synced' <= MaxNetwork
    BY <1>1, <1>3
  <2>3. version' <= MaxVersion + MaxNetwork
    <3>1. version' \in Nat /\ MaxVersion \in Nat /\ MaxNetwork \in Nat
      BY <1>1, <1>3
    <3>2. \A v, a, s, b \in Nat : v <= a + s /\ s <= b => v <= a + b
      OBVIOUS
    <3>3. QED
      BY <2>1, <2>2, <3>1, <3>2
  <2>4. QED
    BY <1>1, <1>3, <2>3 DEF Versions
<1>5. /\ job' \in [Jobs -> {"idle", "sync", "scan", "unlink"}]
      /\ toScan' \in [Jobs -> SUBSET Pages]
      /\ found' \in [Jobs -> SUBSET Pages]
  <2> USE DEF TypeOK
  <2>1. CASE StartJob(j)
    BY <2>1 DEF StartJob
  <2>2. CASE SyncAllMetrics(j) \/ AnchorsFail(j)
    BY <2>2 DEF SyncAllMetrics, AnchorsFail, AfterSync
  <2>3. CASE SyncFails(j)
    BY <2>3 DEF SyncFails
  <2>4. CASE ScanFails(j)
    BY <2>4 DEF ScanFails
  <2>5. QED
    BY <2>1, <2>2, <2>3, <2>4
<1>6. TypeOK'
  BY <1>2, <1>3, <1>4, <1>5 DEF TypeOK, reading
<1>7. ScansAreInThePast'
  BY <1>1, <1>2, <1>3 DEF ScansAreInThePast
<1>8. AnswersAreNotOvertaken' /\ InvalidatedIsGone'
  BY <1>2 DEF AnswersAreNotOvertaken, InvalidatedIsGone, reading
<1> QED
  BY <1>3, <1>6, <1>7, <1>8

\* The steps of a scan.  SCAN passes the pages that are not stored, UNLINK those
\* of its batch, which it deletes.
LEMMA ScanInv ==
    ASSUME IInv, NEW j \in Jobs, Scan(j) \/ Unlink(j)
    PROVE  IInv'
<1> USE DEF IInv
<1>1. CASE Scan(j)
  <2>1. PICK batch \in SUBSET toScan[j] \ {{}} :
          /\ toScan' = [toScan EXCEPT ![j] = @ \ batch]
          /\ found' = [found EXCEPT ![j] = {p \in batch : cache[p].present}]
          /\ Passed({p \in batch : ~cache[p].present})
          /\ job' = [job EXCEPT ![j] = "unlink"]
          /\ UNCHANGED <<cache, tables, stage, page, seen>>
    BY <1>1 DEF Scan
  <2> DEFINE gone == {p \in batch : ~cache[p].present}
  <2>2. batch \subseteq Pages
    BY <2>1 DEF TypeOK
  <2>3. /\ floor' \in [Pages -> Versions] /\ late' \in [Readers -> BOOLEAN]
        /\ WritesAreCounted' /\ ScansAreInThePast'
        /\ AnswersAreNotOvertaken' /\ InvalidatedIsGone'
    <3>1. gone \in SUBSET Pages /\ Passed(gone)
      BY <2>1, <2>2
    <3>2. \A p \in gone : ~cache'[p].present
      BY <2>1
    <3>3. \A p \in Pages \ gone : cache'[p] = cache[p] \/ ~cache'[p].present
      BY <2>1
    <3> HIDE DEF gone
    <3>4. QED
      BY <2>1, <3>1, <3>2, <3>3, PassedFacts
  <2>4. TypeOK'
    <3>1. {p \in batch : cache[p].present} \in SUBSET Pages
      BY <2>2
    <3>2. found' \in [Jobs -> SUBSET Pages] /\ toScan' \in [Jobs -> SUBSET Pages]
      BY <2>1, <3>1 DEF TypeOK
    <3>3. QED
      BY <2>1, <2>3, <3>2 DEF TypeOK, tables
  <2>5. QED
    BY <2>3, <2>4
<1>2. CASE Unlink(j)
  <2>1. /\ \A p \in Pages : cache'[p] = IF p \in found[j] THEN Absent ELSE cache[p]
        /\ found[j] \in SUBSET Pages /\ Passed(found[j])
        /\ UNCHANGED <<tables, stage, page, seen, toScan>>
    BY <1>2 DEF Unlink, Unlinked, TypeOK
  <2>2. /\ floor' \in [Pages -> Versions] /\ late' \in [Readers -> BOOLEAN]
        /\ WritesAreCounted' /\ ScansAreInThePast'
        /\ AnswersAreNotOvertaken' /\ InvalidatedIsGone'
    <3>1. \A p \in found[j] : ~cache'[p].present
      BY <2>1, EntryFacts
    <3>2. \A p \in Pages \ found[j] : cache'[p] = cache[p] \/ ~cache'[p].present
      BY <2>1
    <3>3. QED
      BY <2>1, <3>1, <3>2, PassedFacts
  <2>3. TypeOK'
    <3>1. Absent \in [version : Versions, late : BOOLEAN, present : BOOLEAN]
      BY VersionFacts DEF Absent
    <3>2. cache' \in [Pages -> [version : Versions, late : BOOLEAN, present : BOOLEAN]]
      BY <1>2, <3>1 DEF Unlink, TypeOK
    <3>3. /\ job' \in [Jobs -> {"idle", "sync", "scan", "unlink"}]
          /\ found' \in [Jobs -> SUBSET Pages]
      BY <1>2 DEF Unlink, TypeOK
    <3>4. QED
      BY <2>1, <2>2, <3>2, <3>3 DEF TypeOK, tables
  <2>4. QED
    BY <2>2, <2>3
<1> QED
  BY <1>1, <1>2

\* Expiry, requests that write the table, and payments made in the network.
LEMMA OutsideInv ==
    ASSUME IInv,
           (\E p \in Pages : Expire(p)) \/ UpdateAnchor \/ PaymentsAreMade
    PROVE  IInv'
<1> USE DEF IInv
<1>1. /\ MaxVersion \in Nat /\ MaxNetwork \in Nat
      /\ version \in Nat /\ synced \in Nat /\ network \in Nat
      /\ \A p \in Pages : floor[p] \in Nat
  BY VersionFacts
<1>2. ASSUME NEW p \in Pages, Expire(p) PROVE IInv'
  <2>1. /\ cache' = [cache EXCEPT ![p] = Absent] /\ UNCHANGED <<tables, reading, scanning>>
    BY <1>2 DEF Expire
  <2>2. Absent \in [version : Versions, late : BOOLEAN, present : BOOLEAN]
    BY VersionFacts DEF Absent
  <2>3. TypeOK'
    BY <2>1, <2>2 DEF TypeOK, tables, reading, scanning
  <2>4. InvalidatedIsGone'
    <3> SUFFICES ASSUME NEW q \in Pages, cache'[q].present, ~cache'[q].late
                 PROVE  cache'[q].version >= floor[q]
      BY <2>1 DEF InvalidatedIsGone, scanning
    <3>1. q # p /\ cache'[q] = cache[q]
      BY <2>1, EntryFacts DEF TypeOK
    <3>2. QED
      BY <3>1 DEF InvalidatedIsGone
  <2>5. WritesAreCounted' /\ ScansAreInThePast' /\ AnswersAreNotOvertaken'
    BY <2>1 DEF WritesAreCounted, ScansAreInThePast, AnswersAreNotOvertaken, tables,
       reading, scanning
  <2>6. QED
    BY <2>3, <2>4, <2>5
<1>3. CASE UpdateAnchor \/ PaymentsAreMade
  <2>1. UNCHANGED <<cache, reading, scanning>>
    BY <1>3 DEF UpdateAnchor, PaymentsAreMade
  <2>2. /\ version' \in Nat /\ version' >= version
        /\ synced' = synced /\ network' \in 0 .. MaxNetwork
        /\ WritesAreCounted'
    BY <1>1, <1>3 DEF UpdateAnchor, PaymentsAreMade, WritesAreCounted, TypeOK
  <2>3. version' \in Versions
    BY <1>1, <2>2 DEF WritesAreCounted, TypeOK, Versions
  <2>4. TypeOK'
    BY <2>1, <2>2, <2>3 DEF TypeOK, reading, scanning
  <2>5. ScansAreInThePast' /\ AnswersAreNotOvertaken' /\ InvalidatedIsGone'
    BY <1>1, <2>1, <2>2
    DEF ScansAreInThePast, AnswersAreNotOvertaken, InvalidatedIsGone, reading, scanning
  <2>6. QED
    BY <2>2, <2>4, <2>5
<1> QED
  BY <1>2, <1>3

LEMMA InvStep == IInv /\ [Next]_vars => IInv'
<1> SUFFICES ASSUME IInv, [Next]_vars PROVE IInv'
  OBVIOUS
<1>1. CASE UNCHANGED vars
  BY <1>1
  DEF vars, tables, reading, scanning, IInv, TypeOK, WritesAreCounted, ScansAreInThePast,
      AnswersAreNotOvertaken, InvalidatedIsGone
<1>2. ASSUME NEW j \in Jobs, JobStep(j) PROVE IInv'
  BY <1>2, JobMoves, ScanInv DEF JobStep
<1>3. ASSUME NEW r \in Readers, (\E p \in Pages : Miss(r, p)) \/ ReaderStep(r) \/ Hangup(r)
      PROVE  IInv'
  BY <1>3, ReaderInv
<1> QED
  BY <1>1, <1>2, <1>3, OutsideInv DEF Next

LEMMA InvCorrect == Spec => []IInv
<1>1. Init => IInv
  BY InitInv
<1>2. IInv /\ [Next]_vars => IInv'
  BY InvStep
<1> QED
  BY <1>1, <1>2, PTL DEF Spec

-----------------------------------------------------------------------------
\* The cache, the table, the requests and the jobs are well typed in every
\* reachable state.
THEOREM CacheTypeCorrect == Spec => []TypeOK
<1>1. IInv => TypeOK
  BY DEF IInv
<1>2. Spec => []IInv
  BY InvCorrect
<1> QED
  BY <1>1, <1>2, PTL

\* What a scan has passed does not come back, but for the answers of requests it
\* has overtaken: with any number of requests, pages and jobs whose scans
\* overlap.
THEOREM InvalidatedCorrect == Spec => []InvalidatedIsGone
<1>1. IInv => InvalidatedIsGone
  BY DEF IInv
<1>2. Spec => []IInv
  BY InvCorrect
<1> QED
  BY <1>1, <1>2, PTL

-----------------------------------------------------------------------------
(* Rewards *)

\* A request that has recorded its points and not added them to the total owes
\* each of them, one pair for a point.
Owed == {x \in Requests \X Nat : progress[x[1]] = "update" /\ x[2] \in 1 .. points[x[1]]}

NoPointTwice == total + Cardinality(Owed) <= recorded

RewardsInv == VR!TypeOK /\ OverrunIsBounded /\ NoPointTwice

\* The instance counts as this module does.
LEMMA SameCounting ==
    ASSUME NEW S
    PROVE  /\ VR!IsFiniteSet(S) <=> IsFiniteSet(S)
           /\ VR!Cardinality(S) = Cardinality(S)
BY DEF VR!IsFiniteSet, IsFiniteSet, VR!Cardinality, Cardinality

LEMMA OverrunMeans ==
    /\ OverrunIsBounded <=>
           today + Cardinality(VR!Admitted) <= MaxPerDay - 1 + Cardinality(Requests)
    /\ OverrunIsBounded' <=>
           today' + Cardinality(VR!Admitted') <= MaxPerDay - 1 + Cardinality(Requests)
BY SameCounting DEF OverrunIsBounded, VR!OverrunIsBounded

\* The points of one request are as many pairs.
PairsOf(r, n) == {r} \X (1 .. n)

LEMMA PairsFacts ==
    ASSUME NEW r, NEW n \in Nat
    PROVE  IsFiniteSet(PairsOf(r, n)) /\ Cardinality(PairsOf(r, n)) = n
<1>1. IsFiniteSet({r}) /\ Cardinality({r}) = 1
  BY FS_Singleton
<1>2. IsFiniteSet(1 .. n) /\ Cardinality(1 .. n) = n
  BY FS_Interval
<1>3. /\ IsFiniteSet({r} \X (1 .. n))
      /\ Cardinality({r} \X (1 .. n)) = Cardinality({r}) * Cardinality(1 .. n)
  BY <1>1, <1>2, FS_Product
<1> QED
  BY <1>1, <1>2, <1>3 DEF PairsOf

\* The constants, and the types of the numbers.
LEMMA RewardsFacts ==
    ASSUME VR!TypeOK
    PROVE  /\ MaxPerDay \in Nat /\ MaxPerDay >= 1 /\ IsFiniteSet(Requests)
           /\ today \in Nat /\ recorded \in Nat /\ total \in Nat
           /\ \A r \in Requests : points[r] \in Nat
           /\ \A r \in Requests : points[r] <= Base + Bonus + Penalty
           /\ Base + Bonus + Penalty \in Nat
BY ServicesConstants, SameCounting
DEF ServicesConstants, VR!VerificationRewardsConstants, VR!TypeOK, VR!Rewards

\* There are finitely many of them, before and after a step.
LEMMA OwedIsFinite ==
    ASSUME VR!TypeOK
    PROVE  IsFiniteSet(Owed) /\ Cardinality(Owed) \in Nat
<1> DEFINE N == Base + Bonus + Penalty
<1>1. IsFiniteSet(Requests) /\ N \in Nat /\ \A r \in Requests : points[r] \in Nat /\ points[r] <= N
  BY RewardsFacts
<1>2. IsFiniteSet(1 .. N)
  BY <1>1, FS_Interval
<1>3. IsFiniteSet(Requests \X (1 .. N))
  BY <1>1, <1>2, FS_Product
<1>4. Owed \subseteq Requests \X (1 .. N)
  BY <1>1 DEF Owed
<1> QED
  BY <1>3, <1>4, FS_Subset, FS_CardinalityType

\* A request that starts to owe, and one that owes no more.
LEMMA OweMore ==
    ASSUME VR!TypeOK, NEW r \in Requests, progress[r] # "update",
           progress' = [progress EXCEPT ![r] = "update"], points' = points
    PROVE  Cardinality(Owed') = Cardinality(Owed) + points[r]
<1>1. progress \in [Requests -> {"idle", "fetch", "record", "update", "read"}]
  BY DEF VR!TypeOK
<1>2. points[r] \in Nat
  BY RewardsFacts
<1>3. Owed' = Owed \cup PairsOf(r, points[r])
  BY <1>1, <1>2 DEF Owed, PairsOf
<1>4. Owed \cap PairsOf(r, points[r]) = {}
  BY DEF Owed, PairsOf
<1>5. Cardinality(Owed \cap PairsOf(r, points[r])) = 0
  BY <1>4, FS_EmptySet
<1>6. /\ IsFiniteSet(PairsOf(r, points[r]))
      /\ Cardinality(PairsOf(r, points[r])) = points[r]
  BY <1>2, PairsFacts
<1>7. IsFiniteSet(Owed) /\ Cardinality(Owed) \in Nat
  BY OwedIsFinite
<1>8. Cardinality(Owed \cup PairsOf(r, points[r]))
        = Cardinality(Owed) + Cardinality(PairsOf(r, points[r])) - Cardinality(Owed \cap PairsOf(r, points[r]))
  BY <1>6, <1>7, FS_Union
<1> QED
  BY <1>2, <1>3, <1>5, <1>6, <1>7, <1>8

LEMMA OweNoMore ==
    ASSUME VR!TypeOK, NEW r \in Requests, progress[r] = "update",
           Owed' = Owed \ PairsOf(r, points[r])
    PROVE  Cardinality(Owed') = Cardinality(Owed) - points[r]
<1>1. points[r] \in Nat
  BY RewardsFacts
<1>2. PairsOf(r, points[r]) \subseteq Owed
  BY <1>1 DEF Owed, PairsOf
<1>3. Owed \cap PairsOf(r, points[r]) = PairsOf(r, points[r])
  BY <1>2
<1>4. Cardinality(PairsOf(r, points[r])) = points[r]
  BY <1>1, PairsFacts
<1>5. Cardinality(Owed \ PairsOf(r, points[r]))
        = Cardinality(Owed) - Cardinality(Owed \cap PairsOf(r, points[r]))
  BY OwedIsFinite, FS_Difference
<1> QED
  BY <1>3, <1>4, <1>5

\* The admitted requests can be counted, before and after a step, and there are
\* no more of them than requests.
LEMMA AdmittedIsFinite ==
    ASSUME IsFiniteSet(Requests)
    PROVE  /\ IsFiniteSet(VR!Admitted) /\ IsFiniteSet(VR!Admitted')
           /\ Cardinality(VR!Admitted) \in Nat /\ Cardinality(VR!Admitted') \in Nat
           /\ Cardinality(Requests) \in Nat
           /\ Cardinality(VR!Admitted) <= Cardinality(Requests)
           /\ Cardinality(VR!Admitted') <= Cardinality(Requests)
<1>1. VR!Admitted \subseteq Requests /\ VR!Admitted' \subseteq Requests
  BY DEF VR!Admitted
<1> QED
  BY <1>1, FS_Subset, FS_CardinalityType

\* A step that admits nobody, and records and owes nothing more, keeps the bounds.
LEMMA QuietStep ==
    ASSUME RewardsInv, VR!TypeOK', today' = today, recorded' = recorded, total' = total,
           VR!Admitted' \subseteq VR!Admitted, Owed' \subseteq Owed
    PROVE  OverrunIsBounded' /\ NoPointTwice'
<1> USE RewardsFacts, AdmittedIsFinite DEF RewardsInv
<1>1. Cardinality(VR!Admitted') <= Cardinality(VR!Admitted)
  BY FS_Subset
<1>2. Cardinality(Owed') <= Cardinality(Owed) /\ Cardinality(Owed') \in Nat
  BY OwedIsFinite, FS_Subset, FS_CardinalityType
<1>3. Cardinality(Owed) \in Nat
  BY OwedIsFinite
<1> QED
  BY <1>1, <1>2, <1>3, OverrunMeans DEF NoPointTwice

LEMMA RewardsInit == VR!Init => RewardsInv
<1> SUFFICES ASSUME VR!Init PROVE RewardsInv
  OBVIOUS
<1>1. VR!TypeOK
  BY DEF VR!Init, VR!TypeOK
<1>2. VR!Admitted = {} /\ Owed = {}
  BY DEF VR!Init, VR!Admitted, Owed
<1>3. Cardinality(VR!Admitted) = 0 /\ Cardinality(Owed) = 0
  BY <1>2, FS_EmptySet
<1> QED
  BY <1>1, <1>3, RewardsFacts, AdmittedIsFinite, OverrunMeans
     DEF VR!Init, RewardsInv, NoPointTwice

LEMMA RewardsTypeStep == VR!TypeOK /\ [VR!Next]_rewardVars => VR!TypeOK'
<1> SUFFICES ASSUME VR!TypeOK, [VR!Next]_rewardVars PROVE VR!TypeOK'
  OBVIOUS
<1> USE RewardsFacts DEF VR!TypeOK
<1>1. CASE VR!NewDay
  BY <1>1 DEF VR!NewDay
<1>2. ASSUME NEW r \in Requests, VR!CheckDailyLimit(r) PROVE VR!TypeOK'
  BY <1>2 DEF VR!CheckDailyLimit, VR!Goto, VR!tables
<1>3. ASSUME NEW r \in Requests, VR!FetchSnapshot(r) PROVE VR!TypeOK'
  BY <1>3 DEF VR!FetchSnapshot, VR!Goto, VR!tables, VR!Rewards
<1>4. ASSUME NEW r \in Requests, VR!RecordVerification(r) \/ VR!UpdateUserRewards(r)
      PROVE  VR!TypeOK'
  <2>1. points[r] \in Nat
    BY RewardsFacts
  <2> QED
    BY <1>4, <2>1 DEF VR!RecordVerification, VR!UpdateUserRewards, VR!Goto
<1>5. ASSUME NEW r \in Requests, VR!ReadTotal(r) \/ VR!Abandon(r) PROVE VR!TypeOK'
  BY <1>5 DEF VR!ReadTotal, VR!Abandon, VR!Return, VR!Goto, VR!tables
<1>6. CASE UNCHANGED rewardVars
  BY <1>6 DEF rewardVars
<1> QED
  BY <1>1, <1>2, <1>3, <1>4, <1>5, <1>6 DEF VR!Next, VR!Step

LEMMA RewardsStep == RewardsInv /\ [VR!Next]_rewardVars => RewardsInv'
<1> SUFFICES ASSUME RewardsInv, [VR!Next]_rewardVars PROVE OverrunIsBounded' /\ NoPointTwice'
  BY RewardsTypeStep DEF RewardsInv
<1> USE DEF RewardsInv
<1>t. VR!TypeOK' /\ progress \in [Requests -> {"idle", "fetch", "record", "update", "read"}]
  BY RewardsTypeStep DEF VR!TypeOK
<1>c. /\ Cardinality(Owed) \in Nat
      /\ Cardinality(VR!Admitted) \in Nat /\ Cardinality(VR!Admitted') \in Nat
      /\ Cardinality(Requests) \in Nat
      /\ Cardinality(VR!Admitted) <= Cardinality(Requests)
      /\ Cardinality(VR!Admitted') <= Cardinality(Requests)
  BY OwedIsFinite, AdmittedIsFinite, RewardsFacts
<1>1. CASE VR!NewDay
  <2>1. Owed' = Owed
    BY <1>1 DEF VR!NewDay, Owed
  <2> QED
    BY <1>1, <1>c, <2>1, RewardsFacts, OverrunMeans
       DEF VR!NewDay, NoPointTwice
<1>2. ASSUME NEW r \in Requests, VR!CheckDailyLimit(r)
      PROVE  OverrunIsBounded' /\ NoPointTwice'
  <2>1. today < MaxPerDay /\ today' = today
    BY <1>2, RewardsFacts DEF VR!CheckDailyLimit, VR!LimitReached, VR!tables
  <2>2. Owed' = Owed /\ total' = total /\ recorded' = recorded
    BY <1>2, <1>t DEF VR!CheckDailyLimit, VR!Goto, VR!tables, Owed
  <2> QED
    BY <1>c, <2>1, <2>2, RewardsFacts, OverrunMeans DEF NoPointTwice
<1>3. ASSUME NEW r \in Requests, VR!FetchSnapshot(r)
      PROVE  OverrunIsBounded' /\ NoPointTwice'
  <2>1. VR!Admitted' \subseteq VR!Admitted
    BY <1>3, <1>t DEF VR!FetchSnapshot, VR!Goto, VR!Admitted
  <2>2. /\ progress' = [progress EXCEPT ![r] = "record"] /\ progress[r] = "fetch"
        /\ \A x \in Requests : x # r => points'[x] = points[x]
    BY <1>3, <1>t DEF VR!FetchSnapshot, VR!Goto, VR!TypeOK
  <2>3. Owed' \subseteq Owed
    BY <1>t, <2>2 DEF Owed
  <2> QED
    BY <1>3, <1>t, <2>1, <2>3, QuietStep DEF VR!FetchSnapshot, VR!tables
<1>4. ASSUME NEW r \in Requests, VR!RecordVerification(r)
      PROVE  OverrunIsBounded' /\ NoPointTwice'
  <2>1. r \in VR!Admitted /\ VR!Admitted' = VR!Admitted \ {r}
    BY <1>4, <1>t DEF VR!RecordVerification, VR!Goto, VR!Admitted
  <2>2. Cardinality(VR!Admitted') = Cardinality(VR!Admitted) - 1
    BY <2>1, AdmittedIsFinite, RewardsFacts, FS_RemoveElement
  <2>3. Cardinality(Owed') = Cardinality(Owed) + points[r]
    BY <1>4, OweMore DEF VR!RecordVerification, VR!Goto
  <2> QED
    BY <1>4, <1>c, <2>2, <2>3, RewardsFacts, OverrunMeans
       DEF VR!RecordVerification, NoPointTwice
<1>5. ASSUME NEW r \in Requests, VR!UpdateUserRewards(r)
      PROVE  OverrunIsBounded' /\ NoPointTwice'
  <2>1. VR!Admitted' = VR!Admitted
    BY <1>5, <1>t DEF VR!UpdateUserRewards, VR!Goto, VR!Admitted
  <2>2. Owed' = Owed \ PairsOf(r, points[r])
    BY <1>5, <1>t DEF VR!UpdateUserRewards, VR!Goto, Owed, PairsOf
  <2>3. Cardinality(Owed') = Cardinality(Owed) - points[r]
    BY <1>5, <2>2, OweNoMore DEF VR!UpdateUserRewards
  <2> QED
    BY <1>5, <1>c, <2>1, <2>3, RewardsFacts, OverrunMeans
       DEF VR!UpdateUserRewards, NoPointTwice
<1>6. ASSUME NEW r \in Requests, VR!ReadTotal(r) \/ VR!Abandon(r)
      PROVE  OverrunIsBounded' /\ NoPointTwice'
  <2>1. VR!Admitted' \subseteq VR!Admitted
    BY <1>6, <1>t DEF VR!ReadTotal, VR!Abandon, VR!Return, VR!Goto, VR!Admitted
  <2>2. /\ progress' = [progress EXCEPT ![r] = "idle"]
        /\ \A x \in Requests : x # r => points'[x] = points[x]
    BY <1>6, <1>t DEF VR!ReadTotal, VR!Abandon, VR!Return, VR!Goto, VR!TypeOK
  <2>3. Owed' \subseteq Owed
    BY <1>t, <2>2 DEF Owed
  <2> QED
    BY <1>6, <1>t, <2>1, <2>3, QuietStep DEF VR!ReadTotal, VR!Abandon, VR!tables
<1>7. CASE UNCHANGED rewardVars
  <2>1. VR!Admitted' = VR!Admitted /\ Owed' = Owed
    BY <1>7 DEF rewardVars, VR!Admitted, Owed
  <2> QED
    BY <1>7, <1>t, <2>1, QuietStep DEF rewardVars
<1> QED
  BY <1>1, <1>2, <1>3, <1>4, <1>5, <1>6, <1>7 DEF VR!Next, VR!Step

LEMMA RewardsCorrect == VR!Spec => []RewardsInv
<1>1. RewardsInv /\ [VR!Next]_VR!vars => RewardsInv'
  BY RewardsStep DEF VR!vars, VR!tables, rewardVars
<1> QED
  BY <1>1, RewardsInit, PTL DEF VR!Spec

\* The tables and the requests are well typed whatever verify_and_reward does.
THEOREM RewardsTypeCorrect == VR!Spec => []VR!TypeOK
<1>1. RewardsInv => VR!TypeOK
  BY DEF RewardsInv
<1> QED
  BY <1>1, RewardsCorrect, PTL

\* The daily limit is overrun by less than the requests that run at once, for any
\* number of them, any limit and any rewards.
THEOREM OverrunCorrect == VR!Spec => []OverrunIsBounded
<1>1. RewardsInv => OverrunIsBounded
  BY DEF RewardsInv
<1> QED
  BY <1>1, RewardsCorrect, PTL

\* No interleaving of the requests, and no failure between their statements, puts
\* a point into the total that is not in a record.
THEOREM TotalCorrect == VR!Spec => []TotalIsRecorded
<1>1. RewardsInv => TotalIsRecorded
  BY RewardsFacts, OwedIsFinite DEF RewardsInv, NoPointTwice, TotalIsRecorded, VR!TotalIsRecorded
<1> QED
  BY <1>1, RewardsCorrect, PTL

-----------------------------------------------------------------------------
(* Throttled requests *)

\* The permits are handed out one by one, and a caller between two attempts has
\* one left.
QueueIsBounded == Cardinality(RL!Holders) <= QueueSize

\* The bucket always has room for a token, so that waiting for one makes sense.
BucketHasRoom == capacity >= 1 /\ tokens <= capacity

AttemptsAreLeft ==
    \A c \in Callers :
        /\ caller[c] = "idle" => attempt[c] = 0
        /\ caller[c] = "backoff" => attempt[c] < MaxAttempts

LimiterInv == RL!TypeOK /\ QueueIsBounded /\ BucketHasRoom /\ AttemptsAreLeft

\* The constants, and the types of the numbers.
LEMMA LimiterFacts ==
    ASSUME RL!TypeOK
    PROVE  /\ QueueSize \in Nat \ {0} /\ MaxAttempts \in Nat \ {0} /\ MaxRetryAfter \in Nat
           /\ Burst \in Nat /\ Limits \subseteq Nat /\ IsFiniteSet(Callers)
           /\ FailureThreshold \in Nat /\ SuccessThreshold \in Nat /\ Timeout \in Nat
           /\ capacity \in Nat /\ tokens \in Nat /\ tokens <= capacity
<1>1. IsFiniteSet(Callers)
  BY ServicesConstants
     DEF ServicesConstants, RL!RateLimiterConstants, RL!IsFiniteSet, IsFiniteSet
<1> QED
  BY <1>1, ServicesConstants DEF ServicesConstants, RL!RateLimiterConstants, RL!TypeOK

LEMMA QueueIsFullMeans == RL!QueueIsFull <=> Cardinality(RL!Holders) >= QueueSize
BY DEF RL!QueueIsFull, RL!Cardinality, Cardinality

LEMMA HoldersAreFinite ==
    ASSUME IsFiniteSet(Callers)
    PROVE  /\ IsFiniteSet(RL!Holders) /\ IsFiniteSet(RL!Holders')
           /\ Cardinality(RL!Holders) \in Nat /\ Cardinality(RL!Holders') \in Nat
<1>1. RL!Holders \subseteq Callers /\ RL!Holders' \subseteq Callers
  BY DEF RL!Holders
<1> QED
  BY <1>1, FS_Subset, FS_CardinalityType

\* A step that gives nobody a permit keeps the queue's bound.
LEMMA NoNewHolder ==
    ASSUME LimiterInv, RL!Holders' \subseteq RL!Holders
    PROVE  QueueIsBounded'
<1>1. Cardinality(RL!Holders') <= Cardinality(RL!Holders)
  BY LimiterFacts, HoldersAreFinite, FS_Subset DEF LimiterInv
<1> QED
  BY <1>1, LimiterFacts, HoldersAreFinite DEF LimiterInv, QueueIsBounded

\* The breaker's states, whatever its thresholds, and the moves between them.
LEMMA BreakerMoves ==
    ASSUME RL!TypeOK
    PROVE  /\ RL!Breaker!Closed(0) \in RL!Breaker!CircuitState
           /\ RL!Breaker!CircuitAfterCheck \in RL!Breaker!CircuitState
           /\ RL!Breaker!CircuitAfterSuccess \in RL!Breaker!CircuitState
           /\ RL!Breaker!CircuitAfterFailure \in RL!Breaker!CircuitState
           /\ circuit.kind = "Open" /\ circuit.left > 0
                => RL!Breaker!Open(circuit.left - 1) \in RL!Breaker!CircuitState
<1>0. /\ circuit \in RL!Breaker!CircuitState
      /\ FailureThreshold \in Nat /\ SuccessThreshold \in Nat /\ Timeout \in Nat
  BY LimiterFacts DEF RL!TypeOK
<1>1. /\ \A n \in Nat : n < RL!Breaker!AtLeastOne(FailureThreshold)
                          => RL!Breaker!Closed(n) \in RL!Breaker!CircuitState
      /\ \A t \in 0 .. Timeout : RL!Breaker!Open(t) \in RL!Breaker!CircuitState
      /\ \A n \in Nat : n < RL!Breaker!AtLeastOne(SuccessThreshold)
                          => RL!Breaker!HalfOpen(n) \in RL!Breaker!CircuitState
      /\ RL!Breaker!Closed(0) \in RL!Breaker!CircuitState
      /\ RL!Breaker!HalfOpen(0) \in RL!Breaker!CircuitState
      /\ RL!Breaker!Open(Timeout) \in RL!Breaker!CircuitState
  BY <1>0 DEF RL!Breaker!CircuitState, RL!Breaker!AtLeastOne
<1>2. CASE \E n \in Nat : /\ circuit = RL!Breaker!Closed(n)
                          /\ n < RL!Breaker!AtLeastOne(FailureThreshold)
  BY <1>0, <1>1, <1>2
     DEF RL!Breaker!Closed, RL!Breaker!CircuitAfterCheck, RL!Breaker!TimedOut,
         RL!Breaker!CircuitAfterSuccess, RL!Breaker!CircuitAfterFailure, RL!Breaker!AtLeastOne
<1>3. CASE \E t \in 0 .. Timeout : circuit = RL!Breaker!Open(t)
  BY <1>0, <1>1, <1>3
     DEF RL!Breaker!Open, RL!Breaker!CircuitAfterCheck, RL!Breaker!TimedOut,
         RL!Breaker!CircuitAfterSuccess, RL!Breaker!CircuitAfterFailure
<1>4. CASE \E n \in Nat : /\ circuit = RL!Breaker!HalfOpen(n)
                          /\ n < RL!Breaker!AtLeastOne(SuccessThreshold)
  BY <1>0, <1>1, <1>4
     DEF RL!Breaker!HalfOpen, RL!Breaker!CircuitAfterCheck, RL!Breaker!TimedOut,
         RL!Breaker!CircuitAfterSuccess, RL!Breaker!CircuitAfterFailure, RL!Breaker!AtLeastOne
<1>5. \/ \E n \in Nat : /\ circuit = RL!Breaker!Closed(n)
                        /\ n < RL!Breaker!AtLeastOne(FailureThreshold)
      \/ \E t \in 0 .. Timeout : circuit = RL!Breaker!Open(t)
      \/ \E n \in Nat : /\ circuit = RL!Breaker!HalfOpen(n)
                        /\ n < RL!Breaker!AtLeastOne(SuccessThreshold)
  BY <1>0 DEF RL!Breaker!CircuitState, RL!Breaker!AtLeastOne
<1> QED
  BY <1>2, <1>3, <1>4, <1>5

\* A caller that returns is idle, with a fresh counter.
LEMMA ReturnFacts ==
    ASSUME LimiterInv, NEW c \in Callers, RL!Return(c)
    PROVE  /\ caller' \in [Callers -> RL!Stages] /\ attempt' \in [Callers -> 0 .. MaxAttempts]
           /\ result' \in [Callers -> RL!Results] /\ left' \in [Callers -> 0 .. MaxRetryAfter]
           /\ RL!Holders' \subseteq RL!Holders
           /\ AttemptsAreLeft'
<1>1. MaxAttempts \in Nat /\ MaxRetryAfter \in Nat
  BY LimiterFacts DEF LimiterInv
<1>2. caller' \in [Callers -> RL!Stages] /\ RL!Holders' \subseteq RL!Holders
  BY DEF RL!Return, RL!Goto, LimiterInv, RL!TypeOK, RL!Stages, RL!Holders
<1>3. attempt' \in [Callers -> 0 .. MaxAttempts] /\ left' \in [Callers -> 0 .. MaxRetryAfter]
  BY <1>1 DEF RL!Return, LimiterInv, RL!TypeOK
<1>4. result' \in [Callers -> RL!Results]
  BY DEF RL!Return, LimiterInv, RL!TypeOK, RL!Results
<1>5. AttemptsAreLeft'
  BY DEF RL!Return, RL!Goto, LimiterInv, RL!TypeOK, AttemptsAreLeft
<1> QED
  BY <1>2, <1>3, <1>4, <1>5

\* So is one whose attempt has an outcome, but for its counter.
LEMMA ResolveFacts ==
    ASSUME LimiterInv, NEW c \in Callers, NEW r \in RL!Results, RL!Resolve(c, r)
    PROVE  /\ caller' \in [Callers -> RL!Stages] /\ result' \in [Callers -> RL!Results]
           /\ \A d \in Callers : caller'[d] = IF d = c THEN "done" ELSE caller[d]
           /\ RL!Holders' \subseteq RL!Holders
BY DEF RL!Resolve, RL!Goto, LimiterInv, RL!TypeOK, RL!Stages, RL!Holders

LEMMA GotoFacts ==
    ASSUME LimiterInv, NEW c \in Callers, NEW s \in RL!Stages, RL!Goto(c, s)
    PROVE  /\ caller' \in [Callers -> RL!Stages]
           /\ \A d \in Callers : caller'[d] = IF d = c THEN s ELSE caller[d]
           /\ s \notin {"wait", "sent"} => RL!Holders' \subseteq RL!Holders
BY DEF RL!Goto, LimiterInv, RL!TypeOK, RL!Holders

LEMMA LimiterInit == RL!Init => LimiterInv
<1> SUFFICES ASSUME RL!Init PROVE LimiterInv
  OBVIOUS
<1>1. /\ Burst \in Nat /\ MaxAttempts \in Nat /\ MaxRetryAfter \in Nat /\ QueueSize \in Nat
      /\ FailureThreshold \in Nat
  BY ServicesConstants DEF ServicesConstants, RL!RateLimiterConstants
<1>2. /\ capacity \in {1, Burst} \cup Limits /\ tokens \in 0 .. capacity
      /\ BucketHasRoom
  BY <1>1 DEF RL!Init, RL!InitialCapacity, RL!Larger, BucketHasRoom
<1>3. circuit \in RL!Breaker!CircuitState
  BY <1>1 DEF RL!Init, RL!Breaker!CircuitState, RL!Breaker!AtLeastOne
<1>4. RL!TypeOK
  BY <1>1, <1>2, <1>3 DEF RL!Init, RL!TypeOK, RL!Stages, RL!Results
<1>5. RL!Holders = {}
  BY DEF RL!Init, RL!Holders
<1>6. Cardinality(RL!Holders) = 0
  BY <1>5, FS_EmptySet
<1> QED
  BY <1>1, <1>2, <1>4, <1>6 DEF RL!Init, LimiterInv, QueueIsBounded, AttemptsAreLeft

\* The next attempt: refused, turned away by the queue, or given a permit.
LEMMA AskInv ==
    ASSUME LimiterInv, NEW c \in Callers, RL!Ask(c)
    PROVE  LimiterInv'
<1> USE DEF LimiterInv
<1>1. circuit' \in RL!Breaker!CircuitState /\ UNCHANGED <<tokens, capacity>>
  BY BreakerMoves DEF RL!Ask, RL!bucket
<1>2. BucketHasRoom'
  BY <1>1 DEF BucketHasRoom
<1>3. MaxAttempts \in Nat /\ MaxAttempts >= 1
  BY LimiterFacts
<1>4. CASE RL!Return(c)
  BY <1>1, <1>2, <1>4, ReturnFacts, NoNewHolder DEF RL!TypeOK
<1>5. CASE ~RL!Return(c)
  <2>1. /\ caller[c] \in {"idle", "backoff"} /\ left' = left
        /\ attempt' = [attempt EXCEPT ![c] = @ + 1]
    BY <1>5 DEF RL!Ask
  <2>2. attempt[c] \in Nat /\ attempt[c] < MaxAttempts
    BY <1>3, <2>1 DEF AttemptsAreLeft, RL!TypeOK
  <2>3. attempt' \in [Callers -> 0 .. MaxAttempts]
    BY <1>3, <2>1, <2>2 DEF RL!TypeOK
  <2>4. \A d \in Callers : d # c => attempt'[d] = attempt[d]
    BY <2>1 DEF RL!TypeOK
  <2>5. CASE RL!Resolve(c, "transient")
    <3>1. "transient" \in RL!Results
      BY DEF RL!Results
    <3>2. AttemptsAreLeft'
      BY <2>4, <2>5, <3>1, ResolveFacts DEF AttemptsAreLeft
    <3>3. QED
      BY <1>1, <1>2, <2>1, <2>3, <2>5, <3>1, <3>2, ResolveFacts, NoNewHolder DEF RL!TypeOK
  <2>6. CASE ~RL!QueueIsFull /\ RL!Goto(c, "wait") /\ UNCHANGED result
    <3>1. "wait" \in RL!Stages
      BY DEF RL!Stages
    <3>2. AttemptsAreLeft'
      BY <2>4, <2>6, <3>1, GotoFacts DEF AttemptsAreLeft
    <3>3. RL!Holders' = RL!Holders \cup {c}
      BY <2>6, <3>1, GotoFacts DEF RL!Holders
    <3>4. c \notin RL!Holders
      BY <2>1 DEF RL!Holders
    <3>5. Cardinality(RL!Holders') = Cardinality(RL!Holders) + 1
      BY <3>3, <3>4, LimiterFacts, HoldersAreFinite, FS_AddElement
    <3>6. Cardinality(RL!Holders) < QueueSize
      BY <2>6, QueueIsFullMeans, LimiterFacts, HoldersAreFinite
    <3>7. QueueIsBounded'
      BY <3>5, <3>6, LimiterFacts, HoldersAreFinite DEF QueueIsBounded
    <3>8. QED
      BY <1>1, <1>2, <2>1, <2>3, <2>6, <3>1, <3>2, <3>7, GotoFacts DEF RL!TypeOK
  <2>7. QED
    BY <1>5, <2>5, <2>6 DEF RL!Ask
<1> QED
  BY <1>4, <1>5

\* A token taken, an answer or none, the headers of an answer.
LEMMA SendInv ==
    ASSUME LimiterInv, NEW c \in Callers, RL!TakeToken(c) \/ RL!Respond(c) \/ RL!Observe(c)
    PROVE  LimiterInv'
<1> USE DEF LimiterInv
<1>1. /\ "sent" \in RL!Stages /\ "answered" \in RL!Stages /\ "limited" \in RL!Stages
      /\ {"ok", "transient", "server", "other"} \subseteq RL!Results
  BY DEF RL!Stages, RL!Results
<1>2. UNCHANGED <<circuit, attempt, left>>
  BY DEF RL!TakeToken, RL!Respond, RL!Observe
<1>3. CASE RL!TakeToken(c)
  <2>1. /\ caller[c] = "wait" /\ tokens >= 1 /\ RL!Goto(c, "sent") /\ result' = result
        /\ tokens' = tokens - 1 /\ capacity' = capacity
    BY <1>3 DEF RL!TakeToken
  <2>2. tokens' \in 0 .. capacity /\ BucketHasRoom'
    BY <2>1, LimiterFacts DEF BucketHasRoom
  <2>3. AttemptsAreLeft'
    BY <1>1, <1>2, <2>1, GotoFacts DEF AttemptsAreLeft
  <2>4. RL!Holders' = RL!Holders
    BY <1>1, <2>1, GotoFacts DEF RL!Holders
  <2>5. QED
    BY <1>1, <1>2, <2>1, <2>2, <2>3, <2>4, GotoFacts, NoNewHolder DEF RL!TypeOK
<1>4. CASE RL!Respond(c) \/ RL!Observe(c)
  <2>1. \/ \E r \in {"ok", "transient", "server", "other"} : RL!Resolve(c, r)
        \/ \E s \in {"answered", "limited"} : RL!Goto(c, s) /\ result' = result
    BY <1>4 DEF RL!Respond, RL!Observe
  <2>2. /\ caller' \in [Callers -> RL!Stages] /\ result' \in [Callers -> RL!Results]
        /\ RL!Holders' \subseteq RL!Holders /\ AttemptsAreLeft'
    <3>1. CASE \E r \in {"ok", "transient", "server", "other"} : RL!Resolve(c, r)
      BY <1>1, <1>2, <3>1, ResolveFacts DEF AttemptsAreLeft
    <3>2. CASE \E s \in {"answered", "limited"} : RL!Goto(c, s) /\ result' = result
      BY <1>1, <1>2, <3>2, GotoFacts DEF AttemptsAreLeft, RL!TypeOK
    <3>3. QED
      BY <2>1, <3>1, <3>2
  <2>3. /\ capacity' \in {1, Burst} \cup Limits /\ tokens' \in 0 .. capacity'
        /\ BucketHasRoom'
    <3>1. CASE RL!Respond(c)
      BY <3>1 DEF RL!Respond, RL!bucket, RL!TypeOK, BucketHasRoom
    <3>2. CASE RL!Observe(c)
      <4>1. PICK limit \in Limits \cup {None}, remaining \in Limits \cup {None} :
              RL!ObserveHeaders(limit, remaining)
        BY <3>2 DEF RL!Observe
      <4>2. /\ capacity' \in Nat /\ capacity' >= capacity
            /\ capacity' \in {1, Burst} \cup Limits
        BY <4>1, LimiterFacts DEF RL!ObserveHeaders, RL!Larger, RL!TypeOK
      <4>3. tokens' \in 0 .. capacity'
        BY <4>1, <4>2, LimiterFacts DEF RL!ObserveHeaders, RL!Smaller
      <4>4. QED
        BY <4>2, <4>3, LimiterFacts DEF BucketHasRoom
    <3>3. QED
      BY <1>4, <3>1, <3>2
  <2>4. QED
    BY <1>2, <2>2, <2>3, NoNewHolder DEF RL!TypeOK
<1> QED
  BY <1>3, <1>4

\* A rate limited caller, the end of its sleep, the end of a call.
LEMMA EndInv ==
    ASSUME LimiterInv, NEW c \in Callers,
           RL!OnRateLimited(c) \/ RL!Cooled(c) \/ RL!Finish(c) \/ RL!Drop(c)
    PROVE  LimiterInv'
<1> USE DEF LimiterInv
<1>1. /\ "cooling" \in RL!Stages /\ "backoff" \in RL!Stages
      /\ "transient" \in RL!Results /\ "none" \in RL!Results
  BY DEF RL!Stages, RL!Results
<1>2. CASE RL!OnRateLimited(c)
  <2>1. /\ RL!Goto(c, "cooling") /\ tokens' = 0
        /\ UNCHANGED <<capacity, circuit, attempt, result>>
    BY <1>2 DEF RL!OnRateLimited
  <2>2. left' \in [Callers -> 0 .. MaxRetryAfter]
    BY <1>2 DEF RL!OnRateLimited, RL!TypeOK
  <2>3. tokens' \in 0 .. capacity' /\ BucketHasRoom'
    BY <2>1, LimiterFacts DEF BucketHasRoom
  <2>4. AttemptsAreLeft'
    BY <1>1, <2>1, GotoFacts DEF AttemptsAreLeft
  <2>5. QED
    BY <1>1, <2>1, <2>2, <2>3, <2>4, GotoFacts, NoNewHolder DEF RL!TypeOK
<1>3. CASE RL!Cooled(c)
  <2>1. RL!Resolve(c, "transient") /\ UNCHANGED <<tokens, capacity, circuit, attempt, left>>
    BY <1>3 DEF RL!Cooled, RL!bucket
  <2>2. AttemptsAreLeft' /\ BucketHasRoom'
    BY <1>1, <2>1, ResolveFacts DEF AttemptsAreLeft, BucketHasRoom
  <2>3. QED
    BY <1>1, <2>1, <2>2, ResolveFacts, NoNewHolder DEF RL!TypeOK
<1>4. CASE RL!Finish(c) \/ RL!Drop(c)
  <2>1. UNCHANGED <<tokens, capacity>> /\ circuit' \in RL!Breaker!CircuitState
    <3>1. UNCHANGED <<tokens, capacity>>
      BY <1>4 DEF RL!Finish, RL!Drop, RL!bucket
    <3>2. CASE RL!Finish(c)
      <4>1. circuit' \in {RL!Breaker!CircuitAfterSuccess, circuit,
                          RL!Breaker!CircuitAfterFailure}
        BY <3>2 DEF RL!Finish
      <4>2. QED
        BY <3>1, <4>1, BreakerMoves DEF RL!TypeOK
    <3>3. CASE RL!Drop(c)
      BY <3>1, <3>3 DEF RL!Drop, RL!TypeOK
    <3>4. QED
      BY <1>4, <3>2, <3>3
  <2>2. BucketHasRoom'
    BY <2>1 DEF BucketHasRoom
  <2>3. CASE RL!Return(c)
    BY <2>1, <2>2, <2>3, ReturnFacts, NoNewHolder DEF RL!TypeOK
  <2>4. CASE ~RL!Return(c)
    <3>1. /\ attempt[c] < MaxAttempts /\ RL!Goto(c, "backoff")
          /\ result' = [result EXCEPT ![c] = "none"]
          /\ attempt' = attempt /\ left' = left
      BY <1>4, <2>4 DEF RL!Finish, RL!Drop
    <3>2. result' \in [Callers -> RL!Results]
      BY <1>1, <3>1 DEF RL!TypeOK
    <3>3. AttemptsAreLeft'
      BY <1>1, <3>1, GotoFacts DEF AttemptsAreLeft
    <3>4. QED
      BY <1>1, <2>1, <2>2, <3>1, <3>2, <3>3, GotoFacts, NoNewHolder DEF RL!TypeOK
  <2>5. QED
    BY <2>3, <2>4
<1> QED
  BY <1>2, <1>3, <1>4

\* Time fills the bucket no further than its capacity and takes nobody's permit.
LEMMA TickInv ==
    ASSUME LimiterInv, RL!Tick
    PROVE  LimiterInv'
<1> USE DEF LimiterInv
<1>1. UNCHANGED <<capacity, caller, attempt, result>>
  BY DEF RL!Tick
<1>2. tokens' \in 0 .. capacity /\ BucketHasRoom'
  BY <1>1, LimiterFacts DEF RL!Tick, RL!Smaller, BucketHasRoom
<1>3. left' \in [Callers -> 0 .. MaxRetryAfter]
  BY LimiterFacts DEF RL!Tick, RL!TypeOK
<1>4. circuit' \in RL!Breaker!CircuitState
  BY BreakerMoves DEF RL!Tick, RL!TypeOK
<1>5. RL!Holders' = RL!Holders /\ AttemptsAreLeft'
  BY <1>1 DEF RL!Holders, AttemptsAreLeft
<1> QED
  BY <1>1, <1>2, <1>3, <1>4, <1>5, NoNewHolder DEF RL!TypeOK

LEMMA LimiterStep == LimiterInv /\ [RL!Next]_limiterVars => LimiterInv'
<1> SUFFICES ASSUME LimiterInv, [RL!Next]_limiterVars PROVE LimiterInv'
  OBVIOUS
<1>1. CASE UNCHANGED limiterVars
  <2>1. RL!Holders' = RL!Holders
    BY <1>1 DEF limiterVars, RL!Holders
  <2>2. RL!TypeOK' /\ BucketHasRoom' /\ AttemptsAreLeft'
    BY <1>1 DEF limiterVars, LimiterInv, RL!TypeOK, BucketHasRoom, AttemptsAreLeft
  <2>3. QED
    BY <2>1, <2>2, NoNewHolder DEF LimiterInv
<1> QED
  BY <1>1, AskInv, SendInv, EndInv, TickInv DEF RL!Next, RL!Settle

LEMMA LimiterCorrect == RL!Spec => []LimiterInv
<1>1. LimiterInv /\ [RL!Next]_RL!vars => LimiterInv'
  BY LimiterStep DEF RL!vars, RL!bucket, RL!caller, limiterVars
<1> QED
  BY <1>1, LimiterInit, PTL DEF RL!Spec

\* The bucket, the breaker and the callers are well typed whatever the service
\* puts into its headers.
THEOREM LimiterTypeCorrect == RL!Spec => []RL!TypeOK
<1>1. LimiterInv => RL!TypeOK
  BY DEF LimiterInv
<1> QED
  BY <1>1, LimiterCorrect, PTL

\* There are never more requests in the queue than it has permits, whichever of
\* the callers are turned away, retry, sleep or are dropped.
THEOREM QueueCorrect == RL!Spec => []QueueIsBounded
<1>1. LimiterInv => QueueIsBounded
  BY DEF LimiterInv
<1> QED
  BY <1>1, LimiterCorrect, PTL

\* No burst size and no headers, in whatever order they are observed, leave a
\* bucket without room for one token, or with more tokens than its capacity.
THEOREM BucketCorrect == RL!Spec => []BucketHasRoom
<1>1. LimiterInv => BucketHasRoom
  BY DEF LimiterInv
<1> QED
  BY <1>1, LimiterCorrect, PTL

-----------------------------------------------------------------------------
(* Sockets and shutdown *)

\* No request is answered by a server that is cleaning up.
CleanUp == {"tasks", "notify", "closing", "cache", "database", "exited"}
RequestsAreOver == phase \in CleanUp => inFlight = {}

\* A signal that was sent is not waited for again.
SignalComesOnce == told => ~listening

\* It was sent, and the server will not hear of it.
SignalIsLost == told /\ ~listening /\ phase \in {"starting", "serving"}

\* A reader of the channel has missed messages only while its share of the ring
\* is full, and a connection without a reader has nothing in it.
ChannelIsKept ==
    \A c \in Clients :
        /\ missed[c] => unread[c] = RingSize
        /\ sender[c] \notin SD!Alive => unread[c] = 0 /\ ~missed[c]

ShutdownInv == SD!TypeOK /\ RequestsAreOver /\ SignalComesOnce /\ ChannelIsKept

HubInv == SD!HubTypeOK /\ ChannelIsKept

LEMMA ShutdownFacts ==
    /\ RingSize \in Nat \ {0} /\ MaxUpdates \in Nat
BY ServicesConstants DEF ServicesConstants, SD!ShutdownConstants

\* What the channel and the tasks of the sockets do.
LEMMA BroadcastInv == HubInv /\ SD!Broadcast => HubInv'
<1> SUFFICES ASSUME HubInv, SD!Broadcast PROVE HubInv'
  OBVIOUS
<1>1. \A c \in Clients :
        /\ sender[c] \in SD!Senders /\ unread[c] \in 0 .. RingSize /\ missed[c] \in BOOLEAN
        /\ sender' = sender
        /\ unread'[c] = IF sender[c] \notin SD!Alive THEN unread[c]
                        ELSE IF unread[c] = RingSize THEN RingSize ELSE unread[c] + 1
        /\ missed'[c] = (missed[c] \/ (sender[c] \in SD!Alive /\ unread[c] = RingSize))
  BY DEF HubInv, SD!HubTypeOK, SD!Broadcast
<1>2. \A c \in Clients : unread'[c] \in 0 .. RingSize
  BY <1>1, ShutdownFacts
<1>3. unread' \in [Clients -> 0 .. RingSize]
  BY <1>2 DEF SD!Broadcast
<1>4. missed' \in [Clients -> BOOLEAN]
  BY DEF SD!Broadcast
<1>5. SD!HubTypeOK'
  BY <1>3, <1>4 DEF SD!HubTypeOK, SD!Broadcast, HubInv
<1>6. ChannelIsKept'
  <2> SUFFICES ASSUME NEW c \in Clients
               PROVE  /\ missed'[c] => unread'[c] = RingSize
                      /\ sender'[c] \notin SD!Alive => unread'[c] = 0 /\ ~missed'[c]
    BY DEF ChannelIsKept
  <2>1. /\ missed[c] => unread[c] = RingSize
        /\ sender[c] \notin SD!Alive => unread[c] = 0 /\ ~missed[c]
    BY DEF HubInv, ChannelIsKept
  <2>2. QED
    BY <1>1, <2>1
<1> QED
  BY <1>5, <1>6 DEF HubInv

LEMMA SenderInv ==
    ASSUME HubInv, NEW c \in Clients, SD!SenderStep(c) \/ SD!Upgrade(c)
    PROVE  HubInv'
<1> USE DEF HubInv
<1>1. /\ sender \in [Clients -> SD!Senders] /\ unread \in [Clients -> 0 .. RingSize]
      /\ missed \in [Clients -> BOOLEAN]
      /\ RingSize \in Nat
      /\ \A d \in Clients : unread[d] \in Nat /\ unread[d] <= RingSize
  BY ShutdownFacts DEF SD!HubTypeOK
<1>2. /\ missed[c] => unread[c] = RingSize
      /\ sender[c] \notin SD!Alive => unread[c] = 0 /\ ~missed[c]
  BY DEF ChannelIsKept
<1>3. sender' \in [Clients -> SD!Senders]
  BY <1>1 DEF SD!SenderStep, SD!Upgrade, SD!HandleSocket, SD!Receive, SD!Ping, SD!Written,
     SD!WriteFails, SD!SenderGoes, SD!Senders
<1>4. unread' \in [Clients -> 0 .. RingSize]
  <2>1. CASE unread' = unread
    BY <1>1, <2>1
  <2>2. CASE unread[c] > 0 /\ unread' = [unread EXCEPT ![c] = @ - 1]
    <3>1. unread[c] - 1 \in 0 .. RingSize
      BY <1>1, <2>2
    <3>2. QED
      BY <1>1, <2>2, <3>1
  <2>3. CASE unread' = [unread EXCEPT ![c] = 0]
    BY <1>1, <2>3
  <2>4. QED
    BY <2>1, <2>2, <2>3
    DEF SD!SenderStep, SD!Upgrade, SD!HandleSocket, SD!Receive, SD!Ping, SD!Written,
        SD!WriteFails
<1>5. missed' \in [Clients -> BOOLEAN]
  BY <1>1 DEF SD!SenderStep, SD!Upgrade, SD!HandleSocket, SD!Receive, SD!Ping, SD!Written,
     SD!WriteFails
<1>6. \A d \in Clients : d # c => /\ sender'[d] = sender[d] /\ unread'[d] = unread[d]
                                  /\ missed'[d] = missed[d]
  BY <1>1 DEF SD!SenderStep, SD!Upgrade, SD!HandleSocket, SD!Receive, SD!Ping, SD!Written,
     SD!WriteFails, SD!SenderGoes
<1>7. /\ missed'[c] => unread'[c] = RingSize
      /\ sender'[c] \notin SD!Alive => unread'[c] = 0 /\ ~missed'[c]
  <2>1. CASE SD!Upgrade(c) \/ SD!HandleSocket(c)
    BY <1>1, <1>2, <2>1 DEF SD!Upgrade, SD!HandleSocket, SD!SenderGoes, SD!Alive
  <2>2. CASE SD!Receive(c)
    BY <1>1, <1>2, <2>2 DEF SD!Receive, SD!SenderGoes, SD!Alive
  <2>3. CASE SD!Ping(c) \/ SD!Written(c)
    BY <1>1, <1>2, <2>3 DEF SD!Ping, SD!PingIsDue, SD!Written, SD!SenderGoes, SD!Alive
  <2>4. CASE SD!WriteFails(c)
    BY <1>1, <2>4 DEF SD!WriteFails
  <2>5. QED
    BY <2>1, <2>2, <2>3, <2>4 DEF SD!SenderStep
<1>8. ChannelIsKept'
  BY <1>6, <1>7 DEF ChannelIsKept
<1> QED
  BY <1>3, <1>4, <1>5, <1>8 DEF SD!HubTypeOK

\* A step that leaves the sockets alone.
LEMMA HubUntouched ==
    ASSUME HubInv, UNCHANGED SD!hub
    PROVE  HubInv'
BY DEF HubInv, SD!HubTypeOK, SD!hub, ChannelIsKept

LEMMA ShutdownInit == SD!Init => ShutdownInv
<1> SUFFICES ASSUME SD!Init PROVE ShutdownInv
  OBVIOUS
<1>1. SD!TypeOK
  <2>1. SD!HubTypeOK
    BY ShutdownFacts DEF SD!Init, SD!HubInit, SD!HubTypeOK, SD!Senders
  <2>2. updates \in 0 .. MaxUpdates
    BY ShutdownFacts DEF SD!Init
  <2>3. task \in [SD!Tasks -> {"idle", "busy", "ended"}]
    BY DEF SD!Init
  <2>4. QED
    BY <2>1, <2>2, <2>3 DEF SD!Init, SD!TypeOK, SD!Phases
<1>2. RequestsAreOver /\ SignalComesOnce /\ ChannelIsKept
  BY DEF SD!Init, SD!HubInit, RequestsAreOver, SignalComesOnce, ChannelIsKept
<1> QED
  BY <1>1, <1>2 DEF ShutdownInv

\* What main, the signal and the requests do.
LEMMA MainInv ==
    ASSUME ShutdownInv,
           \/ SD!MainStep \/ SD!Signal
           \/ \E r \in HttpRequests : SD!StartRequest(r) \/ SD!BroadcastUpdate(r) \/ SD!EndRequest(r)
    PROVE  ShutdownInv'
<1> USE DEF ShutdownInv, SD!TypeOK
<1>1. HubInv
  BY DEF HubInv
<1>2. CASE SD!MainStep
  <2>1. UNCHANGED <<listening, told, inFlight, task, updates>>
    BY <1>2
    DEF SD!MainStep, SD!Serve, SD!Drained, SD!JoinTasks, SD!NotifyClients,
        SD!CloseAllConnections, SD!FlushCache, SD!CloseDatabase, SD!Quietly
  <2>2. HubInv'
    BY <1>1, <1>2, BroadcastInv, HubUntouched
    DEF SD!MainStep, SD!Serve, SD!Drained, SD!JoinTasks, SD!NotifyClients,
        SD!CloseAllConnections, SD!FlushCache, SD!CloseDatabase, SD!Quietly
  <2>3. /\ phase' \in SD!Phases
        /\ phase' \in CleanUp => inFlight = {}
    BY <1>2
    DEF SD!MainStep, SD!Serve, SD!Drained, SD!JoinTasks, SD!NotifyClients,
        SD!CloseAllConnections, SD!FlushCache, SD!CloseDatabase, SD!GoOn, SD!Phases,
        CleanUp, RequestsAreOver, SignalComesOnce
  <2>4. RequestsAreOver' /\ SignalComesOnce'
    BY <2>1, <2>3 DEF RequestsAreOver, SignalComesOnce
  <2>5. QED
    BY <2>1, <2>2, <2>3, <2>4 DEF HubInv
<1>3. CASE SD!Signal
  <2>1. /\ UNCHANGED <<inFlight, task, updates>> /\ HubInv'
        /\ listening' = FALSE /\ told' = TRUE
        /\ phase' = IF phase = "serving" THEN "draining" ELSE phase
    BY <1>1, <1>3, HubUntouched DEF SD!Signal
  <2>2. RequestsAreOver' /\ SignalComesOnce'
    BY <2>1 DEF RequestsAreOver, SignalComesOnce, CleanUp
  <2>3. phase' \in SD!Phases
    BY <2>1 DEF SD!Phases
  <2>4. QED
    BY <2>1, <2>2, <2>3 DEF HubInv
<1>4. ASSUME NEW r \in HttpRequests,
             SD!StartRequest(r) \/ SD!BroadcastUpdate(r) \/ SD!EndRequest(r)
      PROVE  ShutdownInv'
  <2>1. UNCHANGED <<phase, listening, told, task>>
    BY <1>4 DEF SD!StartRequest, SD!BroadcastUpdate, SD!EndRequest
  <2>2. HubInv'
    BY <1>1, <1>4, BroadcastInv, SenderInv, HubUntouched
    DEF SD!StartRequest, SD!BroadcastUpdate, SD!EndRequest
  <2>3. inFlight' \subseteq HttpRequests /\ RequestsAreOver'
    BY <1>4, <2>1
    DEF SD!StartRequest, SD!BroadcastUpdate, SD!EndRequest, RequestsAreOver, CleanUp
  <2>4. updates' \in 0 .. MaxUpdates
    BY <1>4, ShutdownFacts DEF SD!StartRequest, SD!BroadcastUpdate, SD!EndRequest
  <2>5. SignalComesOnce'
    BY <2>1 DEF SignalComesOnce
  <2>6. QED
    BY <2>1, <2>2, <2>3, <2>4, <2>5 DEF HubInv
<1> QED
  BY <1>2, <1>3, <1>4

\* What the background tasks do.
LEMMA TaskInv ==
    ASSUME ShutdownInv, NEW t \in SD!Tasks,
           SD!BeginIteration(t) \/ SD!EndIteration(t) \/ SD!StopTask(t) \/ SD!TaskEnds(t)
    PROVE  ShutdownInv'
<1> USE DEF ShutdownInv, SD!TypeOK
<1>1. UNCHANGED <<phase, listening, told, inFlight, updates>>
  BY DEF SD!BeginIteration, SD!EndIteration, SD!StopTask, SD!TaskEnds
<1>2. HubInv'
  BY HubUntouched DEF HubInv, SD!BeginIteration, SD!EndIteration, SD!StopTask, SD!TaskEnds
<1>3. task' \in [SD!Tasks -> {"idle", "busy", "ended"}]
  BY DEF SD!BeginIteration, SD!EndIteration, SD!StopTask, SD!TaskEnds
<1>4. SignalComesOnce' /\ RequestsAreOver'
  BY <1>1 DEF SignalComesOnce, RequestsAreOver
<1> QED
  BY <1>1, <1>2, <1>3, <1>4 DEF HubInv

LEMMA ShutdownStep == ShutdownInv /\ [SD!Next]_shutdownVars => ShutdownInv'
<1> SUFFICES ASSUME ShutdownInv, [SD!Next]_shutdownVars PROVE ShutdownInv'
  OBVIOUS
<1>1. ASSUME NEW c \in Clients, SD!Socket(SD!SenderStep(c)) PROVE ShutdownInv'
  <2>1. UNCHANGED <<phase, listening, told, inFlight, task, updates>> /\ SD!SenderStep(c)
    BY <1>1 DEF SD!Socket, SD!mainVars
  <2>2. HubInv'
    BY <2>1, SenderInv DEF HubInv, ShutdownInv, SD!TypeOK
  <2>3. RequestsAreOver' /\ SignalComesOnce'
    BY <2>1 DEF ShutdownInv, RequestsAreOver, SignalComesOnce
  <2>4. QED
    BY <2>1, <2>2, <2>3 DEF ShutdownInv, HubInv, SD!TypeOK
<1>2. CASE UNCHANGED shutdownVars
  BY <1>2
  DEF shutdownVars, ShutdownInv, SD!TypeOK, SD!HubTypeOK, RequestsAreOver,
      SignalComesOnce, ChannelIsKept
<1> QED
  BY <1>1, <1>2, MainInv, TaskInv DEF SD!Next

LEMMA ShutdownCorrect == SD!Spec => []ShutdownInv
<1>1. ShutdownInv /\ [SD!Next]_SD!vars => ShutdownInv'
  BY ShutdownStep DEF SD!vars, SD!mainVars, SD!hub, shutdownVars
<1> QED
  BY <1>1, ShutdownInit, PTL DEF SD!Spec

\* Main, the requests, the tasks and the sockets are well typed; in particular a
\* reader never has more in the channel than the ring holds.
THEOREM ShutdownTypeCorrect == SD!Spec => []SD!TypeOK
<1>1. ShutdownInv => SD!TypeOK
  BY DEF ShutdownInv
<1> QED
  BY <1>1, ShutdownCorrect, PTL

\* The clean-up waits for every request: none of them meets a closed database.
THEOREM DrainCorrect == SD!Spec => []RequestsAreOver
<1>1. ShutdownInv => RequestsAreOver
  BY DEF ShutdownInv
<1> QED
  BY <1>1, ShutdownCorrect, PTL

\* A signal that arrives before the server is polled for the first time is lost:
\* the server subscribes too late, nobody waits for a second signal, and it
\* serves for ever.
THEOREM EarlySignalIsLost ==
    SD!Spec => [](told /\ phase = "starting" => [](phase \in {"starting", "serving"}))
<1>1. ShutdownInv /\ told /\ phase = "starting" => SignalIsLost
  BY DEF ShutdownInv, SignalComesOnce, SignalIsLost
<1>2. ShutdownInv /\ SignalIsLost /\ [SD!Next]_SD!vars => SignalIsLost'
  <2> SUFFICES ASSUME ShutdownInv, SignalIsLost, [SD!Next]_SD!vars PROVE SignalIsLost'
    OBVIOUS
  <2>0. told = TRUE /\ listening = FALSE /\ phase \in {"starting", "serving"}
    BY DEF ShutdownInv, SD!TypeOK, SignalIsLost
  <2> USE <2>0 DEF SignalIsLost
  <2>1. CASE SD!MainStep
    BY <2>1
    DEF SD!MainStep, SD!Serve, SD!Drained, SD!JoinTasks, SD!NotifyClients,
        SD!CloseAllConnections, SD!FlushCache, SD!CloseDatabase, SD!GoOn, SD!Quietly
  <2>2. CASE SD!Signal
    BY <2>2 DEF SD!Signal
  <2>3. ASSUME NEW r \in HttpRequests,
               SD!StartRequest(r) \/ SD!BroadcastUpdate(r) \/ SD!EndRequest(r)
        PROVE  SignalIsLost'
    BY <2>3 DEF SD!StartRequest, SD!BroadcastUpdate, SD!EndRequest
  <2>4. ASSUME NEW t \in SD!Tasks,
               \/ SD!BeginIteration(t) \/ SD!EndIteration(t)
               \/ SD!StopTask(t) \/ SD!TaskEnds(t)
        PROVE  SignalIsLost'
    BY <2>4 DEF SD!BeginIteration, SD!EndIteration, SD!StopTask, SD!TaskEnds
  <2>5. ASSUME NEW c \in Clients, SD!Socket(SD!SenderStep(c)) PROVE SignalIsLost'
    BY <2>5 DEF SD!Socket, SD!mainVars
  <2>6. CASE UNCHANGED SD!vars
    BY <2>6 DEF SD!vars, SD!mainVars
  <2>7. QED
    BY <2>1, <2>2, <2>3, <2>4, <2>5, <2>6 DEF SD!Next
<1>3. SignalIsLost => phase \in {"starting", "serving"}
  BY DEF SignalIsLost
<1> QED
  BY <1>1, <1>2, <1>3, ShutdownCorrect, PTL DEF SD!Spec

\* The lag of a reader is what the ring could not hold, for any number of
\* connections and any capacity.
THEOREM ChannelCorrect == SD!Spec => []ChannelIsKept
<1>1. ShutdownInv => ChannelIsKept
  BY DEF ShutdownInv
<1> QED
  BY <1>1, ShutdownCorrect, PTL

-----------------------------------------------------------------------------
\* What TLC runs is a behaviour of each of the four parts: a step of another part
\* is a stutter of it.
THEOREM PartsRunTheComponents == PartsSpec => Spec /\ VR!Spec /\ RL!Spec /\ SD!Spec
<1>1. PartsInit => Init /\ VR!Init /\ RL!Init /\ SD!Init
  BY DEF PartsInit
<1>2. [PartsNext]_partsVars => [Next]_vars
  BY DEF PartsNext, partsVars
<1>3. [PartsNext]_partsVars => [VR!Next]_VR!vars
  BY DEF PartsNext, partsVars, VR!vars, VR!tables, rewardVars
<1>4. [PartsNext]_partsVars => [RL!Next]_RL!vars
  BY DEF PartsNext, partsVars, RL!vars, RL!bucket, RL!caller, limiterVars
<1>5. [PartsNext]_partsVars => [SD!Next]_SD!vars
  BY DEF PartsNext, partsVars, SD!vars, SD!mainVars, SD!hub, shutdownVars
<1> QED
  BY <1>1, <1>2, <1>3, <1>4, <1>5, PTL DEF PartsSpec, Spec, VR!Spec, RL!Spec, SD!Spec
=============================================================================
