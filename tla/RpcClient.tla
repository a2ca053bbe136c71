----------------------------- MODULE RpcClient ------------------------------
(***************************************************************************)
(* The corridor handlers over the RPC client.  Each request of the client  *)
(* goes through the client's own breaker (CircuitBreaker, extended here);  *)
(* the handlers wrap some of their fetches in a second with_retry with a   *)
(* breaker of their own, shared by the handlers ("horizon").  So an answer *)
(* is recorded twice, by different criteria: the outer layer sees only the *)
(* message of the inner error and sorts it by the words it contains.       *)
(*                                                                         *)
(* The list handler does two wrapped fetches of one page and two bare ones *)
(* of several pages, whose errors it answers with empty results; the       *)
(* detail handler does one wrapped fetch of several pages.  A page is one  *)
(* client call.                                                            *)
(***************************************************************************)
EXTENDS CircuitBreaker, Sequences

CONSTANTS
    Handlers,       \* the callers that are corridor handlers
    ListHandlers,   \* those of the list; the others answer for one corridor
    OuterAttempts,  \* RetryConfig::default().max_attempts
    MaxPages        \* max_records divided by max_records_per_request

ASSUME RpcClientConstants ==
    /\ Handlers \subseteq Callers
    /\ ListHandlers \subseteq Handlers
    /\ OuterAttempts \in Nat \ {0}
    /\ MaxPages \in Nat \ {0}

VARIABLES
    outer,         \* CircuitState of the handlers' breaker
    at,            \* where each handler is in its outer loop
    todo,          \* the fetches its request has left, the current one first
    page,          \* pages of the current fetch it has read
    outerAttempt,  \* with_retry's counter around the current fetch
    answer         \* what the last client call returned, until it is looked at

request == <<at, todo, page, outerAttempt, answer>>
client == <<circuit, callers, healthy, records, probes>>
clientVars == <<client, outer, request>>

\* The handlers' breaker has the client's operators and its default settings.
Outer == INSTANCE CircuitBreaker WITH
             circuit <- outer, pc <- at, attempt <- outerAttempt,
             fails <- 0, oks <- 0, probes <- {}

\* `all` fetches page through fetch_all_payments or fetch_all_trades.
Fetch(wrapped, all) == [wrapped |-> wrapped, all |-> all]
ListCorridors ==
    <<Fetch(TRUE, FALSE), Fetch(TRUE, FALSE), Fetch(FALSE, TRUE), Fetch(FALSE, TRUE)>>
CorridorDetail == <<Fetch(TRUE, TRUE)>>

Current(h) == Head(todo[h])
Pages(h) == IF Current(h).all THEN MaxPages ELSE 1

\* What a client call returns: a value, a transient error, a server error (5xx),
\* a client error (4xx), an answer that does not parse, or no request at all.
Errors == {"transient", "server", "client", "parse", "open"}

ClientTypeOK ==
    /\ TypeOK
    /\ outer \in CircuitState
    /\ at \in [Handlers -> {"idle", "ask", "fetching", "backoff"}]
    /\ todo \in [Handlers -> Seq([wrapped : BOOLEAN, all : BOOLEAN])]
    /\ page \in [Handlers -> 0 .. MaxPages]
    /\ outerAttempt \in [Handlers -> 0 .. OuterAttempts]
    /\ answer \in [Handlers -> Errors \cup {"none", "ok"}]

ClientInit ==
    /\ Init
    /\ outer = Closed(0)
    /\ at = [h \in Handlers |-> "idle"]
    /\ todo = [h \in Handlers |-> <<>>]
    /\ page = [h \in Handlers |-> 0]
    /\ outerAttempt = [h \in Handlers |-> 0]
    /\ answer = [h \in Handlers |-> "none"]

-----------------------------------------------------------------------------
\* The client's calls.  A handler calls it while it fetches, and its call's
\* result waits in `answer`; the other callers only loop.
IsHandler(c) == c \in Handlers
MayCall(c) ==
    (IsHandler(c) /\ pc[c] = "idle") => (at[c] = "fetching" /\ answer[c] = "none")

Gives(c, result) ==
    IF IsHandler(c)
    THEN answer' = [answer EXCEPT ![c] = result] /\ UNCHANGED <<at, todo, page, outerAttempt>>
    ELSE UNCHANGED request

ClientAsk(c) ==
    /\ MayCall(c)
    /\ \/ Admit(c) /\ UNCHANGED request
       \/ Refuse(c) /\ Gives(c, "open")
    /\ UNCHANGED outer

ClientAnswer(c) ==
    /\ \/ Succeed(c) /\ Gives(c, "ok")
       \/ FailTransiently(c) /\ IF pc'[c] = "idle" THEN Gives(c, "transient")
                                                   ELSE UNCHANGED request
       \/ FailOnServer(c) /\ Gives(c, "server")
       \/ FailOtherwise(c) /\ \E e \in {"client", "parse"} : Gives(c, e)
    /\ UNCHANGED outer

-----------------------------------------------------------------------------
\* A request for the list or for one corridor that the cache does not answer.
Request(h) ==
    /\ at[h] = "idle"
    /\ at' = [at EXCEPT ![h] = "ask"]
    /\ todo' = [todo EXCEPT ![h] = IF h \in ListHandlers THEN ListCorridors
                                                     ELSE CorridorDetail]
    /\ UNCHANGED <<client, outer, page, outerAttempt, answer>>

\* The request is answered, with data or with an error.
Respond(h) ==
    /\ at' = [at EXCEPT ![h] = "idle"]
    /\ todo' = [todo EXCEPT ![h] = <<>>]
    /\ page' = [page EXCEPT ![h] = 0]
    /\ outerAttempt' = [outerAttempt EXCEPT ![h] = 0]
    /\ answer' = [answer EXCEPT ![h] = "none"]

\* Wrapped fetches ask the outer breaker first, and before every retry.
OuterAsk(h) ==
    /\ at[h] \in {"ask", "backoff"}
    /\ Current(h).wrapped
    /\ \/ /\ ~Outer!Refuses
          /\ outer' = Outer!CircuitAfterCheck
          /\ at' = [at EXCEPT ![h] = "fetching"]
          /\ outerAttempt' = [outerAttempt EXCEPT ![h] = @ + 1]
          /\ UNCHANGED <<todo, page, answer>>
       \/ Outer!Refuses /\ Respond(h) /\ UNCHANGED outer
    /\ UNCHANGED client

BareFetch(h) ==
    /\ at[h] = "ask"
    /\ ~Current(h).wrapped
    /\ at' = [at EXCEPT ![h] = "fetching"]
    /\ UNCHANGED <<client, outer, todo, page, outerAttempt, answer>>

\* Mutant: `fetched` is not added to.
NextPageAgain(h) ==
    /\ answer[h] = "ok"
    /\ page[h] + 1 < Pages(h)
    /\ answer' = [answer EXCEPT ![h] = "none"]
    /\ UNCHANGED <<client, outer, at, todo, page, outerAttempt>>
\* The next page, after pagination_delay_ms.
NextPage(h) ==
    /\ answer[h] = "ok"
    /\ page[h] + 1 < Pages(h)
    /\ page' = [page EXCEPT ![h] = @ + 1]
    /\ answer' = [answer EXCEPT ![h] = "none"]
    /\ UNCHANGED <<client, outer, at, todo, outerAttempt>>

NextFetch(h) ==
    IF Len(todo[h]) = 1
    THEN Respond(h)
    ELSE /\ at' = [at EXCEPT ![h] = "ask"]
         /\ todo' = [todo EXCEPT ![h] = Tail(@)]
         /\ page' = [page EXCEPT ![h] = 0]
         /\ outerAttempt' = [outerAttempt EXCEPT ![h] = 0]
         /\ answer' = [answer EXCEPT ![h] = "none"]

\* All pages are read, or a page was empty; a wrapped fetch is then recorded.
FetchSucceeds(h) ==
    /\ answer[h] = "ok"
    /\ outer' = IF Current(h).wrapped THEN Outer!CircuitAfterSuccess ELSE outer
    /\ NextFetch(h)
    /\ UNCHANGED client

\* RpcError::categorize on the text of the error.  fetch_all_payments wraps its
\* errors in a context without any of its words; an inner refusal has none
\* either; the body of an answer may have any, and "parse" is looked for before
\* "network".
Categorized(h, error) ==
    CASE Current(h).all \/ error = "open" -> {"server"}
      [] error \in {"transient", "parse"} -> {"transient", "parse"}
      [] OTHER -> {"server", "transient", "parse"}

MayRetryFetch(h) == outerAttempt[h] < OuterAttempts

FetchFails(h) ==
    /\ answer[h] \in Errors
    /\ ~Current(h).wrapped
    /\ Respond(h)
    /\ UNCHANGED <<client, outer>>

WrappedFetchFails(h) ==
    /\ answer[h] \in Errors
    /\ Current(h).wrapped
    /\ \E error \in Categorized(h, answer[h]) :
          /\ outer' = IF error = "parse" THEN outer ELSE Outer!CircuitAfterFailure
          /\ IF error = "transient" /\ MayRetryFetch(h)
             THEN /\ at' = [at EXCEPT ![h] = "backoff"]
                  /\ page' = [page EXCEPT ![h] = 0]
                  /\ answer' = [answer EXCEPT ![h] = "none"]
                  /\ UNCHANGED <<todo, outerAttempt>>
             ELSE Respond(h)
    /\ UNCHANGED client

\* The HTTP client of the backend goes away: the handler's future is dropped
\* wherever it is.
Hangup(h) ==
    /\ h \notin Background
    /\ at[h] # "idle"
    /\ Respond(h)
    /\ Return(h)
    /\ UNCHANGED <<circuit, outer, healthy, records>>

-----------------------------------------------------------------------------
\* One clock for both timeouts.
Elapsed(c) == IF c.kind = "Open" /\ c.left > 0 THEN Open(c.left - 1) ELSE c
ClockTick ==
    /\ circuit' = Elapsed(circuit)
    /\ outer' = Elapsed(outer)
    /\ <<circuit, outer>>' # <<circuit, outer>>
    /\ UNCHANGED <<callers, healthy, records, probes, request>>

HealthChanges == ChangeHealth /\ UNCHANGED <<outer, request>>

\* What a handler does between client calls.
HandlerStep(h) ==
    \/ OuterAsk(h) \/ BareFetch(h)
    \/ NextPage(h) \/ FetchSucceeds(h) \/ FetchFails(h) \/ WrappedFetchFails(h)

ClientNext ==
    \/ \E c \in Callers : ClientAsk(c) \/ ClientAnswer(c)
    \/ \E h \in Handlers : Request(h) \/ HandlerStep(h) \/ Hangup(h)
    \/ ClockTick
    \/ HealthChanges

ClientSpec == ClientInit /\ [][ClientNext]_clientVars

\* Time passes and requests end (the HTTP client has a timeout), futures that
\* can run are polled, a background task polls the service for ever, and so
\* does a dashboard the corridors.
ClientFairness ==
    /\ WF_clientVars(ClockTick)
    /\ \A c \in Callers : WF_clientVars(ClientAnswer(c))
    /\ \A c \in Background \cup Handlers : WF_clientVars(ClientAsk(c))
    /\ \A h \in Handlers : WF_clientVars(HandlerStep(h))
    /\ \A h \in Handlers \cap Background : WF_clientVars(Request(h))

FairClientSpec == ClientSpec /\ ClientFairness

-----------------------------------------------------------------------------
\* A handler's request comes back whatever the endpoint and the two breakers do:
\* retries are bounded in both layers, and neither waits for a circuit.
RequestsReturn ==
    \A h \in Handlers \cap Background : at[h] # "idle" ~> at[h] = "idle"

\* An endpoint that stays healthy ends up behind two closed circuits: the outer
\* one reopens on the refusals of the inner one only for a while, and the inner
\* one is asked although the outer one keeps requests back.
BothRecover ==
    <>[]healthy => <>[](circuit.kind = "Closed" /\ outer.kind = "Closed")
=============================================================================
