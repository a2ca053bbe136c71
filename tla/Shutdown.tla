------------------------------ MODULE Shutdown ------------------------------
(***************************************************************************)
(* The end of the server's main: the signal, the drain of the requests,    *)
(* and the four steps of the clean-up with their time-outs, over the       *)
(* background tasks and the sockets (WebSocketHub, extended here).  A task *)
(* is Whole when it looks for the signal between its iterations (metrics,  *)
(* pools, trustlines), Cut when the signal cancels it at any await         *)
(* (dispatcher, broadcaster, second corridor monitor), Napping when it is  *)
(* cancelled in an iteration but not in the sleep after it, which is in    *)
(* the body of its select branch (ingestion), and Deaf when it never       *)
(* subscribed (first corridor monitor, Slack bot).  The job scheduler's    *)
(* tasks and the broadcaster's children are not waited for at all and are  *)
(* left out.                                                               *)
(***************************************************************************)
EXTENDS WebSocketHub

CONSTANTS
    Requests,     \* HTTP requests in progress at a time
    Whole, Cut, Napping, Deaf,
    MaxUpdates    \* bound on the updates that requests broadcast

ShutdownConstants ==
    /\ RingSize \in Nat \ {0}
    /\ MaxUpdates \in Nat
    /\ Whole \cap Cut = {} /\ (Whole \cup Cut) \cap Napping = {}
    /\ (Whole \cup Cut \cup Napping) \cap Deaf = {}

VARIABLES
    phase,       \* where main is
    listening,   \* the task of wait_for_signal has not returned
    told,        \* trigger_shutdown has sent
    inFlight,    \* requests in progress
    task,        \* state of each background task
    updates      \* updates broadcast so far

mainVars == <<phase, listening, told, inFlight, task, updates>>
vars == <<mainVars, hub>>

Tasks == Whole \cup Cut \cup Napping \cup Deaf
Phases == {"starting", "serving", "draining", "tasks", "notify", "closing",
           "cache", "database", "exited"}

TypeOK ==
    /\ HubTypeOK
    /\ phase \in Phases
    /\ listening \in BOOLEAN
    /\ told \in BOOLEAN
    /\ inFlight \subseteq Requests
    /\ task \in [Tasks -> {"idle", "busy", "ended"}]
    /\ updates \in 0 .. MaxUpdates

Init ==
    /\ HubInit
    /\ phase = "starting"
    /\ listening = TRUE
    /\ told = FALSE
    /\ inFlight = {}
    /\ task = [t \in Tasks |-> "idle"]
    /\ updates = 0

Running == phase # "exited"

-----------------------------------------------------------------------------
\* The server subscribes to the shutdown channel when it is first polled.
Serve ==
    /\ phase = "starting"
    /\ phase' = "serving"
    /\ UNCHANGED <<hub, listening, told, inFlight, task, updates>>

\* The first signal is sent to the receivers there are; later ones find nobody,
\* and a server that was not polled yet never hears of it.
Signal ==
    /\ Running
    /\ listening
    /\ listening' = FALSE
    /\ told' = TRUE
    /\ phase' = IF phase = "serving" THEN "draining" ELSE phase
    /\ UNCHANGED <<hub, inFlight, task, updates>>

StartRequest(r) ==
    /\ phase = "serving"
    /\ r \notin inFlight
    /\ inFlight' = inFlight \cup {r}
    /\ UNCHANGED <<hub, phase, listening, told, task, updates>>

\* broadcast_anchor_update and broadcast_corridor_update.
BroadcastUpdate(r) ==
    /\ r \in inFlight
    /\ updates < MaxUpdates
    /\ updates' = updates + 1
    /\ Broadcast
    /\ UNCHANGED <<phase, listening, told, inFlight, task>>

\* The answer is sent, or the client is gone.  Nothing says that this happens:
\* server.await has no time-out, nor have the commands a handler sends to Redis
\* and what it writes to a slow client.
EndRequest(r) ==
    /\ r \in inFlight
    /\ inFlight' = inFlight \ {r}
    /\ \/ UNCHANGED hub
       \/ \E c \in Clients : Upgrade(c)
    /\ UNCHANGED <<phase, listening, told, task, updates>>

-----------------------------------------------------------------------------
\* Background tasks: an iteration begins and ends, the signal is looked for.
BeginIteration(t) ==
    /\ Running
    /\ task[t] = "idle"
    /\ task' = [task EXCEPT ![t] = "busy"]
    /\ UNCHANGED <<hub, phase, listening, told, inFlight, updates>>

EndIteration(t) ==
    /\ Running
    /\ task[t] = "busy"
    /\ task' = [task EXCEPT ![t] = "idle"]
    /\ UNCHANGED <<hub, phase, listening, told, inFlight, updates>>

StopTask(t) ==
    /\ Running
    /\ told
    /\ \/ t \in Whole /\ task[t] = "idle"
       \/ t \in Cut /\ task[t] # "ended"
       \/ t \in Napping /\ task[t] = "busy"
    /\ task' = [task EXCEPT ![t] = "ended"]
    /\ UNCHANGED <<hub, phase, listening, told, inFlight, updates>>

\* A task ends by itself: it panics, or returns, as the Slack bot does when its
\* channel closes or it has lagged behind the alerts.
TaskEnds(t) ==
    /\ Running
    /\ task[t] # "ended"
    /\ task' = [task EXCEPT ![t] = "ended"]
    /\ UNCHANGED <<hub, phase, listening, told, inFlight, updates>>

-----------------------------------------------------------------------------
\* main after server.await.
GoOn(from, to) == phase = from /\ phase' = to
Quietly == UNCHANGED <<hub, listening, told, inFlight, task, updates>>

Drained == GoOn("draining", "tasks") /\ inFlight = {} /\ Quietly

\* shutdown_background_tasks joins the tasks in turn, or gives up; giving up drops
\* the handles and leaves the tasks to themselves.
NoTimeOut == FALSE      \* mutant: the tasks are awaited without a time-out
TimedOut == TRUE
JoinTasks ==
    /\ GoOn("tasks", "notify")
    /\ (\A t \in Tasks : task[t] = "ended") \/ TimedOut
    /\ Quietly

\* shutdown_websockets: the notice, half a second, the maps are emptied.
NotifyClients ==
    /\ GoOn("notify", "closing")
    /\ Broadcast
    /\ UNCHANGED <<listening, told, inFlight, task, updates>>
CloseAllConnections == GoOn("closing", "cache") /\ Quietly

\* flush_cache and shutdown_database, done or timed out; then the process ends.
FlushCache == GoOn("cache", "database") /\ Quietly
CloseDatabase == GoOn("database", "exited") /\ Quietly

MainStep ==
    \/ Serve \/ Drained \/ JoinTasks \/ NotifyClients
    \/ CloseAllConnections \/ FlushCache \/ CloseDatabase

\* A socket's task takes a step beside main.
Socket(Step) == Running /\ Step /\ UNCHANGED mainVars

Next ==
    \/ MainStep
    \/ Signal
    \/ \E r \in Requests : StartRequest(r) \/ BroadcastUpdate(r) \/ EndRequest(r)
    \/ \E t \in Tasks : BeginIteration(t) \/ EndIteration(t) \/ StopTask(t) \/ TaskEnds(t)
    \/ \E c \in Clients : Socket(SenderStep(c))

Spec == Init /\ [][Next]_vars

\* What the runtime promises: main and the tasks of the sockets are polled, the
\* ping timer fires, and select takes each branch that keeps being ready (it
\* starts with a random one).  That a request or a write to a socket ends is not
\* promised by anything: neither has a time-out.
Fairness ==
    /\ WF_vars(MainStep)
    /\ \A c \in Clients :
          /\ WF_vars(Socket(HandleSocket(c)))
          /\ WF_vars(Socket(Ping(c)))
          /\ SF_vars(Socket(Receive(c)))

FairSpec == Spec /\ Fairness

-----------------------------------------------------------------------------
\* Once the last request of a drain has ended, the process ends, whatever the
\* tasks do: one that is deaf to the signal, asleep or in a long iteration delays
\* the end by no more than the time-out, and so does a client that reads nothing.
\* (The drain itself may last for ever: graceful_timeout is read by nothing.)
ShutdownEnds == phase = "draining" /\ inFlight = {} ~> phase = "exited"

\* A client that fell behind the channel hears again: the newest messages reach
\* it or its socket fails, unless the process ends first.  This holds of a client
\* to which each write ends in some way, with success or an error; one that stays
\* connected and stops reading blocks its send task for ever.
NobodyIsLeftBehind ==
    \A c \in Clients :
        []<>(sender[c] # "writing") =>
            (unread[c] > 0 ~> (unread[c] = 0 \/ phase = "exited"))
=============================================================================
