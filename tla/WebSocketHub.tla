---------------------------- MODULE WebSocketHub ----------------------------
(***************************************************************************)
(* The sockets at /ws and the broadcast channel they all read              *)
(* (WsState.tx).  Each connection has a send task: a select loop over a    *)
(* ping timer and the channel, writing under a lock whatever comes first.  *)
(* The channel keeps RingSize messages for a slow reader and drops the     *)
(* oldest beyond that; the reader then gets one error in their place, and  *)
(* as the error does not match the select branch's pattern the loop waits  *)
(* on the other branches before it looks at the channel again.             *)
(*                                                                         *)
(* Messages are counted, not told apart.  The task that reads from the     *)
(* socket only writes the `subscriptions` map, which nothing reads         *)
(* (broadcast_to_channel has no caller); it is part of what may end a      *)
(* connection, and its answers are left out.                               *)
(***************************************************************************)
EXTENDS Naturals

CONSTANTS
    Clients,    \* connections
    RingSize    \* capacity of the broadcast channel

VARIABLES
    sender,    \* the send task of each connection
    unread,    \* messages in the channel it has not received
    missed     \* older ones were dropped

hub == <<sender, unread, missed>>

\* "upgrading" until the task of the new socket runs; "lagged" when the branch of
\* the channel is disabled until another one has been taken.
Senders == {"none", "upgrading", "select", "lagged", "writing", "ended"}
Alive == {"select", "lagged", "writing"}

HubTypeOK ==
    /\ sender \in [Clients -> Senders]
    /\ unread \in [Clients -> 0 .. RingSize]
    /\ missed \in [Clients -> BOOLEAN]

HubInit ==
    /\ sender = [c \in Clients |-> "none"]
    /\ unread = [c \in Clients |-> 0]
    /\ missed = [c \in Clients |-> FALSE]

SenderGoes(c, s) == sender' = [sender EXCEPT ![c] = s]

\* The handler answers the upgrade; the socket's own task starts later.
Upgrade(c) ==
    /\ sender[c] = "none"
    /\ SenderGoes(c, "upgrading")
    /\ UNCHANGED <<unread, missed>>

\* It subscribes to the channel: messages sent before are not for it.
HandleSocket(c) ==
    /\ sender[c] = "upgrading"
    /\ SenderGoes(c, "select")
    /\ UNCHANGED <<unread, missed>>

\* WsState::broadcast
Broadcast ==
    /\ unread' = [c \in Clients |->
                     IF sender[c] \notin Alive THEN unread[c]
                     ELSE IF unread[c] = RingSize THEN RingSize ELSE unread[c] + 1]
    /\ missed' = [c \in Clients |-> missed[c] \/ (sender[c] \in Alive /\ unread[c] = RingSize)]
    /\ UNCHANGED sender

\* The channel has something: a message, or the error that some were dropped.
Receive(c) ==
    /\ sender[c] = "select"
    /\ \/ /\ missed[c]
          /\ missed' = [missed EXCEPT ![c] = FALSE]
          /\ SenderGoes(c, "lagged")
          /\ UNCHANGED unread
       \/ /\ ~missed[c]
          /\ unread[c] > 0
          /\ unread' = [unread EXCEPT ![c] = @ - 1]
          /\ SenderGoes(c, "writing")
          /\ UNCHANGED missed

\* Mutant: a loop without a ping of its own.
NoPing(c) == FALSE
PingIsDue(c) == sender[c] \in {"select", "lagged"}
Ping(c) ==
    /\ PingIsDue(c)
    /\ SenderGoes(c, "writing")
    /\ UNCHANGED <<unread, missed>>

\* The write ends, which includes the wait for the sink that the task shares with
\* the one that reads.  There is no time-out: to a client that stays connected and
\* reads nothing it never does.
Written(c) ==
    /\ sender[c] = "writing"
    /\ SenderGoes(c, "select")
    /\ UNCHANGED <<unread, missed>>

\* The socket is gone; the receiver of the channel is dropped with the task.  A
\* client that only closes its side is noticed here too, at the next write: the
\* send task is not aborted when the other one ends.
WriteFails(c) ==
    /\ sender[c] = "writing"
    /\ SenderGoes(c, "ended")
    /\ unread' = [unread EXCEPT ![c] = 0]
    /\ missed' = [missed EXCEPT ![c] = FALSE]

SenderStep(c) == HandleSocket(c) \/ Receive(c) \/ Ping(c) \/ Written(c) \/ WriteFails(c)
=============================================================================
