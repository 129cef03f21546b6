------------------------------- MODULE WsHub -------------------------------
(***************************************************************************)
(* api/ws_hub.py for one fixture: the WebSocket sessions of the API, the   *)
(* room they are in, the sends counted against each and the broadcasts of  *)
(* bus messages.  The hub's coroutines share one event loop: what is       *)
(* between two awaits is one step.  The bodies under the hub's lock await  *)
(* nothing, so the lock never makes a coroutine wait and is left out.      *)
(*                                                                         *)
(* The bus calls the hub's handler in the thread that publishes, or on     *)
(* Redis in its listener thread; only in the thread of the event loop does *)
(* the handler find a loop to start a broadcast on.  The hub's own         *)
(* refresh_sports command, on the in-process bus, is the only publisher    *)
(* there: no line_update is ever broadcast (module WsDelivery), and the    *)
(* merging of one into the lines state is left out.                        *)
(***************************************************************************)
EXTENDS Naturals, FiniteSets

CONSTANTS
  Sockets,      \* the connections ever made to the fixture
  Broadcasts,   \* the broadcast tasks that may be under way at once (bound)
  MaxPending,   \* WS_MAX_PENDING_SENDS
  None

ASSUME HubAssumption ==
  /\ MaxPending \in Nat \ {0}
  /\ None \notin Sockets
  /\ IsFiniteSet(Broadcasts)

VARIABLES
  redis,        \* the bus found Redis when the process started
  room,         \* _rooms[fixture_key]
  pending,      \* _pending, 0 for a socket without an entry
  linesState,   \* _lines_state has the fixture
  sess,         \* where each session is: "failed" when connect raised
  left,         \* the peers that hung up
  closed,       \* the sockets the hub closed for their backlog
  task          \* the broadcasts: the clients to come, the one being sent to
                \* and those a send failed for

hubVars == <<redis, room, pending, linesState, sess, left, closed, task>>

Idle == [phase |-> "idle", todo |-> {}, to |-> None, dead |-> {}]

TypeOK ==
  /\ redis \in BOOLEAN /\ linesState \in BOOLEAN
  /\ room \subseteq Sockets
  /\ pending \in [Sockets -> 0 .. MaxPending]
  /\ sess \in [Sockets -> {"none", "sending", "receiving", "over", "failed"}]
  /\ left \subseteq Sockets
  /\ closed \subseteq Sockets
  /\ task \in [Broadcasts -> [phase : {"idle", "spawned", "running"},
                              todo : SUBSET Sockets, to : Sockets \cup {None},
                              dead : SUBSET Sockets]]

Init ==
  /\ redis \in BOOLEAN
  /\ room = {}
  /\ pending = [w \in Sockets |-> 0]
  /\ linesState = FALSE
  /\ sess = [w \in Sockets |-> "none"]
  /\ left = {}
  /\ closed = {}
  /\ task = [t \in Broadcasts |-> Idle]

-----------------------------------------------------------------------------
(* disconnect and the two halves of _send_json *)

\* (mutant: the lines of an empty room are kept)
DisconnectKeepingLines(ws, lines) ==
  /\ room' = room \ ws
  /\ pending' = [w \in Sockets |-> IF w \in ws THEN 0 ELSE pending[w]]
  /\ linesState' = lines

\* disconnect, of one socket or several in a row; lines says whether there is
\* a lines state for the last one to take along.
Disconnect(ws, lines) ==
  /\ room' = room \ ws
  /\ pending' = [w \in Sockets |-> IF w \in ws THEN 0 ELSE pending[w]]
  /\ linesState' = (lines /\ (ws = {} \/ room' # {}))

SendBegins(w) ==
  /\ pending[w] < MaxPending
  /\ pending' = [pending EXCEPT ![w] = @ + 1]

\* A client with a full backlog is dropped instead, and its socket closed.
DropsSlow(w, lines) ==
  /\ pending[w] >= MaxPending
  /\ Disconnect({w}, lines)
  /\ closed' = closed \cup {w}

\* (mutant: the first send to end forgets the others)
SendForgotten(w) == pending' = [pending EXCEPT ![w] = 0]

\* disconnect may have removed the entry meanwhile.
SendEnds(w) == pending' = [pending EXCEPT ![w] = IF @ = 0 THEN 0 ELSE @ - 1]

Reachable(w) == w \notin left /\ w \notin closed

-----------------------------------------------------------------------------
(* run_session *)

\* connect, up to the first send
Connect(w) ==
  /\ sess[w] = "none"
  /\ room' = room \cup {w}
  /\ SendBegins(w)
  /\ linesState' \in {linesState, TRUE}
  /\ sess' = [sess EXCEPT ![w] = "sending"]
  /\ UNCHANGED <<redis, left, closed, task>>

\* Building the bundle raises once the socket is in the room: run_session has
\* not entered its try, and nothing takes the socket out.
ConnectFails(w) ==
  /\ sess[w] = "none"
  /\ room' = room \cup {w}
  /\ sess' = [sess EXCEPT ![w] = "failed"]
  /\ left' = left \cup {w}
  /\ UNCHANGED <<redis, pending, linesState, closed, task>>

Sent(w, ok) ==
  /\ sess[w] = "sending"
  /\ ok => Reachable(w)
  /\ SendEnds(w)
  /\ sess' = [sess EXCEPT ![w] = "receiving"]
  /\ UNCHANGED <<redis, room, linesState, left, closed, task>>

\* The answer to a command, or the end of a client with too many sends pending.
Answer(w) ==
  \/ /\ SendBegins(w)
     /\ sess' = [sess EXCEPT ![w] = "sending"]
     /\ UNCHANGED <<room, closed, linesState>>
  \/ DropsSlow(w, linesState) /\ UNCHANGED sess

Receives(w) == sess[w] = "receiving" /\ Reachable(w)

Ping(w) ==
  /\ Receives(w)
  /\ Answer(w)
  /\ UNCHANGED <<redis, left, task>>

\* snapshot, or bundle: the lines are the fixture's lines state from then on,
\* sent or not.
Snapshot(w) ==
  /\ Receives(w)
  /\ \/ /\ SendBegins(w)
        /\ sess' = [sess EXCEPT ![w] = "sending"]
        /\ linesState' = TRUE
        /\ UNCHANGED <<room, closed>>
     \/ DropsSlow(w, TRUE) /\ UNCHANGED sess
  /\ UNCHANGED <<redis, left, task>>

\* refresh_sports publishes on the event loop when it has fetched something.
RefreshSports(w) ==
  /\ Receives(w)
  /\ Answer(w)
  /\ \/ UNCHANGED task
     \/ /\ ~redis
        /\ \E t \in Broadcasts :
             /\ task[t] = Idle
             /\ task' = [task EXCEPT ![t].phase = "spawned"]
  /\ UNCHANGED <<redis, left>>

HangsUp(w) ==
  /\ sess[w] \in {"sending", "receiving"}
  /\ left' = left \cup {w}
  /\ UNCHANGED <<redis, room, pending, linesState, sess, closed, task>>

\* (mutant: the room is not left)
SessionEndsSilently(w) ==
  /\ sess[w] = "receiving"
  /\ sess' = [sess EXCEPT ![w] = "over"]
  /\ UNCHANGED <<room, pending, linesState, redis, left, closed, task>>

\* The receive raises for a socket that is gone, a command for other reasons.
SessionEnds(w) ==
  /\ sess[w] = "receiving"
  /\ Disconnect({w}, linesState)
  /\ sess' = [sess EXCEPT ![w] = "over"]
  /\ UNCHANGED <<redis, left, closed, task>>

-----------------------------------------------------------------------------
(* broadcast *)

BroadcastStarts(t) ==
  /\ task[t].phase = "spawned"
  /\ task' = [task EXCEPT ![t].phase = "running", ![t].todo = room]
  /\ UNCHANGED <<redis, room, pending, linesState, sess, left, closed>>

Between(t) == task[t].phase = "running" /\ task[t].to = None

\* The clients are sent to one after the other.
BroadcastSends(t) ==
  /\ Between(t)
  /\ \E w \in task[t].todo :
       \/ /\ SendBegins(w)
          /\ task' = [task EXCEPT ![t].todo = @ \ {w}, ![t].to = w]
          /\ UNCHANGED <<room, closed, linesState>>
       \/ /\ DropsSlow(w, linesState)
          /\ task' = [task EXCEPT ![t].todo = @ \ {w}, ![t].dead = @ \cup {w}]
  /\ UNCHANGED <<redis, sess, left>>

\* (mutant: a send has no timeout and does not notice a peer that is gone)
BroadcastSentOnly(t, ok) ==
  /\ task[t].to # None
  /\ ok /\ Reachable(task[t].to)
  /\ SendEnds(task[t].to)
  /\ task' = [task EXCEPT ![t].to = None]
  /\ UNCHANGED <<redis, room, linesState, sess, left, closed>>

BroadcastSent(t, ok) ==
  /\ task[t].to # None
  /\ ok => Reachable(task[t].to)
  /\ SendEnds(task[t].to)
  /\ task' = [task EXCEPT ![t].to = None,
                          ![t].dead = IF ok THEN @ ELSE @ \cup {task[t].to}]
  /\ UNCHANGED <<redis, room, linesState, sess, left, closed>>

\* The clients a send failed for leave the room; their sessions go on.
BroadcastEnds(t) ==
  /\ Between(t)
  /\ task[t].todo = {}
  /\ Disconnect(task[t].dead, linesState)
  /\ task' = [task EXCEPT ![t] = Idle]
  /\ UNCHANGED <<redis, sess, left, closed>>

Session(w) ==
  \/ Connect(w) \/ ConnectFails(w)
  \/ \E ok \in BOOLEAN : Sent(w, ok)
  \/ Ping(w) \/ Snapshot(w) \/ RefreshSports(w)
  \/ HangsUp(w) \/ SessionEnds(w)

Broadcast(t) ==
  \/ BroadcastStarts(t) \/ BroadcastSends(t)
  \/ \E ok \in BOOLEAN : BroadcastSent(t, ok)
  \/ BroadcastEnds(t)

Next ==
  \/ \E w \in Sockets : Session(w)
  \/ \E t \in Broadcasts : Broadcast(t)

\* The loop runs what is ready, a send ends after WS_SEND_TIMEOUT_SEC at the
\* latest, and the receive of a socket that is gone raises.  Nobody has to
\* connect, to ask or to hang up.
Fairness ==
  /\ \A w \in Sockets : WF_hubVars(\E ok \in BOOLEAN : Sent(w, ok))
  /\ \A w \in Sockets : WF_hubVars(~Reachable(w) /\ SessionEnds(w))
  /\ \A t \in Broadcasts : WF_hubVars(Broadcast(t))

Spec == Init /\ [][Next]_hubVars /\ Fairness

-----------------------------------------------------------------------------
(* Properties *)

InFlight(w) ==
  Cardinality({t \in Broadcasts : task[t].to = w}) + (IF sess[w] = "sending" THEN 1 ELSE 0)

\* The backlog is real: pending stays within its limit and counts the sends in
\* flight to a client in the room exactly, however its sessions' and the broadcasts'
\* sends overlap, and never counts one that is over.
PendingCounts ==
  /\ TypeOK
  /\ \A w \in Sockets : /\ pending[w] <= InFlight(w)
                        /\ w \in room => pending[w] = InFlight(w)

Live == {w \in Sockets : sess[w] \in {"sending", "receiving"}}

\* Nothing is left behind: a socket in the room has a session, or is one whose
\* connect raised, and the lines kept for the fixture go with its last client.
NothingLeftBehind ==
  /\ room \subseteq Live \cup {w \in Sockets : sess[w] = "failed"}
  /\ linesState => room # {} \/ Live # {}

\* A client that hangs up is out of the room in the end, wherever its session
\* and the broadcasts are.
LeaversLeave == \A w \in Sockets : (w \in left /\ w \in Live) ~> w \notin room

\* A broadcast comes to its end whatever its clients do, and the next message
\* can be broadcast.
BroadcastsEnd == \A t \in Broadcasts : task[t].phase = "spawned" ~> task[t] = Idle
=============================================================================
