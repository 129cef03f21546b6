----------------------------- MODULE WsDelivery -----------------------------
(***************************************************************************)
(* What the clients of the WsHub see of the lines: a snapshot is what a    *)
(* session sends when it connects and when it is asked for one; every      *)
(* other message a session or a broadcast sends (pong, waiting,            *)
(* sports_update) leaves a client's lines alone (on_message of             *)
(* services/ws_lines_client.py).                                           *)
(***************************************************************************)
EXTENDS WsHub

VARIABLES
  onBus,     \* a message is on its way to the Redis listener
  payload,   \* what a session is sending, made stale by a price change
  shows      \* the lines a client shows: none yet, the cache's or older ones

deliveryVars == <<onBus, payload, shows>>

vars == <<hubVars, deliveryVars>>

DeliveryTypeOK ==
  /\ TypeOK
  /\ onBus \in BOOLEAN
  /\ payload \in [Sockets -> {"other", "fresh", "stale"}]
  /\ shows \in [Sockets -> {"nothing", "new", "old"}]

DeliveryInit ==
  /\ Init
  /\ onBus = FALSE
  /\ payload = [w \in Sockets |-> "other"]
  /\ shows = [w \in Sockets |-> "nothing"]

\* A feed's merge changes the lines and publishes them, from the worker or from
\* a thread of the API's pool: neither is the thread of the event loop.
LinesChange ==
  /\ shows' = [w \in Sockets |-> IF shows[w] = "new" THEN "old" ELSE shows[w]]
  /\ payload' = [w \in Sockets |-> IF payload[w] = "fresh" THEN "stale" ELSE payload[w]]
  /\ onBus' = redis
  /\ UNCHANGED hubVars

\* _on_bus_message finds no running loop in the listener's thread and returns.
ListenerDelivers ==
  /\ onBus
  /\ onBus' = FALSE
  /\ UNCHANGED <<hubVars, payload, shows>>

Sending(w, message) ==
  /\ payload' = IF sess'[w] = "sending" THEN [payload EXCEPT ![w] = message] ELSE payload
  /\ UNCHANGED <<onBus, shows>>

SnapshotBegins(w) == (Connect(w) \/ Snapshot(w)) /\ Sending(w, "fresh")

Arrives(w, ok) ==
  /\ Sent(w, ok)
  /\ shows' = IF ok /\ payload[w] # "other"
              THEN [shows EXCEPT ![w] = IF payload[w] = "fresh" THEN "new" ELSE "old"]
              ELSE shows
  /\ payload' = [payload EXCEPT ![w] = "other"]
  /\ UNCHANGED onBus

\* On Redis the sports_update goes the way of every other message.
SportsRefreshed(w) ==
  /\ RefreshSports(w)
  /\ onBus' \in {onBus, onBus \/ redis}
  /\ UNCHANGED <<payload, shows>>

DeliveryNext ==
  \/ LinesChange \/ ListenerDelivers
  \/ \E w \in Sockets :
       \/ SnapshotBegins(w)
       \/ \E ok \in BOOLEAN : Arrives(w, ok)
       \/ SportsRefreshed(w)
       \/ (ConnectFails(w) \/ Ping(w) \/ HangsUp(w) \/ SessionEnds(w)) /\ UNCHANGED deliveryVars
  \/ \E t \in Broadcasts : Broadcast(t) /\ UNCHANGED deliveryVars

DeliverySpec == DeliveryInit /\ [][DeliveryNext]_vars

-----------------------------------------------------------------------------
(* Properties *)

\* "Worker and API must share REDIS_URL for cross-process updates": with the
\* bus drained and no send under way, a client in the room shows the lines.
LinesPushed ==
  (redis /\ ~onBus /\ \A t \in Broadcasts : task[t] = Idle) =>
    \A w \in room : sess[w] = "receiving" => shows[w] # "old"
=============================================================================
