----------------------------- MODULE WsHubProofs -----------------------------
(***************************************************************************)
(* Proofs about the WebSocket hub, for every number of sockets and of      *)
(* broadcasts under way: the backlog counted against a client is the one   *)
(* there is, and nothing is kept for a fixture that has no client left.    *)
(***************************************************************************)
EXTENDS WsDelivery, FiniteSetTheorems, TLAPS

-----------------------------------------------------------------------------
(* The invariant *)

\* A socket that has not connected is in nobody's hands.
Fresh ==
  \A w \in Sockets : sess[w] = "none" =>
    /\ w \notin room
    /\ \A t \in Broadcasts : w \notin task[t].todo /\ task[t].to # w

Counts(w) ==
  /\ pending[w] <= InFlight(w)
  /\ w \in room => pending[w] = InFlight(w)

HubInv ==
  /\ TypeOK
  /\ Fresh
  /\ \A w \in Sockets : Counts(w)
  /\ NothingLeftBehind

-----------------------------------------------------------------------------
(* Sends in flight *)

SendsTo(w) == {t \in Broadcasts : task[t].to = w}

OwnSend(w) == IF sess[w] = "sending" THEN 1 ELSE 0

LEMMA InFlightIs ==
  ASSUME NEW w
  PROVE  /\ InFlight(w) = Cardinality(SendsTo(w)) + OwnSend(w)
         /\ InFlight(w)' = Cardinality(SendsTo(w)') + OwnSend(w)'
BY DEF InFlight, SendsTo, OwnSend

LEMMA SendsFinite ==
  ASSUME NEW w
  PROVE  /\ IsFiniteSet(SendsTo(w)) /\ Cardinality(SendsTo(w)) \in Nat
         /\ InFlight(w) \in Nat
<1>1. IsFiniteSet(SendsTo(w))
  BY FS_Subset, HubAssumption DEF SendsTo
<1> QED BY <1>1, FS_CardinalityType, InFlightIs DEF OwnSend

\* A step that moves no broadcast from or to a socket, nor a session's own send.
LEMMA InFlightSame ==
  ASSUME NEW w \in Sockets, sess'[w] = "sending" <=> sess[w] = "sending",
         \A t \in Broadcasts : task'[t].to = w <=> task[t].to = w
  PROVE  InFlight(w)' = InFlight(w)
<1>1. SendsTo(w)' = SendsTo(w)
  BY DEF SendsTo
<1>2. OwnSend(w)' = OwnSend(w)
  BY DEF OwnSend
<1> QED BY <1>1, <1>2, InFlightIs

\* A session's own send begins or ends.
LEMMA InFlightOwn ==
  ASSUME NEW w \in Sockets, \A t \in Broadcasts : task'[t].to = w <=> task[t].to = w
  PROVE  /\ sess[w] # "sending" /\ sess'[w] = "sending" => InFlight(w)' = InFlight(w) + 1
         /\ sess[w] = "sending" /\ sess'[w] # "sending" =>
              InFlight(w) > 0 /\ InFlight(w)' = InFlight(w) - 1
<1>1. SendsTo(w)' = SendsTo(w)
  BY DEF SendsTo
<1>2. Cardinality(SendsTo(w)) \in Nat
  BY SendsFinite
<1>3. /\ sess[w] # "sending" /\ sess'[w] = "sending" => OwnSend(w) = 0 /\ OwnSend(w)' = 1
      /\ sess[w] = "sending" /\ sess'[w] # "sending" => OwnSend(w) = 1 /\ OwnSend(w)' = 0
  BY DEF OwnSend
<1>4. /\ InFlight(w) = Cardinality(SendsTo(w)) + OwnSend(w)
      /\ InFlight(w)' = Cardinality(SendsTo(w)) + OwnSend(w)'
  BY <1>1, InFlightIs
<1> QED BY <1>2, <1>3, <1>4

\* A broadcast's send begins or ends.
LEMMA InFlightBroadcast ==
  ASSUME NEW w \in Sockets, sess' = sess, NEW t \in Broadcasts,
         \A u \in Broadcasts \ {t} : task'[u].to = task[u].to
  PROVE  /\ task[t].to # w /\ task'[t].to = w => InFlight(w)' = InFlight(w) + 1
         /\ task[t].to = w /\ task'[t].to # w =>
              InFlight(w) > 0 /\ InFlight(w)' = InFlight(w) - 1
<1>0. IsFiniteSet(SendsTo(w)) /\ IsFiniteSet(SendsTo(w)') /\ OwnSend(w)' = OwnSend(w)
  <2>1. IsFiniteSet(SendsTo(w)')
    BY FS_Subset, HubAssumption DEF SendsTo
  <2> QED BY <2>1, SendsFinite DEF OwnSend
<1>1. ASSUME task[t].to # w, task'[t].to = w PROVE InFlight(w)' = InFlight(w) + 1
  <2>1. SendsTo(w)' = SendsTo(w) \cup {t} /\ t \notin SendsTo(w)
    BY <1>1 DEF SendsTo
  <2>2. Cardinality(SendsTo(w)') = Cardinality(SendsTo(w)) + 1
    BY <1>0, <2>1, FS_AddElement
  <2> QED BY <1>0, <2>2, InFlightIs, SendsFinite DEF OwnSend
<1>2. ASSUME task[t].to = w, task'[t].to # w
      PROVE  InFlight(w) > 0 /\ InFlight(w)' = InFlight(w) - 1
  <2>1. SendsTo(w) = SendsTo(w)' \cup {t} /\ t \notin SendsTo(w)'
    BY <1>2 DEF SendsTo
  <2>2. Cardinality(SendsTo(w)) = Cardinality(SendsTo(w)') + 1
    BY <1>0, <2>1, FS_AddElement
  <2>3. Cardinality(SendsTo(w)') \in Nat
    BY <1>0, FS_CardinalityType
  <2>4. /\ InFlight(w) = Cardinality(SendsTo(w)) + OwnSend(w)
        /\ InFlight(w)' = Cardinality(SendsTo(w)') + OwnSend(w)
    BY <1>0, InFlightIs
  <2>5. OwnSend(w) \in Nat
    BY DEF OwnSend
  <2> QED BY <2>2, <2>3, <2>4, <2>5
<1> QED BY <1>1, <1>2

-----------------------------------------------------------------------------
(* What the steps do to the counts *)

\* A send begins; who is in the room then has been counted exactly.
LEMMA CountsBegin ==
  ASSUME pending \in [Sockets -> Nat], \A v \in Sockets : Counts(v),
         NEW w \in Sockets, pending' = [pending EXCEPT ![w] = @ + 1],
         InFlight(w)' = InFlight(w) + 1,
         \A v \in Sockets \ {w} : InFlight(v)' = InFlight(v),
         \A v \in Sockets : v \in room' => pending[v] = InFlight(v)
  PROVE  \A v \in Sockets : Counts(v)'
<1> SUFFICES ASSUME NEW v \in Sockets PROVE Counts(v)'
  OBVIOUS
<1>1. InFlight(v) \in Nat /\ pending[v] \in Nat
  BY SendsFinite
<1>2. CASE v = w
  <2>1. pending'[v] = pending[v] + 1 /\ InFlight(v)' = InFlight(v) + 1
    BY <1>2
  <2> QED BY <1>1, <2>1 DEF Counts
<1>3. CASE v # w
  <2>1. pending'[v] = pending[v] /\ InFlight(v)' = InFlight(v)
    BY <1>3
  <2> QED BY <2>1 DEF Counts
<1> QED BY <1>2, <1>3

\* A send is over.
LEMMA CountsEnd ==
  ASSUME pending \in [Sockets -> Nat], \A v \in Sockets : Counts(v),
         NEW w \in Sockets, SendEnds(w), InFlight(w) > 0, InFlight(w)' = InFlight(w) - 1,
         \A v \in Sockets \ {w} : InFlight(v)' = InFlight(v),
         room' = room
  PROVE  \A v \in Sockets : Counts(v)'
<1> SUFFICES ASSUME NEW v \in Sockets PROVE Counts(v)'
  OBVIOUS
<1>1. InFlight(v) \in Nat /\ pending[v] \in Nat
  BY SendsFinite
<1>2. CASE v = w
  <2>1. /\ pending'[v] = IF pending[v] = 0 THEN 0 ELSE pending[v] - 1
        /\ InFlight(v) > 0 /\ InFlight(v)' = InFlight(v) - 1
    BY <1>2 DEF SendEnds
  <2> QED BY <1>1, <2>1 DEF Counts
<1>3. CASE v # w
  <2>1. pending'[v] = pending[v] /\ InFlight(v)' = InFlight(v)
    BY <1>3 DEF SendEnds
  <2> QED BY <2>1 DEF Counts
<1> QED BY <1>2, <1>3

\* Sockets leave the room, and their counts with them.
LEMMA CountsDrop ==
  ASSUME pending \in [Sockets -> Nat], \A v \in Sockets : Counts(v),
         NEW ws, NEW lines, Disconnect(ws, lines),
         \A v \in Sockets : InFlight(v)' = InFlight(v)
  PROVE  \A v \in Sockets : Counts(v)'
<1> SUFFICES ASSUME NEW v \in Sockets PROVE Counts(v)'
  OBVIOUS
<1>1. InFlight(v) \in Nat
  BY SendsFinite
<1> QED BY <1>1 DEF Counts, Disconnect

LEMMA CountsSame ==
  ASSUME \A v \in Sockets : Counts(v), pending' = pending,
         \A v \in Sockets : InFlight(v)' = InFlight(v),
         \A v \in Sockets : v \in room' => pending[v] = InFlight(v)
  PROVE  \A v \in Sockets : Counts(v)'
BY DEF Counts

-----------------------------------------------------------------------------
(* Types *)

LEMMA SendTypes ==
  ASSUME pending \in [Sockets -> 0 .. MaxPending], NEW w \in Sockets
  PROVE  /\ SendBegins(w) => pending' \in [Sockets -> 0 .. MaxPending]
         /\ SendEnds(w) => pending' \in [Sockets -> 0 .. MaxPending]
<1>0. pending[w] \in 0 .. MaxPending /\ MaxPending \in Nat
  BY HubAssumption
<1>1. ASSUME SendBegins(w) PROVE pending' \in [Sockets -> 0 .. MaxPending]
  <2>1. pending[w] + 1 \in 0 .. MaxPending
    BY <1>0, <1>1 DEF SendBegins
  <2> QED BY <1>1, <2>1 DEF SendBegins
<1>2. ASSUME SendEnds(w) PROVE pending' \in [Sockets -> 0 .. MaxPending]
  <2>1. (IF pending[w] = 0 THEN 0 ELSE pending[w] - 1) \in 0 .. MaxPending
    BY <1>0
  <2> QED BY <1>2, <2>1 DEF SendEnds
<1> QED BY <1>1, <1>2

LEMMA DisconnectTypes ==
  ASSUME TypeOK, NEW ws, NEW lines \in BOOLEAN, Disconnect(ws, lines)
  PROVE  /\ room' \subseteq Sockets /\ linesState' \in BOOLEAN
         /\ pending' \in [Sockets -> 0 .. MaxPending]
BY HubAssumption DEF TypeOK, Disconnect

\* An answer moves the room, the count and the lines, and its own session.
LEMMA AnswerTypes ==
  ASSUME TypeOK, NEW w \in Sockets, Answer(w)
  PROVE  /\ room' \subseteq Sockets /\ linesState' \in BOOLEAN /\ closed' \subseteq Sockets
         /\ pending' \in [Sockets -> 0 .. MaxPending]
         /\ sess' \in [Sockets -> {"none", "sending", "receiving", "over", "failed"}]
<1>0. /\ linesState \in BOOLEAN /\ room \subseteq Sockets /\ closed \subseteq Sockets
      /\ pending \in [Sockets -> 0 .. MaxPending]
      /\ sess \in [Sockets -> {"none", "sending", "receiving", "over", "failed"}]
  BY DEF TypeOK
<1>1. CASE SendBegins(w) /\ sess' = [sess EXCEPT ![w] = "sending"]
           /\ UNCHANGED <<room, closed, linesState>>
  BY <1>0, <1>1, SendTypes
<1>2. CASE DropsSlow(w, linesState) /\ UNCHANGED sess
  BY <1>0, <1>2, DisconnectTypes DEF DropsSlow
<1> QED BY <1>1, <1>2 DEF Answer

LEMMA SessionTypes ==
  ASSUME TypeOK, NEW w \in Sockets, Session(w)
  PROVE  TypeOK'
<1> DEFINE TaskType == [Broadcasts -> [phase : {"idle", "spawned", "running"},
                                       todo : SUBSET Sockets, to : Sockets \cup {None},
                                       dead : SUBSET Sockets]]
           SessType == [Sockets -> {"none", "sending", "receiving", "over", "failed"}]
<1>0. /\ redis \in BOOLEAN /\ linesState \in BOOLEAN /\ room \subseteq Sockets
      /\ closed \subseteq Sockets /\ left \subseteq Sockets
      /\ pending \in [Sockets -> 0 .. MaxPending] /\ sess \in SessType /\ task \in TaskType
  BY DEF TypeOK
<1> SUFFICES /\ redis' \in BOOLEAN /\ linesState' \in BOOLEAN /\ room' \subseteq Sockets
             /\ closed' \subseteq Sockets /\ left' \subseteq Sockets
             /\ pending' \in [Sockets -> 0 .. MaxPending] /\ sess' \in SessType /\ task' \in TaskType
  BY DEF TypeOK
<1> HIDE DEF TaskType
<1>1. CASE Connect(w)
  BY <1>0, <1>1, SendTypes DEF Connect
<1>2. CASE ConnectFails(w)
  BY <1>0, <1>2 DEF ConnectFails
<1>3. ASSUME NEW ok \in BOOLEAN, Sent(w, ok) PROVE TypeOK'
  BY <1>0, <1>3, SendTypes DEF Sent, TypeOK, TaskType
<1>4. CASE Ping(w)
  BY <1>0, <1>4, AnswerTypes DEF Ping
<1>5. CASE Snapshot(w)
  <2>1. CASE SendBegins(w) /\ sess' = [sess EXCEPT ![w] = "sending"]
             /\ linesState' = TRUE /\ UNCHANGED <<room, closed>>
    BY <1>0, <1>5, <2>1, SendTypes DEF Snapshot
  <2>2. CASE DropsSlow(w, TRUE) /\ UNCHANGED sess
    BY <1>0, <1>5, <2>2, DisconnectTypes DEF Snapshot, DropsSlow
  <2> QED BY <1>5, <2>1, <2>2 DEF Snapshot
<1>6. CASE RefreshSports(w)
  <2>1. task' \in TaskType
    BY <1>0, <1>6 DEF RefreshSports, TaskType
  <2> QED BY <1>0, <1>6, <2>1, AnswerTypes DEF RefreshSports
<1>7. CASE HangsUp(w)
  BY <1>0, <1>7 DEF HangsUp
<1>8. CASE SessionEnds(w)
  BY <1>0, <1>8, DisconnectTypes DEF SessionEnds
<1> QED BY <1>1, <1>2, <1>3, <1>4, <1>5, <1>6, <1>7, <1>8 DEF Session, TypeOK, TaskType

LEMMA BroadcastTypes ==
  ASSUME TypeOK, NEW t \in Broadcasts, Broadcast(t)
  PROVE  TypeOK'
<1> DEFINE Client == [phase : {"idle", "spawned", "running"}, todo : SUBSET Sockets,
                      to : Sockets \cup {None}, dead : SUBSET Sockets]
<1>0. /\ redis \in BOOLEAN /\ linesState \in BOOLEAN /\ room \subseteq Sockets
      /\ closed \subseteq Sockets /\ left \subseteq Sockets
      /\ pending \in [Sockets -> 0 .. MaxPending]
      /\ task \in [Broadcasts -> Client]
  BY DEF TypeOK
<1>1. CASE BroadcastStarts(t)
  <2>1. PICK c \in Client : task' = [task EXCEPT ![t] = c]
    <3>1. [task[t] EXCEPT !.phase = "running", !.todo = room] \in Client
      BY <1>0
    <3> QED BY <1>1, <3>1 DEF BroadcastStarts
  <2>2. task' \in [Broadcasts -> Client]
    BY <1>0, <2>1
  <2> QED BY <1>1, <2>2 DEF BroadcastStarts, TypeOK
<1>2. CASE BroadcastSends(t)
  <2>1. PICK w \in task[t].todo :
          \/ /\ SendBegins(w)
             /\ task' = [task EXCEPT ![t].todo = @ \ {w}, ![t].to = w]
             /\ UNCHANGED <<room, closed, linesState>>
          \/ /\ DropsSlow(w, linesState)
             /\ task' = [task EXCEPT ![t].todo = @ \ {w}, ![t].dead = @ \cup {w}]
    BY <1>2 DEF BroadcastSends
  <2>2. w \in Sockets
    BY <1>0
  <2>3. task' \in [Broadcasts -> Client]
    BY <1>0, <2>1, <2>2
  <2>4. /\ linesState' \in BOOLEAN /\ room' \subseteq Sockets /\ closed' \subseteq Sockets
        /\ pending' \in [Sockets -> 0 .. MaxPending]
    BY <1>0, <2>1, <2>2, SendTypes, DisconnectTypes DEF DropsSlow
  <2> QED BY <1>2, <2>3, <2>4 DEF BroadcastSends, TypeOK
<1>3. ASSUME NEW ok \in BOOLEAN, BroadcastSent(t, ok) PROVE TypeOK'
  <2>1. task[t].to \in Sockets
    BY <1>0, <1>3 DEF BroadcastSent
  <2>2. PICK dead \in SUBSET Sockets :
          task' = [task EXCEPT ![t].to = None, ![t].dead = dead]
    <3>1. /\ task[t].dead \in SUBSET Sockets
          /\ task[t].dead \cup {task[t].to} \in SUBSET Sockets
      BY <1>0, <2>1
    <3>2. CASE ok
      BY <1>3, <3>1, <3>2 DEF BroadcastSent
    <3>3. CASE ~ ok
      BY <1>3, <3>1, <3>3 DEF BroadcastSent
    <3> QED BY <3>2, <3>3
  <2>3. task' \in [Broadcasts -> Client]
    <3>1. [task[t] EXCEPT !.to = None, !.dead = dead] \in Client
      BY <1>0
    <3>2. task' = [task EXCEPT ![t] = [task[t] EXCEPT !.to = None, !.dead = dead]]
      BY <2>2
    <3> QED BY <1>0, <3>1, <3>2
  <2>4. pending' \in [Sockets -> 0 .. MaxPending]
    BY <1>0, <1>3, <2>1, SendTypes DEF BroadcastSent
  <2> QED BY <1>3, <2>3, <2>4 DEF BroadcastSent, TypeOK
<1>4. CASE BroadcastEnds(t)
  <2>1. task' \in [Broadcasts -> Client]
    BY <1>0, <1>4 DEF BroadcastEnds, Idle
  <2>2. /\ linesState' \in BOOLEAN /\ room' \subseteq Sockets
        /\ pending' \in [Sockets -> 0 .. MaxPending]
    BY <1>0, <1>4, DisconnectTypes DEF BroadcastEnds
  <2> QED BY <1>4, <2>1, <2>2 DEF BroadcastEnds, TypeOK
<1> QED BY <1>1, <1>2, <1>3, <1>4 DEF Broadcast

-----------------------------------------------------------------------------
(* Sockets that have not connected *)

LEMMA FreshKept ==
  ASSUME Fresh,
         \A v \in Sockets : sess'[v] = "none" =>
           /\ sess[v] = "none" /\ (v \in room' => v \in room)
           /\ \A t \in Broadcasts : /\ v \in task'[t].todo => v \in task[t].todo \cup room
                                    /\ task'[t].to = v => task[t].to = v \/ v \in task[t].todo
  PROVE  Fresh'
<1> SUFFICES ASSUME NEW v \in Sockets, sess'[v] = "none"
    PROVE  /\ v \notin room'
           /\ \A t \in Broadcasts : v \notin task'[t].todo /\ task'[t].to # v
  BY DEF Fresh
<1>1. v \notin room /\ \A t \in Broadcasts : v \notin task[t].todo /\ task[t].to # v
  BY DEF Fresh
<1>2. v \notin room'
  BY <1>1
<1>3. ASSUME NEW t \in Broadcasts PROVE v \notin task'[t].todo /\ task'[t].to # v
  BY <1>1
<1> QED BY <1>2, <1>3

LEMMA SessionFresh ==
  ASSUME TypeOK, Fresh, NEW w \in Sockets, Session(w)
  PROVE  Fresh'
<1>0. /\ sess \in [Sockets -> {"none", "sending", "receiving", "over", "failed"}]
      /\ task \in [Broadcasts -> [phase : {"idle", "spawned", "running"}, todo : SUBSET Sockets,
                                  to : Sockets \cup {None}, dead : SUBSET Sockets]]
  BY DEF TypeOK
<1>1. \A t \in Broadcasts : task'[t].todo = task[t].todo /\ task'[t].to = task[t].to
  <2>1. CASE task' = task
    BY <2>1
  <2>2. ASSUME NEW u \in Broadcasts, task' = [task EXCEPT ![u].phase = "spawned"]
        PROVE  \A t \in Broadcasts : task'[t].todo = task[t].todo /\ task'[t].to = task[t].to
    BY <1>0, <2>2
  <2> QED BY <2>1, <2>2 DEF Session, Connect, ConnectFails, Sent, Ping, Snapshot, RefreshSports,
                            HangsUp, SessionEnds
<1>2. \A v \in Sockets : sess'[v] = "none" => sess[v] = "none" /\ (v \in room' => v \in room)
  <2>1. CASE Connect(w) \/ ConnectFails(w)
    BY <1>0, <2>1 DEF Connect, ConnectFails
  <2>2. ASSUME NEW ok \in BOOLEAN, Sent(w, ok)
        PROVE  \A v \in Sockets : sess'[v] = "none" => sess[v] = "none" /\ (v \in room' => v \in room)
    BY <1>0, <2>2 DEF Sent
  <2>3. CASE Ping(w) \/ Snapshot(w) \/ RefreshSports(w)
    <3>1. \A ws, lines : Disconnect(ws, lines) => room' \subseteq room
      BY DEF Disconnect
    <3> QED BY <1>0, <2>3, <3>1 DEF Ping, Snapshot, RefreshSports, Answer, DropsSlow
  <2>4. CASE HangsUp(w) \/ SessionEnds(w)
    BY <1>0, <2>4 DEF HangsUp, SessionEnds, Disconnect
  <2> QED BY <2>1, <2>2, <2>3, <2>4 DEF Session
<1> QED BY <1>1, <1>2, FreshKept

LEMMA BroadcastFresh ==
  ASSUME TypeOK, Fresh, NEW t \in Broadcasts, Broadcast(t)
  PROVE  Fresh'
<1>0. task \in [Broadcasts -> [phase : {"idle", "spawned", "running"}, todo : SUBSET Sockets,
                               to : Sockets \cup {None}, dead : SUBSET Sockets]]
  BY DEF TypeOK
<1>1. sess' = sess
  BY DEF Broadcast, BroadcastStarts, BroadcastSends, BroadcastSent, BroadcastEnds
<1>2. CASE BroadcastStarts(t)
  BY <1>0, <1>1, <1>2, FreshKept DEF BroadcastStarts
<1>3. CASE BroadcastSends(t)
  <2>1. PICK w \in task[t].todo :
          \/ /\ SendBegins(w)
             /\ task' = [task EXCEPT ![t].todo = @ \ {w}, ![t].to = w]
             /\ UNCHANGED <<room, closed, linesState>>
          \/ /\ DropsSlow(w, linesState)
             /\ task' = [task EXCEPT ![t].todo = @ \ {w}, ![t].dead = @ \cup {w}]
    BY <1>3 DEF BroadcastSends
  <2>2. room' \subseteq room
    BY <2>1 DEF DropsSlow, Disconnect
  <2>3. \A u \in Broadcasts : /\ task'[u].todo \subseteq task[u].todo
                              /\ task'[u].to = task[u].to \/ task'[u].to \in task[u].todo
    BY <1>0, <2>1
  <2> QED BY <1>1, <2>2, <2>3, FreshKept
<1>4. ASSUME NEW ok \in BOOLEAN, BroadcastSent(t, ok) PROVE Fresh'
  <2>1. \A u \in Broadcasts : /\ task'[u].todo = task[u].todo
                              /\ task'[u].to = task[u].to \/ task'[u].to = None
    BY <1>0, <1>4 DEF BroadcastSent
  <2> QED BY <1>1, <1>4, <2>1, FreshKept, HubAssumption DEF BroadcastSent
<1>5. CASE BroadcastEnds(t)
  <2>1. \A u \in Broadcasts : /\ task'[u].todo \subseteq task[u].todo
                              /\ task'[u].to = task[u].to \/ task'[u].to = None
    BY <1>0, <1>5 DEF BroadcastEnds, Idle
  <2> QED BY <1>1, <1>5, <2>1, FreshKept, HubAssumption DEF BroadcastEnds, Disconnect
<1> QED BY <1>2, <1>3, <1>4, <1>5 DEF Broadcast

-----------------------------------------------------------------------------
(* What is left behind *)

Failed == {w \in Sockets : sess[w] = "failed"}

\* A disconnect: who leaves the room is no longer looked for, and an empty room
\* keeps its lines only if nobody was taken out.
LEMMA DisconnectLeavesNothing ==
  ASSUME NothingLeftBehind, NEW ws, NEW lines \in BOOLEAN, Disconnect(ws, lines),
         lines => linesState \/ ws # {},
         Live \subseteq Live' \cup ws, Failed' = Failed, Live # {} => Live' # {} \/ ws # {}
  PROVE  NothingLeftBehind'
BY DEF NothingLeftBehind, Disconnect, Failed

LEMMA SessionLeavesNothing ==
  ASSUME TypeOK, NothingLeftBehind, NEW w \in Sockets, Session(w)
  PROVE  NothingLeftBehind'
<1>0. /\ linesState \in BOOLEAN
      /\ sess \in [Sockets -> {"none", "sending", "receiving", "over", "failed"}]
  BY DEF TypeOK
<1> DEFINE Goal == NothingLeftBehind'
\* the session has begun a send: it is live, and so is everyone who was
<1>1. ASSUME sess[w] \in {"none", "receiving"}, sess' = [sess EXCEPT ![w] = "sending"],
             room' \subseteq room \cup {w}
      PROVE  Goal
  <2>1. w \in Live' /\ Live \subseteq Live' /\ Failed \subseteq Failed'
    BY <1>0, <1>1 DEF Live, Failed
  <2> QED BY <1>1, <2>1 DEF NothingLeftBehind, Failed
<1>2. ASSUME NEW lines \in BOOLEAN, DropsSlow(w, lines), UNCHANGED sess PROVE Goal
  <2>1. Disconnect({w}, lines) /\ Live' = Live /\ Failed' = Failed
    BY <1>2 DEF DropsSlow, Live, Failed
  <2> QED BY <2>1, DisconnectLeavesNothing
<1>3. ASSUME Answer(w), sess[w] = "receiving" PROVE Goal
  BY <1>0, <1>1, <1>2, <1>3 DEF Answer
<1>4. CASE Connect(w)
  BY <1>1, <1>4 DEF Connect
<1>5. CASE ConnectFails(w)
  <2>1. w \in Failed' /\ w \in room' /\ Live \subseteq Live' /\ Failed \subseteq Failed'
    BY <1>0, <1>5 DEF ConnectFails, Live, Failed
  <2> QED BY <1>5, <2>1 DEF ConnectFails, NothingLeftBehind, Failed
<1>6. ASSUME NEW ok \in BOOLEAN, Sent(w, ok) PROVE Goal
  <2>1. Live' = Live /\ Failed' = Failed
    BY <1>0, <1>6 DEF Sent, Live, Failed
  <2> QED BY <1>6, <2>1 DEF Sent, NothingLeftBehind, Failed
<1>7. CASE Ping(w) \/ RefreshSports(w)
  BY <1>3, <1>7 DEF Ping, RefreshSports, Receives
<1>8. CASE Snapshot(w)
  BY <1>1, <1>2, <1>8 DEF Snapshot, Receives
<1>9. CASE HangsUp(w)
  BY <1>9 DEF HangsUp, NothingLeftBehind, Live
<1>10. CASE SessionEnds(w)
  <2>1. Live \subseteq Live' \cup {w} /\ Failed' = Failed
    BY <1>0, <1>10 DEF SessionEnds, Live, Failed
  <2> QED BY <1>0, <1>10, <2>1, DisconnectLeavesNothing DEF SessionEnds
<1> QED BY <1>4, <1>5, <1>6, <1>7, <1>8, <1>9, <1>10 DEF Session

LEMMA BroadcastLeavesNothing ==
  ASSUME TypeOK, NothingLeftBehind, NEW t \in Broadcasts, Broadcast(t)
  PROVE  NothingLeftBehind'
<1>1. Live' = Live /\ Failed' = Failed
  BY DEF Broadcast, BroadcastStarts, BroadcastSends, BroadcastSent, BroadcastEnds, Live, Failed
<1>2. \/ UNCHANGED <<room, linesState>>
      \/ \E ws : Disconnect(ws, linesState)
  BY DEF Broadcast, BroadcastStarts, BroadcastSends, BroadcastSent, BroadcastEnds, DropsSlow
<1>3. CASE UNCHANGED <<room, linesState>>
  BY <1>1, <1>3 DEF NothingLeftBehind, Failed
<1>4. ASSUME NEW ws, Disconnect(ws, linesState) PROVE NothingLeftBehind'
  BY <1>1, <1>4, DisconnectLeavesNothing DEF TypeOK
<1> QED BY <1>2, <1>3, <1>4

-----------------------------------------------------------------------------
(* The counts *)

LEMMA SessionCounts ==
  ASSUME HubInv, NEW w \in Sockets, Session(w)
  PROVE  \A v \in Sockets : Counts(v)'
<1> DEFINE Goal == \A v \in Sockets : Counts(v)'
<1>0. /\ sess \in [Sockets -> {"none", "sending", "receiving", "over", "failed"}]
      /\ pending \in [Sockets -> 0 .. MaxPending] /\ pending \in [Sockets -> Nat]
      /\ Fresh /\ \A v \in Sockets : Counts(v)
  BY HubAssumption DEF HubInv, TypeOK
<1>1. \A v \in Sockets : \A t \in Broadcasts : task'[t].to = v <=> task[t].to = v
  <2>1. CASE task' = task
    BY <2>1
  <2>2. ASSUME NEW u \in Broadcasts, task' = [task EXCEPT ![u].phase = "spawned"]
        PROVE  \A t \in Broadcasts : task'[t].to = task[t].to
    BY <2>2 DEF HubInv, TypeOK
  <2> QED BY <2>1, <2>2 DEF Session, Connect, ConnectFails, Sent, Ping, Snapshot, RefreshSports,
                            HangsUp, SessionEnds
<1>2. \A v \in Sockets : v \in room => pending[v] = InFlight(v)
  BY <1>0 DEF Counts
\* a send of its own begins
<1>3. ASSUME sess[w] # "sending", SendBegins(w), sess' = [sess EXCEPT ![w] = "sending"],
             \A v \in Sockets : v \in room' => pending[v] = InFlight(v)
      PROVE  Goal
  <2>1. InFlight(w)' = InFlight(w) + 1
    BY <1>0, <1>1, <1>3, InFlightOwn
  <2>2. \A v \in Sockets \ {w} : InFlight(v)' = InFlight(v)
    BY <1>0, <1>1, <1>3, InFlightSame
  <2> QED BY <1>0, <1>3, <2>1, <2>2, CountsBegin DEF SendBegins
\* a client with a full backlog is dropped
<1>4. ASSUME NEW lines, Disconnect({w}, lines),
             \A v \in Sockets : sess'[v] = "sending" <=> sess[v] = "sending"
      PROVE  Goal
  <2>1. \A v \in Sockets : InFlight(v)' = InFlight(v)
    BY <1>1, <1>4, InFlightSame
  <2> QED BY <1>0, <1>4, <2>1, CountsDrop
<1>5. ASSUME Answer(w), sess[w] = "receiving" PROVE Goal
  <2>1. CASE SendBegins(w) /\ sess' = [sess EXCEPT ![w] = "sending"]
             /\ UNCHANGED <<room, closed, linesState>>
    BY <1>2, <1>3, <1>5, <2>1
  <2>2. CASE DropsSlow(w, linesState) /\ UNCHANGED sess
    BY <1>4, <2>2 DEF DropsSlow
  <2> QED BY <1>5, <2>1, <2>2 DEF Answer
\* a socket that connects has no send in flight
<1>6. sess[w] = "none" => pending[w] = InFlight(w)
  <2> SUFFICES ASSUME sess[w] = "none" PROVE pending[w] = InFlight(w)
    OBVIOUS
  <2>1. SendsTo(w) = {} /\ OwnSend(w) = 0
    BY <1>0 DEF Fresh, SendsTo, OwnSend
  <2>2. InFlight(w) = 0
    BY <2>1, InFlightIs, FS_EmptySet
  <2> QED BY <1>0, <2>2 DEF Counts
<1>7. CASE Connect(w)
  <2>1. \A v \in Sockets : v \in room' => pending[v] = InFlight(v)
    BY <1>2, <1>6, <1>7 DEF Connect
  <2> QED BY <1>3, <1>7, <2>1 DEF Connect
<1>8. CASE ConnectFails(w)
  <2>1. \A v \in Sockets : v \in room' => pending[v] = InFlight(v)
    BY <1>2, <1>6, <1>8 DEF ConnectFails
  <2>2. \A v \in Sockets : InFlight(v)' = InFlight(v)
    BY <1>0, <1>1, <1>8, InFlightSame DEF ConnectFails
  <2> QED BY <1>0, <1>8, <2>1, <2>2, CountsSame DEF ConnectFails
<1>9. ASSUME NEW ok \in BOOLEAN, Sent(w, ok) PROVE Goal
  <2>1. InFlight(w) > 0 /\ InFlight(w)' = InFlight(w) - 1
    BY <1>0, <1>1, <1>9, InFlightOwn DEF Sent
  <2>2. \A v \in Sockets \ {w} : InFlight(v)' = InFlight(v)
    BY <1>0, <1>1, <1>9, InFlightSame DEF Sent
  <2> QED BY <1>0, <1>9, <2>1, <2>2, CountsEnd DEF Sent
<1>10. CASE Ping(w) \/ RefreshSports(w)
  BY <1>5, <1>10 DEF Ping, RefreshSports, Receives
<1>11. CASE Snapshot(w)
  <2>1. CASE SendBegins(w) /\ sess' = [sess EXCEPT ![w] = "sending"] /\ room' = room
    BY <1>2, <1>3, <1>11, <2>1 DEF Snapshot, Receives
  <2>2. CASE DropsSlow(w, TRUE) /\ UNCHANGED sess
    BY <1>4, <2>2 DEF DropsSlow
  <2> QED BY <1>11, <2>1, <2>2 DEF Snapshot
<1>12. CASE HangsUp(w)
  <2>1. \A v \in Sockets : InFlight(v)' = InFlight(v)
    BY <1>1, <1>12, InFlightSame DEF HangsUp
  <2> QED BY <1>0, <1>2, <1>12, <2>1, CountsSame DEF HangsUp
<1>13. CASE SessionEnds(w)
  BY <1>0, <1>4, <1>13 DEF SessionEnds
<1> QED BY <1>7, <1>8, <1>9, <1>10, <1>11, <1>12, <1>13 DEF Session

LEMMA BroadcastCounts ==
  ASSUME HubInv, NEW t \in Broadcasts, Broadcast(t)
  PROVE  \A v \in Sockets : Counts(v)'
<1>0. /\ pending \in [Sockets -> Nat] /\ \A v \in Sockets : Counts(v)
      /\ task \in [Broadcasts -> [phase : {"idle", "spawned", "running"}, todo : SUBSET Sockets,
                                  to : Sockets \cup {None}, dead : SUBSET Sockets]]
  BY HubAssumption DEF HubInv, TypeOK
<1>1. sess' = sess
  BY DEF Broadcast, BroadcastStarts, BroadcastSends, BroadcastSent, BroadcastEnds
<1>2. \A v \in Sockets : v \in room => pending[v] = InFlight(v)
  BY <1>0 DEF Counts
<1>3. ASSUME \A u \in Broadcasts : task'[u].to = task[u].to
      PROVE  \A v \in Sockets : InFlight(v)' = InFlight(v)
  BY <1>1, <1>3, InFlightSame
<1>4. CASE BroadcastStarts(t)
  <2>1. \A u \in Broadcasts : task'[u].to = task[u].to
    BY <1>0, <1>4 DEF BroadcastStarts
  <2> QED BY <1>0, <1>2, <1>3, <1>4, <2>1, CountsSame DEF BroadcastStarts
<1>5. CASE BroadcastSends(t)
  <2>1. PICK w \in task[t].todo :
          \/ /\ SendBegins(w)
             /\ task' = [task EXCEPT ![t].todo = @ \ {w}, ![t].to = w]
             /\ UNCHANGED <<room, closed, linesState>>
          \/ /\ DropsSlow(w, linesState)
             /\ task' = [task EXCEPT ![t].todo = @ \ {w}, ![t].dead = @ \cup {w}]
    BY <1>5 DEF BroadcastSends
  <2>2. w \in Sockets /\ w # None
    BY <1>0, HubAssumption
  <2>3. CASE SendBegins(w) /\ task' = [task EXCEPT ![t].todo = @ \ {w}, ![t].to = w] /\ room' = room
    <3>1. task[t].to = None /\ task'[t].to = w /\ \A u \in Broadcasts \ {t} : task'[u].to = task[u].to
      BY <1>0, <1>5, <2>3 DEF BroadcastSends, Between
    <3>2. InFlight(w)' = InFlight(w) + 1
      BY <1>1, <2>2, <3>1, InFlightBroadcast
    <3>3. ASSUME NEW v \in Sockets \ {w} PROVE InFlight(v)' = InFlight(v)
      <4>1. \A u \in Broadcasts : task'[u].to = v <=> task[u].to = v
        BY <3>1, HubAssumption
      <4> QED BY <1>1, <4>1, InFlightSame
    <3> QED BY <1>0, <1>2, <2>2, <2>3, <3>2, <3>3, CountsBegin DEF SendBegins
  <2>4. CASE DropsSlow(w, linesState)
             /\ task' = [task EXCEPT ![t].todo = @ \ {w}, ![t].dead = @ \cup {w}]
    <3>1. \A u \in Broadcasts : task'[u].to = task[u].to
      BY <1>0, <2>4
    <3> QED BY <1>0, <1>3, <2>4, <3>1, CountsDrop DEF DropsSlow
  <2> QED BY <2>1, <2>3, <2>4
<1>6. ASSUME NEW ok \in BOOLEAN, BroadcastSent(t, ok) PROVE \A v \in Sockets : Counts(v)'
  <2>1. PICK w \in Sockets : w = task[t].to
    BY <1>0, <1>6 DEF BroadcastSent
  <2>2. task'[t].to = None /\ \A u \in Broadcasts \ {t} : task'[u].to = task[u].to
    BY <1>0, <1>6 DEF BroadcastSent
  <2>3. InFlight(w) > 0 /\ InFlight(w)' = InFlight(w) - 1
    BY <1>1, <2>1, <2>2, InFlightBroadcast, HubAssumption
  <2>4. ASSUME NEW v \in Sockets \ {w} PROVE InFlight(v)' = InFlight(v)
    <3>1. \A u \in Broadcasts : task'[u].to = v <=> task[u].to = v
      BY <2>1, <2>2, HubAssumption
    <3> QED BY <1>1, <3>1, InFlightSame
  <2> QED BY <1>0, <1>6, <2>1, <2>3, <2>4, CountsEnd DEF BroadcastSent
<1>7. CASE BroadcastEnds(t)
  <2>1. \A u \in Broadcasts : task'[u].to = task[u].to
    BY <1>0, <1>7 DEF BroadcastEnds, Between, Idle
  <2>2. \A v \in Sockets : InFlight(v)' = InFlight(v)
    BY <1>3, <2>1
  <2>3. Disconnect(task[t].dead, linesState)
    BY <1>7 DEF BroadcastEnds
  <2> QED BY <1>0, <2>2, <2>3, CountsDrop
<1> QED BY <1>4, <1>5, <1>6, <1>7 DEF Broadcast

-----------------------------------------------------------------------------
(* The theorems *)

LEMMA InitHubInv == Init => HubInv
<1> SUFFICES ASSUME Init PROVE HubInv
  OBVIOUS
<1>1. TypeOK
  <2>1. pending \in [Sockets -> 0 .. MaxPending]
    BY HubAssumption DEF Init
  <2>2. task \in [Broadcasts -> [phase : {"idle", "spawned", "running"}, todo : SUBSET Sockets,
                                to : Sockets \cup {None}, dead : SUBSET Sockets]]
    BY DEF Init, Idle
  <2> QED BY <2>1, <2>2 DEF Init, TypeOK
<1>2. Fresh
  BY HubAssumption DEF Init, Fresh, Idle
<1>3. ASSUME NEW w \in Sockets PROVE Counts(w)
  BY SendsFinite DEF Init, Counts
<1>4. NothingLeftBehind
  BY DEF Init, NothingLeftBehind
<1> QED BY <1>1, <1>2, <1>3, <1>4 DEF HubInv

LEMMA NextHubInv == HubInv /\ [Next]_hubVars => HubInv'
<1> SUFFICES ASSUME HubInv, [Next]_hubVars PROVE HubInv'
  OBVIOUS
<1>0. TypeOK /\ Fresh /\ NothingLeftBehind
  BY DEF HubInv
<1>1. ASSUME NEW w \in Sockets, Session(w) PROVE HubInv'
  <2>1. TypeOK' /\ Fresh' /\ NothingLeftBehind'
    BY <1>0, <1>1, SessionTypes, SessionFresh, SessionLeavesNothing
  <2>2. \A v \in Sockets : Counts(v)'
    BY <1>1, SessionCounts
  <2> QED BY <2>1, <2>2 DEF HubInv
<1>2. ASSUME NEW t \in Broadcasts, Broadcast(t) PROVE HubInv'
  <2>1. TypeOK' /\ Fresh' /\ NothingLeftBehind'
    BY <1>0, <1>2, BroadcastTypes, BroadcastFresh, BroadcastLeavesNothing
  <2>2. \A v \in Sockets : Counts(v)'
    BY <1>2, BroadcastCounts
  <2> QED BY <2>1, <2>2 DEF HubInv
<1>3. CASE UNCHANGED hubVars
  BY <1>3 DEF hubVars, HubInv, TypeOK, Fresh, Counts, InFlight, NothingLeftBehind, Live
<1> QED BY <1>1, <1>2, <1>3 DEF Next

LEMMA HubInvariant == Spec => []HubInv
BY InitHubInv, NextHubInv, PTL DEF Spec

\* Of any number of sockets and broadcasts, whatever their sends, answers and ends
\* overlap: a client's backlog never counts a send that is over, and counts those
\* in flight exactly as long as it is in the room.
THEOREM HubPendingCounts == Spec => []PendingCounts
<1>1. HubInv => PendingCounts
  BY DEF HubInv, PendingCounts, Counts
<1> QED BY <1>1, HubInvariant, PTL

\* Who is in the room has a session, or its connect raised; the lines kept for the
\* fixture go with the last client.
THEOREM HubNothingLeftBehind == Spec => []NothingLeftBehind
<1>1. HubInv => NothingLeftBehind
  BY DEF HubInv
<1> QED BY <1>1, HubInvariant, PTL

-----------------------------------------------------------------------------
(* What the clients see *)

HubSafety == Init /\ [][Next]_hubVars

LEMMA DeliveryStep == [DeliveryNext]_vars => [Next]_hubVars
<1> SUFFICES ASSUME [DeliveryNext]_vars PROVE [Next]_hubVars
  OBVIOUS
<1>1. ASSUME NEW w \in Sockets, SnapshotBegins(w) PROVE Session(w)
  BY <1>1 DEF SnapshotBegins, Session
<1>2. ASSUME NEW w \in Sockets, NEW ok \in BOOLEAN, Arrives(w, ok) PROVE Session(w)
  BY <1>2 DEF Arrives, Session
<1>3. ASSUME NEW w \in Sockets, SportsRefreshed(w) PROVE Session(w)
  BY <1>3 DEF SportsRefreshed, Session
<1>4. ASSUME NEW w \in Sockets, ConnectFails(w) \/ Ping(w) \/ HangsUp(w) \/ SessionEnds(w)
      PROVE  Session(w)
  BY <1>4 DEF Session
<1>5. CASE LinesChange \/ ListenerDelivers
  BY <1>5 DEF LinesChange, ListenerDelivers
<1>6. CASE UNCHANGED vars
  BY <1>6 DEF vars
<1> QED BY <1>1, <1>2, <1>3, <1>4, <1>5, <1>6 DEF DeliveryNext, Next

\* The clients that watch the lines go by are clients of the hub: whatever changes,
\* is published and arrives, the sessions and broadcasts take the hub's steps, and the
\* listener, the merges and what is shown take none.
THEOREM DeliveryIsHub == DeliverySpec => HubSafety
<1>1. DeliveryInit => Init
  BY DEF DeliveryInit
<1> QED BY <1>1, DeliveryStep, PTL DEF DeliverySpec, HubSafety

\* So the backlogs are counted, and nothing is left behind, there too.
THEOREM DeliveryKeepsHub == DeliverySpec => [](PendingCounts /\ NothingLeftBehind)
<1>1. HubInv => PendingCounts /\ NothingLeftBehind
  BY DEF HubInv, PendingCounts, Counts
<1> QED BY <1>1, InitHubInv, NextHubInv, DeliveryIsHub, PTL DEF HubSafety
=============================================================================
