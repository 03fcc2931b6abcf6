--------------------------- MODULE ProgressSockets ---------------------------
(***************************************************************************)
(* The sockets on which one user follows one scan: ws_scan of web/app.py,  *)
(* the ConnectionManager of web/websocket_manager.py, and the task that    *)
(* pushes the scan forward and broadcasts each step.  Everything is one    *)
(* event loop: a step of the model ends where the code awaits.             *)
(***************************************************************************)
EXTENDS FiniteSets, Naturals

CONSTANTS
  Sockets,
  MaxConnectionsPerUser,
  MaxHandshakes,          \* bound: handshakes under way together
  LastStep                \* the steps of the scan

ASSUME SocketAssumption ==
  /\ IsFiniteSet(Sockets)
  /\ MaxConnectionsPerUser \in Nat \ {0} /\ MaxHandshakes \in Nat \ {0}
  /\ LastStep \in Nat

VARIABLES
  stage,        \* "new", "accepting", "open", "gone" (its peer left), "closed"
  progress,     \* the row: the last completed step
  shown,        \* what each socket has read from the row, or been sent
  connections,  \* the manager's list for the scan
  userSockets,  \* the manager's list for the user
  sending,      \* the sockets that a broadcast has still to send to
  dead,         \* those whose send raised in this broadcast
  casting       \* the step that is being broadcast, or 0

socketVars ==
  <<stage, progress, shown, connections, userSockets, sending, dead, casting>>

SocketTypeOK ==
  /\ stage \in [Sockets -> {"new", "accepting", "open", "gone", "closed"}]
  /\ progress \in 0..LastStep /\ casting \in 0..LastStep
  /\ shown \in [Sockets -> 0..LastStep]
  /\ connections \subseteq Sockets /\ userSockets \subseteq Sockets
  /\ sending \subseteq Sockets /\ dead \subseteq Sockets

SocketInit ==
  /\ stage = [s \in Sockets |-> "new"]
  /\ progress = 0 /\ casting = 0
  /\ shown = [s \in Sockets |-> 0]
  /\ connections = {} /\ userSockets = {} /\ sending = {} /\ dead = {}

InStage(st) == {s \in Sockets : stage[s] = st}

-----------------------------------------------------------------------------

\* Mutant of HasCapacity.
HasCapacityAtLimit == Cardinality(userSockets) <= MaxConnectionsPerUser

\* has_capacity counts the registered sockets, not those being accepted.
HasCapacity == Cardinality(userSockets) < MaxConnectionsPerUser

\* ws_scan: the caller may see the scan, the row is read, and accept begins.
Handshake(s) ==
  /\ stage[s] = "new"
  /\ Cardinality(InStage("accepting")) < MaxHandshakes
  /\ HasCapacity
  /\ stage' = [stage EXCEPT ![s] = "accepting"]
  /\ shown' = [shown EXCEPT ![s] = progress]
  /\ UNCHANGED <<progress, connections, userSockets, sending, dead, casting>>

\* connect, after accept: registered, and sent the row as it was read before.
Connect(s) ==
  /\ stage[s] = "accepting"
  /\ stage' = [stage EXCEPT ![s] = "open"]
  /\ connections' = connections \cup {s}
  /\ userSockets' = userSockets \cup {s}
  /\ UNCHANGED <<progress, shown, sending, dead, casting>>

\* accept raises: nothing was registered.
AcceptFails(s) ==
  /\ stage[s] = "accepting"
  /\ stage' = [stage EXCEPT ![s] = "closed"]
  /\ UNCHANGED <<progress, shown, connections, userSockets, sending, dead, casting>>

\* The peer leaves; the server finds out when it next sends or receives.
PeerLeaves(s) ==
  /\ stage[s] = "open"
  /\ stage' = [stage EXCEPT ![s] = "gone"]
  /\ UNCHANGED <<progress, shown, connections, userSockets, sending, dead, casting>>

\* The loop of ws_scan ends: disconnect removes the socket from both lists.
Disconnect(s) ==
  /\ stage[s] = "gone"
  /\ stage' = [stage EXCEPT ![s] = "closed"]
  /\ connections' = connections \ {s}
  /\ userSockets' = userSockets \ {s}
  /\ UNCHANGED <<progress, shown, sending, dead, casting>>

\* push: the row is committed ...
PushCommits ==
  /\ casting = 0 /\ progress < LastStep
  /\ progress' = progress + 1
  /\ casting' = progress'
  /\ UNCHANGED <<stage, shown, connections, userSockets, sending, dead>>

\* ... and then broadcast to a copy of the list taken now.
BroadcastBegins ==
  /\ casting # 0 /\ sending = {} /\ dead = {} /\ connections # {}
  /\ sending' = connections
  /\ UNCHANGED <<stage, progress, shown, connections, userSockets, dead, casting>>

Heard(s) == [shown EXCEPT ![s] = IF stage[s] = "open" THEN casting ELSE @]

\* One send; to a peer that has left, or a closed socket, it may raise.
Send(s) ==
  /\ s \in sending
  /\ sending' = sending \ {s}
  /\ shown' = Heard(s)
  /\ dead' \in {dead, dead \cup (IF stage[s] = "open" THEN {} ELSE {s})}
  \* what follows the last send
  /\ casting' = IF sending' = {} /\ dead' = {} THEN 0 ELSE casting
  /\ UNCHANGED <<stage, progress, connections, userSockets>>

Dropped(list) == list \ dead

\* disconnect_dead for each of them, without an await.
DisconnectDead ==
  /\ sending = {} /\ dead # {}
  /\ connections' = Dropped(connections)
  /\ userSockets' = Dropped(userSockets)
  /\ dead' = {} /\ casting' = 0
  /\ UNCHANGED <<stage, progress, shown, sending>>

\* A broadcast to nobody.
BroadcastToNobody ==
  /\ casting # 0 /\ sending = {} /\ dead = {} /\ connections = {}
  /\ casting' = 0
  /\ UNCHANGED <<stage, progress, shown, connections, userSockets, sending, dead>>

SocketNext ==
  \/ \E s \in Sockets :
       \/ Handshake(s) \/ Connect(s) \/ AcceptFails(s)
       \/ PeerLeaves(s) \/ Disconnect(s) \/ Send(s)
  \/ PushCommits \/ BroadcastBegins \/ BroadcastToNobody \/ DisconnectDead

SocketSpec == SocketInit /\ [][SocketNext]_socketVars

-----------------------------------------------------------------------------

\* However handshakes, departures and failing broadcasts interleave, the two
\* lists name the same sockets, every open one and no closed one among them,
\* and a user has more than its limit only by handshakes under way together.
SocketsAreCounted ==
  /\ connections = userSockets
  /\ InStage("open") \subseteq connections
  /\ connections \subseteq InStage("open") \cup InStage("gone")
  /\ Cardinality(connections) + Cardinality(InStage("accepting"))
       < MaxConnectionsPerUser + MaxHandshakes

\* web/app.py push_start: a client that reconnects resyncs to the last
\* completed step by the state message.  So between broadcasts every open
\* socket shows the row.
ResyncsToLastStep ==
  casting = 0 => \A s \in InStage("open") : shown[s] = progress
=============================================================================
