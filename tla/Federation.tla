----------------------------- MODULE Federation -----------------------------
(***************************************************************************)
(* The federation of scan nodes: modules/federation/federated_scan.py and  *)
(* the routes of web/routers/federation.py.                                *)
(*                                                                         *)
(* Peers and tasks are in one JSON file.  An operation loads the whole     *)
(* file, may await the network, and writes its whole copy back; a write    *)
(* truncates the file first.  Operations of one worker interleave where    *)
(* they await, those of two workers anywhere.                              *)
(***************************************************************************)
EXTENDS FiniteSets, Naturals, Sequences

CONSTANTS
  Peers,           \* ids of peer nodes: a hash of the endpoint
  MaxTasks,        \* bound: tasks ever dispatched
  MaxStoredTasks,  \* MAX_STORED_TASKS
  FedInFlight,     \* bound: operations under way together
  FedItems,        \* bound: peers in the file and tasks ever dispatched, together
  Torn             \* the file between the truncation and the write

\* The id of a task is drawn afresh: the ids are numbered as they are drawn.
Tasks == 1..MaxTasks

PeerOps == {"register", "remove", "ping"} \X Peers
TaskOps == {"dispatch", "collect"} \X Tasks
FedOps == PeerOps \cup TaskOps \cup {<<"initialize", "self">>}

\* "degraded" and "offline" are told apart by no code: both are "down" here.
PeerStates == {"absent", "unknown", "online", "down"}
TaskStates == {"dispatched", "running", "not_executed_stub", "completed_stub",
               "completed"}
StoredTask == [id : Tasks, status : TaskStates, to : SUBSET Peers]
Contents == [peer : [Peers -> PeerStates], tasks : Seq(StoredTask)]

ASSUME FedAssumption ==
  /\ MaxStoredTasks \in Nat \ {0}
  /\ IsFiniteSet(Peers) /\ MaxTasks \in Nat

VARIABLES
  fedFile,     \* the file
  fedStage,    \* each operation: "idle", "awaiting", "saving", "writing"
  fedCopy,     \* what it has loaded, with its changes
  fedSent,     \* how many dispatches have begun
  fedStale,    \* history: those whose copy another one's write has overtaken
  fedLast      \* history: the last contents that were written whole

fedVars == <<fedFile, fedStage, fedCopy, fedSent, fedStale, fedLast>>

Empty == [peer |-> [n \in Peers |-> "absent"], tasks |-> <<>>]

FedTypeOK ==
  /\ fedFile \in Contents \cup {Torn}
  /\ fedStage \in [FedOps -> {"idle", "awaiting", "saving", "writing"}]
  /\ fedCopy \in [FedOps -> Contents]
  /\ fedSent \in 0..MaxTasks
  /\ fedStale \subseteq FedOps
  /\ fedLast \in Contents /\ Len(fedLast.tasks) <= MaxStoredTasks

FedInit ==
  /\ fedFile = Empty
  /\ fedStage = [o \in FedOps |-> "idle"]
  /\ fedCopy = [o \in FedOps |-> Empty]
  /\ fedSent = 0
  /\ fedStale = {}
  /\ fedLast = Empty

-----------------------------------------------------------------------------
(* What the operations do to the contents they have loaded                 *)

\* Mutant of TrimTasks.
TrimTasksFirst(s) ==
  IF Len(s) > MaxStoredTasks THEN SubSeq(s, 1, MaxStoredTasks) ELSE s

TrimTasks(s) ==
  IF Len(s) > MaxStoredTasks THEN SubSeq(s, Len(s) - MaxStoredTasks + 1, Len(s))
                             ELSE s

Online(c) == {n \in Peers : c.peer[n] = "online"}

\* The preferred regions, the strategy and the capabilities choose among the
\* online peers; none may be left.
Assigned(c) == SUBSET Online(c)

\* The local fallback records a stub when no peer is online.
NewTask(c, t, to) ==
  [id |-> t, to |-> to,
   status |-> IF Online(c) = {} THEN "not_executed_stub" ELSE "dispatched"]

Appended(c, t, to) == [c EXCEPT !.tasks = TrimTasks(Append(@, NewTask(c, t, to)))]

TaskIn(c, t) == \E i \in DOMAIN c.tasks : c.tasks[i].id = t

WithStatus(c, t, s) ==
  [c EXCEPT !.tasks = [i \in DOMAIN @ |->
     IF @[i].id = t THEN [@[i] EXCEPT !.status = s] ELSE @[i]]]

StatusIn(c, t) == {c.tasks[i].status : i \in {j \in DOMAIN c.tasks :
                                                c.tasks[j].id = t}}

Moved(o, stage, copy) ==
  /\ fedStage' = [fedStage EXCEPT ![o] = stage]
  /\ fedCopy' = [fedCopy EXCEPT ![o] = copy]

-----------------------------------------------------------------------------
(* The operations                                                          *)

\* An operation loads the file, unless it cannot be parsed.
Loads(o) ==
  /\ fedStage[o] = "idle"
  /\ fedFile # Torn
  /\ Cardinality({p \in FedOps : fedStage[p] # "idle"}) < FedInFlight

WithinBound ==
  Cardinality({n \in Peers : fedFile.peer[n] # "absent"}) + fedSent < FedItems

\* The entry of this node itself, which nothing else depends on, is left out:
\* what remains is that the whole file is rewritten.
InitializeNode ==
  LET o == <<"initialize", "self">> IN
  /\ Loads(o)
  /\ Moved(o, "saving", fedFile)
  /\ UNCHANGED <<fedFile, fedSent, fedStale, fedLast>>

\* A peer that is registered already is answered with an error.
RegisterPeer(n) ==
  LET o == <<"register", n>> IN
  /\ Loads(o)
  /\ fedFile.peer[n] = "absent" /\ WithinBound
  /\ Moved(o, "saving", [fedFile EXCEPT !.peer[n] = "unknown"])
  /\ UNCHANGED <<fedFile, fedSent, fedStale, fedLast>>

RemoveNode(n) ==
  LET o == <<"remove", n>> IN
  /\ Loads(o)
  /\ fedFile.peer[n] # "absent"
  /\ Moved(o, "saving", [fedFile EXCEPT !.peer[n] = "absent"])
  /\ UNCHANGED <<fedFile, fedSent, fedStale, fedLast>>

PingNode(n) ==
  LET o == <<"ping", n>> IN
  /\ Loads(o)
  /\ fedFile.peer[n] # "absent"
  /\ Moved(o, "awaiting", fedFile)
  /\ UNCHANGED <<fedFile, fedSent, fedStale, fedLast>>

\* ping_all_nodes: the pings of all peers are started together, and each loads
\* the file before any of them has an answer.
PingAllNodes ==
  LET known == {n \in Peers : fedFile # Torn /\ fedFile.peer[n] # "absent"} IN
  /\ known # {}
  /\ \A o \in FedOps : fedStage[o] = "idle"
  /\ fedStage' = [o \in FedOps |->
       IF o[1] = "ping" /\ o[2] \in known THEN "awaiting" ELSE fedStage[o]]
  /\ fedCopy' = [o \in FedOps |->
       IF o[1] = "ping" /\ o[2] \in known THEN fedFile ELSE fedCopy[o]]
  /\ UNCHANGED <<fedFile, fedSent, fedStale, fedLast>>

\* The answer of the peer, an error status, or none within the timeout.
PingAnswered(n) ==
  LET o == <<"ping", n>> IN
  /\ fedStage[o] = "awaiting"
  /\ \E s \in {"online", "down"} :
       Moved(o, "saving", [fedCopy[o] EXCEPT !.peer[n] = s])
  /\ UNCHANGED <<fedFile, fedSent, fedStale, fedLast>>

\* The task is saved before it is sent; a stub is saved and that is all.
DispatchScan(t) ==
  LET o == <<"dispatch", t>> IN
  /\ Loads(o)
  /\ t = fedSent + 1 /\ WithinBound
  /\ fedSent' = t
  /\ \E to \in Assigned(fedFile) : Moved(o, "saving", Appended(fedFile, t, to))
  /\ UNCHANGED <<fedFile, fedStale, fedLast>>

\* The peers have answered, or not: the same copy is saved again.
SendToNodes(t) ==
  LET o == <<"dispatch", t>> IN
  /\ fedStage[o] = "awaiting"
  /\ Moved(o, "saving", WithStatus(fedCopy[o], t, "running"))
  /\ UNCHANGED <<fedFile, fedSent, fedStale, fedLast>>

CollectResults(t) ==
  LET o == <<"collect", t>> IN
  /\ Loads(o)
  /\ TaskIn(fedFile, t)
  /\ Moved(o, "awaiting", fedFile)
  /\ UNCHANGED <<fedFile, fedSent, fedStale, fedLast>>

\* Only a peer that is online, in the copy, can return a real result.
ResultsArrive(t) ==
  LET o == <<"collect", t>>
      asked == {n \in Online(fedCopy[o]) : \E i \in DOMAIN fedCopy[o].tasks :
                  fedCopy[o].tasks[i].id = t /\ n \in fedCopy[o].tasks[i].to} IN
  /\ fedStage[o] = "awaiting"
  /\ \E real \in SUBSET asked :
       Moved(o, "saving", WithStatus(fedCopy[o], t,
               IF real = {} THEN "completed_stub" ELSE "completed"))
  /\ UNCHANGED <<fedFile, fedSent, fedStale, fedLast>>

\* _save_federation: write_text truncates the file ...
TruncateFile(o) ==
  /\ fedStage[o] = "saving"
  /\ fedFile' = Torn
  /\ fedStage' = [fedStage EXCEPT ![o] = "writing"]
  /\ UNCHANGED <<fedCopy, fedSent, fedStale, fedLast>>

\* ... and writes the copy.  A dispatch goes on to send what it has saved.
WriteFile(o) ==
  LET sends == o[1] = "dispatch" /\ StatusIn(fedCopy[o], o[2]) = {"dispatched"}
  IN
  /\ fedStage[o] = "writing"
  /\ fedFile' = fedCopy[o]
  /\ fedLast' = fedCopy[o]
  /\ Moved(o, IF sends THEN "awaiting" ELSE "idle",
              IF sends THEN fedCopy[o] ELSE Empty)
  /\ fedStale' = {p \in FedOps \ {o} : fedStage[p] # "idle"}
  /\ UNCHANGED fedSent

\* The worker dies in the middle of an operation.
FedCrash(o) ==
  /\ fedStage[o] # "idle"
  /\ Moved(o, "idle", Empty)
  /\ fedStale' = fedStale \ {o}
  /\ UNCHANGED <<fedFile, fedSent, fedLast>>

FedNext ==
  \/ InitializeNode
  \/ PingAllNodes
  \/ \E n \in Peers :
       \/ RegisterPeer(n)
       \/ RemoveNode(n)
       \/ PingNode(n)
       \/ PingAnswered(n)
  \/ \E t \in Tasks :
       \/ DispatchScan(t)
       \/ SendToNodes(t)
       \/ CollectResults(t)
       \/ ResultsArrive(t)
  \/ \E o \in FedOps : TruncateFile(o) \/ WriteFile(o) \/ FedCrash(o)

FedSpec == FedInit /\ [][FedNext]_fedVars

-----------------------------------------------------------------------------
(* Properties                                                              *)

Ranked(s) == CASE s = "dispatched" -> 0 [] s = "running" -> 1 [] OTHER -> 2

\* Unless another write has overtaken its copy, a save takes away no peer but
\* the one it removes, brings back none but the one it registers, forgets no
\* task but the oldest of a full list, and never the one it dispatches, and
\* moves no task's status back.
KeepsTheRest(o, before, after) ==
  /\ \A n \in Peers :
       /\ before.peer[n] # "absent" /\ after.peer[n] = "absent" => o = <<"remove", n>>
       /\ before.peer[n] = "absent" /\ after.peer[n] # "absent" => o = <<"register", n>>
  /\ \A t \in Tasks : TaskIn(before, t) =>
       \/ /\ TaskIn(after, t)
          /\ \A s \in StatusIn(before, t), u \in StatusIn(after, t) :
               Ranked(s) <= Ranked(u)
       \/ /\ Len(before.tasks) = MaxStoredTasks
          /\ before.tasks[1].id = t
          /\ o[1] = "dispatch"
  /\ o[1] = "dispatch" => TaskIn(after, o[2])

\* What is written is the last contents with one operation's change, unless its
\* copy was stale (KeepsTheRest above; _save_federation of every operation).
OnlyStaleSavesForget ==
  [][\A o \in FedOps : WriteFile(o) /\ o \notin fedStale =>
                         KeepsTheRest(o, fedLast, fedLast')]_fedVars

\* "Pinged all nodes. Check statuses." says the page: what a ping found out of a
\* peer is not forgotten while the peer is registered.
SeenStaysSeen ==
  [][\A n \in Peers : fedLast.peer[n] \in {"online", "down"} =>
                        fedLast'.peer[n] # "unknown"]_fedVars

=============================================================================
