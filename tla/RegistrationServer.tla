------------------------- MODULE RegistrationServer -------------------------
(***************************************************************************)
(* The registration node of node/registration/registrationnode.go: one     *)
(* process in which gRPC handler goroutines (RegisterNode, DeregisterNode, *)
(* NodeReady, NodeFinished, ProcessMetadata), the monitorOverlayStatus     *)
(* goroutine and the startTasks and requestMetadata goroutines it spawns   *)
(* share maps, one mutex and two unbuffered channels.                      *)
(*                                                                         *)
(* An action is the code between two points where a goroutine can block    *)
(* or race with another: taking mu, dialling, a channel operation, an RPC. *)
(* A goroutine is named by what caused it: a handler by its call, a        *)
(* startTasks goroutine by the node whose READY spawned it, and a          *)
(* requestMetadata goroutine by the COMPLETE call that did.                *)
(*                                                                         *)
(* The clients are the environment: they make any RegisterNode call of     *)
(* Call, any node of MayExit leaves, and a node that has been pushed paths *)
(* or told to start reports its status.                                    *)
(***************************************************************************)
EXTENDS Integers, FiniteSets

CONSTANTS
  Node,         \* the host:port ids of messengers
  Call,         \* the RegisterNode calls clients make
  CallNode,     \* the node id each call registers
  MayExit,      \* the nodes that may call DeregisterNode, when "exit" is typed
  MayReport,    \* the nodes that may call ProcessMetadata (none in this repository)
  DialCanFail,  \* whether s.dial may return an error
  Peers,        \* settings.Peers
  Retries,      \* attempts after a failed first one, 3 in the code
  None          \* no node, no call; mu = None means the mutex is free

\* A call of NodeReady or NodeFinished.  A messenger calls NodeReady once
\* and NodeFinished again after each failure, at most Retries times.
StatusCall ==
  [id : Node, status : {"READY"}, attempt : {0}]
    \cup [id : Node, status : {"COMPLETE"}, attempt : 0..Retries]
CompleteCall == {h \in StatusCall : h.status = "COMPLETE"}

ASSUME ServerAssumption ==
  /\ IsFiniteSet(Node)
  /\ CallNode \in [Call -> Node]
  /\ MayExit \subseteq Node /\ MayReport \subseteq Node
  /\ DialCanFail \in BOOLEAN
  /\ Peers \in Nat /\ Retries \in Nat
  /\ None \notin Node /\ None \notin Call /\ None \notin StatusCall

VARIABLES
  mu,                \* the RegisterNode call holding s.mu across a step, or None
  registeredNodes,   \* keys of s.registeredNodes
  nodeConnections,   \* keys of s.nodeConnections
  overlaySent,       \* s.overlaySent
  register,          \* stage of each RegisterNode call
  deregister,        \* answer to the DeregisterNode call of each node
  monitor,           \* where the monitorOverlayStatus goroutine is
  overlay,           \* the nodes s.overlay was built from, {} before
  monitorLoop,       \* its range loop over registeredNodes, then over nodeConnections
  pushed,            \* nodes PushPaths has been called on
  held,              \* the status the monitor has received and waits for mu to apply
  received,          \* the status calls the monitor has received
  idleNodes,         \* keys of s.idleNodes
  finishedNodes,     \* keys of s.finishedNodes
  starter,           \* the startTasks goroutines
  startSent,         \* nodes StartTask has been called on
  collector,         \* the requestMetadata goroutines
  metadata,          \* s.metadata: absent key, fetched data, or a nil pointer
  printed,           \* printMetadata has completed at least once
  up                 \* the process has not panicked or been killed by the runtime

membership == <<mu, registeredNodes, nodeConnections, overlaySent, register, deregister>>
pushing    == <<monitor, overlay, monitorLoop, pushed>>
statuses   == <<held, received, idleNodes, finishedNodes>>
starting   == <<starter, startSent>>
results    == <<collector, metadata, printed, up>>
vars       == <<membership, pushing, statuses, starting, results>>

-----------------------------------------------------------------------------
(* A Go range loop over a map: an entry present from start to end is       *)
(* visited once, one inserted or deleted meanwhile may or may not be.      *)
Loop == [must : SUBSET Node, seen : SUBSET Node]
RangeOver(keys) == [must |-> keys, seen |-> {}]
Unvisited(loop, keys) == keys \ loop.seen
Visit(loop, n) == [loop EXCEPT !.seen = @ \cup {n}]
Delete(loop, n) == [loop EXCEPT !.must = @ \ {n}]
Exhausted(loop) == loop.must \subseteq loop.seen

\* A startTasks goroutine: its loop, the node it retries and how often it has.
Starter == [pc : {"off", "range", "done"}, loop : Loop,
            retrying : Node \cup {None}, tries : 0..Retries]
Starting(loop, node, tries) ==
  [pc |-> "range", loop |-> loop, retrying |-> node, tries |-> tries]
Collector == [pc : {"off", "range", "done"}, loop : Loop]

TypeOK ==
  /\ mu \in Call \cup {None}
  /\ registeredNodes \subseteq Node
  /\ nodeConnections \subseteq Node
  /\ overlaySent \in BOOLEAN
  /\ register \in [Call -> {"none", "waiting", "dialing", "announcing",
                            "ok", "exists", "failed"}]
  /\ deregister \in [Node -> {"none", "ok", "notfound", "refused"}]
  /\ monitor \in {"select", "building", "pushing"}
  /\ overlay \subseteq Node
  /\ monitorLoop \in Loop
  /\ pushed \subseteq Node
  /\ held \in StatusCall \cup {None}
  /\ received \subseteq StatusCall
  /\ idleNodes \subseteq Node
  /\ finishedNodes \subseteq Node
  /\ starter \in [Node -> Starter]
  /\ startSent \subseteq Node
  /\ collector \in [CompleteCall -> Collector]
  /\ metadata \in [Node -> {"none", "data", "nil"}]
  /\ printed \in BOOLEAN
  /\ up \in BOOLEAN

Init ==
  /\ mu = None
  /\ registeredNodes = {} /\ nodeConnections = {}
  /\ overlaySent = FALSE
  /\ register = [c \in Call |-> "none"]
  /\ deregister = [n \in Node |-> "none"]
  /\ monitor = "select" /\ overlay = {}
  /\ monitorLoop = RangeOver({}) /\ pushed = {}
  /\ held = None /\ received = {}
  /\ idleNodes = {} /\ finishedNodes = {}
  /\ starter = [n \in Node |-> [pc |-> "off", loop |-> RangeOver({}),
                                retrying |-> None, tries |-> 0]]
  /\ startSent = {}
  /\ collector = [h \in CompleteCall |-> [pc |-> "off", loop |-> RangeOver({})]]
  /\ metadata = [n \in Node |-> "none"]
  /\ printed = FALSE /\ up = TRUE

-----------------------------------------------------------------------------
(* Faults the properties must tell from the code: each replaces the        *)
(* definition named in its comment and is used nowhere else.               *)

FaultyAnyRegistered == registeredNodes # {}                  \* PeersRegistered
FaultyOneTooFew == Cardinality(registeredNodes) + 1 = Peers  \* PeersRegistered
FaultyNoUnlock == UNCHANGED mu                               \* Unlock
FaultyPushStops == TRUE                                      \* PushedToAll
FaultyAnyIdle(nodes) == nodes # {}                           \* AllIdle
FaultyAnyFinished(nodes) == nodes # {}                       \* AllFinished
FaultyCountedBefore(nodes) ==                                \* AllFinished
  Cardinality(nodes) - 1 = Cardinality(registeredNodes)
FaultyExtraRetry(tries) == tries <= Retries                  \* MayRetry

\* PrintMetadata with nil-safe getters, which print a nil entry as zeros.
FaultyNilSafePrint(entries) == printed' = TRUE /\ UNCHANGED up

-----------------------------------------------------------------------------
(* RegisterNode *)

PeersRegistered == Cardinality(registeredNodes) = Peers

Unlock == mu' = None

\* The presence check reads the map before mu is taken.
RegisterCheck(c) ==
  /\ register[c] = "none"
  /\ register' = [register EXCEPT ![c] =
                    IF CallNode[c] \in registeredNodes THEN "exists" ELSE "waiting"]
  /\ UNCHANGED <<mu, registeredNodes, nodeConnections, overlaySent, deregister,
                 pushing, statuses, starting, results>>

\* Under mu the node is stored before it is dialled.
RegisterStore(c) ==
  /\ register[c] = "waiting"
  /\ mu = None
  /\ mu' = c
  /\ registeredNodes' = registeredNodes \cup {CallNode[c]}
  /\ register' = [register EXCEPT ![c] = "dialing"]
  /\ UNCHANGED <<nodeConnections, overlaySent, deregister, pushing, statuses, starting,
                 results>>

\* s.dial returns an error; the deferred Unlock runs.
DialFails(c) ==
  /\ DialCanFail
  /\ register[c] = "dialing"
  /\ register' = [register EXCEPT ![c] = "failed"]
  /\ Unlock
  /\ UNCHANGED <<registeredNodes, nodeConnections, overlaySent, deregister, pushing,
                 statuses, starting, results>>

\* s.dial returns a connection, with grpc.WithBlock once the peer serves.  The
\* call that makes len(registeredNodes) equal Peers goes on to send on
\* newRegistrationChan and keeps mu meanwhile, any other returns.
RegisterConnect(c) ==
  /\ register[c] = "dialing"
  /\ nodeConnections' = nodeConnections \cup {CallNode[c]}
  /\ \/ /\ PeersRegistered
        /\ register' = [register EXCEPT ![c] = "announcing"]
        /\ UNCHANGED mu
     \/ /\ ~PeersRegistered
        /\ register' = [register EXCEPT ![c] = "ok"]
        /\ Unlock
  /\ UNCHANGED <<registeredNodes, overlaySent, deregister, pushing, statuses, starting,
                 results>>

\* The monitor waits in its select.
Selecting == monitor = "select" /\ held = None

\* The monitor receives from newRegistrationChan and goes to range over
\* registeredNodes; the handler returns.
Announce(c) ==
  /\ Selecting
  /\ register[c] = "announcing"
  /\ register' = [register EXCEPT ![c] = "ok"]
  /\ Unlock
  /\ monitor' = "building"
  /\ monitorLoop' = RangeOver(registeredNodes)
  /\ UNCHANGED <<registeredNodes, nodeConnections, overlaySent, deregister, overlay,
                 pushed, statuses, starting, results>>

-----------------------------------------------------------------------------
(* DeregisterNode, under mu and without blocking, and GetOverlay *)

DeregisterNode(n) ==
  /\ n \in MayExit
  /\ deregister[n] = "none"
  /\ mu = None
  /\ deregister' = [deregister EXCEPT ![n] =
                      IF overlaySent THEN "refused"
                      ELSE IF n \in registeredNodes THEN "ok" ELSE "notfound"]
  /\ registeredNodes' = IF overlaySent THEN registeredNodes ELSE registeredNodes \ {n}
  /\ monitorLoop' = IF monitor = "building" /\ ~overlaySent THEN Delete(monitorLoop, n)
                    ELSE monitorLoop
  /\ UNCHANGED <<mu, nodeConnections, overlaySent, register, monitor, overlay, pushed,
                 statuses, starting, results>>

\* What GetOverlay answers: an error, or the stream of the overlay's edges.
GetOverlay == IF overlaySent THEN overlay ELSE None

-----------------------------------------------------------------------------
(* buildAndPushOverlay, run by the monitor goroutine without mu *)

\* The next entry of registeredNodes goes into the list the overlay is of.
ListNode(n) ==
  /\ monitor = "building"
  /\ n \in Unvisited(monitorLoop, registeredNodes)
  /\ monitorLoop' = Visit(monitorLoop, n)
  /\ UNCHANGED <<membership, monitor, overlay, pushed, statuses, starting, results>>

BuildOverlay ==
  /\ monitor = "building"
  /\ Exhausted(monitorLoop)
  /\ overlay' = monitorLoop.seen
  /\ monitorLoop' = RangeOver(nodeConnections)
  /\ monitor' = "pushing"
  /\ UNCHANGED <<membership, pushed, statuses, starting, results>>

\* PushPaths on the next connection, whether it ends with an error or not.
PushPaths(n) ==
  /\ monitor = "pushing"
  /\ n \in Unvisited(monitorLoop, nodeConnections)
  /\ monitorLoop' = Visit(monitorLoop, n)
  /\ pushed' = pushed \cup {n}
  /\ UNCHANGED <<membership, monitor, overlay, statuses, starting, results>>

PushedToAll == Exhausted(monitorLoop)

PushEnds ==
  /\ monitor = "pushing"
  /\ PushedToAll
  /\ monitor' = "select"
  /\ UNCHANGED <<membership, overlay, monitorLoop, pushed, statuses, starting, results>>

-----------------------------------------------------------------------------
(* NodeReady and NodeFinished send on nodeStatusChan; the monitor receives *)
(* one status at a time and applies it under mu.                           *)

TakeStatus(h) ==
  /\ Selecting
  /\ h \notin received
  /\ h.id \in IF h.status = "READY" THEN pushed ELSE startSent
  /\ received' = received \cup {h}
  /\ held' = h
  /\ UNCHANGED <<membership, pushing, idleNodes, finishedNodes, starting, results>>

AllIdle(nodes) == Cardinality(nodes) = Peers

ApplyReady ==
  /\ held # None
  /\ mu = None
  /\ held.status = "READY"
  /\ idleNodes' = idleNodes \cup {held.id}
  /\ starter' = IF AllIdle(idleNodes')
                THEN [starter EXCEPT ![held.id] =
                        Starting(RangeOver(nodeConnections), None, 0)]
                ELSE starter
  /\ held' = None
  /\ UNCHANGED <<membership, pushing, received, finishedNodes, startSent, results>>

AllFinished(nodes) == Cardinality(nodes) = Cardinality(registeredNodes)

ApplyComplete ==
  /\ held # None
  /\ mu = None
  /\ held.status = "COMPLETE"
  /\ finishedNodes' = finishedNodes \cup {held.id}
  /\ collector' = IF AllFinished(finishedNodes')
                  THEN [collector EXCEPT ![held] =
                          [pc |-> "range", loop |-> RangeOver(finishedNodes')]]
                  ELSE collector
  /\ held' = None
  /\ UNCHANGED <<membership, pushing, received, idleNodes, starting, metadata, printed, up>>

-----------------------------------------------------------------------------
(* startTasks, a goroutine without mu *)

\* The first StartTask on the next connection, answered in time or not.
StartTask(s, n, answered) ==
  /\ starter[s].pc = "range"
  /\ starter[s].retrying = None
  /\ n \in Unvisited(starter[s].loop, nodeConnections)
  /\ starter' = [starter EXCEPT ![s] =
                   Starting(Visit(@.loop, n), IF answered THEN None ELSE n, 0)]
  /\ startSent' = startSent \cup {n}
  /\ UNCHANGED <<membership, pushing, statuses, results>>

MayRetry(tries) == tries < Retries

\* A retry reuses the context cancelled before the loop, so it never leaves
\* the process; when none is left the loop goes on to the next node.
StartRetry(s) ==
  /\ starter[s].pc = "range"
  /\ starter[s].retrying # None
  /\ starter' = [starter EXCEPT ![s] =
                   IF MayRetry(@.tries) THEN Starting(@.loop, @.retrying, @.tries + 1)
                   ELSE Starting(@.loop, None, 0)]
  /\ UNCHANGED <<membership, pushing, statuses, startSent, results>>

\* The loop ends and startTime is set.
StartEnds(s) ==
  /\ starter[s].pc = "range"
  /\ starter[s].retrying = None
  /\ Exhausted(starter[s].loop)
  /\ starter' = [starter EXCEPT ![s].pc = "done"]
  /\ UNCHANGED <<membership, pushing, statuses, startSent, results>>

-----------------------------------------------------------------------------
(* requestMetadata, a goroutine without mu, and ProcessMetadata *)

\* GetMessagingData on the next finished node returns data, or an error with
\* a nil result that is stored all the same.
CollectMetadata(k, n, answer) ==
  /\ collector[k].pc = "range"
  /\ n \in Unvisited(collector[k].loop, finishedNodes)
  /\ metadata' = [metadata EXCEPT ![n] = answer]
  /\ collector' = [collector EXCEPT ![k].loop = Visit(@, n)]
  /\ UNCHANGED <<membership, pushing, statuses, starting, printed, up>>

\* printMetadata dereferences every entry: a nil one panics the process.
PrintMetadata(entries) ==
  IF \E n \in Node : entries[n] = "nil"
  THEN up' = FALSE /\ UNCHANGED printed
  ELSE printed' = TRUE /\ UNCHANGED up

CollectEnds(k) ==
  /\ collector[k].pc = "range"
  /\ Exhausted(collector[k].loop)
  /\ collector' = [collector EXCEPT ![k].pc = "done"]
  /\ PrintMetadata(metadata)
  /\ UNCHANGED <<membership, pushing, statuses, starting, metadata>>

ReportedNodes == {n \in Node : metadata[n] # "none"}

\* A node pushes its metadata when it is done.
ProcessMetadata(n) ==
  /\ n \in MayReport \cap startSent
  /\ mu = None
  /\ metadata' = [metadata EXCEPT ![n] = "data"]
  /\ IF Cardinality(ReportedNodes') = Cardinality(registeredNodes)
     THEN PrintMetadata(metadata')
     ELSE UNCHANGED <<printed, up>>
  /\ UNCHANGED <<membership, pushing, statuses, starting, collector>>

-----------------------------------------------------------------------------
(* Two goroutines about to access one map, at least one to write it and    *)
(* not both under mu: the Go runtime may kill the process ("fatal error:   *)
(* concurrent map read and map write").                                    *)

Collecting(k) == collector[k].pc = "range"

RaceOnRegistered ==
  /\ mu = None
  /\ \/ \E c \in Call : register[c] = "waiting"
     \/ \E n \in MayExit \cap registeredNodes : deregister[n] = "none"
  /\ (\E c \in Call : register[c] = "none") \/ monitor = "building"

RaceOnConnections ==
  /\ \E c \in Call : register[c] = "dialing"
  /\ \/ monitor = "pushing"
     \/ \E s \in Node : starter[s].pc = "range"
     \/ \E k \in CompleteCall : Collecting(k)

RaceOnResults ==
  \E k \in CompleteCall :
    /\ Collecting(k)
    /\ \/ mu = None /\ held \in CompleteCall
       \/ mu = None /\ MayReport \cap startSent # {}
       \/ \E j \in CompleteCall \ {k} : Collecting(j)

MapRaceCrash ==
  /\ RaceOnRegistered \/ RaceOnConnections \/ RaceOnResults
  /\ up' = FALSE
  /\ UNCHANGED <<membership, pushing, statuses, starting, collector, metadata, printed>>

-----------------------------------------------------------------------------
RegisterNode(c) ==
  RegisterCheck(c) \/ RegisterStore(c) \/ DialFails(c) \/ RegisterConnect(c)

MonitorOverlayStatus ==
  \/ \E c \in Call : Announce(c)
  \/ \E n \in Node : ListNode(n)
  \/ BuildOverlay
  \/ \E n \in Node : PushPaths(n)
  \/ PushEnds
  \/ \E h \in StatusCall : TakeStatus(h)
  \/ ApplyReady
  \/ ApplyComplete

StartTasks(s) ==
  \/ \E n \in Node, answered \in BOOLEAN : StartTask(s, n, answered)
  \/ StartRetry(s)
  \/ StartEnds(s)

RequestMetadata(k) ==
  \/ \E n \in Node, answer \in {"data", "nil"} : CollectMetadata(k, n, answer)
  \/ CollectEnds(k)

Next ==
  /\ up
  /\ \/ \E c \in Call : RegisterNode(c)
     \/ \E n \in Node : DeregisterNode(n) \/ ProcessMetadata(n)
     \/ MonitorOverlayStatus
     \/ \E s \in Node : StartTasks(s)
     \/ \E k \in CompleteCall : RequestMetadata(k)
     \/ MapRaceCrash

Spec == Init /\ [][Next]_vars

-----------------------------------------------------------------------------
(* Properties *)

\* startTasks is spawned at most once: len(idleNodes) can equal Peers at only
\* one READY, whatever registers or leaves (registrationnode.go:253).
StartsOnce ==
  \A s, t \in Node : starter[s].pc # "off" /\ starter[t].pc # "off" => s = t

\* No StartTask leaves before Peers distinct messengers, each of them one the
\* overlay was pushed to, have reported READY.
TaskBarrier ==
  startSent # {} => Cardinality(idleNodes) >= Peers /\ idleNodes \subseteq pushed

\* The monitor never waits for mu while the handler that holds mu waits for
\* the monitor to receive from newRegistrationChan.
MonitorNotStuck ==
  held # None /\ mu # None => register[mu] # "announcing"

\* When buildAndPushOverlay returns, PushPaths has been called on every node
\* of the overlay it built.
OverlayReachesAll ==
  monitor = "select" => overlay \subseteq pushed

\* The overlay is built from exactly the desired number of nodes.
OverlayHasPeers ==
  overlay # {} => Cardinality(overlay) = Peers

\* Statistics are requested only once every registered node has finished.
CollectsAfterAllFinished ==
  [][\A k \in CompleteCall :
       collector[k].pc = "off" /\ collector'[k].pc = "range"
         => registeredNodes \subseteq finishedNodes']_vars

\* The first result table printed has a row of data for every overlay node.
PrintsEveryNode ==
  [][~printed /\ printed' => \A n \in overlay : metadata'[n] = "data"]_vars
=============================================================================
