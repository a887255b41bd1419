# Verification of shortest-paths

TLA+ models of `shortest-paths`, the TLC configurations that check them on small
instances, and theorems about the registration node, the whole run, the message
traffic and the overlay's construction, proved with TLAPS. Paths below are relative to the repository's root (`src/` in `PROJECT.json`).

Contents: [the system](#the-system) · [what is hard about it](#what-is-hard-about-it) ·
[modules](#modules) · [how the code is modelled](#how-the-code-is-modelled) ·
[runs](#runs) · [fairness](#fairness) · [proofs](#proofs) ·
[findings](#findings) · [not modelled](#what-is-not-modelled) ·
[plan](#plan) · [running the checks](#running-the-checks)

## The system

One *registration node* and several *messengers*, all of them processes that are
gRPC servers and clients of each other.

    messenger                     registration node
      RegisterNode(id)  ------->    stores and dials the node
                                    at the Peers-th node: monitor builds the overlay
      PushPaths(edges)  <-------    to every connection, one after the other
      computes paths, dials every other node
      NodeReady         ------->    monitor: idleNodes
                                    at the Peers-th idle node: go startTasks
      StartTask         <-------    to every connection, 3 retries
      sends batches by first hops (AcceptMessage between messengers)
      NodeFinished      ------->    monitor: finishedNodes, 3 retries by the messenger
                                    when all registered nodes have: go requestMetadata
      GetMessagingData  <-------    from every finished node; prints the table

| Component | State | Operations | What makes it correct |
|---|---|---|---|
| Registration node, `node/registration/registrationnode.go` | `registeredNodes`, `nodeConnections`, `idleNodes`, `finishedNodes`, `metadata`, `overlay`, `overlaySent`, `mu`, two unbuffered channels | handlers `RegisterNode`, `DeregisterNode`, `GetOverlay`, `NodeReady`, `NodeFinished`, `ProcessMetadata`; goroutines `monitorOverlayStatus` (one), `startTasks` and `requestMetadata` (spawned by it) | each phase of the run happens once, after the one before it is complete for all nodes; monitor and handlers never wait for each other in a circle; the printed table is complete |
| Messenger process, `cmd/messenger/main.go`, `node/messenger/messenger.go` | `overlayEdges`, `nodePathDict`, `nodeConns`, `pathChan`, `startTaskChan`, the batch requirement | `main`, handlers `PushPaths`, `StartTask`; goroutines `calculatePathsWhenReady` and `doTask`, each of which receives from its channel once | READY only when it can route; starts sending only when everybody can; COMPLETE only when it has sent all |
| Message traffic, `node/messenger/messenger.go` | five counters, `statsChan` | `doTask`'s send loop, `AcceptMessage`, the relay goroutines, `trackReceivedData`, `GetMessagingData` | no message is lost or counted twice; totals agree |
| Overlay construction, `overlay/overlay.go` | the edges made so far, loop indices | `BuildOverlay`, `makeConnection`, `randomWeight` | the graph is simple and connected, every node has the connections asked for |
| Path search, `overlay/pathing.go` | priority queue, visited set, slices of edges | `GetAllShortestPaths`, `GetShortestPath`, `GraphEdgeHeap` | pops nodes at their distance, and the first hop it returns leads nearer to the destination at every node |
| Messages and services, `messaging/*.pb.go` | none | generated stubs and dispatch | – |
| Registration node program, address discovery, mocks | none | configuration, listening, local address | – |

The components interact only by RPC between processes; inside a process by the
mutex, the channels, and maps that are read and written without the mutex.

## What is hard about it

Nothing is persisted and no process restarts, so there is no recovery. What is
left is concurrency inside the registration node and what can happen to a call:

- `RegisterNode` holds `mu` while it dials and while it waits for the monitor,
  and the monitor takes `mu` for every status;
- counts (`len(idleNodes) == Peers`, `len(finishedNodes) == len(registeredNodes)`)
  decide when a phase starts, while nodes register, leave, die and repeat calls;
- maps are ranged over and read without `mu` while handlers write them, so an
  entry inserted meanwhile may be missed and the Go runtime may kill the process;
- deadlines pass although the call is still handled, calls are retried (some with
  a context that is cancelled already), and a messenger whose `NodeReady` misses
  its deadline ends its process;
- channels that are received from once, so that a repeated call blocks for ever;
- streams of edges that break off and leave a part behind, and messengers that end by
  `exit`, by the end of their input, or by an error, while their calls are under way;
- in the traffic, calls that fail before or after they are handled, relays that nobody
  waits for, messages that can circle over edges of weight 0, and handlers that block on a channel while their callers wait for the answer;
- in the search, slices that share arrays, heap items moved by an index they carry, and
  nodes that each compute their own paths yet depend on each other's choice of the next hop.

`PROJECT.json` lists each hazard at its line with the properties that cover it.

## Modules

| Module | Models | Uses |
|---|---|---|
| `RegistrationServer` | the registration node, its clients being the environment | – |
| `RegistrationServerProofs` | the theorems about it | `RegistrationServer` |
| `Messenger` | the messenger processes, seen by the registration node | – |
| `OverlayTask` | one run of the whole system | `RegistrationServer`, `Messenger`, and `TaskRun` through a refinement mapping |
| `OverlayTaskProofs` | the theorems about it | `OverlayTask`, `RegistrationServerProofs` by `INSTANCE` |
| `TaskRun` | the abstract specification: `README.md`'s process flow (`README.md:5`, `:7`) | – |
| `MessageTraffic` | batches, `AcceptMessage`, relay goroutines, the tracker, `GetMessagingData` | `Distances`, and `Delivery` through a refinement mapping |
| `MessageTrafficProofs` | the theorems about it | `MessageTraffic`, `RecursionLemmas`, `UniformCostSearchProofs` by `INSTANCE` |
| `Delivery` | the abstract specification: a message is delivered once, at its destination and at no other node, or lost | – |
| `Edges` | the edges of the overlay, made by one component and read by the other | – |
| `BuildOverlay` | overlay construction | `Edges` |
| `BuildOverlayProofs` | the theorems about it | `BuildOverlay`, `RecursionLemmas` |
| `Distances` | the reference: distances by Bellman and Ford's rounds, and what a walk weighs | `Edges` |
| `PriorityQueue` | the heap of the search: `Swap`, `Push`, `Pop`, `update` under `container/heap` | – |
| `PriorityQueueProofs` | lemmas: what its operations do to the map the heap stands for | `PriorityQueue`, `RecursionLemmas` |
| `HeapSearch` | one `GetShortestPath`, with its heap | `Edges`, `PriorityQueue`, and `UniformCostSearch` through a refinement mapping |
| `UniformCostSearch` | the abstract specification: the search on a queue that pops any item of least weight | `Edges` |
| `UniformCostSearchProofs` | the theorems about it, on any simple graph | `UniformCostSearch`, `Distances`, `RecursionLemmas` |
| `OverlayPaths` | an overlay built, and a search on its edges | `BuildOverlay`, `HeapSearch`, `Distances` |
| `OverlayPathsProofs` | the theorems about it | `OverlayPaths`, `BuildOverlayProofs`, `PriorityQueueProofs`, `UniformCostSearchProofs` by `INSTANCE` |
| `RecursionLemmas` | lemmas: induction on numbers, and functions defined by iteration | – |
| `MCRegistrationServer`, `MCOverlayTask`, `MCMessageTraffic`, `MCOverlayPaths` | instances for TLC | – |

Definitions named `Faulty...` are not part of a specification. Each is the
mutated form of the definition its comment names; a property is only kept if TLC
refutes it when that definition is replaced by the mutated form.

## How the code is modelled

**Grain.** An action is the code between two points at which a goroutine can
block or race with another one. `RegisterNode` has three: the presence check
without `mu` (`RegisterCheck`), the store under `mu` (`RegisterStore`), and the
return of `s.dial` with the count against `Peers` (`RegisterConnect`, or
`DialFails`). The send on `newRegistrationChan` and the receive of the monitor are one joint
step (`Announce`), as the channel is unbuffered; until then `mu` stays with the handler.
Likewise `TakeStatus` is the rendezvous on `nodeStatusChan`, and `ApplyReady` /
`ApplyComplete` the part of the monitor under `mu`. `RegistrationServer` writes
`mu` only where it is held across a step.

**Range loops over maps.** `Loop` keeps the keys present at the start, which must
be visited, and those seen. A key inserted during the loop may be visited or not, one
deleted need not be (`Delete`). So are the list of nodes an overlay is built of (`ListNode`, over
`registeredNodes` without `mu`), the pushes, the starts and the collection. The monitor runs one such
loop at a time, in `monitorLoop`.

**Data races.** `MapRaceCrash` is the Go runtime's "concurrent map read and map
write": it is enabled when two goroutines stand before accesses to one map, of
which one writes and not both are under `mu`, and sets `up` to `FALSE`. A process
that is down takes no step. `PrintMetadata` does the same for the nil entry that a
failed `GetMessagingData` leaves. The outcomes of a race other than the crash are
the interleavings of its accesses.

**RPCs in `OverlayTask`.** A call is a joint step of the two modules where the
callee handles it. The caller sees the answer, or the deadline that passed first,
in a later step. A call that was made is handled even if the caller has given up;
this is how a COMPLETE is delivered up to `Retries + 1` times, as distinct
members of `StatusCall`. A deadline that passes, a lost request or answer, or a push that breaks off
costs one of `MaxFaults`. The mapping of stages to the code is in the comments of `Messenger`:
`main` is the main goroutine, `paths` is `calculatePathsWhenReady`, `task` is
`doTask`, `blocked` are handlers waiting for a channel nobody receives from again.
`log.Fatal`, a panic and `os.Exit` are `End`: the process is gone, its stages stay,
because the calls it has made outlive it. A process in `MayExit` ends by `exit` (`Leave`, then `Exit`, or
`ExitFails` when `DeregisterNode` returns an error, which is ignored) or when its input ends (`Quit`), without
a call. One that had called `DeregisterNode` when it ended is `"left"`, and the call is still handled.

**What a node's view is.** `PushPaths` hands over the set of nodes on the edges.
How many edges, and where, is `OverlayPaths`' subject; `OverlayTask` only needs
that a node on an edge finds paths to all others and one on no edge does not. A stream that breaks
off leaves some of the nodes in `broken`, the edges that stay in `overlayEdges`; a later push that ends well adds its own,
and the node dies if the two do not fit together.

**Message traffic.** It starts where `OverlayTask` lets a node send: every node has
its paths. `conf` is the overlay with its edges, each node's first hop to each destination
(`route`), the nodes that `StartTask` reached, its request, and how many calls may fail. Of the hops `Init` assumes `Routed`,
which is `OverlayPaths!HopsApproach` for every pair of nodes: a hop goes along an edge, and the distance
from where it leads is less by the weight of that edge. Weights may be 0, so hops may lead in a circle.
A message that circles makes `mp.Path` grow; `MaxPath` bounds it, and a call beyond the bound stays in `calls`.
A call waits in `calls` until the tracker of its node receives from
the handler, which is `Accept`: handler, `statsChan` and tracker meet in one step, and
the handler of a message for another node then starts the relay goroutine, whose
call is in `calls` from there on. `doTask` waits in `current` for the answer of
one call at a time; `Answered` counts it. `SendFails` is any failure: the request did not get
through, or the deadline has passed and the call is handled all the same. The
message leaves the batch uncounted, and nothing is sent again. `RelayFails` is the
relay's call that does not get through. A relay's deadline that passes while its call
is handled changes nothing but the log, so it needs no step. A payload is a random number that is only
summed, so a sum is kept as the set of the messages added: two sums agree for all payloads
exactly when the sets do. What is delivered, for `Delivery`, are `Receipts`: a message and the node whose
tracker has added its payload. `Count` and `AddPayload` are the two assignments of the tracker.
`GetMessagingData` reads field by field, since no writer of the fields takes `mu`.

**Overlay construction.** The nodes are the indices of the shuffled list, so that
the shuffle needs no model. `GoRem` is Go's `%`, whose result has the sign of the
dividend: a start point more than the number of nodes behind is a negative
index, and `IndexPanic`. `Weight` is the set `randomWeight` may draw from.

**Path search.** A step is one iteration of the loop of `GetShortestPath`. A path
is a Go slice: the array, named by the node whose `append` allocated it, and the
length. `Appended` and `Written` are `append`: within the capacity it writes to
the shared array, else it copies to an array of twice the capacity (the growth of
Go's runtime for slices this small). `UniformCostSearch!Least` takes any item of least
weight, and `HeapSearch` implements it with the code's own heap: items that carry
their index, moved up and down by `container/heap` as the code's `Less` and `Swap` let it.
Indices count from 1 instead of 0. `BuildOverlay` lists its edges by ranging
over a map, so the edges of a node are offered in any order.

## Runs

Every run finishes within three minutes on two workers. "Holds" runs explore the
whole state space of their instance.

| Run | Instance | Shows |
|---|---|---|
| `server_exact` | 2 nodes, `Peers` 2, one call each, 1 retry | every phase once and in order, for all interleavings: the monitor and the last registration never wait for each other, the overlay is built of `Peers` nodes and pushed to each, statistics are asked for after all have finished, the first table has every row |
| `server_churn` | 2 nodes, 3 calls of which two name one address, dials may fail, one node may leave, the other may call `ProcessMetadata` | the start still waits for `Peers` READY reports and happens once |
| `task_flow` | 2 messengers, 1 retry, 2 faults, each a deadline that passes, a request or answer that is lost, or a push that breaks off | the run implements `TaskRun`; what is printed is printed of a finished run, and follows once all are done; whoever sends can route |
| `task_exits` | 3 messengers, `Peers` 2, 1 fault, one may leave, with or without a `DeregisterNode` call, and be replaced | nobody sends before `Peers` messengers are ready, and statistics are of messengers that have stopped sending, also over a second announcement and its blocked `PushPaths` |
| `task_live` | 2 messengers, no faults, `FairSpec` | every run ends with the printed table or with the death of the registration node |
| `task_results_follow` | 3 messengers, `Peers` 2 | refutes `ResultsFollow` |
| `task_retry_reaches` | 2 messengers, 1 fault, `FairSpec` | refutes `RetryReaches` |
| `traffic_relay` | three nodes of which one relays, two with failing sends, six where a message circles; batches of 0, 1 and 2 | the traffic implements `Delivery`; counted messages are accounted for; nobody counts twice; a batch overshoots by less than itself; a message that comes back has gone over edges of weight 0 only; every task ends and everything is delivered, lost, or circling; at rest, without failures, all totals agree |
| `traffic_circle` | six nodes, four connections, weights of 0 | refutes `NeverRevisits` |
| `traffic_totals` | three nodes, no failures | refutes `TotalsMatchWhenPrinted` |
| `paths_search` | eleven sizes, small weights, every source and destination | overlay: connections, connectedness, no double edge, index range, termination. search: the heap implements a queue that pops the least, pops at the distance, first hop, paths of up to three hops, termination |
| `paths_long_path` | template's size (6 nodes, 4 connections) | refutes `PathIsShortest` |

### Why the bounds are enough

- **Two nodes** for the registration node: its conditions compare counts and
  ranges loop over all nodes; with two there is a last and a not-last node of each
  phase, and two goroutines of every kind. Three nodes are needed only for a node too
  many (`task_results_follow`) and for a replacement (`task_exits`). That a message may be relayed by a third node
  changes nothing in `OverlayTask`, where `Routable` is about all nodes of the overlay; for any number of
  them `Routes` and `Implements` are proved.
- **`Retries`** is 3 in the code. One retry already gives a second delivery, a
  second spawned `requestMetadata` and a last attempt; `task_exits` uses 0, to afford a third node. The proofs are for every value.
- **`MaxFaults`** 2 in `task_flow` allows a fault of both messengers, of both
  attempts of one, or of a messenger and the registration node.
- **`Replacement`** (constraint of `task_exits`) drops the orders in which the third node starts
  before the first is gone and the second has joined, or is not connected when the task starts, and whatever would
  follow a crash or the first table. It bounds the instance only: `BarrierHolds` and `CollectsLast` of
  `OverlayTaskProofs` are proved without it, for any number of nodes that leave.
- **`Tasks`** of `traffic_relay`: three nodes in a line, so that one relays for both
  others, each with one message to send and one relay call that may fail; two nodes with a
  batch of two and two failing sends, or two batches of one and one failing send, which is where a batch
  overshoots and where a late answer meets the next message; no message, an empty
  batch (which panics), and a requirement below 0 (which is refused). Three nodes with failing
  sends as well have 1.7 million states and show nothing the two-node instances do not, as a send
  concerns a node and its first hop. `Circle` has the template's size and weights of 0; one node is started and one
  relay call may fail. Longer routes are covered by the proofs, which hold for all.
- **`MaxPath`** 6: the line needs 2, a simple path of `Circle` 5, and a message that circles has been
  at both nodes of its circle three times when it stops.
- **`Sizes`** has a ring, a complete graph, an odd number of connections, a
  disconnected overlay (`conns` 1 of 4), `conns` beyond the number of nodes, and
  two sizes out of the index range. `SmallWeights` has 0, ties, and a detour cheaper than an
  edge. Rings of up to 5 nodes take every assignment of 0, 1 and 3, the
  complete graph of 4 every assignment of 0 and 2; the other sizes have one weight for each edge, as
  they are there for the degrees and, the ring of 6, for connectedness.
- `DetourWeights` are the weights of one overlay of the template's size in which
  a shortest path has four hops; fewer hops cannot show the shared array.
- Symmetry is used only in runs without liveness properties, on `Node`, whose
  elements no definition distinguishes in those runs (`MayExit` is empty).
- `CHECK_DEADLOCK FALSE` is in every configuration: a run ends when the table is
  printed, a search when it returns, a registration node may be waiting for
  clients that never come. That nothing stops halfway is what `MonitorNotStuck`,
  `ResultsFollow`, `ResultsPrinted`, `Settles`, `BuildEnds` and `SearchSucceeds` say instead.

## Fairness

`OverlayTask!Fairness` is weak fairness of each goroutine: the monitor, each `startTasks`
and `requestMetadata`, and for each node what its process and the handlers of its
`RegisterNode` and `DeregisterNode` calls do by themselves (`Progress`): the Go scheduler runs every goroutine that can run.
`HandleRegister` has strong fairness: it waits for `mu`, which
others take and release meanwhile; writers of an `RWMutex` queue at a
`sync.Mutex`, which hands the lock to one that has waited for a millisecond. `Progress` includes `Join`: operators start their messengers. Nothing fair
leaves, quits, times out, loses a request, breaks off or crashes.

`ResultsPrinted` is checked with `MaxFaults` 0. With a passed deadline it is
false, and nothing in the code claims otherwise: a messenger that gave up
registering may leave `mu` held for ever by a dial that blocks
(`registrationnode.go:129`), and one that ended after `NodeReady` timed out
never completes.

`MessageTraffic!Fairness` is weak fairness of each node's `doTask`, of its tracker (with
the handlers that meet it), and of the collection. No failing call is fair. `Settles`
holds with any of them. It excepts the messages that circle, which never arrive; the tasks end all the same, as senders
wait for the first node's answer only.

`OverlayPaths!FairSpec` is weak fairness of the two loops, each of one goroutine. That
of the search is written out: a busy search always has a step, so "the search is
not busy infinitely often" stands for "no step is enabled infinitely often".

## Proofs

### The registration node

`RegistrationServerProofs` holds for every `Node`, `Call`, `CallNode`,
`MayExit`, `MayReport`, `Peers` and `Retries` that satisfy `ServerAssumption`
(the nodes are a finite set, `None` is none of the values, counts are natural).

| Theorem | States |
|---|---|
| `Inductive` | `Spec => []IInv` |
| `TypeCorrect` | `Spec => []TypeOK` |
| `BarrierHolds` | `Spec => []TaskBarrier` |
| `StartedOnce` | `Spec => []StartsOnce` |
| `CollectsLast` | `Spec => CollectsAfterAllFinished`, if `MayExit = {}` |
| `NeverStuck` | `Spec => []MonitorNotStuck`, under `ExactRegistration` |
| `OverlayComplete` | `Spec => []OverlayHasPeers`, under `ExactRegistration` |
| `OverlayPushed` | `Spec => []OverlayReachesAll`, under `ExactRegistration` |
| `FirstTableComplete` | `Spec => PrintsEveryNode`, under `ExactRegistration` |

`IInv` is a conjunction of named parts, each of which the next needs:

- `TypeOK`, without which neither sets nor functions can be reasoned about;
- `MutexInv`: `mu` belongs to the one call between Lock and Unlock. It is why two
  registrations never both announce, and why a stored node stays registered until its handler
  has connected it;
- `ReadyInv`: a node in `idleNodes` got there by its own READY, sent after a push
  and applied once. So the node of the status in hand is not idle yet, and
  *`ApplyReady` raises the count by exactly one* (lemma `IdleGrows`). A count that
  grows by one and never shrinks equals `Peers` once: this is the whole argument
  of `StartedOnce`;
- `StarterInv`: a `startTasks` goroutine exists only since the count met `Peers`, and
  a `StartTask` was sent only if one exists. With `ReadyInv` it gives
  `TaskBarrier`; neither is inductive alone;
- `FinishInv`: only connected nodes were started, only started ones finish.

`CollectsLast` adds `ConnectedInv` (with nobody leaving, connected nodes are
registered). Then `finishedNodes` is a subset of `registeredNodes`, and equal
counts of finite sets mean equal sets. If a node may leave the statement is
false: counts then agree for different sets.

`NeverStuck` and `OverlayComplete` are about `ExactRegistration`: `Peers` nodes,
one call each, none leaves, no dial fails. `ExactInv` says that a node is registered from the
store to the end of its call, that the announcing call is therefore the last one, and that
nothing was built or pushed, so no status can be in hand, until all calls have ended.
Two loops then run over maps that no longer change: `PushInv` says that the push loop must
visit the whole overlay, `PrintInv` that a collector must visit every node and leaves an entry
where it has been. Without the assumption these fail; see the observations below.

### One run of the whole system

`OverlayTaskProofs` holds for every `Node`, `MayExit`, `Peers`, `Retries` and
`MaxFaults` that satisfy `TaskAssumption`. Those marked assume `ExactRun`:
`Peers` messengers exist and none may leave, the situation of the repository's README.
Any of them may still die, by a deadline or a failed call.

| Theorem | States |
|---|---|
| `Inductive` | `Spec => []IInv` |
| `BarrierHolds` | `Spec => []SendsAfterReady` |
| `CollectsLast` | `Spec => []CollectsReported` |
| `PrintsLast` | `Spec => []PrintsFinishedRun`, under `ExactRun` |
| `Routes` | `Spec => []Routable`, under `ExactRun` |
| `Implements` | `Spec => FollowsFlow`, under `ExactRun`: the system implements `TaskRun` |
| `ServerImplements` | `Spec => P!Spec`: inside a run the registration node is a `RegistrationServer` |
| `TypeCorrect` | `Spec => []TypeOK` |
| `ResultsPrintedAtRest` | `Spec => []ResultsFollow`, under `ExactRun` |
| `ServerPromises` | `StartsOnce`, `MonitorNotStuck`, `OverlayReachesAll` and `PrintsEveryNode`, under `ExactRun` |

The registration node acts on what it was told, some of it by processes that are gone. `ReportInv`
says that this stays true: a status in hand, a count and an entry of `metadata` each imply the stage
of the messenger they are about, and stages never go back (`Forward`). `StartInv` carries the count of
idle nodes from the goroutine it spawned to the messengers that goroutine started.

Under `ExactRun` a count of `Peers` idle nodes means all of them (`AllReady`). All are then
registered, because a node gets paths only over the connection its registration made (`ExactInv`);
so counts of finished and registered nodes that agree mean that all have finished (`AllCounted`), whichever
COMPLETE it was that made them agree. That is `TaskRun`'s `Report`; `AllReady` is its `Start`.
`RouteInv` follows the overlay from the count that announces it to the edges each node is pushed, which are
the same for all. With more nodes than `Peers`, or exits, `Routable` and `FollowsFlow` need not
hold: see the observations.

`ServerImplements` carries theorems from one module to the other. `P` is `RegistrationServerProofs` with each
messenger's one `RegisterNode` call, its repeated COMPLETEs, and the environment that module leaves open;
`ServerSteps` says that each joint step of a run is a step of the server or none. Types, `StartsOnce`,
`MonitorNotStuck` and the rest then hold of the run without a second proof.
`ResultsPrintedAtRest` needs the server's `ResultInv`: a COMPLETE that was received is in hand or counted, the count
that reaches all nodes has made a collector, and a collector that ended has printed. So a run at rest in which all
messengers are done has its table.

### Message traffic

`MessageTrafficProofs` holds for every `Node`, `Settings` and `MaxPath` that satisfy
`TrafficAssumption`: any simple graphs on finite sets of nodes with the weights the code draws, any first hops that are
`Routed` (which `HopsAreNearer` proves of the search), any requests, and any number of failing calls.

| Theorem | States |
|---|---|
| `Inductive` | `Spec => []IInv` |
| `TypeCorrect` | `Spec => []TypeOK` |
| `Fits` | `Spec => []SentFits` |
| `Accounted` | `Spec => []CountedIsAccountedFor` |
| `OwnOnce` | `Spec => []ReceivesOwnOnce` |
| `Implements` | `Spec => Delivers`: the traffic implements `Delivery` |
| `CirclesAreFlat` | `Spec => []ReturnsWeighNothing` |
| `NeverCircles` | `Spec => [](PositiveWeights => NeverRevisits)` |
| `TotalsMatch` | `Spec => []TotalsMatchAtRest` |

`Known` are the messages under way, delivered or lost. The parts of `IInv`:

- `KnownInv`: a known message was issued, by a node of the overlay for another. So the one
  `Send` makes is new, which is `Delivery`'s `Issue`;
- `BatchInv`: what is left of the batch, and that the requirement was not met when
  the batch began. It bounds the overshoot by the batch whatever fails meanwhile;
- `SenderInv`: the counted messages are as many as the counter says, are known, and the one
  `doTask` waits for is not among them: counting it adds one;
- `CallsInv`: a message is in one place only: in one call, or in one tracker's hand, or delivered,
  or lost. Without it a delivery could leave a second copy under way;
- `ReceiverInv`: a received message is at its destination, and the two counters of a tracker
  differ by the one in hand.

The lemmas `SendMoves`, `AcceptMoves`, ... say what each action does to the sets of
`Delivery`; `DeliveryStep` then needs no more than these: `Accept` and `Count` stutter,
`AddPayload` delivers, a failed call loses or stutters. `AddPayloadReceipt` says where: at the node the
message is for, by `ReceiverInv`. A node that kept a message for another would have no step of `Delivery`.

`CirclesAreFlat` adds `WayInv`: the nodes on the path of a call, and the one it is for, follow the first hops from the origin.
The distances to the destination along them never grow (`NoGrowth`), so between two visits of one node they stay
the same, and by `Routed` each hop costs what it brings nearer: nothing (`CircleIsFlat`). Where every edge weighs something
that is a contradiction, which is `NeverCircles`. Nothing is assumed of how ties are broken. That distances are numbers
is taken from `UniformCostSearchProofs` (`DistanceType`).

`TotalsMatch` compares what nodes counted with what the routes say. `CountInv`, as long as no call fails and no message
has come back: nothing is lost, each known message is either the one
its sender waits for or counted by it, and each node's relay counter, with the one in its tracker's hand,
is the number of messages that have passed it (`HasRelayed`): those whose call shows it on
the path, and those that have arrived and have it on their route. On arrival the two are the same set (`Arrives`). A
message that came back is under way for ever (`ArrivesStraight`: a route that repeats itself does not arrive), so at rest there
is none, and was none.

### Overlay construction

`BuildOverlayProofs` holds for `BuildSpec`, which is `BuildOverlay` by itself, with every
number of nodes, every `reqConns` and every weights.

| Theorem | States |
|---|---|
| `Inductive` | `BuildSpec => []IInv` |
| `EveryNodeServed` | `BuildSpec => []AllServed` |
| `Simple` | `BuildSpec => []SimpleGraph` |
| `InRange` | `BuildSpec => []IndexInRange` |
| `Ring` | `BuildSpec => []RingInv` |
| `DegreeBound` | `BuildSpec => []DegreesFit` |
| `Connected` | `BuildSpec => []OverlayConnected` |
| `BuildShrinks` | each step leaves less `Work`, a natural number |

Why a node that is short of connections is joined to everybody is not visible in any one iteration:
the inner loop starts anywhere, goes round by Go's remainder, and ends when it meets its
own node for the second time. `Passed` are the nodes between the first meeting and the
loop's index, round the end of the list; `ServedInv` says that the node is joined to each of
them, and at the second meeting they are all the others. Edges are only added, so a
node that was served stays served (`MoreEdges`). `RangeInv` is the arithmetic of the
start point (`StartRange`).

**Degrees.** A node is also connected by the turns of nodes behind it, which nothing in
the loop's condition bounds. What does is where edges go: `RingInv` says that every edge is `Near`, at most
`conns \div 2` places back or `conns - conns \div 2` on, and that the loop's node is joined to
all it has passed behind itself (`PassedBehind`). An edge made after the loop has met its own node leads forward by no
more places than are missing, for else the nodes passed on either side would already be as many as were asked for
(`ForwardIsNear`). Nearness is as good as symmetric, so a node's neighbours sit in `2 * Most` places around it
(`PlaceOf`), which is `reqConns` or, if that is odd, one more.

**Connectedness.** The same places the other way round: a node with the connections asked for leaves at most one place free
(`PlaceTaken`), none if they are even. So a node is joined to the next in the list, or, each having
left out only the other, both are joined to the one after (`NextReached`). A set that has the first node and all
neighbours of its nodes then has no least node missing (`ClosedIsAll`). `Within` is such a set: a
round of it adds a node or nothing, and there are as many rounds as nodes (`Reached`).

### Path search

`UniformCostSearchProofs` holds for any finite set of nodes and any simple graph on it with weights in `0..50`,
`OverlayPathsProofs` for every setting and weight of `OverlayPaths`; `NoneAssumption` says that the value of an unwritten
cell is no node.

| Theorem | States |
|---|---|
| `SearchInvariant`, `SearchIsRight` | on any graph: the invariant; true distances, first hops, paths of up to three hops |
| `OverlayIsBuilt`, `OverlayKept` | `Spec => BuildSpec`, and so all that is proved of the overlay |
| `PathsInvariant` | `Spec => []PathsInv` |
| `HeapImplements` | `Spec => PopsLeast`: `HeapSearch` implements `UniformCostSearch` |
| `PopsAtDistance` | `Spec => []PopsDistance` |
| `HopsAreNearer` | `Spec => []HopsApproach` |
| `ShortPaths` | `Spec => []ShortPathIsShortest` |
| `TypeCorrect` | `Spec => []TypeOK` |
| `PathExists` | no search fails with two connections or more |
| `SearchShrinks` | each step of a search leaves less, a natural number |

**The queue of the search** (`UniformCostSearch`). That what is popped is at its distance has two halves. `Reached`: after as many
rounds of the reference as there are visited nodes, its values are down to the queued weights, so the
distance is not larger. `Settled`: the weights the visited nodes were popped with, and that of the node popped next for
all others, are a potential that no edge shortens (`Potential`), so it is not smaller.
`Back` holds what `HopsApproach` needs: for a node queued with weight w over the first hop h, the edge to h and the
distance from h to the destination are no more than w and the distance from that node. When the destination is popped, w is
the distance from the source, so the hop is on a shortest walk (`HopIsNearer`). `PathInv` is about slices:
the first three entries of a queued path are never overwritten, since an array of one or two cells is full when it is shared and
the third entry is the one that allocates an array of four (`TrailKept`, `TrailExtended`). It is the fourth that two
appends write: `PathIsShortest` is refuted by a run.

**The heap** (`PriorityQueue`). A heap stands for the map from its addresses to weights and paths (`Represents`). The moves of
`container/heap` are walks of a bounded number of steps; `PriorityQueueProofs` shows that a heap but for one item stays one
while that item moves up or down, and is a heap before the steps run out; that the stored indices stay right; and
that the root is a least item (`RootIsLeast`). The range over the edges of the popped item is then `Relaxed` of the map,
in whatever order they come (`RangeRelaxes`). The step from one module to the other expands the definitions of both
(`SameSteps`, `SameReference`).

**Termination and success.** `Work` and `Left` are naturals each step of a loop makes smaller, so neither loop goes on for
ever; that they do not stop halfway is `BuildEnds` and `SearchSucceeds`. A search whose queue is empty has visited
a set closed under neighbours without the destination in it, or its complement is one (`EmptyQueueFails`); a connected
overlay has neither.

### What only TLC checks

- All liveness (`ResultsPrinted`, `Settles`, `BuildEnds`, `SearchSucceeds`), which needs fairness and ENABLED and is
  out of the prover's reach. Of the last two the bounded number of steps is proved, and that a search which ends finds a path.
- The five refuted properties, which are counterexamples. Of `NeverRevisits` the half with positive weights is proved.

Induction theorems that take an operator cannot be instantiated by the provers at hand. `RecursionLemmas` has what replaces them: a
non-empty set of naturals has a least element, hence a set of naturals closed under the successor is all of them, and hence a
step can be iterated. The functions that models define by recursion (`Distances`, `Within`, `Relays`, the moves
in the heap, the range over the edges) are shown to exist with it and to be what their equations say.

## Findings

Disagreements of the code with what the repository says, each the counterexample of a run:

1. **A latecomer suppresses the results** (`task_results_follow`). The count of
   finished nodes is compared with the nodes registered at that time (`:260`), and nodes
   may register after the overlay is built; they are on no edge and never complete.
2. **No retry of StartTask leaves the process** (`task_retry_reaches`). The
   retries reuse the context cancelled at `:280`.
3. **Printed totals differ although no call failed** (`traffic_totals`). A relay answers
   before it has passed a message on (`messenger.go:305`), a receiver before its tracker has
   counted it (`:279`); so senders finish and statistics are fetched meanwhile, where `shortest_paths.proto:54`
   lets the totals match. They do at rest: `TotalsMatchAtRest`.
4. **A path of four hops may be wrong** (`paths_long_path`). `append` at
   `overlay/pathing.go:41` writes to an array other queued items share. The run returns 2-0-4-5-1 of weight
   39 where 2-0-4-3-1 weighs 15. Messengers use the first hop only, which is never the
   overwritten entry: `HopsApproach` holds.
5. **A message can circle for ever** (`traffic_circle`). Each node relays to the first node on its own path
   (`messenger.go:289`), nodes break ties by themselves, and `randomWeight` may draw 0
   (`overlay/overlay.go:14`), so a relay need not pass a message "another hop toward its destination"
   (`shortest_paths.proto:11`). The run has an overlay of the template's size, with hops that `GetShortestPath` finds
   in it: from 0, a message for 2 goes to 4, and from there back to 0. Its sender has counted it; the receiver never will.
   Only edges of weight 0 can do this: `CirclesAreFlat`, `NeverCircles`.

Observations made while modelling, not the subject of a run of their own:

- `RegisterNode`'s presence check (`:110`) is not repeated under `mu`: two
  concurrent calls for one address both register. No messenger makes them.
- A node whose dial fails stays in `registeredNodes` (`:128`), counts towards
  `Peers`, and is refused when it tries again. With the production options (`WithBlock`, no timeout) the dial blocks instead.
- `overlaySent` is read at `registrationnode.go:155` and never set, so `DeregisterNode` never
  refuses a node after the overlay was sent, as `:158` and `overlay_registration.proto:13` say.
- The nil result of a failed `GetMessagingData` is stored (`:306`) after the error was only logged,
  and `printMetadata` dereferences it (`:340`): the registration node dies (`PrintMetadata`).
- `doTask` tests the requirement between batches only, so failed sends make a node send up to a
  batch less one beyond "the amount in the configuration" (`shortest_paths.proto:54`): `SentFits`.
  A send whose deadline passed and that is delivered nevertheless is counted by the receiver only.
- `GetOverlay` always refuses, since `overlaySent` is never set. It changes no state;
  the operator `GetOverlay` says what it answers.
- If one node more registers between the announcement and the moment
  `BuildOverlay` reads the map, the overlay has `Peers + 1` nodes and the task starts
  when `Peers` of them are ready. `Routable` and `FollowsFlow` are therefore
  checked with exactly `Peers` nodes, `SendsAfterReady` with more.
- If registrations raise the count to `Peers` a second time (a node left), the
  `PushPaths` handlers of nodes that have paths block, and the registration node spends its 15 s on the first.
- The counterpart of `IndexInRange`: `BuildOverlay` indexes out of range from
  `reqConns` 6 for 2 nodes, 8 for 3, 10 for 4, 12 for 5, where `overlay.go:18` speaks of best effort.
  An odd `reqConns` gives some nodes one connection more.
- A push that breaks off (`messenger.go:205`) leaves the node without paths, as nothing pushes to it again unless
  the overlay is announced a second time; it never becomes ready, so with exactly `Peers` nodes the task never starts. The errors
  that `buildAndPushOverlay` collects say so.
- The end of a messenger's standard input ends it without `DeregisterNode` (`cmd/messenger/main.go:60`), and an error of that
  call is ignored (`:64`): the registration node goes on counting the node.
- `startTime` is set after `startTasks`' loop and read without `mu`, so a fast run can print the seconds since year 1.

## What is not modelled

- In `MessageTraffic`: `AcceptMessage`'s refusals of a message without destination or path, which
  cannot occur, as `doTask` sets the one and the task starts when every node has the other; the pause of one second after
  a failed send; `shutdownChan`, which nothing writes. In `OverlayTask` the send loop is one step
  that ends it (`ReportFinished`), and fetched statistics are `"data"` or `"nil"`: `MessageTraffic` has them.
- Validation of a node id and cancelled contexts in `RegisterNode` (`:106`, `:115`–`:123`):
  refusals before any state changes. `startTime`; the layout of the table.
- The registration node's `main`, `addressing/`, configuration files: I/O before any state exists.
- `messaging/*.pb.go` beyond which method a call reaches: generated marshalling. The mocks: test doubles.
- Network partitions that heal, and connections that break while both processes run: gRPC reconnects, and
  a call that fails meanwhile is a lost request.

## Plan

The order is that of importance: first the run, then routes, then what messengers
count, then proofs.

| Step | Modules | Abstract specification | Properties and theorems |
|---|---|---|---|
| done | `RegistrationServer`, `Messenger`, `OverlayTask` | `TaskRun` | runs `server_*`, `task_*`; nine theorems |
| done | `BuildOverlay`, `OverlayPaths` | Bellman–Ford distances | runs `paths_*` |
| done | `PriorityQueue`, `HeapSearch` | `UniformCostSearch` | run `paths_search` |
| done | `MessageTraffic` | `Delivery` | runs `traffic_*`; nine theorems |
| done | proofs about `OverlayTask` | `TaskRun`, `RegistrationServer` | ten theorems |
| done | proofs about `BuildOverlay` | – | eight theorems, with the degrees and connectedness |
| done | proofs about the search | `UniformCostSearch` | twelve theorems in `UniformCostSearchProofs` and `OverlayPathsProofs` |
| next | proofs about `OverlayTask` | `RegistrationServer` | which of the server's promises survive exits and latecomers |
| next | proofs about `MessageTraffic` | – | a measure of the traffic that each step lessens, as `Work` and `Left` do for the loops |
| later | `OverlayPaths`, `MessageTraffic` | – | one module with the overlay, the searches of all nodes, and the traffic on the hops they find, so that `Routed` is proved of the composition and not an assumption of `Init` |

## Running the checks

In this directory, with the TLA+ tools and the community modules on the path:

    tlc -workers 2 -config MCRegistrationServer_exact.cfg MCRegistrationServer
    tlapm RegistrationServerProofs.tla
    tlapm OverlayTaskProofs.tla
    tlapm MessageTrafficProofs.tla
    tlapm BuildOverlayProofs.tla
    tlapm RecursionLemmas.tla
    tlapm UniformCostSearchProofs.tla
    tlapm PriorityQueueProofs.tla
    tlapm OverlayPathsProofs.tla

`PROJECT.json` lists all runs, the mutant that breaks each property, the lines
each definition models, the hazards and the theorems.
