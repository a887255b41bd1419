--------------------------- MODULE MessageTraffic ---------------------------
(***************************************************************************)
(* What messengers do once the task has started (node/messenger/           *)
(* messenger.go): doTask sends batches of messages by the first node on    *)
(* the path to a random destination, AcceptMessage receives or relays      *)
(* them, trackReceivedData counts, and the registration node collects the  *)
(* counts when every node has finished sending.                            *)
(*                                                                         *)
(* A payload is a random number whose only use is to be summed up.  Sums   *)
(* are kept as the sets of messages summed: they agree for all payloads    *)
(* exactly if these sets do.                                               *)
(***************************************************************************)
EXTENDS Integers, Sequences, FiniteSets

CONSTANTS
  Node,
  Settings,        \* overlays with routes, TaskRequests, and which calls may fail
  MaxPath,         \* bound on mp.Path, which grows as long as a message circles
  None

\* A PathMessage, told apart by who made it and when.
PathMessage == [origin : Node, nr : Nat, destination : Node]

\* What AcceptMessage sends on statsChan; "PAYLOAD" is a received message that
\* is counted, and whose payload is not added up yet.
RecStats == [type : {"RECEIVED", "PAYLOAD", "RELAYED"}, msg : PathMessage]

TaskRequest == [batches : Int, perBatch : Int]

ASSUME TrafficAssumption ==
  /\ IsFiniteSet(Node) /\ None \notin Node \cup PathMessage \cup RecStats
  /\ MaxPath \in Nat
  /\ \A c \in Settings :
       /\ c.nodes \subseteq Node
       /\ c.edges \subseteq [source : c.nodes, destination : c.nodes, weight : 0..50]
       /\ \A e \in c.edges : e.source # e.destination
       /\ \A e, f \in c.edges : {e.source, e.destination} = {f.source, f.destination} => e = f
       /\ c.route \in [c.nodes -> [c.nodes -> c.nodes]]
       /\ c.started \subseteq c.nodes
       /\ c.request \in TaskRequest /\ c.sendFails \in Nat /\ c.relayFails \in Nat

VARIABLES
  conf,            \* nodes and edges of the overlay; route[n][d], which is
                   \* nodePathDict[d][0] of node n; the nodes that StartTask
                   \* reaches and its request; how many calls may fail
  task,            \* doTask: "waiting", "sending", "finished" or "panicked"
  dest,            \* r, the destination of the batch
  left,            \* how many messages of the batch are not sent yet
  issued,          \* how many messages have been made
  current,         \* the message whose AcceptMessage call doTask waits for
  messagesSent, payloadSent,
  calls,           \* AcceptMessage calls that no statsChan receive has met
  counting,        \* trackReceivedData: the statistic it has in hand
  messagesReceived, messagesRelayed, payloadReceived,
  lost,            \* messages that were in a call which did not get through
  fetched,         \* the fields of each node's MessagingMetadata read so far
  failedSends, failedRelays

sendVars == <<task, dest, left, issued, current, messagesSent, payloadSent>>
countVars == <<counting, messagesReceived, messagesRelayed, payloadReceived>>
faults == <<failedSends, failedRelays>>
vars == <<conf, sendVars, calls, countVars, lost, fetched, faults>>

-----------------------------------------------------------------------------
Nodes == conf.nodes
Requirement == conf.request.batches * conf.request.perBatch

\* An AcceptMessage call of a message at a node, with the nodes in mp.Path.
Call(m, at, path) == [msg |-> m, at |-> at, path |-> path]

FirstCall(m) == Call(m, conf.route[m.origin][m.destination], <<m.origin>>)

\* The first node has answered: its handler's send on statsChan was met.
HasAnswered(m) == FirstCall(m) \notin calls

\* Faults the properties must tell from the code.
FaultyNextNode(n, m) == conf.route[n][m.origin]                    \* NextNode
FaultyForward(n, c) == {}                                     \* Forward
FaultyMoreToSend(n) == messagesSent[n] <= Requirement         \* MoreToSend
FaultyInBatch(n) == left[n] >= 0                              \* InBatch
FaultyStatistic(n, m) ==                                      \* Statistic
  [type |-> "RECEIVED", msg |-> m]

NextNode(n, m) == conf.route[n][m.destination]

\* The call a relay goroutine makes.
Forward(n, c) == {Call(c.msg, NextNode(n, c.msg), Append(c.path, n))}

MoreToSend(n) == messagesSent[n] < Requirement
InBatch(n) == left[n] > 0

\* recStats of a message at a node.
Statistic(n, m) == [type |-> IF m.destination = n THEN "RECEIVED" ELSE "RELAYED", msg |-> m]

\* What GetShortestPath promises of the hops that nodes take, each from a path
\* of its own (OverlayPaths!HopsApproach, weights of 0 included).
G == INSTANCE Distances WITH edges <- conf.edges

Routed ==
  \A d \in Nodes :
    LET far == G!Distances(Nodes, d)
        hop(n) == conf.route[n][d]
    IN  \A n \in Nodes \ {d} :
          G!Adjacent(n, hop(n)) /\ far[n] = G!Cost(n, hop(n)) + far[hop(n)]

Init ==
  /\ conf \in Settings /\ Routed
  /\ task = [n \in Node |-> "waiting"]
  /\ dest = [n \in Node |-> n]
  /\ left = [n \in Node |-> 0] /\ issued = [n \in Node |-> 0]
  /\ current = [n \in Node |-> None]
  /\ messagesSent = [n \in Node |-> 0] /\ payloadSent = [n \in Node |-> {}]
  /\ calls = {}
  /\ counting = [n \in Node |-> None]
  /\ messagesReceived = [n \in Node |-> 0] /\ messagesRelayed = [n \in Node |-> 0]
  /\ payloadReceived = [n \in Node |-> {}]
  /\ lost = {}
  /\ fetched = [n \in Node |-> <<>>]
  /\ failedSends = 0 /\ failedRelays = 0

-----------------------------------------------------------------------------
(* doTask *)

\* StartTask refuses a negative requirement; an empty batch is found by doTask.
\* A call that is lost is not repeated with success (registrationnode.go:280).
StartTask(n) ==
  /\ n \in conf.started /\ task[n] = "waiting" /\ Requirement >= 0
  /\ task' = [task EXCEPT ![n] = IF conf.request.perBatch <= 0 THEN "panicked" ELSE "sending"]
  /\ UNCHANGED <<conf, dest, left, issued, current, messagesSent, payloadSent, calls,
                 countVars, lost, fetched, faults>>

\* The next message of the batch, or the first of another one, is sent.
Send(n) ==
  /\ task[n] = "sending" /\ current[n] = None
  /\ \/ InBatch(n) /\ UNCHANGED <<left, dest>>
     \/ /\ left[n] = 0 /\ MoreToSend(n)
        /\ left' = [left EXCEPT ![n] = conf.request.perBatch]
        /\ \E r \in Nodes \ {n} : dest' = [dest EXCEPT ![n] = r]
  /\ LET m == [origin |-> n, nr |-> issued[n], destination |-> dest'[n]]
     IN  /\ current' = [current EXCEPT ![n] = m]
         /\ calls' = calls \cup {FirstCall(m)}
  /\ issued' = [issued EXCEPT ![n] = @ + 1]
  /\ UNCHANGED <<conf, task, messagesSent, payloadSent, countVars, lost, fetched, faults>>

\* doTask is done with the message: the batch goes on without it.
NextOfBatch(n) ==
  /\ current' = [current EXCEPT ![n] = None]
  /\ left' = [left EXCEPT ![n] = @ - 1]

\* The call returns without an error.
Answered(n) ==
  /\ current[n] # None /\ HasAnswered(current[n])
  /\ messagesSent' = [messagesSent EXCEPT ![n] = @ + 1]
  /\ payloadSent' = [payloadSent EXCEPT ![n] = @ \cup {current[n]}]
  /\ NextOfBatch(n)
  /\ UNCHANGED <<conf, task, dest, issued, calls, countVars, lost, fetched, faults>>

\* The call fails: the request did not get through, or its deadline has passed
\* and the first node handles it nevertheless.  The message is not counted, and
\* not sent again.
SendFails(n) ==
  /\ failedSends < conf.sendFails
  /\ current[n] # None
  /\ \/ UNCHANGED <<calls, lost>>
     \/ /\ ~HasAnswered(current[n])
        /\ calls' = calls \ {FirstCall(current[n])}
        /\ lost' = lost \cup {current[n]}
  /\ NextOfBatch(n)
  /\ failedSends' = failedSends + 1
  /\ UNCHANGED <<conf, task, dest, issued, messagesSent, payloadSent, countVars, fetched,
                 failedRelays>>

\* The loop ends, and NodeFinished is called.
Finish(n) ==
  /\ task[n] = "sending" /\ left[n] = 0 /\ ~MoreToSend(n)
  /\ task' = [task EXCEPT ![n] = "finished"]
  /\ UNCHANGED <<conf, dest, left, issued, current, messagesSent, payloadSent, calls,
                 countVars, lost, fetched, faults>>

-----------------------------------------------------------------------------
(* AcceptMessage, the relay goroutines and trackReceivedData *)

\* trackReceivedData receives what a handler of AcceptMessage sends.  The
\* handler of a message for another node then starts the relay goroutine.
Accept(n, c) ==
  /\ counting[n] = None
  /\ c.at = n
  /\ c.msg.destination # n => Len(c.path) < MaxPath
  /\ counting' = [counting EXCEPT ![n] = Statistic(n, c.msg)]
  /\ calls' = (calls \ {c}) \cup (IF c.msg.destination = n THEN {} ELSE Forward(n, c))
  /\ UNCHANGED <<conf, sendVars, messagesReceived, messagesRelayed, payloadReceived,
                 lost, fetched, faults>>

\* The call of a relay goroutine does not get through, which is only logged.
RelayFails(c) ==
  /\ failedRelays < conf.relayFails
  /\ Len(c.path) > 1
  /\ calls' = calls \ {c}
  /\ lost' = lost \cup {c.msg}
  /\ failedRelays' = failedRelays + 1
  /\ UNCHANGED <<conf, sendVars, countVars, fetched, failedSends>>

Count(n) ==
  /\ counting[n] # None
  /\ \/ /\ counting[n].type = "RECEIVED"
        /\ messagesReceived' = [messagesReceived EXCEPT ![n] = @ + 1]
        /\ counting' = [counting EXCEPT ![n] = [type |-> "PAYLOAD", msg |-> @.msg]]
        /\ UNCHANGED messagesRelayed
     \/ /\ counting[n].type = "RELAYED"
        /\ messagesRelayed' = [messagesRelayed EXCEPT ![n] = @ + 1]
        /\ counting' = [counting EXCEPT ![n] = None]
        /\ UNCHANGED messagesReceived
  /\ UNCHANGED <<conf, sendVars, calls, payloadReceived, lost, fetched, faults>>

AddPayload(n) ==
  /\ counting[n] # None /\ counting[n].type = "PAYLOAD"
  /\ payloadReceived' = [payloadReceived EXCEPT ![n] = @ \cup {counting[n].msg}]
  /\ counting' = [counting EXCEPT ![n] = None]
  /\ UNCHANGED <<conf, sendVars, calls, messagesReceived, messagesRelayed, lost, fetched, faults>>

-----------------------------------------------------------------------------
(* GetMessagingData *)

MessagingMetadata(n) ==
  <<messagesSent[n], messagesReceived[n], messagesRelayed[n], payloadSent[n], payloadReceived[n]>>

Complete(n) == Len(fetched[n]) = 5

\* When all have finished, the registration node asks one after the other.  No
\* writer of the counters takes mu, so the fields are read one by one.
GetMessagingData(n) ==
  /\ \A m \in Nodes : task[m] = "finished"
  /\ \A m \in Nodes \ {n} : fetched[m] = <<>> \/ Complete(m)
  /\ ~Complete(n)
  /\ fetched' = [fetched EXCEPT ![n] = Append(@, MessagingMetadata(n)[Len(@) + 1])]
  /\ UNCHANGED <<conf, sendVars, calls, countVars, lost, faults>>

-----------------------------------------------------------------------------
DoTask(n) == StartTask(n) \/ Send(n) \/ Answered(n) \/ Finish(n)
TrackReceivedData(n) == (\E c \in calls : Accept(n, c)) \/ Count(n) \/ AddPayload(n)
Fault == (\E n \in Nodes : SendFails(n)) \/ (\E c \in calls : RelayFails(c))
Next == (\E n \in Nodes : DoTask(n) \/ TrackReceivedData(n) \/ GetMessagingData(n)) \/ Fault

Spec == Init /\ [][Next]_vars

\* Every goroutine that can run runs.
Fairness ==
  \A n \in Node : /\ WF_vars(DoTask(n)) /\ WF_vars(TrackReceivedData(n))
                  /\ WF_vars(GetMessagingData(n))
FairSpec == Spec /\ Fairness

-----------------------------------------------------------------------------
(* Properties *)

Sent == UNION {payloadSent[n] : n \in Node}
Received == UNION {payloadReceived[n] : n \in Node}
InHand ==
  {counting[n].msg : n \in {k \in Node : counting[k] # None /\ counting[k].type # "RELAYED"}}
UnderWay == InHand \cup {c.msg : c \in calls}

NoneFailed == failedSends = 0 /\ failedRelays = 0

\* The nodes a message has been at, with the one it is on the way to.
Trail(c) == Append(c.path, c.at)
Returns(c) == \E i, j \in 1..Len(Trail(c)) : i < j /\ Trail(c)[i] = Trail(c)[j]
Circling == {c.msg : c \in {e \in calls : Returns(e)}}

\* Every task that was started has ended.
Ended ==
  \A n \in Nodes :
    task[n] # "sending" /\ (n \in conf.started /\ task[n] = "waiting" => Requirement < 0)

\* Nothing is left to do but to print.
Settled == Ended /\ calls = {} /\ \A n \in Nodes : counting[n] = None

TypeOK ==
  /\ conf \in Settings
  /\ task \in [Node -> {"waiting", "sending", "finished", "panicked"}]
  /\ dest \in [Node -> Node]
  /\ left \in [Node -> Nat] /\ issued \in [Node -> Nat]
  /\ current \in [Node -> PathMessage \cup {None}]
  /\ messagesSent \in [Node -> Nat] /\ payloadSent \in [Node -> SUBSET PathMessage]
  /\ calls \subseteq [msg : PathMessage, at : Node, path : Seq(Node)]
  /\ counting \in [Node -> RecStats \cup {None}]
  /\ messagesReceived \in [Node -> Nat] /\ messagesRelayed \in [Node -> Nat]
  /\ payloadReceived \in [Node -> SUBSET PathMessage]
  /\ lost \subseteq PathMessage
  /\ failedSends \in 0..conf.sendFails /\ failedRelays \in 0..conf.relayFails

\* What a node reports as sent is what was asked for, with at most the rest of
\* one batch more, however many of its sends failed (messenger.go:132, :139).
SentFits ==
  \A n \in Nodes : task[n] = "finished" =>
    /\ Cardinality(payloadSent[n]) = messagesSent[n]
    /\ messagesSent[n] >= Requirement
    /\ messagesSent[n] < Requirement + conf.request.perBatch

\* A message that its sender counts is counted by its destination, or on the
\* way to it, or lost in the call of a relay goroutine (:295): an answer does
\* not mean delivery, yet no message disappears without a failed call.
CountedIsAccountedFor == Sent \subseteq Received \cup UnderWay \cup lost

\* A node receives what is for it, each message once, whoever gave up waiting
\* for an answer; its two counters differ only while one is being counted.
ReceivesOwnOnce ==
  \A n \in Nodes :
    /\ \A m \in payloadReceived[n] : m.destination = n
    /\ messagesReceived[n] = Cardinality(payloadReceived[n]) +
         (IF counting[n] # None /\ counting[n].type = "PAYLOAD" THEN 1 ELSE 0)

\* A message that comes back to a node has lost no weight since it was there:
\* only edges of weight 0 lead in a circle, although every node takes the first
\* hop of a path of its own and breaks ties by itself (:280, :289).
ReturnsWeighNothing ==
  \A c \in calls :
    LET at == Trail(c)
    IN  \A i, j \in 1..Len(at) : i < j /\ at[i] = at[j] =>
          \A k \in i..(j - 1) : G!Cost(at[k], at[k + 1]) = 0

\* "Either relays the message another hop toward its destination or processes
\* the payload value" (shortest_paths.proto:11): no message visits a node twice.
NeverRevisits == \A c \in calls : ~Returns(c)

PositiveWeights == \A e \in conf.edges : e.weight > 0

\* The nodes that relay a message from o to d.
Relays(o, d) ==
  LET hop[k \in 0..Cardinality(Node)] ==
        IF k = 0 THEN o ELSE IF hop[k - 1] = d THEN d ELSE conf.route[hop[k - 1]][d]
  IN  {hop[k] : k \in 1..Cardinality(Node)} \ {d}

\* If no call fails, then once all is at rest the senders' and the receivers'
\* totals agree, and each node has relayed what is routed through it.
TotalsMatchAtRest ==
  Settled /\ NoneFailed =>
    /\ Sent = Received
    /\ \A n \in Nodes : messagesRelayed[n] =
         Cardinality({m \in Sent : n \in Relays(m.origin, m.destination)})

\* A message and the node where its payload was added up.
Receipts == UNION {{[msg |-> m, at |-> n] : m \in payloadReceived[n]} : n \in Node}

\* Every message that is issued is delivered once, at its destination, or lost
\* (the specification Delivery).
D == INSTANCE Delivery WITH underWay <- UnderWay, delivered <- Receipts
Delivers == D!Spec

\* Whatever calls fail, the task ends at every node that was started, and all
\* messages are delivered or lost but those that circle for ever: relays and
\* handlers do not wait for each other.
Settles == <>[](IF Circling = {} THEN Settled ELSE Ended /\ UnderWay \subseteq Circling)

Printed == \A n \in Nodes : Complete(n)
Total(f) == UNION {fetched[n][f] : n \in Nodes}

\* "the total payload values sent in the overlay should match the total values
\* received" (shortest_paths.proto:54), if no call fails.
TotalsMatchWhenPrinted == Printed /\ NoneFailed => Total(4) = Total(5)
=============================================================================
