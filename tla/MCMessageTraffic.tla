-------------------------- MODULE MCMessageTraffic --------------------------
(* Instances of MessageTraffic for TLC, with overlays that BuildOverlay      *)
(* makes: one connection for two or three nodes, four connections for six.   *)
EXTENDS MessageTraffic

\* The overlay of the given edges, where hops[n + 1][d + 1] is the first hop
\* from n to d.
Overlay(list, hops) ==
  [nodes |-> 0..(Len(hops) - 1),
   edges |-> {[source |-> e[1], destination |-> e[2], weight |-> e[3]] : e \in list},
   route |-> [n \in 0..(Len(hops) - 1) |-> [d \in 0..(Len(hops) - 1) |-> hops[n + 1][d + 1]]]]

Pair == Overlay({<<0, 1, 3>>}, <<<<0, 1>>, <<0, 1>>>>)

\* 0 relays between 1 and 2.
Line == Overlay({<<0, 1, 3>>, <<2, 0, 5>>}, <<<<0, 1, 2>>, <<0, 1, 0>>, <<0, 0, 2>>>>)

\* The template's size, and what GetShortestPath finds there if BuildOverlay
\* lists the edges of 0, 4, 1, 3 and 2 in this order: to 2, node 0 hops to 4
\* and 4 to 0.
Circle ==
  Overlay({<<0, 4, 0>>, <<0, 5, 0>>, <<0, 1, 0>>, <<0, 2, 2>>, <<4, 5, 0>>, <<1, 5, 0>>,
           <<1, 2, 0>>, <<1, 3, 0>>, <<3, 4, 0>>, <<3, 5, 0>>, <<2, 3, 0>>, <<2, 4, 2>>},
          <<<<0, 1, 4, 4, 4, 5>>, <<0, 1, 2, 3, 0, 5>>, <<1, 1, 2, 3, 3, 1>>,
            <<1, 1, 2, 3, 4, 5>>, <<0, 0, 0, 3, 4, 5>>, <<0, 1, 3, 3, 4, 5>>>>)

\* A task of all nodes of an overlay that StartTask reaches.
Task(o, started, batches, perBatch, sendFails, relayFails) ==
  [nodes |-> o.nodes, edges |-> o.edges, route |-> o.route, started |-> started,
   request |-> [batches |-> batches, perBatch |-> perBatch],
   sendFails |-> sendFails, relayFails |-> relayFails]

All(o, batches, perBatch, sendFails, relayFails) ==
  Task(o, o.nodes, batches, perBatch, sendFails, relayFails)

\* One start request gets through.
CirclingTasks == {Task(Circle, {0}, 1, 1, 0, 1)}

\* Failing sends make batches overshoot, failing relays lose messages; tasks
\* without a message, without a batch, and refused; a message that circles.
Tasks == {All(Line, 1, 1, 0, 1), All(Pair, 1, 2, 2, 0), All(Pair, 2, 1, 1, 0),
          All(Line, 0, 1, 0, 0), All(Line, 1, 0, 0, 0), All(Pair, -1, 1, 0, 0)}
         \cup CirclingTasks

Relaying == {All(Line, 1, 1, 0, 0)}
=============================================================================
