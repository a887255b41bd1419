----------------------------- MODULE HeapSearch -----------------------------
(***************************************************************************)
(* GetShortestPath of overlay/pathing.go with its priority queue, which    *)
(* implements the search of UniformCostSearch: what the heap pops is an    *)
(* item of least weight, and what it holds is the map of that module.      *)
(*                                                                         *)
(* The edges of a node come in any order, for BuildOverlay ranges over a   *)
(* map to list them.                                                       *)
(***************************************************************************)
EXTENDS Edges, PriorityQueue, SequencesExt

CONSTANT None

VARIABLES
  source, dest,
  queue,           \* unvisited, the PriorityQueue
  visited, cells, result, search

heapVars == <<source, dest, queue, visited, cells, result, search>>

\* The queue as a map from addresses.
Unvisited ==
  [a \in {queue[i].address : i \in 1..Len(queue)} |->
     [weight |-> ItemOf(queue, a).weight, path |-> ItemOf(queue, a).path]]

U == INSTANCE UniformCostSearch WITH unvisited <- Unvisited

\* A graphEdge before it is in the queue.
Item(address, weight, path) ==
  [address |-> address, weight |-> weight, path |-> path, index |-> 1]

HeapInit ==
  /\ source = None /\ dest = None
  /\ queue = <<>> /\ visited = {}
  /\ cells = [n \in {} |-> <<>>]
  /\ result = <<>>
  /\ search = "idle"

Begin(s, d) ==
  /\ search = "idle"
  /\ source' = s /\ dest' = d
  /\ queue' = <<Item(s, 0, U!Nil)>>
  /\ search' = "busy"
  /\ UNCHANGED <<edges, visited, cells, result>>

\* One edge of the popped item: its other end is pushed, or made cheaper.
Offer(pq, target, weight, path) ==
  IF ~Holds(pq, target) THEN Push(pq, Item(target, weight, path))
  ELSE IF U!Cheaper(ItemOf(pq, target).weight, weight)
       THEN Update(pq, ItemOf(pq, target), weight, path)
       ELSE pq

\* The popped item is the destination: its path is returned.
Return ==
  /\ search = "busy" /\ queue # <<>>
  /\ LET node == queue[1]
         path == U!Appended(node.path, node.address)
     IN  /\ node.address = dest
         /\ cells' = U!Written(node.path, node.address)
         /\ result' = SubSeq(cells'[path.array], 2, path.len)
  /\ queue' = Popped(queue)
  /\ search' = "found"
  /\ UNCHANGED <<edges, source, dest, visited>>

Visit ==
  /\ search = "busy" /\ queue # <<>>
  /\ LET node == queue[1]
         path == U!Appended(node.path, node.address)
         offered == {e \in EdgesOf(node.address) :
                       Target(e, node.address) \notin visited \cup {node.address}}
     IN  /\ node.address # dest
         /\ cells' = U!Written(node.path, node.address)
         /\ visited' = visited \cup {node.address}
         /\ \E order \in SetToSeqs(offered) :
              LET ranged[k \in 0..Len(order)] ==
                    IF k = 0 THEN Popped(queue)
                    ELSE Offer(ranged[k - 1], Target(order[k], node.address),
                               node.weight + order[k].weight, path)
              IN  queue' = ranged[Len(order)]
  /\ UNCHANGED <<edges, source, dest, result, search>>

\* The queue is empty: an error, which makes the messenger call log.Fatal.
NoPath ==
  /\ search = "busy" /\ queue = <<>>
  /\ search' = "failed"
  /\ UNCHANGED <<edges, source, dest, queue, visited, cells, result>>
=============================================================================
