---------------------------- MODULE OverlayPaths ----------------------------
(***************************************************************************)
(* From the settings to a route: the registration node builds the overlay  *)
(* (BuildOverlay), its edges are pushed to the messengers, and one of them *)
(* searches the path to another (HeapSearch).  Messengers compute          *)
(* their paths from the same edges independently, and send and relay a     *)
(* message only by the first node on their own path to its destination.    *)
(***************************************************************************)
EXTENDS BuildOverlay, HeapSearch, Distances

\* An array cell that is not written holds no node.
ASSUME NoneAssumption == None \notin Nat

vars == <<overlayVars, heapVars>>

Init == BuildInit /\ HeapInit

Build == BuildStep /\ UNCHANGED heapVars

\* A step of the search of the path from a node on an edge to another.
Search ==
  /\ building = "built"
  /\ \/ \E s, d \in UNION {Ends(e) : e \in edges} : s # d /\ Begin(s, d)
     \/ Visit \/ Return \/ NoPath
  /\ UNCHANGED <<conf, index, targetIndex, checkedSelf, building>>

Next == Build \/ Search

Spec == Init /\ [][Next]_vars
\* Weak fairness of the two loops.  A busy search always has a step, so its part
\* says in place of ENABLED that the search is busy.
FairSpec == Spec /\ WF_vars(Build) /\ ([]<>(search # "busy") \/ []<><<Search>>_vars)

-----------------------------------------------------------------------------
(* The reference *)

Distance(d) == Distances(Nodes, d)

-----------------------------------------------------------------------------
(* Properties *)

TypeOK ==
  /\ conf \in Settings
  /\ index \in Nodes
  /\ targetIndex \in -conf.nodes..conf.nodes - 1
  /\ checkedSelf \in BOOLEAN
  /\ edges \subseteq [source : Nodes, destination : Nodes, weight : 0..50]
  /\ building \in {"busy", "built", "panicked"}
  /\ source \in Nodes \cup {None} /\ dest \in Nodes \cup {None}
  /\ visited \subseteq Nodes
  /\ \A i \in 1..Len(queue) : queue[i].address \in Nodes \ visited /\ queue[i].index = i
  /\ \A n \in DOMAIN cells : cells[n] \in Seq(Nodes \cup {None})
  /\ result \in Seq(Nodes)
  /\ search \in {"idle", "busy", "found", "failed"}

\* The node popped next is at its true distance from the source: no later
\* update of the queue could have been cheaper.
PopsDistance ==
  search = "busy" =>
    \A n \in DOMAIN Unvisited :
      U!Least(n) => Unvisited[n].weight = Distance(source)[n]

\* The heap implements a map of which any item of least weight is popped
\* (pathing.go:36-83 against UniformCostSearch).
PopsLeast == U!SearchSpec

\* Every hop that is taken brings a message nearer to its destination, as
\* messengers use the first hop of their own path only: with positive weights
\* a message cannot circle, however the nodes break ties.
HopsApproach ==
  search = "found" =>
    LET left == Distance(dest)
    IN  /\ result[1] \in Neighbours(source)
        /\ left[source] = Cost(source, result[1]) + left[result[1]]

\* A path of at most three hops is a shortest one, whatever arrays it shared.
ShortPathIsShortest ==
  search = "found" /\ Len(result) <= 3 =>
    result[Len(result)] = dest /\ Walked(Nodes, source, result) = Distance(source)[dest]

\* GetShortestPath returns the shortest path from source to destination
\* (pathing.go:26).
PathIsShortest ==
  search = "found" => Walked(Nodes, source, result) = Distance(source)[dest]

\* The search ends, and finds a path if each node has two connections or more.
SearchSucceeds ==
  (search = "busy") ~> (search = "found" \/ (search = "failed" /\ conf.conns < 2))
=============================================================================
