------------------------------ MODULE Distances ------------------------------
(***************************************************************************)
(* The reference for the searches: distances in the graph of edges by      *)
(* Bellman and Ford's rounds.  After r rounds a node has the weight of its *)
(* cheapest walk of at most r edges to the destination.  A round that      *)
(* changes nothing is followed by its like.                                *)
(***************************************************************************)
EXTENDS Edges, Integers, Sequences, FiniteSetsExt

\* More than any simple path weighs.
Far(nodes) == 51 * Cardinality(nodes)

Round(nodes, dist) ==
  [n \in nodes |-> Min({dist[n]} \cup {dist[Target(e, n)] + e.weight : e \in EdgesOf(n)})]

Distances(nodes, d) ==
  LET rounds[r \in 0..Cardinality(nodes)] ==
        IF r = 0 THEN [n \in nodes |-> IF n = d THEN 0 ELSE Far(nodes)]
        ELSE LET dist == rounds[r - 1]
                 next == Round(nodes, dist)
             IN  IF next = dist THEN dist ELSE next
  IN  rounds[Cardinality(nodes)]

Adjacent(a, b) == \E e \in edges : Ends(e) = {a, b}
Cost(a, b) == (CHOOSE e \in edges : Ends(e) = {a, b}).weight

\* What a walk that starts at n and goes through path weighs, Far if it jumps.
Walked(nodes, n, path) ==
  LET at(k) == IF k = 0 THEN n ELSE path[k]
      leg(k) == IF at(k - 1) # at(k) /\ Adjacent(at(k - 1), at(k))
                THEN Cost(at(k - 1), at(k)) ELSE Far(nodes)
      sum[k \in 0..Len(path)] == IF k = 0 THEN 0 ELSE sum[k - 1] + leg(k)
  IN  sum[Len(path)]
=============================================================================
