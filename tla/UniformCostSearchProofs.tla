----------------------- MODULE UniformCostSearchProofs -----------------------
(***************************************************************************)
(* Theorems about UniformCostSearch on any graph: what it pops is at its   *)
(* true distance, its first hop approaches the destination, and a path of  *)
(* at most three hops is a shortest one.  The graph is a parameter, fixed  *)
(* while the search runs.                                                  *)
(*                                                                         *)
(* That a node is popped at its distance is shown from both sides.  The    *)
(* rounds of Distances reach the queued weights as fast as nodes are       *)
(* visited, so no distance is larger; and the weights of the visited nodes *)
(* are a potential no edge shortens, so none is smaller.                   *)
(***************************************************************************)
EXTENDS UniformCostSearch, Distances, RecursionLemmas

VARIABLE nodes     \* the nodes of the graph

\* A simple graph of these nodes, with the weights Intn(51) draws.
GraphOK ==
  /\ IsFiniteSet(nodes) /\ None \notin nodes
  /\ edges \subseteq [source : nodes, destination : nodes, weight : 0..50]
  /\ \A e \in edges : e.source # e.destination
  /\ \A e, f \in edges : Ends(e) = Ends(f) => e = f

-----------------------------------------------------------------------------
(* The graph *)

LEMMA EdgeFacts ==
  ASSUME GraphOK, NEW n, NEW e \in EdgesOf(n)
  PROVE  /\ n \in nodes /\ Target(e, n) \in nodes \ {n}
         /\ Ends(e) = {n, Target(e, n)} /\ e \in edges
         /\ e.weight \in 0..50
         /\ \A f \in EdgesOf(n) : Target(f, n) = Target(e, n) => f = e
<1>1. /\ e \in edges /\ e.source \in nodes /\ e.destination \in nodes /\ e.weight \in 0..50
      /\ e.source # e.destination /\ n \in {e.source, e.destination}
  BY DEF GraphOK, EdgesOf, Ends
<1>2. \A f \in EdgesOf(n) : f \in edges /\ Ends(f) = {n, Target(f, n)}
  BY DEF GraphOK, EdgesOf, Ends, Target
<1> QED
  BY <1>1, <1>2 DEF GraphOK, Target

LEMMA NeighbourFacts ==
  ASSUME GraphOK, NEW n, NEW m, Adjacent(n, m)
  PROVE  /\ n \in nodes /\ m \in nodes /\ m # n
         /\ Cost(n, m) \in Nat /\ Cost(n, m) <= 50
         /\ Adjacent(m, n) /\ Cost(m, n) = Cost(n, m)
         /\ \E e \in EdgesOf(n) : Target(e, n) = m
<1>1. PICK e \in edges : Ends(e) = {n, m}
  BY DEF Adjacent
<1>2. /\ e.source \in nodes /\ e.destination \in nodes /\ e.weight \in 0..50
      /\ e.source # e.destination /\ {n, m} = {e.source, e.destination} /\ {m, n} = {n, m}
  BY <1>1 DEF GraphOK, Ends
<1>3. \A f \in edges : Ends(f) = {n, m} => f = e
  BY <1>1 DEF GraphOK
<1>4. Cost(n, m) = e.weight /\ Cost(m, n) = e.weight
  BY <1>1, <1>2, <1>3 DEF Cost
<1>5. Adjacent(m, n)
  BY <1>1, <1>2 DEF Adjacent
<1>6. e \in EdgesOf(n) /\ Target(e, n) = m
  BY <1>1, <1>2 DEF EdgesOf, Target
<1> QED
  BY <1>2, <1>4, <1>5, <1>6

LEMMA CostFacts ==
  ASSUME GraphOK, NEW n
  PROVE  /\ \A e \in EdgesOf(n) :
              Adjacent(n, Target(e, n)) /\ e.weight = Cost(n, Target(e, n))
         /\ \A m : Adjacent(n, m) =>
              /\ n \in nodes /\ m \in nodes \ {n} /\ Cost(n, m) \in 0..50
              /\ Adjacent(m, n) /\ Cost(m, n) = Cost(n, m)
              /\ \E e \in EdgesOf(n) : Target(e, n) = m
<1>1. ASSUME NEW e \in EdgesOf(n)
      PROVE  Adjacent(n, Target(e, n)) /\ e.weight = Cost(n, Target(e, n))
  BY <1>1, EdgeFacts DEF Adjacent, Cost, GraphOK
<1> QED
  BY <1>1, NeighbourFacts

-----------------------------------------------------------------------------
(* The rounds *)

\* One round: no node gets farther, a neighbour's distance reaches it, and
\* nothing else does.
LEMMA RoundFacts ==
  ASSUME GraphOK, NEW x \in [nodes -> Nat]
  PROVE  /\ Round(nodes, x) \in [nodes -> Nat]
         /\ \A n \in nodes :
              /\ Round(nodes, x)[n] <= x[n]
              /\ \A m : Adjacent(n, m) => Round(nodes, x)[n] <= x[m] + Cost(n, m)
              /\ \/ Round(nodes, x)[n] = x[n]
                 \/ \E m : Adjacent(n, m) /\ Round(nodes, x)[n] = x[m] + Cost(n, m)
<1>1. ASSUME NEW n \in nodes
      PROVE  /\ Round(nodes, x)[n] \in Nat
             /\ Round(nodes, x)[n] <= x[n]
             /\ \A m : Adjacent(n, m) => Round(nodes, x)[n] <= x[m] + Cost(n, m)
             /\ \/ Round(nodes, x)[n] = x[n]
                \/ \E m : Adjacent(n, m) /\ Round(nodes, x)[n] = x[m] + Cost(n, m)
  <2> DEFINE S == {x[n]} \cup {x[Target(e, n)] + e.weight : e \in EdgesOf(n)}
  <2>1. S \in SUBSET Nat /\ S # {}
    BY EdgeFacts
  <2>2. Round(nodes, x)[n] = Min(S)
    BY DEF Round
  <2>3. Min(S) \in S /\ \A m \in S : Min(S) <= m
    <3> HIDE DEF S
    <3> QED
      BY <2>1, LeastNatural DEF Min
  <2>4. \A m : Adjacent(n, m) => x[m] + Cost(n, m) \in S
    BY CostFacts
  <2>5. \A y \in S : y = x[n] \/ \E m : Adjacent(n, m) /\ y = x[m] + Cost(n, m)
    BY CostFacts
  <2>6. x[n] \in S
    OBVIOUS
  <2> HIDE DEF S
  <2> QED
    BY <2>1, <2>2, <2>3, <2>4, <2>5, <2>6
<1>2. Round(nodes, x) = [n \in nodes |-> Round(nodes, x)[n]]
  BY DEF Round
<1>3. Round(nodes, x) \in [nodes -> Nat]
  BY <1>1, <1>2
<1> QED
  BY <1>1, <1>3

Size == Cardinality(nodes)

\* D is the sequence of rounds that Distances goes through.
IsRounds(D, d) ==
  /\ D \in [0..Size -> [nodes -> Nat]]
  /\ D[0] = [n \in nodes |-> IF n = d THEN 0 ELSE Far(nodes)]
  /\ \A r \in 1..Size : D[r] = Round(nodes, D[r - 1])

LEMMA SizeType ==
  ASSUME GraphOK
  PROVE  Size \in Nat /\ Far(nodes) = 51 * Size /\ Far(nodes) \in Nat
  BY FS_CardinalityType DEF GraphOK, Size, Far

LEMMA RoundsExist ==
  ASSUME GraphOK, NEW d \in nodes
  PROVE  \E D : IsRounds(D, d) /\ Distances(nodes, d) = D[Size]
<1> DEFINE X == [nodes -> Nat]
           a == [n \in nodes |-> IF n = d THEN 0 ELSE Far(nodes)]
           g == [x \in X |-> Round(nodes, x)]
           rounds == CHOOSE f :
             f = [r \in 0..Size |->
                    IF r = 0 THEN a
                    ELSE LET dist == f[r - 1]
                             next == Round(nodes, dist)
                         IN  IF next = dist THEN dist ELSE next]
<1>0. Size \in Nat
  BY SizeType
<1>1. a \in X /\ g \in [X -> X]
  BY SizeType, RoundFacts
<1>2. \A x \in X : g[x] = Round(nodes, x)
  OBVIOUS
<1>3. Distances(nodes, d) = rounds[Size]
  BY DEF Distances, Size
<1>4. X = [nodes -> Nat] /\ a = [n \in nodes |-> IF n = d THEN 0 ELSE Far(nodes)]
  OBVIOUS
<1> HIDE DEF X, a, g
<1>5. PICK D \in [0..Size -> X] : D[0] = a /\ \A k \in 1..Size : D[k] = g[D[k - 1]]
  <2> HIDE DEF rounds
  <2>1. PICK Y, b, h, K : Y = X /\ b = a /\ h = g /\ K = Size
    OBVIOUS
  <2>2. K \in Nat /\ b \in Y /\ h \in [Y -> Y]
    BY <1>0, <1>1, <2>1
  <2>3. \E D : Iterates(D, Y, b, h, K)
    BY <2>2, IterateExists
  <2> QED
    BY <2>1, <2>3 DEF Iterates
<1>6. ASSUME NEW k \in 1..Size
      PROVE  D[k] = Round(nodes, D[k - 1])
  <2>1. k - 1 \in 0..Size
    BY <1>0
  <2> QED
    BY <1>2, <1>5, <2>1
<1>7. D = [r \in 0..Size |-> IF r = 0 THEN a ELSE Round(nodes, D[r - 1])]
  <2>1. \A r \in 0..Size : D[r] = IF r = 0 THEN a ELSE Round(nodes, D[r - 1])
    BY <1>0, <1>5, <1>6
  <2> QED
    BY <2>1
<1>8. rounds = [r \in 0..Size |-> IF r = 0 THEN a ELSE Round(nodes, rounds[r - 1])]
  <2> DEFINE Step(f, r) == LET dist == f[r - 1]
                               next == Round(nodes, dist)
                           IN  IF next = dist THEN dist ELSE next
  <2>1. \A f, r : Step(f, r) = Round(nodes, f[r - 1])
    OBVIOUS
  <2>2. rounds = CHOOSE f : f = [r \in 0..Size |-> IF r = 0 THEN a ELSE Step(f, r)]
    OBVIOUS
  <2> HIDE DEF rounds, Step
  <2>3. D = [r \in 0..Size |-> IF r = 0 THEN a ELSE Step(D, r)]
    BY <1>7, <2>1
  <2>4. rounds = [r \in 0..Size |-> IF r = 0 THEN a ELSE Step(rounds, r)]
    BY <2>2, <2>3
  <2> QED
    BY <2>1, <2>4
<1> HIDE DEF rounds
<1>9. rounds[0] = a /\ \A k \in 1..Size : rounds[k] = Round(nodes, rounds[k - 1])
  <2>1. 0 \in 0..Size /\ \A k \in 1..Size : k \in 0..Size /\ k # 0
    BY <1>0
  <2> QED
    BY <1>8, <2>1
<1> DEFINE T == {j \in Nat : rounds[j] \in X}
<1>10. 0 \in T
  BY <1>1, <1>9
<1>11. ASSUME NEW k \in 0..Size - 1, k \in T
       PROVE  k + 1 \in T
  <2>1. k + 1 \in 1..Size /\ (k + 1) - 1 = k /\ k + 1 \in Nat
    BY <1>0
  <2>2. rounds[k + 1] = Round(nodes, rounds[k])
    BY <1>9, <2>1
  <2> QED
    BY <1>4, <1>11, <2>1, <2>2, RoundFacts
<1>12. \A k \in 0..Size : k \in T
  <2> HIDE DEF T
  <2> QED
    BY <1>0, <1>10, <1>11, UpTo
<1>13. rounds \in [0..Size -> X]
  BY <1>8, <1>12
<1>14. IsRounds(rounds, d)
  BY <1>4, <1>9, <1>13 DEF IsRounds
<1> QED
  BY <1>3, <1>14

\* What the rounds do from one to the next.
LEMMA NextRound ==
  ASSUME GraphOK, NEW d \in nodes, NEW D, IsRounds(D, d), NEW r \in 0..Size - 1, NEW n \in nodes
  PROVE  /\ r \in 0..Size /\ r + 1 \in 0..Size
         /\ D[r] \in [nodes -> Nat] /\ D[r + 1] \in [nodes -> Nat]
         /\ D[r][n] \in Nat /\ D[r + 1][n] \in Nat
         /\ D[r + 1][n] <= D[r][n]
         /\ \A m : Adjacent(n, m) => D[r + 1][n] <= D[r][m] + Cost(n, m)
         /\ \/ D[r + 1][n] = D[r][n]
            \/ \E m : Adjacent(n, m) /\ D[r + 1][n] = D[r][m] + Cost(n, m)
<1>1. r \in 0..Size /\ r + 1 \in 1..Size /\ r + 1 \in 0..Size /\ (r + 1) - 1 = r
  BY SizeType
<1>2. D[r] \in [nodes -> Nat] /\ D[r + 1] \in [nodes -> Nat]
  BY <1>1 DEF IsRounds
<1>3. D[r + 1] = Round(nodes, D[r])
  BY <1>1 DEF IsRounds
<1> QED
  BY <1>1, <1>2, <1>3, RoundFacts

\* The last round is the smallest.
LEMMA RoundsFall ==
  ASSUME GraphOK, NEW d \in nodes, NEW D, IsRounds(D, d), NEW r \in 0..Size, NEW n \in nodes
  PROVE  D[Size][n] \in Nat /\ D[r][n] \in Nat /\ D[Size][n] <= D[r][n]
<1> DEFINE T == {k \in 0..Size : D[k] \in [nodes -> Nat] /\ (r <= k => D[k][n] <= D[r][n])}
<1>0. Size \in Nat
  BY SizeType
<1>1. D \in [0..Size -> [nodes -> Nat]]
  BY DEF IsRounds
<1>t. 0 \in 0..Size /\ r \in Nat
  BY <1>0
<1>2. 0 \in T
  BY <1>1, <1>t
<1>3. ASSUME NEW k \in 0..Size - 1, k \in T
      PROVE  k + 1 \in T
  <2>1. /\ k \in Nat /\ k + 1 \in 0..Size /\ D[k + 1] \in [nodes -> Nat]
        /\ D[k + 1][n] \in Nat /\ D[k][n] \in Nat /\ D[k + 1][n] <= D[k][n]
    BY NextRound, <1>0
  <2>2. D[r][n] \in Nat
    BY <1>1
  <2> QED
    BY <1>t, <1>3, <2>1, <2>2
<1>4. Size \in T
  <2> HIDE DEF T
  <2> QED
    BY <1>0, <1>2, <1>3, UpTo
<1> QED
  BY <1>0, <1>1, <1>4

\* A potential that is 0 at d and that no edge shortens bounds every round.
LEMMA Potential ==
  ASSUME GraphOK, NEW d \in nodes, NEW D, IsRounds(D, d), NEW p \in [nodes -> Nat],
         p[d] = 0, \A n \in nodes : p[n] <= Far(nodes),
         \A n, m \in nodes : Adjacent(n, m) => p[n] <= p[m] + Cost(n, m)
  PROVE  \A r \in 0..Size : \A n \in nodes : p[n] <= D[r][n]
<1> DEFINE T == {k \in 0..Size : \A n \in nodes : p[n] <= D[k][n]}
<1>0. Size \in Nat
  BY SizeType
<1>1. 0 \in T
  <2>1. 0 \in 0..Size
    BY <1>0
  <2>2. \A n \in nodes : D[0][n] = IF n = d THEN 0 ELSE Far(nodes)
    BY DEF IsRounds
  <2> QED
    BY <2>1, <2>2
<1>2. ASSUME NEW k \in 0..Size - 1, k \in T
      PROVE  k + 1 \in T
  <2>1. ASSUME NEW n \in nodes
        PROVE  p[n] <= D[k + 1][n]
    <3>1. CASE D[k + 1][n] = D[k][n]
      BY <1>2, <3>1
    <3>2. ASSUME NEW m, Adjacent(n, m), D[k + 1][n] = D[k][m] + Cost(n, m)
          PROVE  p[n] <= D[k + 1][n]
      <4>1. m \in nodes /\ Cost(n, m) \in Nat
        BY <3>2, CostFacts
      <4>2. p[n] <= p[m] + Cost(n, m) /\ p[m] <= D[k][m]
        BY <1>2, <3>2, <4>1
      <4>3. D[k][m] \in Nat
        BY <4>1, NextRound
      <4> QED
        BY <3>2, <4>1, <4>2, <4>3
    <3> QED
      BY <3>1, <3>2, NextRound
  <2> QED
    BY <1>0, <2>1
<1>3. \A k \in 0..Size : k \in T
  <2> HIDE DEF T
  <2> QED
    BY <1>0, <1>1, <1>2, UpTo
<1> QED
  BY <1>3

-----------------------------------------------------------------------------
(* The invariant of a busy search *)

\* What the queue and visited say about each other.
QueueInv ==
  /\ source \in nodes /\ dest \in nodes /\ source # dest
  /\ visited \subseteq nodes \ {dest}
  /\ DOMAIN unvisited \subseteq nodes \ visited
  /\ \A m \in DOMAIN unvisited :
       unvisited[m].weight \in Nat /\ unvisited[m].weight <= 50 * Cardinality(visited)
  /\ \/ source \in visited
     \/ visited = {} /\ DOMAIN unvisited = {source} /\ unvisited[source].weight = 0

\* A step neither changes the graph nor what is said of it.
LEMMA SameGraph ==
  ASSUME UNCHANGED <<edges, nodes>>
  PROVE  /\ GraphOK' = GraphOK
         /\ Size' = Size /\ Far(nodes)' = Far(nodes)
         /\ \A a, b : Adjacent(a, b)' = Adjacent(a, b) /\ Cost(a, b)' = Cost(a, b)
         /\ \A D, d : IsRounds(D, d)' = IsRounds(D, d)
<1>1. GraphOK' = GraphOK
  BY DEF GraphOK
<1>2. Size' = Size /\ Far(nodes)' = Far(nodes)
  BY DEF Size, Far
<1>3. \A a, b : Adjacent(a, b)' = Adjacent(a, b)
  BY DEF Adjacent
<1>4. \A a, b : Cost(a, b)' = Cost(a, b)
  BY DEF Cost
<1>5. \A D, d : IsRounds(D, d)' = IsRounds(D, d)
  BY DEF IsRounds, Round, EdgesOf, Size, Far
<1> QED
  BY <1>1, <1>2, <1>3, <1>4, <1>5

\* The nodes a visit of n offers to the queue, and those it leaves there.
Offered(n) == {m \in nodes : Adjacent(n, m) /\ m \notin visited \cup {n}}
Queued(n) == DOMAIN unvisited \ {n}

\* A queue after the range over the edges of n, in terms of the graph.
RelaxedQueue(n, w, path, queue) ==
  /\ DOMAIN queue = Queued(n) \cup Offered(n)
  /\ \A m \in Queued(n) \cup Offered(n) :
       \/ /\ m \in Offered(n)
          /\ queue[m] = [weight |-> w + Cost(n, m), path |-> path]
          /\ m \in Queued(n) => unvisited[m].weight > w + Cost(n, m)
       \/ /\ m \in Queued(n)
          /\ queue[m] = unvisited[m]
          /\ m \in Offered(n) => unvisited[m].weight <= w + Cost(n, m)

LEMMA RelaxedIs ==
  ASSUME GraphOK, QueueInv, NEW n, NEW w, w \in Nat, NEW path
  PROVE  RelaxedQueue(n, w, path, Relaxed(n, w, path))
<1> DEFINE queued == DOMAIN unvisited \ {n}
           reached == {e \in EdgesOf(n) : Target(e, n) \notin visited \cup {n}}
           offer(m) == w + (CHOOSE e \in reached : Target(e, n) = m).weight
           offered == {Target(e, n) : e \in reached}
           better == {m \in offered : m \in queued => Cheaper(unvisited[m].weight, offer(m))}
           R == [m \in queued \cup offered |->
                   IF m \in better THEN [weight |-> offer(m), path |-> path] ELSE unvisited[m]]
<1>1. Relaxed(n, w, path) = R
  BY DEF Relaxed
<1>2. offered = {m \in nodes : Adjacent(n, m) /\ m \notin visited \cup {n}}
  BY EdgeFacts, CostFacts
<1>3. ASSUME NEW m \in offered
      PROVE  offer(m) = w + Cost(n, m)
  <2>1. PICK e \in reached : Target(e, n) = m
    OBVIOUS
  <2> DEFINE f == CHOOSE x \in reached : Target(x, n) = m
  <2>2. f \in reached /\ Target(f, n) = m
    BY <2>1
  <2> HIDE DEF f
  <2>3. f.weight = Cost(n, m)
    BY <2>2, CostFacts
  <2> QED
    BY <2>3 DEF f
<1>4. \A m \in queued : unvisited[m].weight \in Nat
  BY DEF QueueInv
<1>5. \A m \in offered : Cost(n, m) \in Nat
  BY <1>2, CostFacts
<1> HIDE DEF offer, offered, reached
<1>6. ASSUME NEW m \in queued \cup offered
      PROVE  \/ /\ m \in offered
                /\ R[m] = [weight |-> w + Cost(n, m), path |-> path]
                /\ m \in queued => unvisited[m].weight > w + Cost(n, m)
             \/ /\ m \in queued
                /\ R[m] = unvisited[m]
                /\ m \in offered => unvisited[m].weight <= w + Cost(n, m)
  <2>1. CASE m \in better
    BY <1>3, <1>4, <1>5, <2>1 DEF Cheaper
  <2>2. CASE m \notin better
    BY <1>3, <1>4, <1>5, <2>2 DEF Cheaper
  <2> QED
    BY <2>1, <2>2
<1>7. DOMAIN R = queued \cup offered
  OBVIOUS
<1>8. Queued(n) = queued /\ Offered(n) = offered
  BY <1>2 DEF Queued, Offered
<1> HIDE DEF R, better, queued
<1> QED
  BY <1>1, <1>6, <1>7, <1>8 DEF RelaxedQueue

\* What a visit of n does to the queue: n leaves it, what else it holds stays
\* or becomes cheaper, and it has the neighbours of n that were not visited.
VisitDoes(n) ==
  /\ n \in DOMAIN unvisited /\ n \in nodes \ {dest} /\ n \notin visited
  /\ unvisited[n].weight \in Nat
  /\ visited' = visited \cup {n}
  /\ Cardinality(visited) \in Nat /\ Cardinality(visited') = Cardinality(visited) + 1
  /\ Cardinality(visited') \in Nat /\ Cardinality(visited') <= Size
  /\ DOMAIN unvisited' \subseteq nodes \ visited'
  /\ \A m \in DOMAIN unvisited' :
       \/ m \in DOMAIN unvisited /\ unvisited'[m] = unvisited[m]
       \/ /\ Adjacent(n, m)
          /\ unvisited'[m] = [weight |-> unvisited[n].weight + Cost(n, m),
                              path |-> Appended(unvisited[n].path, n)]
  /\ \A m \in DOMAIN unvisited \ {n} :
       m \in DOMAIN unvisited' /\ unvisited'[m].weight <= unvisited[m].weight
  /\ \A m : Adjacent(n, m) /\ m \notin visited' =>
       /\ m \in DOMAIN unvisited'
       /\ unvisited'[m].weight <= unvisited[n].weight + Cost(n, m)

LEMMA VisitEffect ==
  ASSUME GraphOK, QueueInv, NEW n, Visit(n)
  PROVE  VisitDoes(n)
<1> PICK w, path : w = unvisited[n].weight /\ path = Appended(unvisited[n].path, n)
  OBVIOUS
<1>1. /\ n \in DOMAIN unvisited /\ n \in nodes \ {dest} /\ n \notin visited
      /\ w \in Nat /\ visited' = visited \cup {n}
      /\ unvisited' = Relaxed(n, w, path)
  BY DEF Visit, Least, QueueInv
<1>2. /\ DOMAIN unvisited' = Queued(n) \cup Offered(n)
      /\ \A m \in Queued(n) \cup Offered(n) :
           \/ /\ m \in Offered(n)
              /\ unvisited'[m] = [weight |-> w + Cost(n, m), path |-> path]
              /\ m \in Queued(n) => unvisited[m].weight > w + Cost(n, m)
           \/ /\ m \in Queued(n)
              /\ unvisited'[m] = unvisited[m]
              /\ m \in Offered(n) => unvisited[m].weight <= w + Cost(n, m)
  <2>1. RelaxedQueue(n, w, path, unvisited')
    BY <1>1, RelaxedIs
  <2> QED
    BY <2>1 DEF RelaxedQueue
<1>3. /\ Cardinality(visited) \in Nat /\ Cardinality(visited') = Cardinality(visited) + 1
      /\ Cardinality(visited') <= Size
  <2>1. IsFiniteSet(visited) /\ visited' \subseteq nodes
    BY <1>1, FS_Subset DEF GraphOK, QueueInv
  <2>2. Cardinality(visited') <= Size
    BY <2>1, FS_Subset DEF GraphOK, Size
  <2> QED
    BY <1>1, <2>1, <2>2, FS_CardinalityType, FS_AddElement
<1>4. DOMAIN unvisited' \subseteq nodes \ visited'
  BY <1>1, <1>2 DEF QueueInv, Queued, Offered
<1>5. \A m \in Offered(n) : Cost(n, m) \in Nat
  BY NeighbourFacts DEF Offered
<1>6. \A m \in Queued(n) : unvisited[m].weight \in Nat
  BY DEF QueueInv, Queued
<1>7. \A m : Adjacent(n, m) /\ m \notin visited' => m \in Offered(n)
  BY <1>1, NeighbourFacts DEF Offered
<1>8. \A m \in Queued(n) \cup Offered(n) :
        \/ m \in DOMAIN unvisited /\ unvisited'[m] = unvisited[m]
        \/ Adjacent(n, m) /\ unvisited'[m] = [weight |-> w + Cost(n, m), path |-> path]
  BY <1>2 DEF Queued, Offered
<1>9. ASSUME NEW m \in Queued(n)
      PROVE  m \in DOMAIN unvisited' /\ unvisited'[m].weight <= unvisited[m].weight
  <2>1. CASE unvisited'[m] = unvisited[m]
    BY <1>2, <1>6, <2>1
  <2>2. CASE /\ m \in Offered(n) /\ unvisited'[m] = [weight |-> w + Cost(n, m), path |-> path]
             /\ unvisited[m].weight > w + Cost(n, m)
    <3>1. unvisited'[m].weight = w + Cost(n, m)
      BY <2>2
    <3> QED
      BY <1>1, <1>2, <1>5, <1>6, <2>2, <3>1
  <2> QED
    BY <1>2, <2>1, <2>2
<1>10. ASSUME NEW m \in Offered(n)
       PROVE  m \in DOMAIN unvisited' /\ unvisited'[m].weight <= w + Cost(n, m)
  <2>1. CASE unvisited'[m] = [weight |-> w + Cost(n, m), path |-> path]
    <3>1. unvisited'[m].weight = w + Cost(n, m) /\ m \in DOMAIN unvisited'
      BY <1>2, <2>1
    <3> QED
      BY <1>1, <1>5, <3>1
  <2>2. CASE unvisited'[m] = unvisited[m] /\ unvisited[m].weight <= w + Cost(n, m)
    BY <1>2, <2>2
  <2> QED
    BY <1>2, <2>1, <2>2
<1> QED
  BY <1>1, <1>2, <1>3, <1>4, <1>7, <1>8, <1>9, <1>10 DEF VisitDoes, Queued

LEMMA QueueStep ==
  ASSUME GraphOK, QueueInv, NEW n, Visit(n), UNCHANGED <<edges, nodes>>
  PROVE  QueueInv'
<1>1. VisitDoes(n) /\ source' = source /\ dest' = dest /\ nodes' = nodes
  BY VisitEffect DEF Visit
<1>2. source' \in nodes' /\ dest' \in nodes' /\ source' # dest'
  BY <1>1 DEF QueueInv
<1>3. visited' \subseteq nodes' \ {dest'}
  BY <1>1 DEF QueueInv, VisitDoes
<1>4. DOMAIN unvisited' \subseteq nodes' \ visited'
  BY <1>1 DEF VisitDoes
<1>5. ASSUME NEW m \in DOMAIN unvisited'
      PROVE  /\ unvisited'[m].weight \in Nat
             /\ unvisited'[m].weight <= 50 * Cardinality(visited')
  <2>1. /\ unvisited[n].weight \in Nat /\ unvisited[n].weight <= 50 * Cardinality(visited)
        /\ Cardinality(visited) \in Nat /\ Cardinality(visited') = Cardinality(visited) + 1
    BY <1>1 DEF QueueInv, VisitDoes
  <2>2. CASE m \in DOMAIN unvisited /\ unvisited'[m] = unvisited[m]
    BY <2>1, <2>2 DEF QueueInv
  <2>3. CASE /\ Adjacent(n, m)
             /\ unvisited'[m].weight = unvisited[n].weight + Cost(n, m)
    <3>1. Cost(n, m) \in Nat /\ Cost(n, m) <= 50
      BY <2>3, NeighbourFacts
    <3> QED
      BY <2>1, <2>3, <3>1
  <2> QED
    BY <1>1, <1>5, <2>2, <2>3 DEF VisitDoes
<1>6. source' \in visited'
  BY <1>1 DEF QueueInv, VisitDoes
<1> QED
  BY <1>2, <1>3, <1>4, <1>5, <1>6 DEF QueueInv

\* final has the weights the visited nodes were popped with: they only grew, no
\* edge between visited nodes shortens them, and what is next to a visited node
\* is queued with a weight no edge from it shortens.
Settles(final) ==
  /\ final \in [visited -> Nat]
  /\ \A a \in visited : final[a] <= Far(nodes)
  /\ source \in visited => final[source] = 0
  /\ \A a \in visited, m \in DOMAIN unvisited : final[a] <= unvisited[m].weight
  /\ \A a, b \in visited : Adjacent(a, b) => final[b] <= final[a] + Cost(a, b)
  /\ \A a \in visited : \A b : Adjacent(a, b) /\ b \notin visited =>
       b \in DOMAIN unvisited /\ unvisited[b].weight <= final[a] + Cost(a, b)

Settled == \E final : Settles(final)

LEMMA SettledStep ==
  ASSUME GraphOK, QueueInv, Settled, NEW n, Visit(n), UNCHANGED <<edges, nodes>>
  PROVE  Settled'
<1> PICK final : Settles(final)
  BY DEF Settled
<1> PICK w : w = unvisited[n].weight
  OBVIOUS
<1>1. VisitDoes(n) /\ source' = source
  BY VisitEffect DEF Visit
<1>2. /\ Far(nodes)' = Far(nodes)
      /\ \A a, b : Adjacent(a, b)' = Adjacent(a, b) /\ Cost(a, b)' = Cost(a, b)
  BY SameGraph
<1>3. /\ n \in DOMAIN unvisited /\ n \notin visited /\ w \in Nat
      /\ visited' = visited \cup {n} /\ n \in visited'
      /\ \A a \in visited : a # n
  BY <1>1 DEF VisitDoes
<1>4. \A m \in DOMAIN unvisited : w <= unvisited[m].weight
  BY DEF Visit, Least
<1>5. ASSUME NEW m \in DOMAIN unvisited'
      PROVE  w <= unvisited'[m].weight /\ unvisited'[m].weight \in Nat
  <2>1. unvisited'[m].weight \in Nat
    BY <1>5, QueueStep DEF QueueInv
  <2>2. CASE m \in DOMAIN unvisited /\ unvisited'[m] = unvisited[m]
    BY <1>4, <2>1, <2>2
  <2>3. CASE Adjacent(n, m) /\ unvisited'[m].weight = w + Cost(n, m)
    <3>1. Cost(n, m) \in Nat
      BY <2>3, NeighbourFacts
    <3> QED
      BY <1>3, <2>1, <2>3, <3>1
  <2> QED
    BY <1>1, <1>5, <2>2, <2>3 DEF VisitDoes
<1> PICK next : next = [a \in visited' |-> IF a = n THEN w ELSE final[a]]
  OBVIOUS
<1>6. next[n] = w /\ \A a \in visited : a \in visited' /\ next[a] = final[a]
  BY <1>3
<1>7. next \in [visited' -> Nat]
  BY <1>3 DEF Settles
<1>8. \A a \in visited : final[a] \in Nat /\ final[a] <= w
  BY <1>3 DEF Settles
<1>9. ASSUME NEW a \in visited'
      PROVE  next[a] <= Far(nodes)'
  <2>1. w <= Far(nodes)
    <3>1. w <= 50 * Cardinality(visited)
      BY <1>3 DEF QueueInv
    <3>2. /\ Cardinality(visited) \in Nat /\ Cardinality(visited) + 1 <= Size
          /\ Size \in Nat /\ Far(nodes) = 51 * Size
      BY <1>1, SizeType DEF VisitDoes
    <3> HIDE DEF Far
    <3> QED
      BY <1>3, <3>1, <3>2
  <2> QED
    BY <1>2, <1>3, <1>6, <2>1 DEF Settles
<1>10. source' \in visited' => next[source'] = 0
  <2>1. CASE source \in visited
    BY <1>1, <1>6, <2>1 DEF Settles
  <2>2. CASE source \notin visited
    BY <1>1, <1>3, <1>6, <2>2 DEF QueueInv
  <2> QED
    BY <2>1, <2>2
<1>11. \A a \in visited', m \in DOMAIN unvisited' : next[a] <= unvisited'[m].weight
  BY <1>3, <1>5, <1>6, <1>8
<1>12. ASSUME NEW a \in visited', NEW b \in visited', Adjacent(a, b)
       PROVE  next[b] <= next[a] + Cost(a, b)
  <2>1. Cost(a, b) \in Nat /\ a # b
    BY <1>12, NeighbourFacts
  <2>2. CASE a \in visited /\ b \in visited
    BY <1>6, <1>12, <2>2 DEF Settles
  <2>3. CASE a = n /\ b \in visited
    BY <1>3, <1>6, <1>8, <2>1, <2>3
  <2>4. CASE a \in visited /\ b = n
    BY <1>3, <1>6, <1>12, <2>4 DEF Settles
  <2> QED
    BY <1>3, <1>12, <2>1, <2>2, <2>3, <2>4
<1>13. ASSUME NEW a \in visited', NEW b, Adjacent(a, b), b \notin visited'
       PROVE  b \in DOMAIN unvisited' /\ unvisited'[b].weight <= next[a] + Cost(a, b)
  <2>1. CASE a = n
    BY <1>1, <1>6, <1>13, <2>1 DEF VisitDoes
  <2>2. CASE a \in visited
    <3>1. /\ b \in DOMAIN unvisited \ {n}
          /\ unvisited[b].weight <= final[a] + Cost(a, b)
      BY <1>3, <1>13, <2>2 DEF Settles
    <3>2. b \in DOMAIN unvisited' /\ unvisited'[b].weight <= unvisited[b].weight
      BY <1>1, <3>1 DEF VisitDoes
    <3>3. /\ unvisited[b].weight \in Nat /\ unvisited'[b].weight \in Nat
          /\ final[a] \in Nat /\ Cost(a, b) \in Nat
      BY <1>5, <1>8, <1>13, <2>2, <3>1, <3>2, NeighbourFacts DEF QueueInv
    <3> QED
      BY <1>6, <2>2, <3>1, <3>2, <3>3
  <2> QED
    BY <1>3, <1>13, <2>1, <2>2
<1>14. Settles(next)'
  BY <1>2, <1>7, <1>9, <1>10, <1>11, <1>12, <1>13 DEF Settles
<1> QED
  BY <1>14 DEF Settled

\* The rounds keep up with the search: after as many as there are visited nodes
\* they are down to the queued weights.
Reached ==
  \A D : IsRounds(D, source) =>
    \A m \in DOMAIN unvisited : D[Cardinality(visited)][m] <= unvisited[m].weight

LEMMA ReachedStep ==
  ASSUME GraphOK, QueueInv, Reached, NEW n, Visit(n), UNCHANGED <<edges, nodes>>
  PROVE  Reached'
<1> SUFFICES ASSUME NEW D, IsRounds(D, source)', NEW m \in DOMAIN unvisited'
             PROVE  D[Cardinality(visited')][m] <= unvisited'[m].weight
  BY DEF Reached
<1> PICK w, c : w = unvisited[n].weight /\ c = Cardinality(visited)
  OBVIOUS
<1>1. VisitDoes(n) /\ source' = source
  BY VisitEffect DEF Visit
<1>2. IsRounds(D, source)
  BY <1>1, SameGraph
<1>3. source \in nodes /\ n \in nodes /\ m \in nodes
  BY <1>1 DEF QueueInv, VisitDoes
<1>4. c \in Nat /\ Cardinality(visited') = c + 1 /\ c \in 0..Size - 1
  BY <1>1, SizeType DEF VisitDoes
<1>5. /\ D[c][m] \in Nat /\ D[c][n] \in Nat /\ D[c + 1][m] \in Nat
      /\ D[c + 1][m] <= D[c][m]
      /\ Adjacent(m, n) => D[c + 1][m] <= D[c][n] + Cost(m, n)
  BY <1>2, <1>3, <1>4, NextRound
<1>6. w \in Nat /\ unvisited'[m].weight \in Nat /\ D[c][n] <= w
  BY <1>1, <1>2, QueueStep DEF QueueInv, VisitDoes, Reached
<1>7. CASE m \in DOMAIN unvisited /\ unvisited'[m] = unvisited[m]
  <2>1. D[c][m] <= unvisited[m].weight
    BY <1>2, <1>7 DEF Reached
  <2> QED
    BY <1>4, <1>5, <1>6, <1>7, <2>1
<1>8. CASE Adjacent(n, m) /\ unvisited'[m].weight = w + Cost(n, m)
  <2>1. Adjacent(m, n) /\ Cost(m, n) = Cost(n, m) /\ Cost(n, m) \in Nat
    BY <1>8, NeighbourFacts
  <2> QED
    BY <1>4, <1>5, <1>6, <1>8, <2>1
<1> QED
  BY <1>1, <1>7, <1>8 DEF VisitDoes

\* Seen from the destination: count rounds later h is as near to it as m was,
\* but for the weight, of which slack comes before h.
Back(h, slack, m, weight, count) ==
  \A E : IsRounds(E, dest) =>
    \A r \in 0..Size - count : E[r + count][h] + slack <= E[r][m] + weight

LEMMA BackHere ==
  ASSUME GraphOK, dest \in nodes, NEW h, h \in nodes, NEW slack, slack \in Nat
  PROVE  Back(h, slack, h, slack, 0)
<1> SUFFICES ASSUME NEW E, IsRounds(E, dest), NEW r \in 0..Size - 0
             PROVE  E[r + 0][h] + slack <= E[r][h] + slack
  BY DEF Back
<1>1. r \in 0..Size /\ r + 0 = r
  BY SizeType
<1>2. E[r][h] \in Nat
  BY <1>1, RoundsFall
<1> QED
  BY <1>1, <1>2

\* One round more is no farther.
LEMMA BackLater ==
  ASSUME GraphOK, dest \in nodes, NEW h, h \in nodes, NEW slack, slack \in Nat,
         NEW m, m \in nodes, NEW weight, weight \in Nat, NEW count, count \in Nat,
         Back(h, slack, m, weight, count)
  PROVE  Back(h, slack, m, weight, count + 1)
<1> SUFFICES ASSUME NEW E, IsRounds(E, dest), NEW r \in 0..Size - (count + 1)
             PROVE  E[r + (count + 1)][h] + slack <= E[r][m] + weight
  BY DEF Back
<1>1. /\ r \in 0..Size - count /\ r + count \in 0..Size - 1 /\ r \in 0..Size
      /\ r + (count + 1) = (r + count) + 1
  BY SizeType
<1>2. E[r + count][h] + slack <= E[r][m] + weight
  BY <1>1 DEF Back
<1>3. /\ E[(r + count) + 1][h] <= E[r + count][h]
      /\ E[(r + count) + 1][h] \in Nat /\ E[r + count][h] \in Nat
  BY <1>1, NextRound
<1>4. E[r][m] \in Nat
  BY <1>1, RoundsFall
<1> QED
  BY <1>1, <1>2, <1>3, <1>4

\* A round more goes over an edge.
LEMMA BackOver ==
  ASSUME GraphOK, dest \in nodes, NEW h, h \in nodes, NEW slack, slack \in Nat,
         NEW n, NEW m, Adjacent(n, m), NEW weight, weight \in Nat,
         NEW count, count \in Nat, Back(h, slack, n, weight, count)
  PROVE  Back(h, slack, m, weight + Cost(n, m), count + 1)
<1> SUFFICES ASSUME NEW E, IsRounds(E, dest), NEW r \in 0..Size - (count + 1)
             PROVE  E[r + (count + 1)][h] + slack <= E[r][m] + (weight + Cost(n, m))
  BY DEF Back
<1>1. /\ r + 1 \in 0..Size - count /\ (r + 1) + count \in 0..Size /\ r \in 0..Size - 1
      /\ r + (count + 1) = (r + 1) + count
  BY SizeType
<1>2. E[(r + 1) + count][h] + slack <= E[r + 1][n] + weight
  BY <1>1 DEF Back
<1>3. n \in nodes /\ m \in nodes /\ Cost(n, m) \in Nat
  BY NeighbourFacts
<1>4. E[r + 1][n] <= E[r][m] + Cost(n, m) /\ E[r + 1][n] \in Nat
  BY <1>1, <1>3, NextRound
<1>5. E[r][m] \in Nat /\ E[(r + 1) + count][h] \in Nat
  BY <1>1, <1>3, RoundsFall, SizeType
<1> QED
  BY <1>1, <1>2, <1>3, <1>4, <1>5

\* The queued weights are walks back to the source.
Returns ==
  \A m \in DOMAIN unvisited :
    Back(source, 0, m, unvisited[m].weight, Cardinality(visited))

LEMMA SameBack ==
  ASSUME UNCHANGED <<edges, nodes, dest>>,
         NEW h, NEW slack, NEW m, NEW weight, NEW count
  PROVE  Back(h, slack, m, weight, count)' = Back(h, slack, m, weight, count)
BY SameGraph DEF Back

\* What a visit makes of walks back from one node, for those it offers or keeps.
LEMMA BackStep ==
  ASSUME GraphOK, QueueInv, NEW n, VisitDoes(n), NEW h, h \in nodes,
         NEW slack, slack \in Nat, NEW m, m \in DOMAIN unvisited',
         \/ /\ m \in DOMAIN unvisited /\ unvisited'[m] = unvisited[m]
            /\ Back(h, slack, m, unvisited[m].weight, Cardinality(visited))
         \/ /\ Adjacent(n, m)
            /\ unvisited'[m].weight = unvisited[n].weight + Cost(n, m)
            /\ Back(h, slack, n, unvisited[n].weight, Cardinality(visited))
  PROVE  Back(h, slack, m, unvisited'[m].weight, Cardinality(visited'))
<1> PICK w, c : w = unvisited[n].weight /\ c = Cardinality(visited)
  OBVIOUS
<1>1. /\ w \in Nat /\ c \in Nat /\ Cardinality(visited') = c + 1 /\ dest \in nodes
      /\ m \in nodes
  BY DEF VisitDoes, QueueInv
<1>2. CASE /\ m \in DOMAIN unvisited /\ unvisited'[m] = unvisited[m]
           /\ Back(h, slack, m, unvisited[m].weight, c)
  <2> PICK v : v = unvisited[m].weight
    OBVIOUS
  <2>1. v \in Nat
    BY <1>2 DEF QueueInv
  <2>2. Back(h, slack, m, v, c + 1)
    BY <1>1, <1>2, <2>1, BackLater
  <2> QED
    BY <1>1, <1>2, <2>2
<1>3. CASE /\ Adjacent(n, m)
           /\ unvisited'[m].weight = w + Cost(n, m)
           /\ Back(h, slack, n, w, c)
  <2>1. Back(h, slack, m, w + Cost(n, m), c + 1)
    BY <1>1, <1>3, BackOver
  <2> QED
    BY <1>1, <1>3, <2>1
<1> QED
  BY <1>2, <1>3

LEMMA ReturnsStep ==
  ASSUME GraphOK, QueueInv, Returns, NEW n, Visit(n), UNCHANGED <<edges, nodes>>
  PROVE  Returns'
<1>1. VisitDoes(n) /\ source' = source /\ dest' = dest /\ source \in nodes
  BY VisitEffect DEF Visit, QueueInv
<1>2. ASSUME NEW m \in DOMAIN unvisited'
      PROVE  Back(source, 0, m, unvisited[m].weight, Cardinality(visited))'
  <2> PICK s, v, c : s = source /\ v = unvisited'[m].weight /\ c = Cardinality(visited')
    OBVIOUS
  <2>1. \/ /\ m \in DOMAIN unvisited /\ unvisited'[m] = unvisited[m]
           /\ Back(s, 0, m, unvisited[m].weight, Cardinality(visited))
        \/ /\ Adjacent(n, m)
           /\ unvisited'[m].weight = unvisited[n].weight + Cost(n, m)
           /\ Back(s, 0, n, unvisited[n].weight, Cardinality(visited))
    BY <1>1, <1>2 DEF VisitDoes, Returns
  <2>2. Back(s, 0, m, v, c)
    BY <1>1, <2>1, BackStep
  <2>3. Back(s, 0, m, v, c)'
    BY <1>1, <2>2, SameBack
  <2> QED
    BY <1>1, <2>3
<1> QED
  BY <1>2 DEF Returns

-----------------------------------------------------------------------------
(* Slices and arrays *)

ArraysOK(arrays, names) ==
  /\ DOMAIN arrays \subseteq names
  /\ \A o \in DOMAIN arrays : arrays[o] \in Seq(nodes \cup {None})

\* A slice of one node or two fills its array: what is in the first three cells
\* is never written again.
SliceOK(arrays, path) ==
  /\ path \in [array : DOMAIN arrays, len : Nat \ {0}]
  /\ path.len <= Len(arrays[path.array])
  /\ path.len <= 2 => Len(arrays[path.array]) = path.len
  /\ \A k \in 1..path.len : arrays[path.array][k] \in nodes

\* The slice later, in the arrays as they are then: n is appended.
Extends(later, path, n) ==
  LET more == Appended(path, n)
  IN  /\ SliceOK(later, more)
      /\ more.len = path.len + 1 /\ later[more.array][more.len] = n
      /\ \A k \in 1..path.len : later[more.array][k] = cells[path.array][k]

\* What an append leaves of a slice.
Keeps(later, path) ==
  /\ SliceOK(later, path)
  /\ \A k \in 1..path.len : k <= 3 => later[path.array][k] = cells[path.array][k]

LEMMA AppendToNil ==
  ASSUME GraphOK, NEW n, n \in nodes, cells = [o \in {} |-> <<>>]
  PROVE  /\ ArraysOK(Written(Nil, n), {n})
         /\ Appended(Nil, n) = [array |-> n, len |-> 1]
         /\ SliceOK(Written(Nil, n), Appended(Nil, n))
<1>1. ~Fits(Nil) /\ Appended(Nil, n) = [array |-> n, len |-> 1]
  BY DEF Fits, Capacity, Appended, Nil
<1>2. DOMAIN cells = {}
  OBVIOUS
<1>3. /\ DOMAIN Grown(Nil, n) = 1..1 /\ Grown(Nil, n)[1] = n
      /\ Grown(Nil, n) \in [1..1 -> nodes]
  BY DEF Grown, Nil
<1>4. Grown(Nil, n) \in Seq(nodes \cup {None}) /\ Len(Grown(Nil, n)) = 1
  <2>1. Grown(Nil, n) \in [1..1 -> nodes \cup {None}] /\ 1 \in Nat
    BY <1>3
  <2> QED
    BY <2>1, FunctionSeq
<1>5. Written(Nil, n) = [o \in {n} |-> Grown(Nil, n)]
  BY <1>1, <1>2 DEF Written
<1> HIDE DEF Grown
<1>6. ArraysOK(Written(Nil, n), {n})
  BY <1>4, <1>5 DEF ArraysOK
<1>7. SliceOK(Written(Nil, n), [array |-> n, len |-> 1])
  BY <1>3, <1>4, <1>5 DEF SliceOK
<1> QED
  BY <1>1, <1>6, <1>7

LEMMA AppendToSlice ==
  ASSUME GraphOK, ArraysOK(cells, visited), NEW n, n \in nodes, n \notin visited,
         NEW path, SliceOK(cells, path)
  PROVE  /\ ArraysOK(Written(path, n), visited \cup {n})
         /\ Extends(Written(path, n), path, n)
         /\ \A other : SliceOK(cells, other) => Keeps(Written(path, n), other)
<1> PICK o, len, array :
      o = path.array /\ len = path.len /\ array = cells[path.array]
  OBVIOUS
<1>1. /\ o \in DOMAIN cells /\ len \in Nat \ {0} /\ path = [array |-> o, len |-> len]
      /\ o # n /\ o \in visited
      /\ array \in Seq(nodes \cup {None}) /\ len <= Len(array)
      /\ len <= 2 => Len(array) = len
      /\ \A k \in 1..len : array[k] \in nodes
  BY DEF SliceOK, ArraysOK
<1>2. path # Nil /\ Capacity(path) = Len(array) /\ Len(array) \in Nat
  BY <1>1 DEF Nil, Capacity
<1>3. CASE Fits(path)
  <2>1. len < Len(array) /\ len >= 3
    BY <1>1, <1>2, <1>3 DEF Fits
  <2> PICK later : later = [cells EXCEPT ![o][len + 1] = n]
    OBVIOUS
  <2>2. Written(path, n) = later /\ Appended(path, n) = [array |-> o, len |-> len + 1]
    BY <1>3 DEF Written, Appended
  <2> PICK grown : grown = [array EXCEPT ![len + 1] = n]
    OBVIOUS
  <2>3. later = [cells EXCEPT ![o] = grown]
    OBVIOUS
  <2>4. /\ grown \in Seq(nodes \cup {None}) /\ Len(grown) = Len(array)
        /\ grown[len + 1] = n /\ \A k \in 1..Len(array) : k # len + 1 => grown[k] = array[k]
    BY <1>1, <2>1
  <2>5. DOMAIN later = DOMAIN cells /\ later[o] = grown
        /\ \A x \in DOMAIN cells : x # o => later[x] = cells[x]
    BY <1>1, <2>3
  <2>6. ArraysOK(later, visited \cup {n})
    BY <2>4, <2>5 DEF ArraysOK
  <2>7. SliceOK(later, [array |-> o, len |-> len + 1])
    BY <1>1, <2>1, <2>4, <2>5 DEF SliceOK
  <2>8. \A k \in 1..len : grown[k] = array[k]
    BY <1>1, <2>1, <2>4
  <2>9. Extends(later, path, n)
    BY <1>1, <2>2, <2>4, <2>5, <2>7, <2>8 DEF Extends
  <2>10. ASSUME NEW other, SliceOK(cells, other)
         PROVE  Keeps(later, other)
    <3>1. CASE other.array # o
      BY <2>5, <2>10, <3>1 DEF Keeps, SliceOK
    <3>2. CASE other.array = o
      <4>1. /\ other \in [array : DOMAIN later, len : Nat \ {0}]
            /\ other.len <= Len(grown)
            /\ other.len <= 2 => Len(grown) = other.len
        BY <2>4, <2>5, <2>10, <3>2 DEF SliceOK
      <4>2. \A k \in 1..other.len : k \in 1..Len(array) /\ array[k] \in nodes
        BY <1>1, <1>2, <2>10, <3>2 DEF SliceOK
      <4>3. \A k \in 1..other.len : grown[k] \in nodes /\ (k <= 3 => grown[k] = array[k])
        BY <1>1, <2>1, <2>4, <4>2
      <4> QED
        BY <2>5, <3>2, <4>1, <4>3 DEF Keeps, SliceOK
    <3> QED
      BY <3>1, <3>2
  <2> QED
    BY <2>2, <2>6, <2>9, <2>10
<1>4. CASE ~Fits(path)
  <2>1. len = Len(array)
    BY <1>1, <1>2, <1>4 DEF Fits
  <2> PICK grown : grown = Grown(path, n)
    OBVIOUS
  <2>2. grown = [k \in 1..2 * len |-> IF k <= len THEN array[k]
                                      ELSE IF k = len + 1 THEN n ELSE None]
    BY <1>1, <1>2, <2>1 DEF Grown
  <2> PICK twice : twice = 2 * len
    OBVIOUS
  <2>t. twice \in Nat /\ len + 1 <= twice
    BY <1>1
  <2>3. grown \in [1..twice -> nodes \cup {None}]
    <3>1. \A k \in 1..len : array[k] \in nodes \cup {None}
      BY <1>1
    <3>2. \A k \in 1..twice : k <= len => k \in 1..len
      BY <2>t
    <3> QED
      BY <2>2, <3>1, <3>2
  <2>4. /\ grown \in Seq(nodes \cup {None}) /\ Len(grown) = twice
        /\ grown[len + 1] = n /\ \A k \in 1..len : grown[k] = array[k]
    <3>1. grown \in Seq(nodes \cup {None}) /\ Len(grown) = twice
      BY <2>t, <2>3, FunctionSeq
    <3>2. len + 1 \in 1..twice /\ ~(len + 1 <= len) /\ \A k \in 1..len : k \in 1..twice /\ k <= len
      BY <1>1, <2>t
    <3> QED
      BY <2>2, <3>1, <3>2
  <2> PICK later : later = [x \in DOMAIN cells \cup {n} |-> IF x = n THEN grown ELSE cells[x]]
    OBVIOUS
  <2>5. Written(path, n) = later /\ Appended(path, n) = [array |-> n, len |-> len + 1]
    BY <1>1, <1>4 DEF Written, Appended
  <2>6. n \notin DOMAIN cells
    BY DEF ArraysOK
  <2>7. /\ DOMAIN later = DOMAIN cells \cup {n} /\ later[n] = grown
        /\ \A x \in DOMAIN cells : later[x] = cells[x]
    BY <2>6
  <2>8. ArraysOK(later, visited \cup {n})
    BY <2>4, <2>7 DEF ArraysOK
  <2>9. SliceOK(later, [array |-> n, len |-> len + 1])
    <3>1. \A k \in 1..len + 1 : k \in 1..len \/ k = len + 1
      BY <1>1
    <3>2. \A k \in 1..len + 1 : grown[k] \in nodes
      BY <1>1, <2>4, <3>1
    <3>3. len + 1 \in Nat \ {0} /\ len + 1 <= twice /\ (len + 1 <= 2 => twice = len + 1)
      BY <1>1
    <3> QED
      BY <2>4, <2>7, <3>2, <3>3 DEF SliceOK
  <2>10. Extends(later, path, n)
    BY <1>1, <2>4, <2>5, <2>7, <2>9 DEF Extends
  <2>11. ASSUME NEW other, SliceOK(cells, other)
         PROVE  Keeps(later, other)
    BY <2>7, <2>11 DEF Keeps, SliceOK
  <2> QED
    BY <2>5, <2>8, <2>10, <2>11
<1> QED
  BY <1>3, <1>4

\* The first hop of the path to m, and what the nodes of a short one weigh.
Hop(arrays, m, path) == IF path.len = 1 THEN m ELSE arrays[path.array][2]

Legs(arrays, m, path, weight) ==
  LET cell(k) == arrays[path.array][k]
  IN  /\ path.len = 1 => Adjacent(source, m) /\ weight = Cost(source, m)
      /\ path.len = 2 =>
           /\ Adjacent(source, cell(2)) /\ Adjacent(cell(2), m)
           /\ weight = Cost(source, cell(2)) + Cost(cell(2), m)
      /\ path.len = 3 =>
           /\ Adjacent(source, cell(2)) /\ Adjacent(cell(2), cell(3)) /\ Adjacent(cell(3), m)
           /\ weight = (Cost(source, cell(2)) + Cost(cell(2), cell(3))) + Cost(cell(3), m)

Trail(arrays, m, path, weight) ==
  /\ SliceOK(arrays, path)
  /\ Adjacent(source, Hop(arrays, m, path))
  /\ Legs(arrays, m, path, weight)

LEMMA TrailKept ==
  ASSUME NEW m, NEW path, NEW weight, NEW later,
         Trail(cells, m, path, weight), Keeps(later, path)
  PROVE  Trail(later, m, path, weight) /\ Hop(later, m, path) = Hop(cells, m, path)
<1>1. path.len \in Nat \ {0} /\ SliceOK(later, path)
  BY DEF Trail, SliceOK, Keeps
<1>2. \A k \in 1..path.len : k <= 3 => later[path.array][k] = cells[path.array][k]
  BY DEF Keeps
<1>3. /\ path.len # 1 => 2 \in 1..path.len
      /\ path.len = 3 => 3 \in 1..path.len
  BY <1>1
<1>4. /\ path.len # 1 => later[path.array][2] = cells[path.array][2]
      /\ path.len = 3 => later[path.array][3] = cells[path.array][3]
  BY <1>2, <1>3
<1>5. Hop(later, m, path) = Hop(cells, m, path)
  BY <1>4 DEF Hop
<1>6. Legs(later, m, path, weight)
  <2>1. Legs(cells, m, path, weight)
    BY DEF Trail
  <2>2. CASE path.len = 1
    BY <2>1, <2>2 DEF Legs
  <2>3. CASE path.len = 2
    BY <1>4, <2>1, <2>3 DEF Legs
  <2>4. CASE path.len = 3
    BY <1>4, <2>1, <2>4 DEF Legs
  <2> QED
    BY <2>2, <2>3, <2>4 DEF Legs
<1> QED
  BY <1>1, <1>5, <1>6 DEF Trail

LEMMA TrailExtended ==
  ASSUME NEW n, NEW path, NEW weight, NEW later, Trail(cells, n, path, weight),
         Extends(later, path, n), NEW m, Adjacent(n, m)
  PROVE  /\ Trail(later, m, Appended(path, n), weight + Cost(n, m))
         /\ Hop(later, m, Appended(path, n)) = Hop(cells, n, path)
<1> PICK more, len : more = Appended(path, n) /\ len = path.len
  OBVIOUS
<1>1. /\ len \in Nat \ {0} /\ SliceOK(later, more) /\ more.len = len + 1
      /\ later[more.array][len + 1] = n
      /\ \A k \in 1..len : later[more.array][k] = cells[path.array][k]
  BY DEF Trail, SliceOK, Extends
<1>2. /\ len = 1 => later[more.array][2] = n
      /\ len # 1 => later[more.array][2] = cells[path.array][2]
      /\ len = 2 => later[more.array][3] = n
  <2>1. len # 1 => 2 \in 1..len
    BY <1>1
  <2> QED
    BY <1>1, <2>1
<1>3. Hop(later, m, more) = Hop(cells, n, path)
  BY <1>1, <1>2 DEF Hop
<1>4. Legs(later, m, more, weight + Cost(n, m))
  <2>1. Legs(cells, n, path, weight)
    BY DEF Trail
  <2>2. CASE len = 1
    BY <1>1, <1>2, <2>1, <2>2 DEF Legs
  <2>3. CASE len = 2
    BY <1>1, <1>2, <2>1, <2>3 DEF Legs
  <2>4. CASE len >= 3
    BY <1>1, <2>4 DEF Legs
  <2> QED
    BY <1>1, <2>2, <2>3, <2>4
<1> QED
  BY <1>1, <1>3, <1>4 DEF Trail

\* The path of an item for m leads from the source to it, and a walk back along
\* it takes count hops at most.
OnTrail(arrays, m, item, count) ==
  LET h == Hop(arrays, m, item.path)
  IN  /\ Trail(arrays, m, item.path, item.weight)
      /\ Back(h, Cost(source, h), m, item.weight, count)

\* Every queued path leads from the source to its node.
PathInv ==
  /\ ArraysOK(cells, visited)
  /\ visited = {} => cells = [o \in {} |-> <<>>]
  /\ \A m \in DOMAIN unvisited :
       /\ m = source => unvisited[m].path = Nil
       /\ m # source => OnTrail(cells, m, unvisited[m], Cardinality(visited))

LEMMA SameTrail ==
  ASSUME UNCHANGED <<edges, nodes, source, dest>>,
         NEW arrays, NEW m, NEW item, NEW count, NEW names
  PROVE  /\ OnTrail(arrays, m, item, count)' = OnTrail(arrays, m, item, count)
         /\ ArraysOK(arrays, names)' = ArraysOK(arrays, names)
<1>1. \A a, b : Adjacent(a, b)' = Adjacent(a, b) /\ Cost(a, b)' = Cost(a, b)
  BY SameGraph
<1>2. SliceOK(arrays, item.path)' = SliceOK(arrays, item.path)
  BY DEF SliceOK
<1>3. Legs(arrays, m, item.path, item.weight)' = Legs(arrays, m, item.path, item.weight)
  BY <1>1 DEF Legs
<1> PICK h : h = Hop(arrays, m, item.path)
  OBVIOUS
<1>4. Hop(arrays, m, item.path)' = h
  BY DEF Hop
<1>5. Trail(arrays, m, item.path, item.weight)' = Trail(arrays, m, item.path, item.weight)
  BY <1>1, <1>2, <1>3, <1>4 DEF Trail
<1> PICK slack, weight : slack = Cost(source, h) /\ weight = item.weight
  OBVIOUS
<1>6. Back(h, slack, m, weight, count)' = Back(h, slack, m, weight, count)
  BY SameBack
<1>7. Cost(source, h)' = slack
  BY <1>1
<1>8. OnTrail(arrays, m, item, count)' = OnTrail(arrays, m, item, count)
  BY <1>4, <1>5, <1>6, <1>7 DEF OnTrail
<1>9. ArraysOK(arrays, names)' = ArraysOK(arrays, names)
  BY DEF ArraysOK
<1> QED
  BY <1>8, <1>9

\* The first visit, of the source.
LEMMA PathFirst ==
  ASSUME GraphOK, QueueInv, PathInv, NEW n, Visit(n), n = source
  PROVE  /\ ArraysOK(cells', visited')
         /\ \A m \in DOMAIN unvisited' :
              m # source /\ OnTrail(cells', m, unvisited'[m], Cardinality(visited'))
<1>1. VisitDoes(n)
  BY VisitEffect
<1>2. /\ n \in DOMAIN unvisited /\ n \notin visited /\ visited' = visited \cup {n}
      /\ source \in nodes /\ dest \in nodes
  BY <1>1 DEF VisitDoes, QueueInv
<1>3. visited = {} /\ DOMAIN unvisited = {n} /\ unvisited[n].weight = 0
  BY <1>2 DEF QueueInv
<1>4. unvisited[n].path = Nil /\ cells = [o \in {} |-> <<>>]
  BY <1>2, <1>3 DEF PathInv
<1>5. cells' = Written(Nil, n)
  BY <1>4 DEF Visit
<1>6. ArraysOK(cells', visited')
  BY <1>2, <1>3, <1>4, <1>5, AppendToNil
<1>7. Cardinality(visited') = 1
  BY <1>2, <1>3, FS_Singleton
<1>8. ASSUME NEW m \in DOMAIN unvisited'
      PROVE  m # source /\ OnTrail(cells', m, unvisited'[m], Cardinality(visited'))
  <2> PICK path, cost : path = [array |-> n, len |-> 1] /\ cost = Cost(n, m)
    OBVIOUS
  <2>1. m # source
    BY <1>1, <1>8 DEF VisitDoes
  <2>2. Adjacent(n, m) /\ unvisited'[m] = [weight |-> 0 + cost, path |-> path]
    <3>1. m \notin DOMAIN unvisited
      BY <1>3, <2>1
    <3>2. Appended(unvisited[n].path, n) = path
      BY <1>2, <1>4, AppendToNil
    <3> QED
      BY <1>1, <1>3, <1>8, <3>1, <3>2 DEF VisitDoes
  <2>3. cost \in Nat /\ m \in nodes
    BY <2>2, NeighbourFacts
  <2>4. unvisited'[m].weight = cost /\ unvisited'[m].path = path /\ path.len = 1
    BY <2>2, <2>3
  <2>5. Hop(cells', m, path) = m
    BY <2>4 DEF Hop
  <2>6. SliceOK(cells', path)
    BY <1>2, <1>4, <1>5, AppendToNil
  <2>7. Trail(cells', m, path, cost)
    BY <2>2, <2>4, <2>5, <2>6 DEF Trail, Legs
  <2>8. Back(m, cost, m, cost, 1)
    <3>1. Back(m, cost, m, cost, 0)
      BY <1>2, <2>3, BackHere
    <3>2. Back(m, cost, m, cost, 0 + 1)
      BY <1>2, <2>3, <3>1, BackLater
    <3> QED
      BY <3>2
  <2> QED
    BY <1>7, <2>1, <2>4, <2>5, <2>7, <2>8 DEF OnTrail
<1> QED
  BY <1>6, <1>8

\* A later one.
LEMMA PathNext ==
  ASSUME GraphOK, QueueInv, PathInv, NEW n, Visit(n), n # source
  PROVE  /\ ArraysOK(cells', visited')
         /\ \A m \in DOMAIN unvisited' :
              m # source /\ OnTrail(cells', m, unvisited'[m], Cardinality(visited'))
<1> PICK path, w, later : path = unvisited[n].path /\ w = unvisited[n].weight /\ later = cells'
  OBVIOUS
<1>1. VisitDoes(n)
  BY VisitEffect
<1>2. /\ n \in DOMAIN unvisited /\ n \notin visited /\ visited' = visited \cup {n}
      /\ n \in nodes /\ source \in nodes /\ dest \in nodes /\ source \in visited
      /\ later = Written(path, n)
  BY <1>1 DEF VisitDoes, QueueInv, Visit
<1>3. OnTrail(cells, n, unvisited[n], Cardinality(visited)) /\ ArraysOK(cells, visited)
  BY <1>2 DEF PathInv
<1>4. SliceOK(cells, path) /\ Trail(cells, n, path, w)
  BY <1>3 DEF OnTrail, Trail
<1>5. /\ ArraysOK(later, visited \cup {n})
      /\ Extends(later, path, n)
      /\ \A other : SliceOK(cells, other) => Keeps(later, other)
  BY <1>2, <1>3, <1>4, AppendToSlice
<1>6. ASSUME NEW m \in DOMAIN unvisited'
      PROVE  m # source /\ OnTrail(later, m, unvisited'[m], Cardinality(visited'))
  <2> PICK item, old, h, slack, count :
        /\ item = unvisited'[m] /\ old = unvisited[m] /\ count = Cardinality(visited')
        /\ h = Hop(later, m, item.path) /\ slack = Cost(source, h)
    OBVIOUS
  <2>1. m # source /\ m \in nodes
    BY <1>1, <1>2, <1>6 DEF VisitDoes
  <2>2. CASE m \in DOMAIN unvisited /\ item = old
    <3>1. OnTrail(cells, m, old, Cardinality(visited))
      BY <2>1, <2>2 DEF PathInv
    <3>2. Trail(cells, m, old.path, old.weight) /\ Keeps(later, old.path)
      BY <1>5, <3>1 DEF OnTrail, Trail
    <3>3. Trail(later, m, old.path, old.weight) /\ h = Hop(cells, m, old.path)
      BY <2>2, <3>2, TrailKept
    <3>4. Back(h, slack, m, unvisited[m].weight, Cardinality(visited))
      BY <3>1, <3>3 DEF OnTrail
    <3>5. h \in nodes /\ slack \in Nat
      BY <2>2, <3>3, NeighbourFacts DEF Trail
    <3>6. Back(h, slack, m, unvisited'[m].weight, Cardinality(visited'))
      BY <1>1, <1>6, <2>2, <3>4, <3>5, BackStep
    <3> QED
      BY <2>1, <2>2, <3>3, <3>6 DEF OnTrail
  <2>3. CASE /\ Adjacent(n, m)
             /\ item = [weight |-> w + Cost(n, m), path |-> Appended(path, n)]
    <3>1. item.weight = w + Cost(n, m) /\ item.path = Appended(path, n)
      BY <2>3
    <3>2. Trail(later, m, item.path, item.weight) /\ h = Hop(cells, n, path)
      BY <1>4, <1>5, <2>3, <3>1, TrailExtended
    <3>3. Back(h, slack, n, unvisited[n].weight, Cardinality(visited))
      BY <1>3, <3>2 DEF OnTrail
    <3>4. h \in nodes /\ slack \in Nat
      BY <3>2, NeighbourFacts DEF Trail
    <3>5. unvisited'[m].weight = unvisited[n].weight + Cost(n, m)
      BY <3>1
    <3>6. Back(h, slack, m, unvisited'[m].weight, Cardinality(visited'))
      BY <1>1, <1>6, <2>3, <3>3, <3>4, <3>5, BackStep
    <3> QED
      BY <2>1, <3>2, <3>6 DEF OnTrail
  <2> QED
    BY <1>1, <1>6, <2>2, <2>3 DEF VisitDoes
<1> QED
  BY <1>2, <1>5, <1>6

LEMMA PathStep ==
  ASSUME GraphOK, QueueInv, PathInv, NEW n, Visit(n), UNCHANGED <<edges, nodes>>
  PROVE  PathInv'
<1> PICK later, names, count : later = cells' /\ names = visited' /\ count = Cardinality(visited')
  OBVIOUS
<1>1. /\ ArraysOK(later, names)
      /\ \A m \in DOMAIN unvisited' : m # source /\ OnTrail(later, m, unvisited'[m], count)
  <2>1. CASE n = source
    BY <2>1, PathFirst
  <2>2. CASE n # source
    BY <2>2, PathNext
  <2> QED
    BY <2>1, <2>2
<1>2. UNCHANGED <<source, dest>> /\ n \in visited'
  BY DEF Visit
<1>3. ArraysOK(cells, visited)'
  BY <1>1, <1>2, SameTrail
<1>4. ASSUME NEW m \in DOMAIN unvisited'
      PROVE  m # source' /\ OnTrail(cells, m, unvisited[m], Cardinality(visited))'
  <2> PICK item : item = unvisited'[m]
    OBVIOUS
  <2>1. OnTrail(later, m, item, count)'
    BY <1>1, <1>2, <1>4, SameTrail
  <2> QED
    BY <1>1, <1>2, <1>4, <2>1
<1> QED
  BY <1>2, <1>3, <1>4 DEF PathInv

-----------------------------------------------------------------------------
(* What is popped *)

Busy == QueueInv /\ Settled /\ Reached /\ Returns /\ PathInv

LEMMA BusyStep ==
  ASSUME GraphOK, Busy, NEW n, Visit(n), UNCHANGED <<edges, nodes>>
  PROVE  Busy'
BY QueueStep, SettledStep, ReachedStep, ReturnsStep, PathStep DEF Busy

IsPotential(p) ==
  /\ p \in [nodes -> Nat]
  /\ \A n \in nodes : p[n] <= Far(nodes)
  /\ \A n, m \in nodes : Adjacent(n, m) => p[n] <= p[m] + Cost(n, m)

LEMMA PotentialBounds ==
  ASSUME GraphOK, NEW d, d \in nodes, NEW D, IsRounds(D, d),
         NEW p, IsPotential(p), p[d] = 0, NEW n, n \in nodes
  PROVE  p[n] <= D[Size][n]
<1>1. Size \in 0..Size
  BY SizeType
<1>2. /\ p \in [nodes -> Nat] /\ \A m \in nodes : p[m] <= Far(nodes)
      /\ \A a, b \in nodes : Adjacent(a, b) => p[a] <= p[b] + Cost(a, b)
  BY DEF IsPotential
<1>3. \A r \in 0..Size : \A m \in nodes : p[m] <= D[r][m]
  BY <1>2, Potential
<1> QED
  BY <1>1, <1>3

\* The weights of the visited nodes, with the least queued weight for the others,
\* are a potential: it grows from the source to the node popped.
Known(final, w) == [m \in nodes |-> IF m \in visited THEN final[m] ELSE w]

LEMMA KnownIs ==
  ASSUME GraphOK, QueueInv, NEW final, Settles(final), NEW n, Least(n),
         NEW w, w = unvisited[n].weight
  PROVE  /\ IsPotential(Known(final, w)) /\ w \in Nat /\ w <= Far(nodes)
         /\ Known(final, w)[source] = 0 /\ Known(final, w)[n] = w
         /\ \A m \in nodes : Known(final, w)[m] <= w
<1> PICK p : p = Known(final, w)
  OBVIOUS
<1>1. /\ n \in DOMAIN unvisited /\ n \in nodes /\ n \notin visited /\ w \in Nat
      /\ source \in nodes
  BY DEF Least, QueueInv
<1>2. w <= Far(nodes)
  <2>1. w <= 50 * Cardinality(visited)
    BY <1>1 DEF QueueInv
  <2>2. Cardinality(visited) \in Nat /\ Cardinality(visited) <= Size
    BY FS_Subset, FS_CardinalityType DEF GraphOK, QueueInv, Size
  <2>3. Size \in Nat /\ Far(nodes) = 51 * Size
    BY SizeType
  <2> HIDE DEF Far, Size
  <2> QED
    BY <1>1, <2>1, <2>2, <2>3
<1>3. /\ \A m \in visited : m \in nodes /\ p[m] = final[m]
      /\ \A m \in nodes : m \notin visited => p[m] = w
  BY DEF Known, QueueInv
<1>4. \A m \in visited : final[m] \in Nat /\ final[m] <= Far(nodes) /\ final[m] <= w
  BY <1>1 DEF Settles
<1>5. p \in [nodes -> Nat]
  BY <1>1, <1>4 DEF Known
<1>6. \A m \in nodes : p[m] <= w /\ p[m] <= Far(nodes)
  BY <1>1, <1>2, <1>3, <1>4
<1>7. ASSUME NEW a \in nodes, NEW b \in nodes, Adjacent(a, b)
      PROVE  p[a] <= p[b] + Cost(a, b)
  <2>1. Cost(a, b) \in Nat /\ Adjacent(b, a) /\ Cost(b, a) = Cost(a, b)
    BY <1>7, NeighbourFacts
  <2>2. CASE a \in visited /\ b \in visited
    BY <1>3, <2>1, <2>2 DEF Settles
  <2>3. CASE b \notin visited
    BY <1>1, <1>3, <1>4, <2>1, <2>3
  <2>4. CASE a \notin visited /\ b \in visited
    <3>1. a \in DOMAIN unvisited /\ unvisited[a].weight <= final[b] + Cost(a, b)
      BY <2>1, <2>4 DEF Settles
    <3>2. w <= unvisited[a].weight /\ unvisited[a].weight \in Nat
      BY <3>1 DEF Least, QueueInv
    <3> QED
      BY <1>1, <1>3, <1>4, <2>1, <2>4, <3>1, <3>2
  <2> QED
    BY <2>2, <2>3, <2>4
<1>8. p[source] = 0
  <2>1. CASE source \in visited
    BY <1>3, <2>1 DEF Settles
  <2>2. CASE source \notin visited
    BY <1>1, <1>3, <2>2 DEF QueueInv
  <2> QED
    BY <2>1, <2>2
<1> QED
  BY <1>1, <1>2, <1>3, <1>5, <1>6, <1>7, <1>8 DEF IsPotential

\* The node popped is at its distance from the source.
LEMMA PopIsDistance ==
  ASSUME GraphOK, Busy, NEW n, Least(n)
  PROVE  unvisited[n].weight = Distances(nodes, source)[n]
<1> PICK w, c : w = unvisited[n].weight /\ c = Cardinality(visited)
  OBVIOUS
<1> PICK final : Settles(final)
  BY DEF Busy, Settled
<1>1. source \in nodes /\ n \in nodes /\ n \in DOMAIN unvisited /\ QueueInv
  BY DEF Busy, QueueInv, Least
<1> PICK D : IsRounds(D, source) /\ Distances(nodes, source) = D[Size]
  BY <1>1, RoundsExist
<1> PICK p : p = Known(final, w)
  OBVIOUS
<1>2. IsPotential(p) /\ w \in Nat /\ p[source] = 0 /\ p[n] = w
  BY <1>1, KnownIs
<1>3. w <= D[Size][n]
  BY <1>1, <1>2, PotentialBounds
<1>4. c \in 0..Size
  <2>1. c \in Nat /\ c <= Size
    BY <1>1, FS_Subset, FS_CardinalityType DEF GraphOK, QueueInv, Size
  <2> QED
    BY <2>1, SizeType
<1>5. D[c][n] <= w
  BY <1>1 DEF Busy, Reached
<1>6. D[Size][n] \in Nat /\ D[c][n] \in Nat /\ D[Size][n] <= D[c][n]
  BY <1>1, <1>4, RoundsFall
<1> QED
  BY <1>2, <1>3, <1>5, <1>6

\* When the destination is popped, the first hop of its path is nearer to it by
\* what the hop costs.
LEMMA HopIsNearer ==
  ASSUME GraphOK, Busy, Least(dest), NEW h, h = Hop(cells, dest, unvisited[dest].path)
  PROVE  /\ Adjacent(source, h)
         /\ Distances(nodes, dest)[source] = Cost(source, h) + Distances(nodes, dest)[h]
<1> PICK w, c : w = unvisited[dest].weight /\ c = Cardinality(visited)
  OBVIOUS
<1> PICK final : Settles(final)
  BY DEF Busy, Settled
<1>1. /\ source \in nodes /\ dest \in nodes /\ dest \in DOMAIN unvisited /\ QueueInv
      /\ dest # source
  BY DEF Busy, QueueInv, Least
<1> PICK E : IsRounds(E, dest) /\ Distances(nodes, dest) = E[Size]
  BY <1>1, RoundsExist
<1>2. c \in 0..Size /\ Size \in Nat
  <2>1. c \in Nat /\ c <= Size
    BY <1>1, FS_Subset, FS_CardinalityType DEF GraphOK, QueueInv, Size
  <2> QED
    BY <2>1, SizeType
<1>3. OnTrail(cells, dest, unvisited[dest], c)
  BY <1>1 DEF Busy, PathInv
<1>4. Adjacent(source, h)
  BY <1>3 DEF OnTrail, Trail
<1> PICK cost : cost = Cost(source, h)
  OBVIOUS
<1>5. h \in nodes /\ cost \in Nat /\ h # source /\ Adjacent(h, source)
  BY <1>4, NeighbourFacts
<1>6. /\ E[c][source] <= w
      /\ E[c][h] + cost <= w
  <2>1. Back(source, 0, dest, w, c) /\ Back(h, cost, dest, w, c)
    BY <1>1, <1>3 DEF Busy, Returns, OnTrail
  <2>2. 0 \in 0..Size - c /\ 0 + c = c
    BY <1>2
  <2>3. E[c][source] + 0 <= E[0][dest] + w /\ E[c][h] + cost <= E[0][dest] + w
    BY <2>1, <2>2 DEF Back
  <2>4. E[0][dest] = 0
    BY <1>1 DEF IsRounds
  <2>5. w \in Nat /\ E[c][source] \in Nat
    BY <1>1, <1>2, RoundsFall DEF QueueInv
  <2> QED
    BY <2>3, <2>4, <2>5
<1> PICK p : p = Known(final, w)
  OBVIOUS
<1>7. /\ IsPotential(p) /\ w \in Nat /\ w <= Far(nodes) /\ p[source] = 0 /\ p[dest] = w
      /\ \A m \in nodes : p[m] <= w
  BY <1>1, KnownIs
<1> PICK q : q = [m \in nodes |-> w - p[m]]
  OBVIOUS
<1>8. IsPotential(q)
  <2>1. q \in [nodes -> Nat]
    BY <1>7 DEF IsPotential
  <2>2. ASSUME NEW m \in nodes
        PROVE  q[m] <= Far(nodes)
    <3>1. q[m] = w - p[m] /\ p[m] \in Nat /\ Far(nodes) \in Nat
      BY <1>7, SizeType DEF IsPotential
    <3> QED
      BY <1>7, <3>1
  <2>3. ASSUME NEW a \in nodes, NEW b \in nodes, Adjacent(a, b)
        PROVE  q[a] <= q[b] + Cost(a, b)
    <3>1. Adjacent(b, a) /\ Cost(b, a) = Cost(a, b) /\ Cost(a, b) \in Nat
      BY <2>3, NeighbourFacts
    <3>2. p[b] <= p[a] + Cost(a, b) /\ p[a] \in Nat /\ p[b] \in Nat
      BY <1>7, <3>1 DEF IsPotential
    <3> QED
      BY <1>7, <3>1, <3>2
  <2> QED
    BY <2>1, <2>2, <2>3 DEF IsPotential
<1>9. q[dest] = 0 /\ q[source] = w /\ q[h] = w - p[h]
  BY <1>1, <1>5, <1>7
<1>10. p[h] <= cost
  <2>1. p[h] <= p[source] + Cost(h, source) /\ Cost(h, source) = cost
    BY <1>1, <1>4, <1>5, <1>7, NeighbourFacts DEF IsPotential
  <2> QED
    BY <1>5, <1>7, <2>1
<1>11. q[source] <= E[Size][source] /\ q[h] <= E[Size][h]
  BY <1>1, <1>5, <1>8, <1>9, PotentialBounds
<1>12. /\ E[Size][source] <= E[c][source] /\ E[Size][h] <= E[c][h]
       /\ E[Size][source] \in Nat /\ E[Size][h] \in Nat
       /\ E[c][source] \in Nat /\ E[c][h] \in Nat
  BY <1>1, <1>2, <1>5, RoundsFall
<1>13. p[h] \in Nat
  BY <1>5, <1>7 DEF IsPotential
<1>14. E[Size][source] = cost + E[Size][h]
  <2> PICK a, b, a0, b0, g : /\ a = E[Size][source] /\ b = E[Size][h] /\ g = p[h]
                             /\ a0 = E[c][source] /\ b0 = E[c][h]
    OBVIOUS
  <2>1. a \in Nat /\ b \in Nat /\ a0 \in Nat /\ b0 \in Nat /\ g \in Nat
    BY <1>12, <1>13
  <2>2. a0 <= w /\ b0 + cost <= w /\ w <= a /\ w - g <= b /\ a <= a0 /\ b <= b0 /\ g <= cost
    BY <1>6, <1>9, <1>10, <1>11, <1>12
  <2>3. cost \in Nat /\ w \in Nat
    BY <1>5, <1>7
  <2>4. a = w /\ b = w - cost
    BY <2>1, <2>2, <2>3
  <2>5. a = cost + b
    BY <2>3, <2>4
  <2> QED
    BY <2>5
<1> QED
  BY <1>4, <1>14

-----------------------------------------------------------------------------
(* What is returned *)

\* The hops of a walk from s through r, and what each of the first three weighs.
Hops(s, r) == \A k \in 1..Len(r) : Adjacent(IF k = 1 THEN s ELSE r[k - 1], r[k])
LegsOf(s, r) ==
  [k \in 1..3 |-> IF k <= Len(r) THEN Cost(IF k = 1 THEN s ELSE r[k - 1], r[k]) ELSE 0]

\* What a walk of one to three hops weighs.
LEMMA WalkedIs ==
  ASSUME GraphOK, NEW s, NEW r, Len(r) \in 1..3, Hops(s, r)
  PROVE  Walked(nodes, s, r) = (LegsOf(s, r)[1] + LegsOf(s, r)[2]) + LegsOf(s, r)[3]
<1> PICK L, leg : L = Len(r) /\ leg = LegsOf(s, r)
  OBVIOUS
<1>a. L \in 1..3
  OBVIOUS
<1>b. leg = [k \in 1..3 |-> IF k <= L THEN Cost(IF k = 1 THEN s ELSE r[k - 1], r[k]) ELSE 0]
  BY DEF LegsOf
<1>c. \A k \in 1..L : Adjacent(IF k = 1 THEN s ELSE r[k - 1], r[k])
  BY DEF Hops
<1> DEFINE at(k) == IF k = 0 THEN s ELSE r[k]
           step(k) == IF at(k - 1) # at(k) /\ Adjacent(at(k - 1), at(k))
                      THEN Cost(at(k - 1), at(k)) ELSE Far(nodes)
           sum == CHOOSE f :
             f = [k \in 0..Len(r) |-> IF k = 0 THEN 0 ELSE f[k - 1] + step(k)]
<1>1. Walked(nodes, s, r) = sum[L]
  BY DEF Walked
<1>2. \A k \in 1..L : step(k) = leg[k]
  <2> SUFFICES ASSUME NEW k \in 1..L
               PROVE  step(k) = leg[k]
    OBVIOUS
  <2>1. at(k - 1) = (IF k = 1 THEN s ELSE r[k - 1]) /\ at(k) = r[k]
    OBVIOUS
  <2>2. Adjacent(at(k - 1), at(k)) /\ k \in 1..3 /\ k <= L
    BY <1>a, <1>c, <2>1
  <2>3. leg[k] = Cost(at(k - 1), at(k))
    BY <1>b, <2>1, <2>2
  <2> HIDE DEF at
  <2>4. at(k - 1) # at(k)
    BY <2>2, NeighbourFacts
  <2> QED
    BY <2>2, <2>3, <2>4
<1>3. \A k \in 1..3 : leg[k] \in Nat /\ (k > L => leg[k] = 0)
  <2>1. \A a, b : Adjacent(a, b) => Cost(a, b) \in Nat
    BY NeighbourFacts
  <2> QED
    BY <1>a, <1>b, <1>c, <2>1
<1> HIDE DEF step, at
<1>4. \E f : f = [k \in 0..Len(r) |-> IF k = 0 THEN 0 ELSE f[k - 1] + step(k)]
  <2> DEFINE f == [k \in 0..L |-> IF k = 0 THEN 0 ELSE IF k = 1 THEN leg[1]
                                  ELSE IF k = 2 THEN leg[1] + leg[2]
                                  ELSE (leg[1] + leg[2]) + leg[3]]
  <2>1. ASSUME NEW k \in 0..L
        PROVE  f[k] = IF k = 0 THEN 0 ELSE f[k - 1] + step(k)
    <3>1. CASE k = 0
      BY <3>1
    <3>2. CASE k = 1
      <4>1. f[1] = leg[1] /\ f[0] = 0 /\ step(1) = leg[1]
        BY <1>a, <1>2, <3>2, 0 \in 0..L, 1 \in 0..L, 1 \in 1..L
      <4>2. leg[1] \in Nat
        BY <1>3
      <4> QED
        BY <3>2, <4>1, <4>2
    <3>3. CASE k = 2
      <4>1. f[2] = leg[1] + leg[2] /\ f[1] = leg[1] /\ step(2) = leg[2]
        BY <1>a, <1>2, <3>3, 1 \in 0..L, 2 \in 0..L, 2 \in 1..L
      <4> QED
        BY <3>3, <4>1
    <3>4. CASE k = 3
      <4>1. f[3] = (leg[1] + leg[2]) + leg[3] /\ f[2] = leg[1] + leg[2] /\ step(3) = leg[3]
        BY <1>a, <1>2, <3>4, 2 \in 0..L, 3 \in 0..L, 3 \in 1..L
      <4> QED
        BY <3>4, <4>1
    <3> QED
      BY <1>a, <2>1, <3>1, <3>2, <3>3, <3>4
  <2>2. f = [k \in 0..L |-> f[k]]
    OBVIOUS
  <2> HIDE DEF f
  <2>3. f = [k \in 0..L |-> IF k = 0 THEN 0 ELSE f[k - 1] + step(k)]
    BY <2>1, <2>2
  <2> QED
    BY <2>3
<1>5. sum = [k \in 0..L |-> IF k = 0 THEN 0 ELSE sum[k - 1] + step(k)]
  BY <1>4
<1> HIDE DEF sum
<1>6. /\ sum[0] = 0 /\ sum[1] = sum[0] + step(1)
      /\ L >= 2 => sum[2] = sum[1] + step(2)
      /\ L >= 3 => sum[3] = sum[2] + step(3)
  BY <1>a, <1>5
<1>7. /\ step(1) = leg[1] /\ (L >= 2 => step(2) = leg[2]) /\ (L >= 3 => step(3) = leg[3])
      /\ leg[1] \in Nat /\ leg[2] \in Nat /\ leg[3] \in Nat
      /\ (L < 2 => leg[2] = 0) /\ (L < 3 => leg[3] = 0)
  BY <1>a, <1>2, <1>3
<1>8. sum[L] = (leg[1] + leg[2]) + leg[3]
  <2>1. CASE L = 1
    BY <1>6, <1>7, <2>1
  <2>2. CASE L = 2
    BY <1>6, <1>7, <2>2
  <2>3. CASE L = 3
    BY <1>6, <1>7, <2>3
  <2> QED
    BY <1>a, <2>1, <2>2, <2>3
<1> QED
  BY <1>1, <1>8

Found ==
  /\ result \in Seq(nodes) /\ result # <<>> /\ result[Len(result)] = dest
  /\ Adjacent(source, result[1])
  /\ Distances(nodes, dest)[source] =
       Cost(source, result[1]) + Distances(nodes, dest)[result[1]]
  /\ Len(result) <= 3 => Walked(nodes, source, result) = Distances(nodes, source)[dest]

\* The path returned, as the slice that was appended to.
LEMMA ReturnIs ==
  ASSUME GraphOK, Busy, NEW n, Return(n)
  PROVE  \E path : \E w :
           /\ path = unvisited[dest].path /\ w = unvisited[dest].weight
           /\ n = dest /\ dest \in nodes /\ dest # source /\ Least(dest)
           /\ Trail(cells, dest, path, w)
           /\ path.len \in Nat \ {0}
           /\ result' \in Seq(nodes) /\ Len(result') = path.len
           /\ result'[path.len] = dest
           /\ result'[1] = Hop(cells, dest, path)
           /\ path.len >= 2 => result'[1] = cells[path.array][2]
           /\ path.len >= 3 => result'[2] = cells[path.array][3]
           /\ ArraysOK(cells', visited \cup {dest})
<1> PICK path, w, later : /\ path = unvisited[dest].path /\ w = unvisited[dest].weight
                          /\ later = cells'
  OBVIOUS
<1>1. /\ n = dest /\ Least(dest) /\ later = Written(path, n)
      /\ result' = SubSeq(later[Appended(path, n).array], 2, Appended(path, n).len)
  BY DEF Return
<1>2. /\ dest \in nodes /\ dest # source /\ dest \in DOMAIN unvisited /\ dest \notin visited
      /\ QueueInv
  BY <1>1 DEF Busy, QueueInv, Least
<1>3. Trail(cells, dest, path, w) /\ SliceOK(cells, path) /\ ArraysOK(cells, visited)
  BY <1>2 DEF Busy, PathInv, OnTrail, Trail
<1>4. ArraysOK(later, visited \cup {dest}) /\ Extends(later, path, dest)
  BY <1>1, <1>2, <1>3, AppendToSlice
<1> PICK more, len : more = Appended(path, dest) /\ len = path.len
  OBVIOUS
<1>5. /\ len \in Nat \ {0} /\ more.len = len + 1 /\ SliceOK(later, more)
      /\ later[more.array][len + 1] = dest
      /\ \A k \in 1..len : later[more.array][k] = cells[path.array][k]
  BY <1>3, <1>4 DEF SliceOK, Extends
<1> PICK array : array = later[more.array]
  OBVIOUS
<1>6. /\ array \in Seq(nodes \cup {None}) /\ len + 1 <= Len(array)
      /\ \A k \in 1..len + 1 : array[k] \in nodes
  BY <1>4, <1>5 DEF SliceOK, ArraysOK
<1>7. result' = SubSeq(array, 2, len + 1)
  BY <1>1, <1>5
<1>8. result' = [k \in 1..len |-> array[k + 1]]
  BY <1>5, <1>6, <1>7
<1>9. result' \in Seq(nodes) /\ Len(result') = len
  <2>1. \A k \in 1..len : k + 1 \in 1..len + 1
    BY <1>5
  <2>2. result' \in [1..len -> nodes]
    BY <1>6, <1>8, <2>1
  <2> QED
    BY <1>5, <2>2, FunctionSeq
<1>10. \A k \in 1..len : result'[k] = array[k + 1]
  BY <1>8
<1>11. result'[len] = dest
  BY <1>5, <1>10
<1>12. /\ len >= 2 => result'[1] = cells[path.array][2]
       /\ len >= 3 => result'[2] = cells[path.array][3]
  <2>1. len >= 2 => 1 \in 1..len /\ 2 \in 1..len /\ 1 + 1 = 2
    BY <1>5
  <2>2. len >= 3 => 2 \in 1..len /\ 3 \in 1..len /\ 2 + 1 = 3
    BY <1>5
  <2> QED
    BY <1>5, <1>10, <2>1, <2>2
<1>13. result'[1] = Hop(cells, dest, path)
  BY <1>5, <1>11, <1>12 DEF Hop
<1> QED
  BY <1>1, <1>2, <1>3, <1>4, <1>5, <1>9, <1>11, <1>12, <1>13

LEMMA ReturnStep ==
  ASSUME GraphOK, Busy, NEW n, Return(n), UNCHANGED <<edges, nodes>>
  PROVE  Found' /\ ArraysOK(cells', visited \cup {dest})
<1> PICK path, w, r, d, s :
      /\ path = unvisited[dest].path /\ w = unvisited[dest].weight
      /\ r = result' /\ d = dest /\ s = source
  OBVIOUS
<1>1. /\ n = d /\ d \in nodes /\ d # s /\ Least(d) /\ Trail(cells, d, path, w)
      /\ path.len \in Nat \ {0} /\ r \in Seq(nodes) /\ Len(r) = path.len
      /\ r[path.len] = d /\ r[1] = Hop(cells, d, path)
      /\ path.len >= 2 => r[1] = cells[path.array][2]
      /\ path.len >= 3 => r[2] = cells[path.array][3]
      /\ ArraysOK(cells', visited \cup {dest})
  BY ReturnIs
<1>2. w = Distances(nodes, s)[d]
  BY <1>1, PopIsDistance
<1>3. /\ Adjacent(s, r[1])
      /\ Distances(nodes, d)[s] = Cost(s, r[1]) + Distances(nodes, d)[r[1]]
  BY <1>1, HopIsNearer
<1>4. ASSUME Len(r) <= 3
      PROVE  Walked(nodes, s, r) = w
  <2> PICK L : L = Len(r)
    OBVIOUS
  <2>1. L \in 1..3 /\ L = path.len /\ Legs(cells, d, path, w)
    BY <1>1, <1>4 DEF Trail
  <2> PICK leg : leg = LegsOf(s, r)
    OBVIOUS
  <2>2. /\ L = 1 => /\ r[1] = d /\ Adjacent(s, r[1]) /\ w = Cost(s, r[1])
        /\ L = 2 => /\ r[2] = d /\ Adjacent(s, r[1]) /\ Adjacent(r[1], r[2])
                    /\ w = Cost(s, r[1]) + Cost(r[1], r[2])
        /\ L = 3 => /\ r[3] = d /\ Adjacent(s, r[1]) /\ Adjacent(r[1], r[2])
                    /\ Adjacent(r[2], r[3])
                    /\ w = (Cost(s, r[1]) + Cost(r[1], r[2])) + Cost(r[2], r[3])
    BY <1>1, <2>1 DEF Legs
  <2>3. /\ leg[1] = Cost(s, r[1])
        /\ leg[2] = IF L >= 2 THEN Cost(r[1], r[2]) ELSE 0
        /\ leg[3] = IF L >= 3 THEN Cost(r[2], r[3]) ELSE 0
    BY <2>1 DEF LegsOf
  <2>4. Hops(s, r)
    BY <2>1, <2>2 DEF Hops
  <2>5. Walked(nodes, s, r) = (leg[1] + leg[2]) + leg[3]
    BY <2>1, <2>4, WalkedIs
  <2>6. \A a, b : Adjacent(a, b) => Cost(a, b) \in Nat
    BY NeighbourFacts
  <2>7. CASE L = 1
    BY <2>2, <2>3, <2>5, <2>6, <2>7
  <2>8. CASE L = 2
    BY <2>2, <2>3, <2>5, <2>6, <2>8
  <2>9. CASE L = 3
    BY <2>2, <2>3, <2>5, <2>6, <2>9
  <2> QED
    BY <2>1, <2>7, <2>8, <2>9
<1>5. /\ r \in Seq(nodes) /\ r # <<>> /\ r[Len(r)] = d
  BY <1>1
<1>6. /\ nodes' = nodes /\ edges' = edges /\ source' = s /\ dest' = d
  BY DEF Return
<1>7. /\ \A a, b : Adjacent(a, b)' = Adjacent(a, b) /\ Cost(a, b)' = Cost(a, b)
      /\ \A a : Distances(nodes, a)' = Distances(nodes, a)
      /\ Walked(nodes, s, r)' = Walked(nodes, s, r)
  BY <1>6, SameGraph DEF Distances, Round, EdgesOf, Walked, Adjacent, Cost, Far
<1> QED
  BY <1>1, <1>2, <1>3, <1>4, <1>5, <1>6, <1>7 DEF Found

-----------------------------------------------------------------------------
(* The search on a graph that stays as it is *)

SearchTypes ==
  /\ source \in nodes \cup {None} /\ dest \in nodes \cup {None}
  /\ visited \subseteq nodes /\ DOMAIN unvisited \subseteq nodes \ visited
  /\ ArraysOK(cells, nodes)
  /\ result \in Seq(nodes)
  /\ search \in {"idle", "busy", "found", "failed"}

SearchInv ==
  /\ GraphOK /\ SearchTypes
  /\ search = "idle" => visited = {} /\ cells = [o \in {} |-> <<>>]
  /\ search = "busy" => Busy
  /\ search = "found" => Found

LEMMA SearchStarts ==
  ASSUME GraphOK, SearchInit
  PROVE  SearchInv
<1>1. result \in Seq(nodes) /\ DOMAIN cells = {} /\ DOMAIN unvisited = {}
  BY DEF SearchInit
<1> QED
  BY <1>1 DEF SearchInit, SearchInv, SearchTypes, ArraysOK

LEMMA BeginStep ==
  ASSUME SearchInv, NEW s \in nodes, NEW d \in nodes, s # d, Begin(s, d),
         UNCHANGED <<edges, nodes>>
  PROVE  Busy'
<1>1. /\ visited = {} /\ cells = [o \in {} |-> <<>>] /\ visited' = {} /\ cells' = cells
      /\ source' = s /\ dest' = d /\ nodes' = nodes
      /\ unvisited' = [n \in {s} |-> [weight |-> 0, path |-> Nil]]
      /\ DOMAIN unvisited' = {s} /\ unvisited'[s].weight = 0 /\ unvisited'[s].path = Nil
      /\ GraphOK'
  BY SameGraph DEF SearchInv, Begin
<1>2. Cardinality(visited') = 0
  BY <1>1, FS_EmptySet
<1>3. QueueInv'
  BY <1>1, <1>2 DEF QueueInv
<1>4. Settled'
  <2> PICK final : final = [a \in {} |-> 0]
    OBVIOUS
  <2>1. Settles(final)'
    BY <1>1 DEF Settles
  <2> QED
    BY <2>1 DEF Settled
<1>5. Reached'
  <2> SUFFICES ASSUME NEW D, IsRounds(D, source)'
               PROVE  D[0][s] <= 0
    BY <1>1, <1>2 DEF Reached
  <2>1. IsRounds(D, source)' => D[0] = [n \in nodes' |-> IF n = source' THEN 0 ELSE Far(nodes)']
    BY DEF IsRounds
  <2> QED
    BY <1>1, <2>1
<1>6. Returns'
  <2> SUFFICES ASSUME NEW E, IsRounds(E, dest)', NEW r \in 0..(Size' - 0)
               PROVE  E[r + 0][s] + 0 <= E[r][s] + 0
    BY <1>1, <1>2 DEF Returns, Back
  <2>1. Size \in Nat /\ Size' = Size
    BY SizeType, SameGraph DEF SearchInv
  <2>2. E \in [0..Size -> [nodes -> Nat]] /\ r \in 0..Size /\ r + 0 = r
    BY <1>1, <2>1 DEF IsRounds
  <2>3. E[r][s] \in Nat
    BY <2>2
  <2> QED
    BY <2>2, <2>3
<1>7. PathInv'
  BY <1>1 DEF PathInv, ArraysOK
<1> QED
  BY <1>3, <1>4, <1>5, <1>6, <1>7 DEF Busy

LEMMA SearchKeeps ==
  ASSUME SearchInv, SearchStep, UNCHANGED <<edges, nodes>>
  PROVE  SearchInv'
<1>1. GraphOK /\ GraphOK' /\ nodes' = nodes /\ edges' = edges /\ SearchTypes
  BY SameGraph DEF SearchInv
<1>2. ASSUME NEW s, NEW d, s \in UNION {Ends(e) : e \in edges},
             d \in UNION {Ends(e) : e \in edges}, s # d, Begin(s, d)
      PROVE  SearchInv'
  <2>1. s \in nodes /\ d \in nodes
    BY <1>1, <1>2 DEF GraphOK, Ends
  <2>2. Busy'
    BY <1>2, <2>1, BeginStep
  <2>3. search' = "busy" /\ visited = {} /\ DOMAIN unvisited' = {s}
    BY <1>2 DEF Begin, SearchInv
  <2>4. SearchTypes'
    BY <1>1, <1>2, <2>1, <2>3 DEF Begin, SearchTypes, ArraysOK
  <2> QED
    BY <1>1, <2>2, <2>3, <2>4 DEF SearchInv
<1>3. ASSUME NEW n, Visit(n)
      PROVE  SearchInv'
  <2>1. search = "busy" /\ search' = "busy" /\ UNCHANGED <<source, dest, result>>
    BY <1>3 DEF Visit
  <2>2. Busy /\ Busy'
    BY <1>1, <1>3, <2>1, BusyStep DEF SearchInv
  <2>3. SearchTypes'
    <3>1. (Busy => visited \subseteq nodes /\ DOMAIN unvisited \subseteq nodes \ visited
                    /\ ArraysOK(cells, nodes))'
      BY DEF Busy, QueueInv, PathInv, ArraysOK
    <3> QED
      BY <1>1, <2>1, <2>2, <3>1 DEF SearchTypes
  <2> QED
    BY <1>1, <2>1, <2>2, <2>3 DEF SearchInv
<1>4. ASSUME NEW n, Return(n)
      PROVE  SearchInv'
  <2>1. /\ search = "busy" /\ search' = "found" /\ UNCHANGED <<source, dest, visited>>
        /\ DOMAIN unvisited' \subseteq DOMAIN unvisited
    BY <1>4 DEF Return
  <2>2. Busy
    BY <2>1 DEF SearchInv
  <2>3. Found' /\ ArraysOK(cells', visited \cup {dest})
    BY <1>1, <1>4, <2>2, ReturnStep
  <2>4. SearchTypes'
    <3>1. dest \in nodes
      BY <2>2 DEF Busy, QueueInv
    <3> QED
      BY <1>1, <2>1, <2>3, <3>1 DEF SearchTypes, ArraysOK, Found
  <2> QED
    BY <1>1, <2>1, <2>3, <2>4 DEF SearchInv
<1>5. CASE NoPath
  <2>1. /\ search' = "failed"
        /\ UNCHANGED <<source, dest, unvisited, visited, cells, result>>
    BY <1>5 DEF NoPath
  <2>2. SearchTypes'
    BY <1>1, <2>1 DEF SearchTypes, ArraysOK
  <2> QED
    BY <1>1, <2>1, <2>2 DEF SearchInv
<1> QED
  BY <1>2, <1>3, <1>4, <1>5 DEF SearchStep

LEMMA SearchStutters ==
  ASSUME SearchInv, UNCHANGED <<searchVars, edges, nodes>>
  PROVE  SearchInv'
<1>1. /\ UNCHANGED <<source, dest, unvisited, visited, cells, result, search, edges, nodes>>
      /\ GraphOK' /\ SearchTypes'
  BY SameGraph DEF SearchInv, searchVars, SearchTypes, ArraysOK
<1>2. ASSUME Busy
      PROVE  Busy'
  <2>1. QueueInv'
    BY <1>1, <1>2 DEF Busy, QueueInv
  <2>2. Settled'
    <3> PICK final : Settles(final)
      BY <1>2 DEF Busy, Settled
    <3>1. Settles(final)'
      BY <1>1, SameGraph DEF Settles
    <3> QED
      BY <3>1 DEF Settled
  <2>3. Reached'
    BY <1>1, <1>2, SameGraph DEF Busy, Reached
  <2>4. Returns'
    <3> SUFFICES ASSUME NEW m \in DOMAIN unvisited'
                 PROVE  Back(source, 0, m, unvisited[m].weight, Cardinality(visited))'
      BY DEF Returns
    <3> PICK s, w, c : s = source /\ w = unvisited[m].weight /\ c = Cardinality(visited)
      OBVIOUS
    <3>1. Back(s, 0, m, w, c)
      BY <1>1, <1>2 DEF Busy, Returns
    <3>2. Back(s, 0, m, w, c)'
      BY <1>1, <3>1, SameBack
    <3> QED
      BY <1>1, <3>2
  <2>5. PathInv'
    <3> PICK arrays, names, c : /\ arrays = cells /\ names = visited
                                /\ c = Cardinality(visited)
      OBVIOUS
    <3>1. ArraysOK(arrays, names)'
      BY <1>1, <1>2, SameTrail DEF Busy, PathInv
    <3>2. ASSUME NEW m \in DOMAIN unvisited, m # source
          PROVE  OnTrail(cells, m, unvisited[m], Cardinality(visited))'
      <4> PICK item : item = unvisited[m]
        OBVIOUS
      <4>1. OnTrail(arrays, m, item, c)'
        BY <1>1, <1>2, <3>2, SameTrail DEF Busy, PathInv
      <4> QED
        BY <1>1, <4>1
    <3> QED
      BY <1>1, <1>2, <3>1, <3>2 DEF Busy, PathInv
  <2> QED
    BY <2>1, <2>2, <2>3, <2>4, <2>5 DEF Busy
<1>3. ASSUME Found
      PROVE  Found'
  <2> PICK s, d, r : s = source /\ d = dest /\ r = result
    OBVIOUS
  <2>1. /\ \A a, b : Adjacent(a, b)' = Adjacent(a, b) /\ Cost(a, b)' = Cost(a, b)
        /\ \A a : Distances(nodes, a)' = Distances(nodes, a)
        /\ Walked(nodes, s, r)' = Walked(nodes, s, r)
    BY <1>1, SameGraph DEF Distances, Round, EdgesOf, Walked, Adjacent, Cost, Far
  <2> QED
    BY <1>1, <1>3, <2>1 DEF Found
<1> QED
  BY <1>1, <1>2, <1>3 DEF SearchInv

\* A search of a graph that does not change.
SearchOfGraph ==
  /\ GraphOK /\ SearchInit
  /\ [][SearchStep /\ UNCHANGED nodes]_<<searchVars, edges, nodes>>

\* Whatever queue pops an item of least weight (pathing.go:36-83), what it pops
\* is at its distance from the source.
PopsTrueDistance ==
  search = "busy" =>
    \A n \in DOMAIN unvisited : Least(n) => unvisited[n].weight = Distances(nodes, source)[n]

\* The invariant of the search on every graph.
THEOREM SearchInvariant == SearchOfGraph => []SearchInv
<1>1. GraphOK /\ SearchInit => SearchInv
  BY SearchStarts
<1>2. SearchInv /\ [SearchStep /\ UNCHANGED nodes]_<<searchVars, edges, nodes>> => SearchInv'
  <2>1. SearchStep => UNCHANGED edges
    BY DEF SearchStep, Begin, Visit, Return, NoPath
  <2> QED
    BY <2>1, SearchKeeps, SearchStutters
<1> QED
  BY <1>1, <1>2, PTL DEF SearchOfGraph

\* On every graph of these nodes and weights the search pops true distances, its
\* first hop approaches the destination, and a path of at most three hops is a
\* shortest one (Found says the last two).
THEOREM SearchIsRight ==
  SearchOfGraph => [](PopsTrueDistance /\ (search = "found" => Found))
<1>1. SearchInv => PopsTrueDistance /\ (search = "found" => Found)
  BY PopIsDistance DEF SearchInv, PopsTrueDistance
<1> QED
  BY <1>1, SearchInvariant, PTL
=============================================================================
