------------------------- MODULE BuildOverlayProofs -------------------------
(***************************************************************************)
(* Theorems about BuildOverlay, for every number of nodes and connections. *)
(***************************************************************************)
EXTENDS BuildOverlay, RecursionLemmas

Edge == [source : Nodes, destination : Nodes, weight : 0..50]

Types ==
  /\ conf \in Settings
  /\ index \in Nodes
  /\ targetIndex \in Int /\ -conf.nodes <= targetIndex /\ targetIndex < conf.nodes
  /\ checkedSelf \in BOOLEAN
  /\ edges \subseteq Edge
  /\ building \in {"busy", "built", "panicked"}

\* The loops go below index 0 only for too many connections.
RangeInv == targetIndex < 0 \/ building = "panicked" => conf.conns > 2 * conf.nodes + 1

Served(n) == Satisfied(n) \/ Neighbours(n) = Nodes \ {n}

\* The nodes the inner loop has passed since it met its own node.
Passed(m) ==
  IF index < targetIndex THEN index < m /\ m < targetIndex
                         ELSE index < m \/ m < targetIndex

\* After the first round the node is joined to all that the loop has passed,
\* and the nodes before it are served.
ServedInv ==
  /\ building = "busy" /\ checkedSelf => \A m \in Nodes \ {index} : Passed(m) => Joined(m, index)
  /\ \A n \in Nodes : n < index => Served(n)
  /\ building = "built" => \A n \in Nodes : Served(n)

IInv == Types /\ RangeInv /\ SimpleGraph /\ ServedInv

-----------------------------------------------------------------------------
(* The constants, and Go's remainder *)

LEMMA ConfType ==
  ASSUME conf \in Settings
  PROVE  conf.nodes \in Nat \ {0} /\ conf.conns \in Nat
  BY SettingsAssumption DEF SettingsAssumption

LEMMA WeightType ==
  ASSUME conf \in Settings, NEW a \in Nodes, NEW b \in Nodes \ {a}
  PROVE  Weight(conf, a, b) \subseteq 0..50
  BY SettingsAssumption DEF SettingsAssumption, Nodes

\* targetIndex + 1 goes round.
LEMMA NextIndex ==
  ASSUME NEW n \in Nat \ {0}, NEW a \in 0..n - 1
  PROVE  GoRem(a + 1, n) = IF a + 1 = n THEN 0 ELSE a + 1
<1>1. CASE a + 1 = n
  BY <1>1 DEF GoRem
<1>2. CASE a + 1 < n
  BY <1>2 DEF GoRem
<1> QED
  BY <1>1, <1>2

LEMMA StartRange ==
  ASSUME conf \in Settings, NEW n \in Nodes
  PROVE  /\ StartPoint(conf, n) \in Int
         /\ -conf.nodes <= StartPoint(conf, n) /\ StartPoint(conf, n) < conf.nodes
         /\ StartPoint(conf, n) < 0 => conf.conns > 2 * conf.nodes + 1
<1> DEFINE N == conf.nodes
           a == n + N - conf.conns \div 2
<1>1. N \in Nat \ {0} /\ conf.conns \in Nat /\ n \in 0..N - 1
  BY ConfType DEF Nodes
<1>2. /\ conf.conns \div 2 \in Nat /\ a \in Int
      /\ a < 0 => conf.conns > 2 * N + 1
  BY <1>1
<1> HIDE DEF a, N
<1>3. CASE a >= 0
  <2>1. a % N \in 0..N - 1
    BY <1>1, <1>2, <1>3
  <2> QED
    BY <1>1, <1>3, <2>1 DEF StartPoint, GoRem, a, N
<1>4. CASE a < 0
  <2>1. (-a) % N \in 0..N - 1
    BY <1>1, <1>2, <1>4
  <2> QED
    BY <1>1, <1>2, <1>4, <2>1 DEF StartPoint, GoRem, a, N
<1> QED
  BY <1>2, <1>3, <1>4

-----------------------------------------------------------------------------
(* What more edges change *)

LEMMA NodesFinite ==
  ASSUME conf \in Settings
  PROVE  IsFiniteSet(Nodes) /\ \A S \in SUBSET Nodes : IsFiniteSet(S)
<1>1. IsFiniteSet(0..conf.nodes - 1)
  BY ConfType, FS_Interval
<1> QED
  BY <1>1, FS_Subset DEF Nodes

LEMMA MoreEdges ==
  ASSUME Types, conf' = conf, edges \subseteq edges', NEW n \in Nodes
  PROVE  /\ \A m \in Nodes : Joined(m, n) => Joined(m, n)'
         /\ Served(n) => Served(n)'
<1>1. Nodes' = Nodes
  BY DEF Nodes
<1>2. \A m \in Nodes : Joined(m, n) => Joined(m, n)'
  BY DEF Joined, Ends
<1>3. Neighbours(n) \subseteq Neighbours(n)' /\ Neighbours(n)' \subseteq Nodes \ {n}
  BY <1>1, <1>2 DEF Neighbours
<1>4. IsFiniteSet(Neighbours(n)')
  BY <1>3, NodesFinite DEF Types
<1>5. /\ Degree(n) \in Nat /\ Degree(n)' \in Nat
      /\ Degree(n) <= Degree(n)'
  BY <1>3, <1>4, FS_Subset, FS_CardinalityType DEF Degree
<1>6. conf.conns \in Nat
  BY ConfType DEF Types
<1> QED
  BY <1>1, <1>2, <1>3, <1>5, <1>6 DEF Served, Satisfied

-----------------------------------------------------------------------------
(* The invariant *)

LEMMA InitialInv == BuildInit => IInv
<1> SUFFICES ASSUME BuildInit PROVE IInv
  OBVIOUS
<1>1. conf \in Settings /\ 0 \in Nodes
  BY ConfType DEF BuildInit, Nodes
<1>2. Types /\ RangeInv
  BY <1>1, StartRange DEF BuildInit, Types, RangeInv
<1>3. SimpleGraph
  BY DEF BuildInit, SimpleGraph
<1>4. ServedInv
  BY DEF BuildInit, ServedInv, Nodes
<1> QED
  BY <1>2, <1>3, <1>4 DEF IInv

\* The inner loop goes on to the next index.
LEMMA AdvanceStep ==
  ASSUME Types, RangeInv, targetIndex \in Nodes, Advance
  PROVE  /\ targetIndex' \in Nodes
         /\ targetIndex' = IF targetIndex + 1 = conf.nodes THEN 0 ELSE targetIndex + 1
<1>1. conf.nodes \in Nat \ {0} /\ targetIndex \in 0..conf.nodes - 1
  BY ConfType DEF Types, Nodes
<1>2. targetIndex' = IF targetIndex + 1 = conf.nodes THEN 0 ELSE targetIndex + 1
  BY <1>1, NextIndex DEF Advance
<1> QED
  BY <1>1, <1>2 DEF Nodes

\* What has been passed after the loop has moved on from a node.
LEMMA PassedNext ==
  ASSUME Types, targetIndex \in Nodes, index' = index, NEW m \in Nodes \ {index},
         targetIndex' = IF targetIndex + 1 = conf.nodes THEN 0 ELSE targetIndex + 1
  PROVE  /\ targetIndex # index /\ Passed(m)' => Passed(m) \/ m = targetIndex
         /\ targetIndex = index => ~Passed(m)'
<1>1. conf.nodes \in Nat \ {0} /\ targetIndex \in 0..conf.nodes - 1
      /\ index \in 0..conf.nodes - 1 /\ m \in 0..conf.nodes - 1 /\ m # index
  BY ConfType DEF Types, Nodes
<1> QED
  BY <1>1 DEF Passed

LEMMA ConnectStep == IInv /\ Connect => IInv'
<1> SUFFICES ASSUME IInv, Connect PROVE IInv'
  OBVIOUS
<1>0. /\ UNCHANGED <<conf, index, checkedSelf, building>> /\ building = "busy"
      /\ index \in Nodes /\ targetIndex \in Nodes \ {index} /\ Advance
      /\ Nodes' = Nodes /\ conf \in Settings
  BY DEF Connect, IInv, Types, Nodes
<1>1. PICK w \in Weight(conf, index, targetIndex) :
        edges' = edges \cup {[source |-> index, destination |-> targetIndex, weight |-> w]}
  BY DEF Connect
<1> DEFINE new == [source |-> index, destination |-> targetIndex, weight |-> w]
<1>2. new \in Edge
  <2>1. w \in 0..50
    BY <1>0, <1>1, WeightType
  <2> QED
    BY <1>0, <2>1 DEF Edge
<1>3. new.source = index /\ new.destination = targetIndex /\ edges' = edges \cup {new}
  BY <1>1
<1> HIDE DEF new
<1>4. /\ targetIndex' \in Nodes
      /\ targetIndex' = IF targetIndex + 1 = conf.nodes THEN 0 ELSE targetIndex + 1
  BY <1>0, AdvanceStep DEF IInv
<1>5. Types' /\ RangeInv'
  <2>1. conf.nodes \in Nat \ {0}
    BY <1>0, ConfType
  <2>2. /\ targetIndex' \in Int /\ 0 <= targetIndex' /\ targetIndex' < conf.nodes
        /\ -conf.nodes <= targetIndex'
    BY <1>4, <2>1 DEF Nodes
  <2>3. edges' \subseteq Edge'
    BY <1>0, <1>2, <1>3 DEF IInv, Types, Edge
  <2> QED
    BY <1>0, <2>2, <2>3 DEF IInv, Types, RangeInv
<1>6. SimpleGraph'
  <2>1. \A e \in edges : Ends(e) # Ends(new)
    <3>1. Ends(new) = {index, targetIndex}
      BY <1>3 DEF Ends
    <3>2. ~Joined(index, targetIndex)
      BY DEF Connect
    <3> QED
      BY <3>1, <3>2 DEF Joined
  <2>2. SimpleGraph
    BY DEF IInv
  <2>3. \A d \in edges' : d.source # d.destination
    BY <1>0, <1>3, <2>2 DEF SimpleGraph
  <2>4. \A d, e \in edges' : Ends(d) = Ends(e) => d = e
    BY <1>3, <2>1, <2>2 DEF SimpleGraph
  <2> QED
    BY <2>3, <2>4 DEF SimpleGraph, Ends
<1>7. ServedInv'
  <2>1. \A n \in Nodes : /\ Served(n) => Served(n)'
                        /\ \A m \in Nodes : Joined(m, n) => Joined(m, n)'
    BY <1>0, <1>3, MoreEdges DEF IInv
  <2>2. ASSUME NEW m \in Nodes, m = targetIndex
        PROVE  Joined(m, index)'
    <3>1. Ends(new) = {m, index} /\ new \in edges'
      BY <1>3, <2>2 DEF Ends
    <3>2. index' = index
      BY <1>0
    <3> QED
      BY <3>1, <3>2 DEF Joined, Ends
  <2>3. \A m \in Nodes \ {index} : Passed(m)' => Passed(m) \/ m = targetIndex
    BY <1>0, <1>4, PassedNext DEF IInv
  <2>4. ASSUME checkedSelf, NEW m \in Nodes \ {index}, Passed(m)'
        PROVE  Joined(m, index)'
    <3>1. CASE m = targetIndex
      BY <2>2, <3>1
    <3>2. CASE Passed(m)
      <4>1. Joined(m, index)
        BY <1>0, <2>4, <3>2 DEF IInv, ServedInv
      <4>2. \A n \in Nodes : n = index => Joined(m, n)'
        BY <1>0, <2>1, <4>1
      <4> QED
        BY <1>0, <4>2
    <3> QED
      BY <2>3, <2>4, <3>1, <3>2
  <2>5. \A n \in Nodes : n < index => Served(n)'
    BY <1>0, <2>1 DEF IInv, ServedInv
  <2> QED
    BY <1>0, <2>4, <2>5 DEF ServedInv
<1> QED
  BY <1>5, <1>6, <1>7 DEF IInv

\* The steps that make no edge keep what edges say.
LEMMA SameEdges ==
  ASSUME UNCHANGED <<conf, edges>>
  PROVE  /\ Nodes' = Nodes /\ Edge' = Edge
         /\ SimpleGraph => SimpleGraph'
         /\ \A n \in Nodes : /\ Served(n)' <=> Served(n)
                             /\ \A m \in Nodes : Joined(m, n)' <=> Joined(m, n)
<1>1. Nodes' = Nodes /\ Edge' = Edge
  BY DEF Nodes, Edge
<1>2. SimpleGraph => SimpleGraph'
  BY DEF SimpleGraph, Ends
<1> QED
  BY <1>1, <1>2 DEF Served, Satisfied, Degree, Neighbours, Joined, Ends, Nodes

\* SkipJoined and PassSelf.
LEMMA SkipStep == IInv /\ (SkipJoined \/ PassSelf) => IInv'
<1> SUFFICES ASSUME IInv, SkipJoined \/ PassSelf PROVE IInv'
  OBVIOUS
<1>0. /\ UNCHANGED <<conf, index, edges, building>> /\ building = "busy"
      /\ conf \in Settings /\ index \in Nodes /\ targetIndex \in Nodes /\ Advance
      /\ checkedSelf' \in BOOLEAN
  BY DEF SkipJoined, PassSelf, IInv, Types
<1>1. /\ targetIndex' \in Nodes
      /\ targetIndex' = IF targetIndex + 1 = conf.nodes THEN 0 ELSE targetIndex + 1
  BY <1>0, AdvanceStep DEF IInv
<1>2. /\ Nodes' = Nodes /\ Edge' = Edge /\ SimpleGraph'
      /\ \A n \in Nodes : /\ Served(n)' <=> Served(n)
                          /\ \A m \in Nodes : Joined(m, n)' <=> Joined(m, n)
  BY <1>0, SameEdges DEF IInv
<1>3. Types' /\ RangeInv'
  <2>1. conf.nodes \in Nat \ {0}
    BY <1>0, ConfType
  <2>2. /\ targetIndex' \in Int /\ 0 <= targetIndex' /\ targetIndex' < conf.nodes
        /\ -conf.nodes <= targetIndex'
    BY <1>1, <2>1 DEF Nodes
  <2> QED
    BY <1>0, <1>2, <2>2 DEF IInv, Types, RangeInv
<1>4. ServedInv'
  <2>1. \A m \in Nodes \ {index} :
          /\ targetIndex # index /\ Passed(m)' => Passed(m) \/ m = targetIndex
          /\ targetIndex = index => ~Passed(m)'
    BY <1>0, <1>1, PassedNext DEF IInv
  <2>2. CASE SkipJoined
    <3>1. Joined(targetIndex, index) /\ targetIndex # index /\ checkedSelf' = checkedSelf
      <4>1. Joined(index, targetIndex) /\ targetIndex # index /\ checkedSelf' = checkedSelf
        BY <2>2 DEF SkipJoined
      <4> QED
        BY <4>1 DEF Joined
    <3>2. \A m \in Nodes \ {index} : checkedSelf /\ Passed(m)' => Joined(m, index)'
      BY <1>0, <1>2, <2>1, <3>1 DEF IInv, ServedInv
    <3> QED
      BY <1>0, <1>2, <3>1, <3>2 DEF IInv, ServedInv
  <2>3. CASE PassSelf
    <3>1. \A m \in Nodes \ {index} : ~Passed(m)'
      BY <2>1, <2>3 DEF PassSelf
    <3> QED
      BY <1>0, <1>2, <3>1 DEF IInv, ServedInv
  <2> QED
    BY <2>2, <2>3
<1> QED
  BY <1>2, <1>3, <1>4 DEF IInv

LEMMA NextNodeStep == IInv /\ NextNode => IInv'
<1> SUFFICES ASSUME IInv, NextNode PROVE IInv'
  OBVIOUS
<1>0. /\ UNCHANGED <<conf, edges>> /\ building = "busy"
      /\ conf \in Settings /\ index \in Nodes
      /\ conf.nodes \in Nat \ {0} /\ Nodes = 0..conf.nodes - 1
  BY ConfType DEF NextNode, IInv, Types, Nodes
<1>1. /\ Nodes' = Nodes /\ Edge' = Edge /\ SimpleGraph'
      /\ \A n \in Nodes : Served(n)' <=> Served(n)
  BY <1>0, SameEdges DEF IInv
<1>2. Served(index)
  <2>1. CASE Satisfied(index)
    BY <2>1 DEF Served
  <2>2. CASE targetIndex = index /\ checkedSelf
    <3>1. \A m \in Nodes \ {index} : Passed(m)
      BY <1>0, <2>2 DEF Passed
    <3>2. \A m \in Nodes \ {index} : Joined(m, index)
      BY <1>0, <2>2, <3>1 DEF IInv, ServedInv
    <3> QED
      BY <3>2 DEF Served, Neighbours
  <2> QED
    BY <2>1, <2>2 DEF NextNode
<1>3. \A n \in Nodes : n <= index => Served(n)'
  BY <1>0, <1>1, <1>2 DEF IInv, ServedInv
<1>4. CASE /\ index + 1 < conf.nodes /\ index' = index + 1 /\ building' = building
           /\ targetIndex' = StartPoint(conf, index + 1) /\ checkedSelf' = FALSE
  <2>1. index' \in Nodes
    BY <1>0, <1>4
  <2>2. /\ targetIndex' \in Int /\ -conf.nodes <= targetIndex'
        /\ targetIndex' < conf.nodes
        /\ targetIndex' < 0 => conf.conns > 2 * conf.nodes + 1
    BY <1>0, <1>4, <2>1, StartRange
  <2>3. Types' /\ RangeInv'
    BY <1>0, <1>1, <1>4, <2>1, <2>2 DEF IInv, Types, RangeInv
  <2>4. \A n \in Nodes : n < index' => Served(n)'
    BY <1>0, <1>3, <1>4
  <2> QED
    BY <1>0, <1>1, <1>4, <2>3, <2>4 DEF IInv, ServedInv
<1>5. CASE /\ index + 1 = conf.nodes /\ building' = "built"
           /\ UNCHANGED <<index, targetIndex, checkedSelf>>
  <2>1. Types' /\ RangeInv'
    BY <1>0, <1>1, <1>5 DEF IInv, Types, RangeInv
  <2>2. \A n \in Nodes : Served(n)'
    BY <1>0, <1>3, <1>5
  <2> QED
    BY <1>0, <1>1, <1>5, <2>1, <2>2 DEF IInv, ServedInv
<1> QED
  BY <1>4, <1>5 DEF NextNode

LEMMA PanicStep == IInv /\ IndexPanic => IInv'
<1> SUFFICES ASSUME IInv, IndexPanic PROVE IInv'
  OBVIOUS
<1>1. UNCHANGED <<conf, index, targetIndex, checkedSelf, edges>>
      /\ targetIndex < 0 /\ building' = "panicked"
  BY DEF IndexPanic
<1>2. /\ Nodes' = Nodes /\ Edge' = Edge /\ SimpleGraph'
      /\ \A n \in Nodes : Served(n)' <=> Served(n)
  BY <1>1, SameEdges DEF IInv
<1> QED
  BY <1>1, <1>2 DEF IInv, Types, RangeInv, ServedInv

\* The invariant: what the inner loop has passed, and the nodes the outer loop
\* has, for any number of nodes and connections.
THEOREM Inductive == BuildSpec => []IInv
<1>1. IInv /\ UNCHANGED overlayVars => IInv'
  <2> SUFFICES ASSUME IInv, UNCHANGED overlayVars PROVE IInv'
    OBVIOUS
  <2>1. UNCHANGED <<conf, index, targetIndex, checkedSelf, edges, building>>
    BY DEF overlayVars
  <2>2. /\ Nodes' = Nodes /\ Edge' = Edge /\ SimpleGraph'
        /\ \A n \in Nodes : /\ Served(n)' <=> Served(n)
                            /\ \A m \in Nodes : Joined(m, n)' <=> Joined(m, n)
    BY <2>1, SameEdges DEF IInv
  <2>3. \A m \in Nodes : Passed(m)' <=> Passed(m)
    BY <2>1 DEF Passed
  <2> QED
    BY <2>1, <2>2, <2>3 DEF IInv, Types, RangeInv, ServedInv
<1>2. IInv /\ [BuildStep]_overlayVars => IInv'
  BY <1>1, ConnectStep, SkipStep, NextNodeStep, PanicStep DEF BuildStep
<1> QED
  BY <1>2, InitialInv, PTL DEF BuildSpec

\* Whatever the start point, the inner loop goes round until the node has its
\* connections or is joined to all others (overlay.go:39).
THEOREM EveryNodeServed == BuildSpec => []AllServed
<1>1. IInv => AllServed
  BY DEF IInv, ServedInv, AllServed, Served
<1> QED
  BY <1>1, Inductive, PTL

\* No two edges join the same nodes, and none joins a node to itself.
THEOREM Simple == BuildSpec => []SimpleGraph
<1>1. IInv => SimpleGraph
  BY DEF IInv
<1> QED
  BY <1>1, Inductive, PTL

\* nodeList is indexed out of range at most for a reqConns beyond twice the
\* number of nodes (overlay.go:36).
THEOREM InRange == BuildSpec => []IndexInRange
<1>1. IInv => IndexInRange
  BY DEF IInv, RangeInv, IndexInRange
<1> QED
  BY <1>1, Inductive, PTL

-----------------------------------------------------------------------------
(* The ring: every edge joins nodes that are few places apart *)

\* The places from a on to b, round the list of N nodes, and the node k places on.
Gap(N, a, b) == IF a < b THEN b - a ELSE b - a + N
Turned(N, a, k) == IF a + k < N THEN a + k ELSE a + k - N

Half == conf.conns \div 2

\* BuildOverlay connects a node to the Half nodes behind it, and to as many after
\* it as are missing.
Near(a, b) ==
  \/ Gap(conf.nodes, a, b) <= conf.conns - Half
  \/ Gap(conf.nodes, a, b) >= conf.nodes - Half

\* The inner loop has passed m on its way from the start point to its own node.
PassedBehind(m) ==
  /\ Gap(conf.nodes, m, index) <= Half
  /\ checkedSelf \/ targetIndex = index
       \/ Gap(conf.nodes, targetIndex, index) < Gap(conf.nodes, m, index)

RingInv ==
  /\ \A e \in edges : Near(e.source, e.destination)
  /\ building = "busy" /\ Half < conf.nodes =>
       /\ targetIndex \in Nodes
       /\ checkedSelf \/ targetIndex = index \/ Gap(conf.nodes, targetIndex, index) <= Half
       /\ \A m \in Nodes \ {index} : PassedBehind(m) => Joined(m, index)

\* Going round.
LEMMA TurnedGap ==
  ASSUME NEW N, N \in Nat \ {0}, NEW i, i \in 0..N - 1, NEW k, k \in 1..N - 1
  PROVE  /\ Turned(N, i, k) \in 0..N - 1 /\ Turned(N, i, k) # i
         /\ Gap(N, i, Turned(N, i, k)) = k /\ Gap(N, Turned(N, i, k), i) = N - k
<1>1. CASE i + k < N
  BY <1>1 DEF Turned, Gap
<1>2. CASE i + k >= N
  BY <1>2 DEF Turned, Gap
<1> QED
  BY <1>1, <1>2

LEMMA GapTurned ==
  ASSUME NEW N, N \in Nat \ {0}, NEW i, i \in 0..N - 1, NEW m, m \in 0..N - 1, m # i
  PROVE  /\ Gap(N, i, m) \in 1..N - 1 /\ Gap(N, m, i) = N - Gap(N, i, m)
         /\ Turned(N, i, Gap(N, i, m)) = m
<1>1. CASE i < m
  BY <1>1 DEF Turned, Gap
<1>2. CASE m < i
  BY <1>2 DEF Turned, Gap
<1> QED
  BY <1>1, <1>2

\* The next place of the inner loop is one nearer to its node, from either side.
LEMMA GapNext ==
  ASSUME NEW N, N \in Nat \ {0}, NEW i, i \in 0..N - 1, NEW t, t \in 0..N - 1, NEW u,
         u = IF t + 1 = N THEN 0 ELSE t + 1
  PROVE  /\ u \in 0..N - 1
         /\ t # i /\ u # i => Gap(N, u, i) = Gap(N, t, i) - 1
         /\ t # i /\ u = i => Gap(N, t, i) = 1
  BY DEF Gap

\* Half is at most half.
LEMMA HalfType ==
  ASSUME conf \in Settings
  PROVE  /\ Half \in Nat /\ conf.conns - Half \in Nat /\ Half <= conf.conns - Half
         /\ 2 * (conf.conns - Half) <= conf.conns + 1
         /\ conf.conns % 2 = 0 => 2 * (conf.conns - Half) = conf.conns
<1> PICK c : c = conf.conns
  OBVIOUS
<1>1. c \in Nat
  BY ConfType
<1>2. Half = c \div 2
  BY DEF Half
<1> QED
  BY <1>1, <1>2

\* K different neighbours are a degree of at least K.
LEMMA DegreeFrom ==
  ASSUME conf \in Settings, NEW n \in Nodes, NEW K \in Nat, NEW g, g \in [1..K -> Neighbours(n)],
         \A i, j \in 1..K : g[i] = g[j] => i = j
  PROVE  K <= Degree(n) /\ Degree(n) \in Nat
<1>1. IsFiniteSet(Neighbours(n))
  BY NodesFinite DEF Neighbours
<1>2. g \in Injection(1..K, Neighbours(n))
  <2>1. IsInjective(g)
    BY DEF IsInjective
  <2> QED
    BY <2>1, Zenon DEF Injection
<1>3. Cardinality(1..K) <= Cardinality(Neighbours(n))
  BY <1>1, <1>2, FS_Injection
<1>4. Cardinality(1..K) = K
  BY FS_Interval
<1> QED
  BY <1>1, <1>3, <1>4, FS_CardinalityType DEF Degree

\* What the inner loop may still connect after it has met its own node is near,
\* for the nodes it has passed on either side are neighbours already.
LEMMA ForwardIsNear ==
  ASSUME Types, NEW f, f = Gap(conf.nodes, index, targetIndex),
         targetIndex \in Nodes, targetIndex # index, ~Satisfied(index),
         \A m \in Nodes \ {index} :
           Gap(conf.nodes, index, m) < f \/ Gap(conf.nodes, m, index) <= Half => Joined(m, index)
  PROVE  Near(index, targetIndex)
<1> PICK N, c, i : N = conf.nodes /\ c = conf.conns /\ i = index
  OBVIOUS
<1>1. /\ N \in Nat \ {0} /\ c \in Nat /\ i \in 0..N - 1 /\ Nodes = 0..N - 1
      /\ Half \in Nat /\ f \in 1..N - 1
  <2>1. /\ N \in Nat \ {0} /\ c \in Nat /\ i \in 0..N - 1 /\ Nodes = 0..N - 1
        /\ Half \in Nat
    BY ConfType, HalfType DEF Types, Nodes
  <2> QED
    BY <2>1, GapTurned
<1> PICK h : h = Half
  OBVIOUS
<1> SUFFICES ASSUME f < N - h, f > c - h
             PROVE  FALSE
  BY <1>1 DEF Near
<1> DEFINE K == f - 1 + h
           at(k) == IF k < f THEN k ELSE k - f + N - h
           g == [k \in 1..K |-> Turned(N, i, at(k))]
<1>2. K \in Nat /\ K >= c
  BY <1>1
<1>3. ASSUME NEW k \in 1..K
      PROVE  at(k) \in 1..N - 1 /\ (at(k) < f \/ N - at(k) <= h)
  <2>1. /\ k \in Nat \ {0} /\ k <= f - 1 + h
        /\ N \in Nat /\ h \in Nat /\ f \in Nat \ {0} /\ f < N - h
    BY <1>1
  <2>2. CASE k < f
    BY <2>1, <2>2
  <2>3. CASE ~(k < f)
    BY <2>1, <2>3
  <2> QED
    BY <2>2, <2>3
<1>4. ASSUME NEW k \in 1..K
      PROVE  g[k] \in Neighbours(i) /\ Gap(N, i, g[k]) = at(k)
  <2> PICK a, m : a = at(k) /\ m = g[k]
    OBVIOUS
  <2>1. m = Turned(N, i, a) /\ a \in 1..N - 1 /\ (a < f \/ N - a <= h)
    BY <1>3
  <2>2. m \in Nodes \ {i} /\ Gap(N, i, m) = a /\ Gap(N, m, i) = N - a
    <3>1. N \in Nat \ {0} /\ i \in 0..N - 1 /\ a \in 1..N - 1
      BY <1>1, <2>1
    <3>2. /\ Turned(N, i, a) \in 0..N - 1 /\ Turned(N, i, a) # i
          /\ Gap(N, i, Turned(N, i, a)) = a /\ Gap(N, Turned(N, i, a), i) = N - a
      BY <3>1, TurnedGap
    <3> QED
      BY <1>1, <2>1, <3>2
  <2>3. Joined(m, i)
    BY <2>1, <2>2
  <2> QED
    BY <2>2, <2>3 DEF Neighbours
<1>5. ASSUME NEW j \in 1..K, NEW k \in 1..K, at(j) = at(k)
      PROVE  j = k
  <2>1. /\ j \in Nat /\ k \in Nat /\ N \in Nat /\ h \in Nat /\ f \in Nat /\ f < N - h
    BY <1>1
  <2>2. CASE j < f /\ k < f
    BY <1>5, <2>2
  <2>3. CASE j < f /\ ~(k < f)
    BY <1>5, <2>1, <2>3
  <2>4. CASE ~(j < f) /\ k < f
    BY <1>5, <2>1, <2>4
  <2>5. CASE ~(j < f) /\ ~(k < f)
    BY <1>5, <2>1, <2>5
  <2> QED
    BY <2>2, <2>3, <2>4, <2>5
<1>6. g \in [1..K -> Neighbours(i)] /\ \A j, k \in 1..K : g[j] = g[k] => j = k
  <2>1. g \in [1..K -> Neighbours(i)]
    BY <1>4
  <2> HIDE DEF g, at
  <2> QED
    BY <1>4, <1>5, <2>1
<1>7. K <= Degree(i) /\ Degree(i) \in Nat
  <2> HIDE DEF g, K
  <2> QED
    BY <1>1, <1>2, <1>6, DegreeFrom DEF Types
<1> QED
  BY <1>1, <1>2, <1>7 DEF Satisfied

\* The remainder of a sum of two places.
LEMMA RemIs ==
  ASSUME NEW N, N \in Nat \ {0}, NEW a, a \in 0..2 * N - 1
  PROVE  a % N = IF a < N THEN a ELSE a - N
<1>1. CASE a < N
  BY <1>1
<1>2. CASE a >= N
  <2> PICK b : b = a - N
    OBVIOUS
  <2>1. b \in 0..N - 1 /\ a = b + N
    BY <1>2
  <2>2. b % N = b
    BY <2>1
  <2>3. (b + N) % N = b % N
    BY <2>1
  <2> QED
    BY <1>2, <2>1, <2>2, <2>3
<1> QED
  BY <1>1, <1>2

\* The inner loop starts Half places behind its node.
LEMMA StartIsBehind ==
  ASSUME conf \in Settings, Half < conf.nodes, NEW n, n \in Nodes, NEW t, t = StartPoint(conf, n)
  PROVE  /\ t \in Nodes
         /\ t = n => Half = 0
         /\ t # n => Gap(conf.nodes, t, n) = Half
<1> PICK N, h : N = conf.nodes /\ h = Half
  OBVIOUS
<1>1. N \in Nat \ {0} /\ h \in Nat /\ h < N /\ n \in 0..N - 1 /\ Nodes = 0..N - 1
  BY ConfType, HalfType DEF Nodes
<1>2. PICK a : a = n + N - h
  OBVIOUS
<1>3. a \in 0..2 * N - 1 /\ a >= 0
  BY <1>1, <1>2
<1>4. t = GoRem(a, N)
  BY <1>2 DEF StartPoint, Half
<1>5. t = a % N
  BY <1>3, <1>4 DEF GoRem
<1>6. t = IF a < N THEN a ELSE a - N
  BY <1>1, <1>3, <1>5, RemIs
<1>7. CASE a < N
  BY <1>1, <1>2, <1>6, <1>7 DEF Gap
<1>8. CASE a >= N
  <2>1. t = n - h /\ n >= h /\ t \in 0..N - 1
    BY <1>1, <1>2, <1>6, <1>8
  <2>2. t # n => Gap(N, t, n) = h
    BY <1>1, <2>1 DEF Gap
  <2> QED
    BY <1>1, <2>1, <2>2
<1> QED
  BY <1>1, <1>3, <1>7, <1>8

LEMMA RingStart == BuildInit => RingInv
<1> SUFFICES ASSUME BuildInit, Half < conf.nodes PROVE RingInv
  BY DEF BuildInit, RingInv
<1>1. /\ conf \in Settings /\ index = 0 /\ index \in Nodes /\ edges = {}
      /\ targetIndex = StartPoint(conf, index) /\ checkedSelf = FALSE
  BY ConfType DEF BuildInit, Nodes
<1>2. /\ targetIndex \in Nodes
      /\ targetIndex = index => Half = 0
      /\ targetIndex # index => Gap(conf.nodes, targetIndex, index) = Half
  BY <1>1, StartIsBehind
<1>3. Half \in Nat
  BY <1>1, HalfType
<1>4. \A m \in Nodes \ {index} : ~PassedBehind(m)
  <2> SUFFICES ASSUME NEW m \in Nodes \ {index} PROVE ~PassedBehind(m)
    OBVIOUS
  <2> PICK N : N = conf.nodes
    OBVIOUS
  <2>1. N \in Nat \ {0} /\ m \in 0..N - 1 /\ index \in 0..N - 1 /\ m # index
    BY <1>1, ConfType DEF Nodes
  <2>2. Gap(N, index, m) \in 1..N - 1 /\ Gap(N, m, index) = N - Gap(N, index, m)
    BY <2>1, GapTurned
  <2>3. Gap(N, m, index) \in Nat \ {0}
    BY <2>1, <2>2
  <2> QED
    BY <1>1, <1>2, <1>3, <2>3 DEF PassedBehind
<1> QED
  BY <1>1, <1>2, <1>3, <1>4 DEF RingInv

\* What has been passed behind after the loop has moved on.
LEMMA BehindNext ==
  ASSUME Types, targetIndex \in Nodes, UNCHANGED <<conf, index>>, NEW m \in Nodes \ {index},
         targetIndex' = IF targetIndex + 1 = conf.nodes THEN 0 ELSE targetIndex + 1,
         (targetIndex # index /\ checkedSelf' = checkedSelf) \/ targetIndex = index
  PROVE  PassedBehind(m)' => PassedBehind(m) \/ m = targetIndex
<1> PICK N, i, t, u : N = conf.nodes /\ i = index /\ t = targetIndex /\ u = targetIndex'
  OBVIOUS
<1>1. /\ N \in Nat \ {0} /\ i \in 0..N - 1 /\ t \in 0..N - 1 /\ m \in 0..N - 1 /\ m # i
      /\ u = IF t + 1 = N THEN 0 ELSE t + 1
  BY ConfType DEF Types, Nodes
<1>2. /\ u \in 0..N - 1
      /\ t # i /\ u # i => Gap(N, u, i) = Gap(N, t, i) - 1
      /\ t # i /\ u = i => Gap(N, t, i) = 1
  BY <1>1, GapNext
<1>3. Half' = Half
  BY DEF Half
<1>4. PassedBehind(m)' <=> /\ Gap(N, m, i) <= Half
                           /\ checkedSelf' \/ u = i \/ Gap(N, u, i) < Gap(N, m, i)
  BY <1>3 DEF PassedBehind
<1>5. PassedBehind(m) <=> /\ Gap(N, m, i) <= Half
                          /\ checkedSelf \/ t = i \/ Gap(N, t, i) < Gap(N, m, i)
  BY DEF PassedBehind
<1>6. t # i /\ m # t /\ (u = i \/ Gap(N, u, i) < Gap(N, m, i)) => Gap(N, t, i) < Gap(N, m, i)
  BY <1>1, <1>2 DEF Gap
<1> QED
  BY <1>4, <1>5, <1>6

LEMMA SameNear ==
  ASSUME UNCHANGED conf
  PROVE  Half' = Half /\ Nodes' = Nodes /\ \A a, b : Near(a, b)' <=> Near(a, b)
<1>1. Half' = Half /\ Nodes' = Nodes
  BY DEF Half, Nodes
<1> QED
  BY <1>1 DEF Near
\* The inner loop connects near nodes only: Half behind, and after its own node no
\* more than are missing.
LEMMA NewIsNear ==
  ASSUME IInv, RingInv, building = "busy", targetIndex \in Nodes \ {index}, ~Satisfied(index)
  PROVE  Near(index, targetIndex)
<1> PICK N, i, t : N = conf.nodes /\ i = index /\ t = targetIndex
  OBVIOUS
<1>1. /\ N \in Nat \ {0} /\ i \in 0..N - 1 /\ t \in 0..N - 1 /\ t # i /\ Nodes = 0..N - 1
      /\ Half \in Nat /\ Types
  BY ConfType, HalfType DEF IInv, Types, Nodes
<1>2. Gap(N, i, t) \in 1..N - 1 /\ Gap(N, t, i) = N - Gap(N, i, t)
  BY <1>1, GapTurned
<1>3. CASE Half >= N
  BY <1>1, <1>2, <1>3 DEF Near
<1>4. CASE Half < N /\ ~checkedSelf
  <2>1. Gap(N, t, i) <= Half
    BY <1>1, <1>4 DEF RingInv
  <2> QED
    BY <1>1, <1>2, <2>1 DEF Near
<1>5. CASE Half < N /\ checkedSelf
  <2> PICK f : f = Gap(N, i, t)
    OBVIOUS
  <2>1. ASSUME NEW m \in Nodes \ {index}, Gap(N, i, m) < f
        PROVE  Joined(m, index)
    <3>1. m \in 0..N - 1 /\ m # i
      BY <1>1
    <3>2. Passed(m)
      <4>1. CASE i < t
        BY <1>1, <2>1, <3>1, <4>1 DEF Passed, Gap
      <4>2. CASE t < i
        BY <1>1, <2>1, <3>1, <4>2 DEF Passed, Gap
      <4> QED
        BY <1>1, <4>1, <4>2
    <3> QED
      BY <1>5, <3>2 DEF IInv, ServedInv
  <2>2. ASSUME NEW m \in Nodes \ {index}, Gap(N, m, i) <= Half
        PROVE  Joined(m, index)
    <3>1. PassedBehind(m)
      BY <1>5, <2>2 DEF PassedBehind
    <3> QED
      BY <1>1, <1>5, <3>1 DEF RingInv
  <2> QED
    BY <1>1, <2>1, <2>2, ForwardIsNear
<1> QED
  BY <1>1, <1>3, <1>4, <1>5

\* The three steps that go on in the inner loop.
LEMMA RingLoop ==
  ASSUME IInv, RingInv, Connect \/ SkipJoined \/ PassSelf
  PROVE  RingInv'
<1>1. /\ UNCHANGED <<conf, index, building>> /\ building = "busy" /\ ~Satisfied(index)
      /\ targetIndex \in Nodes /\ Advance /\ edges \subseteq edges'
      /\ Types /\ RangeInv /\ index \in Nodes /\ conf \in Settings
  BY DEF Connect, SkipJoined, PassSelf, IInv, Types
<1>2. /\ targetIndex' \in Nodes
      /\ targetIndex' = IF targetIndex + 1 = conf.nodes THEN 0 ELSE targetIndex + 1
  BY <1>1, AdvanceStep
<1>3. Half' = Half /\ Nodes' = Nodes /\ \A a, b : Near(a, b)' <=> Near(a, b)
  BY <1>1, SameNear
<1>4. \A e \in edges' : Near(e.source, e.destination)
  <2>1. CASE Connect
    <3>1. targetIndex \in Nodes \ {index}
      BY <2>1 DEF Connect
    <3>2. Near(index, targetIndex)
      BY <1>1, <3>1, NewIsNear
    <3>3. \A e \in edges' : e \in edges \/ (e.source = index /\ e.destination = targetIndex)
      BY <2>1 DEF Connect
    <3> QED
      BY <3>2, <3>3 DEF RingInv
  <2>2. CASE SkipJoined \/ PassSelf
    BY <2>2 DEF SkipJoined, PassSelf, RingInv
  <2> QED
    BY <2>1, <2>2
<1>5. ASSUME Half < conf.nodes
      PROVE  checkedSelf' \/ targetIndex' = index \/ Gap(conf.nodes, targetIndex', index) <= Half
  <2>1. CASE targetIndex = index
    <3>1. PassSelf
      BY <1>1, <2>1 DEF Connect, SkipJoined
    <3> QED
      BY <3>1 DEF PassSelf
  <2>2. CASE targetIndex # index
    <3> PICK N, i, t, u : N = conf.nodes /\ i = index /\ t = targetIndex /\ u = targetIndex'
      OBVIOUS
    <3>1. N \in Nat \ {0} /\ i \in 0..N - 1 /\ t \in 0..N - 1 /\ Half \in Nat /\ t # i
      BY <1>1, <2>2, ConfType, HalfType DEF Nodes
    <3>2. t # i /\ u # i => Gap(N, u, i) = Gap(N, t, i) - 1
      BY <1>2, <3>1, GapNext
    <3>3. checkedSelf' = checkedSelf
      BY <2>2 DEF Connect, SkipJoined, PassSelf
    <3>4. checkedSelf \/ Gap(N, t, i) <= Half
      BY <1>1, <1>5, <2>2 DEF RingInv
    <3>5. Gap(N, t, i) \in Int
      BY <3>1 DEF Gap
    <3> QED
      BY <3>1, <3>2, <3>3, <3>4, <3>5
  <2> QED
    BY <2>1, <2>2
<1>6. ASSUME Half < conf.nodes, NEW m \in Nodes \ {index}, PassedBehind(m)'
      PROVE  Joined(m, index)'
  <2>1. (targetIndex # index /\ checkedSelf' = checkedSelf) \/ targetIndex = index
    BY <1>1 DEF Connect, SkipJoined, PassSelf
  <2>2. PassedBehind(m) \/ m = targetIndex
    BY <1>1, <1>2, <1>6, <2>1, BehindNext
  <2>3. \A n \in Nodes : \A k \in Nodes : Joined(k, n) => Joined(k, n)'
    BY <1>1, MoreEdges
  <2>4. CASE PassedBehind(m)
    <3>1. Joined(m, index)
      BY <1>1, <1>6, <2>4 DEF RingInv
    <3> PICK i : i = index
      OBVIOUS
    <3>2. Joined(m, i)'
      BY <1>1, <2>3, <3>1
    <3> QED
      BY <1>1, <3>2
  <2>5. CASE m = targetIndex /\ SkipJoined
    <3> PICK i : i = index
      OBVIOUS
    <3>1. Joined(i, m)
      BY <2>5 DEF SkipJoined
    <3>2. Joined(m, i)
      BY <3>1 DEF Joined
    <3>3. Joined(m, i)'
      BY <1>1, <2>3, <3>2
    <3> QED
      BY <1>1, <3>3
  <2>6. CASE m = targetIndex /\ Connect
    <3>1. PICK w \in Weight(conf, index, targetIndex) :
            edges' = edges \cup {[source |-> index, destination |-> targetIndex, weight |-> w]}
      BY <2>6 DEF Connect
    <3>2. PICK e : e = [source |-> index, destination |-> targetIndex, weight |-> w]
      OBVIOUS
    <3>3. e \in edges' /\ e.source = index /\ e.destination = m
      BY <2>6, <3>1, <3>2
    <3> PICK i : i = index
      OBVIOUS
    <3>4. Joined(m, i)'
      BY <3>3 DEF Joined, Ends
    <3> QED
      BY <1>1, <3>4
  <2> QED
    BY <1>6, <2>2, <2>4, <2>5, <2>6 DEF PassSelf
<1> QED
  BY <1>1, <1>2, <1>3, <1>4, <1>5, <1>6 DEF RingInv

LEMMA RingNextNode ==
  ASSUME IInv, RingInv, NextNode
  PROVE  RingInv'
<1>1. UNCHANGED <<conf, edges>> /\ conf \in Settings /\ index \in Nodes
      /\ conf.nodes \in Nat \ {0} /\ Nodes = 0..conf.nodes - 1 /\ Half \in Nat
  BY ConfType, HalfType DEF NextNode, IInv, Types, Nodes
<1>2. Half' = Half /\ Nodes' = Nodes /\ \A a, b : Near(a, b)' <=> Near(a, b)
  BY <1>1, SameNear
<1>3. \A e \in edges' : Near(e.source, e.destination)'
  BY <1>1, <1>2 DEF RingInv
<1>4. CASE building' = "built"
  BY <1>3, <1>4 DEF RingInv
<1>5. CASE Half >= conf.nodes
  BY <1>1, <1>2, <1>3, <1>5 DEF RingInv
<1>6. CASE Half < conf.nodes /\ building' # "built"
  <2> PICK N, i, t : N = conf.nodes /\ i = index' /\ t = targetIndex'
    OBVIOUS
  <2>1. i = index + 1 /\ i \in Nodes /\ t = StartPoint(conf, i) /\ checkedSelf' = FALSE
    BY <1>1, <1>6 DEF NextNode
  <2>2. t \in Nodes /\ (t = i => Half = 0) /\ (t # i => Gap(N, t, i) = Half)
    BY <1>1, <1>6, <2>1, StartIsBehind
  <2>3. ASSUME NEW m \in Nodes \ {i}
        PROVE  ~PassedBehind(m)'
    <3>1. Gap(N, i, m) \in 1..N - 1 /\ Gap(N, m, i) = N - Gap(N, i, m)
      BY <1>1, <2>1, GapTurned
    <3>2. Gap(N, m, i) \in Nat \ {0}
      BY <1>1, <3>1
    <3>3. PassedBehind(m)' <=> /\ Gap(N, m, i) <= Half
                               /\ t = i \/ Gap(N, t, i) < Gap(N, m, i)
      BY <1>1, <1>2, <2>1 DEF PassedBehind
    <3> QED
      BY <1>1, <2>2, <3>2, <3>3
  <2> QED
    BY <1>1, <1>2, <1>3, <2>1, <2>2, <2>3 DEF RingInv
<1> QED
  BY <1>1, <1>4, <1>5, <1>6

LEMMA RingSame ==
  ASSUME RingInv, UNCHANGED <<conf, edges>>,
         building' # "busy" \/ UNCHANGED <<index, targetIndex, checkedSelf, building>>
  PROVE  RingInv'
<1>1. Half' = Half /\ Nodes' = Nodes /\ \A a, b : Near(a, b)' <=> Near(a, b)
  BY SameNear
<1>2. \A e \in edges' : Near(e.source, e.destination)'
  BY <1>1 DEF RingInv
<1>3. CASE building' # "busy"
  BY <1>2, <1>3 DEF RingInv
<1>4. CASE UNCHANGED <<index, targetIndex, checkedSelf, building>>
  <2>1. \A m : PassedBehind(m)' <=> PassedBehind(m)
    BY <1>1, <1>4 DEF PassedBehind
  <2>2. \A m : Joined(m, index)' <=> Joined(m, index)
    BY <1>4 DEF Joined
  <2> QED
    BY <1>1, <1>2, <1>4, <2>1, <2>2 DEF RingInv
<1> QED
  BY <1>3, <1>4

\* Every edge of the overlay joins nodes that are at most half of reqConns places
\* apart in the shuffled list, rounded up going on and down going back.
THEOREM Ring == BuildSpec => []RingInv
<1>1. IInv /\ RingInv /\ [BuildStep]_overlayVars => RingInv'
  <2> SUFFICES ASSUME IInv, RingInv, [BuildStep]_overlayVars PROVE RingInv'
    OBVIOUS
  <2>1. CASE Connect \/ SkipJoined \/ PassSelf
    BY <2>1, RingLoop
  <2>2. CASE NextNode
    BY <2>2, RingNextNode
  <2>3. CASE IndexPanic
    BY <2>3, RingSame DEF IndexPanic
  <2>4. CASE UNCHANGED overlayVars
    BY <2>4, RingSame DEF overlayVars
  <2> QED
    BY <2>1, <2>2, <2>3, <2>4 DEF BuildStep
<1> QED
  BY <1>1, RingStart, Inductive, PTL DEF BuildSpec

-----------------------------------------------------------------------------
(* Degrees: the places of the neighbours round a node *)

\* The place of neighbour m of n: 1..Most after it, the others behind it.
Most == conf.conns - Half
Place(n, m) ==
  IF Gap(conf.nodes, n, m) <= Most THEN Gap(conf.nodes, n, m)
  ELSE Most + conf.nodes - Gap(conf.nodes, n, m)

\* The neighbours of a node have different places, at most twice Most.
LEMMA PlaceOf ==
  ASSUME Types, RingInv, NEW n \in Nodes, NEW m \in Neighbours(n)
  PROVE  /\ Place(n, m) \in 1..2 * Most
         /\ Gap(conf.nodes, n, m) \in 1..conf.nodes - 1
         /\ m = Turned(conf.nodes, n, Gap(conf.nodes, n, m))
<1> PICK N, h, p, g : N = conf.nodes /\ h = Half /\ p = Most /\ g = Gap(N, n, m)
  OBVIOUS
<1>1. /\ N \in Nat \ {0} /\ n \in 0..N - 1 /\ m \in 0..N - 1 /\ m # n
      /\ h \in Nat /\ p \in Nat /\ h <= p
  BY ConfType, HalfType DEF Types, Nodes, Neighbours, Most
<1>2. g \in 1..N - 1 /\ Gap(N, m, n) = N - g /\ Turned(N, n, g) = m
  BY <1>1, GapTurned
<1>3. g <= p \/ N - g <= p
  <2>1. PICK e \in edges : Ends(e) = {m, n}
    BY DEF Neighbours, Joined
  <2>2. (e.source = m /\ e.destination = n) \/ (e.source = n /\ e.destination = m)
    BY <2>1 DEF Ends
  <2>3. Near(m, n) \/ Near(n, m)
    BY <2>2 DEF RingInv
  <2>4. Near(n, m) => g <= p \/ g >= N - h
    BY DEF Near, Most
  <2>5. Near(m, n) => N - g <= p \/ N - g >= N - h
    BY <1>2 DEF Near, Most
  <2> QED
    BY <1>1, <1>2, <2>3, <2>4, <2>5
<1>4. Place(n, m) = IF g <= p THEN g ELSE p + N - g
  BY DEF Place
<1>5. Place(n, m) \in 1..2 * p
  BY <1>1, <1>2, <1>3, <1>4
<1> QED
  BY <1>2, <1>5

\* A node has no more neighbours than there are places for them.
LEMMA DegreeWithin ==
  ASSUME Types, RingInv, NEW n \in Nodes, NEW J, IsFiniteSet(J),
         \A m \in Neighbours(n) : Place(n, m) \in J
  PROVE  Degree(n) \in Nat /\ Degree(n) <= Cardinality(J)
<1> DEFINE f == [m \in Neighbours(n) |-> Place(n, m)]
<1>1. f \in [Neighbours(n) -> J]
  OBVIOUS
<1>2. ASSUME NEW a \in Neighbours(n), NEW b \in Neighbours(n), f[a] = f[b]
      PROVE  a = b
  <2> PICK N, p, g, k : /\ N = conf.nodes /\ p = Most
                        /\ g = Gap(N, n, a) /\ k = Gap(N, n, b)
    OBVIOUS
  <2>1. g \in 1..N - 1 /\ k \in 1..N - 1 /\ a = Turned(N, n, g) /\ b = Turned(N, n, k)
    BY PlaceOf
  <2>2. /\ Place(n, a) = IF g <= p THEN g ELSE p + N - g
        /\ Place(n, b) = IF k <= p THEN k ELSE p + N - k
    BY DEF Place
  <2>3. N \in Nat /\ p \in Nat
    BY ConfType, HalfType DEF Types, Most
  <2>4. Place(n, a) = Place(n, b)
    BY <1>2
  <2>5. g = k
    <3>1. (IF g <= p THEN g ELSE p + N - g) = (IF k <= p THEN k ELSE p + N - k)
      BY <2>2, <2>4
    <3>2. /\ g \in Nat /\ k \in Nat /\ g < N /\ k < N /\ N \in Nat /\ p \in Nat
      BY <2>1, <2>3
    <3>3. CASE g <= p
      BY <3>1, <3>2, <3>3
    <3>4. CASE g > p
      BY <3>1, <3>2, <3>4
    <3> QED
      BY <3>2, <3>3, <3>4
  <2> QED
    BY <2>1, <2>5
<1> HIDE DEF f
<1>3. IsInjective(f)
  BY <1>1, <1>2 DEF IsInjective
<1>4. f \in Injection(Neighbours(n), J)
  BY <1>1, <1>3, Zenon DEF Injection
<1>5. IsFiniteSet(Neighbours(n)) /\ Cardinality(Neighbours(n)) <= Cardinality(J)
  BY <1>4, FS_Injection
<1> QED
  BY <1>5, FS_CardinalityType DEF Degree

\* Nodes later in the list do not push an earlier one beyond the connections asked
\* for by more than one, for it is near to so many only (overlay.go:35).
THEOREM DegreeBound == BuildSpec => []DegreesFit
<1>1. IInv /\ RingInv => DegreesFit
  <2> SUFFICES ASSUME IInv, RingInv, NEW n \in Nodes
               PROVE  /\ Degree(n) <= conf.conns + 1
                      /\ conf.conns % 2 = 0 => Degree(n) <= conf.conns
    BY DEF DegreesFit
  <2> PICK p, c : p = Most /\ c = conf.conns
    OBVIOUS
  <2>1. p \in Nat /\ 2 * p <= c + 1 /\ (c % 2 = 0 => 2 * p = c) /\ c \in Nat
    BY HalfType, ConfType DEF IInv, Types, Most
  <2>2. IsFiniteSet(1..2 * p) /\ Cardinality(1..2 * p) = 2 * p
    BY <2>1, FS_Interval
  <2>3. \A m \in Neighbours(n) : Place(n, m) \in 1..2 * p
    BY PlaceOf DEF IInv
  <2>4. Degree(n) \in Nat /\ Degree(n) <= 2 * p
    BY <2>2, <2>3, DegreeWithin DEF IInv
  <2> QED
    BY <2>1, <2>4
<1> QED
  BY <1>1, Inductive, Ring, PTL

-----------------------------------------------------------------------------
(* The overlay is connected *)

\* A node with the connections asked for leaves at most one place free, and none if
\* they are even.
LEMMA PlaceTaken ==
  ASSUME Types, RingInv, NEW n \in Nodes, Satisfied(n),
         NEW j, j \in 1..2 * Most, NEW k, k \in 1..2 * Most, j # k \/ conf.conns % 2 = 0
  PROVE  \E m \in Neighbours(n) : Place(n, m) \in {j, k}
<1> SUFFICES ASSUME \A m \in Neighbours(n) : Place(n, m) \notin {j, k}
             PROVE  FALSE
  OBVIOUS
<1> PICK p, c, A, J : p = Most /\ c = conf.conns /\ A = (1..2 * p) \ {j} /\ J = A \ {k}
  OBVIOUS
<1>1. p \in Nat /\ 2 * p <= c + 1 /\ (c % 2 = 0 => 2 * p = c) /\ c \in Nat
  BY HalfType, ConfType DEF Types, Most
<1>2. IsFiniteSet(1..2 * p) /\ Cardinality(1..2 * p) = 2 * p
  BY <1>1, FS_Interval
<1>3. IsFiniteSet(A) /\ Cardinality(A) = 2 * p - 1
  BY <1>2, FS_RemoveElement
<1>4. /\ IsFiniteSet(J)
      /\ Cardinality(J) = IF k \in A THEN Cardinality(A) - 1 ELSE Cardinality(A)
  BY <1>3, FS_RemoveElement
<1>5. Cardinality(J) < c
  <2>1. k \in A <=> k # j
    OBVIOUS
  <2> QED
    BY <1>1, <1>3, <1>4, <2>1
<1>6. \A m \in Neighbours(n) : Place(n, m) \in J
  BY PlaceOf
<1>7. Degree(n) \in Nat /\ Degree(n) <= Cardinality(J)
  BY <1>4, <1>6, DegreeWithin
<1>8. Degree(n) >= c
  BY DEF Satisfied
<1>9. Cardinality(J) \in Nat
  BY <1>4, FS_CardinalityType
<1> QED
  BY <1>1, <1>5, <1>7, <1>8, <1>9

LEMMA NeighbourOf ==
  ASSUME NEW a, NEW b, b \in Neighbours(a), a \in Nodes
  PROVE  a \in Neighbours(b) /\ b \in Nodes
  BY DEF Neighbours, Joined

\* From a node one reaches the next in the list, over one other at most.
LEMMA NextReached ==
  ASSUME Types, RingInv, conf.conns >= 2, NEW i \in Nodes, NEW d \in Nodes, d = i + 1,
         Served(i), Served(d)
  PROVE  \E m \in Neighbours(i) \cup {i} : d \in Neighbours(m)
<1> SUFFICES ASSUME d \notin Neighbours(i), i \notin Neighbours(d)
             PROVE  \E m \in Neighbours(i) : d \in Neighbours(m)
  BY NeighbourOf
<1> PICK N, c, p : N = conf.nodes /\ c = conf.conns /\ p = Most
  OBVIOUS
<1>1. /\ N \in Nat \ {0} /\ c \in Nat /\ c >= 2 /\ p \in Nat /\ Nodes = 0..N - 1
      /\ 2 * p <= c + 1 /\ (c % 2 = 0 => 2 * p = c) /\ p >= 1 /\ (p = 1 => c % 2 = 0)
      /\ i \in 0..N - 1 /\ d \in 0..N - 1 /\ d # i
  <2>1. /\ c \in Nat /\ Half = c \div 2 /\ p = c - c \div 2
    BY ConfType DEF Types, Most, Half
  <2>2. p >= 1 /\ (p = 1 => c = 2)
    BY <2>1
  <2> QED
    BY <2>1, <2>2, ConfType, HalfType DEF Types, Most, Nodes
<1>2. Satisfied(i) /\ Satisfied(d)
  BY <1>1 DEF Served
<1>3. \A n \in Nodes : \A m \in Neighbours(n) :
        /\ Place(n, m) = IF Gap(N, n, m) <= p THEN Gap(N, n, m) ELSE p + N - Gap(N, n, m)
        /\ Gap(N, n, m) \in 1..N - 1
        /\ m = Turned(N, n, Gap(N, n, m))
  BY PlaceOf DEF Place
<1>4. \A m \in Neighbours(i) : Place(i, m) # 1
  <2> SUFFICES ASSUME NEW m \in Neighbours(i), Place(i, m) = 1 PROVE FALSE
    OBVIOUS
  <2> PICK g : g = Gap(N, i, m)
    OBVIOUS
  <2>1. g \in 1..N - 1 /\ m = Turned(N, i, g) /\ 1 = IF g <= p THEN g ELSE p + N - g
    BY <1>3
  <2>2. g = 1
    BY <1>1, <2>1
  <2>3. m = d
    BY <1>1, <2>1, <2>2 DEF Turned
  <2> QED
    BY <2>3
<1>5. p >= 2 /\ c % 2 # 0
  <2>1. 1 \in 1..2 * Most
    BY <1>1
  <2>2. c % 2 # 0
    BY <1>2, <1>4, <2>1, PlaceTaken
  <2> QED
    BY <1>1, <2>2
<1>6. PICK m \in Neighbours(i) : Gap(N, i, m) = 2
  <2>1. 1 \in 1..2 * Most /\ 2 \in 1..2 * Most /\ 1 # 2
    BY <1>1, <1>5
  <2>2. PICK m \in Neighbours(i) : Place(i, m) = 2
    BY <1>2, <1>4, <2>1, PlaceTaken
  <2> PICK g : g = Gap(N, i, m)
    OBVIOUS
  <2>3. g \in 1..N - 1 /\ 2 = IF g <= p THEN g ELSE p + N - g
    BY <1>3, <2>2
  <2>4. g = 2
    BY <1>1, <1>5, <2>3
  <2> QED
    BY <2>4
<1>7. PICK k \in Neighbours(d) : Gap(N, d, k) = 1
  <2>1. 1 \in 1..2 * Most /\ p + 1 \in 1..2 * Most /\ 1 # p + 1
    BY <1>1, <1>5
  <2>2. PICK k \in Neighbours(d) : Place(d, k) \in {1, p + 1}
    BY <1>2, <2>1, PlaceTaken
  <2> PICK g : g = Gap(N, d, k)
    OBVIOUS
  <2>3. /\ g \in 1..N - 1 /\ k = Turned(N, d, g)
        /\ (IF g <= p THEN g ELSE p + N - g) \in {1, p + 1}
    BY <1>3, <2>2
  <2>4. g = 1 \/ g = N - 1
    BY <1>1, <1>5, <2>3
  <2>5. g = N - 1 => k = i
    <3> SUFFICES ASSUME g = N - 1 PROVE k = i
      OBVIOUS
    <3>1. N \in Int /\ i \in Int /\ i >= 0 /\ d = i + 1
      BY <1>1
    <3>2. d + (N - 1) = i + N
      BY <3>1
    <3>3. k = i + N - N
      BY <2>3, <3>1, <3>2 DEF Turned
    <3> QED
      BY <3>1, <3>3
  <2> QED
    BY <2>4, <2>5
<1>8. m = Turned(N, i, 2) /\ 2 \in 1..N - 1 /\ k = Turned(N, d, 1)
  BY <1>3, <1>6, <1>7
<1>9. m = k
  BY <1>1, <1>8 DEF Turned
<1> QED
  BY <1>6, <1>7, <1>9, NeighbourOf

\* A set of nodes that has the first and all neighbours of its nodes has all nodes.
LEMMA ClosedIsAll ==
  ASSUME Types, RingInv, conf.conns >= 2, \A n \in Nodes : Served(n),
         NEW C, C \subseteq Nodes, 0 \in C, \A n \in C : Neighbours(n) \subseteq C
  PROVE  C = Nodes
<1> DEFINE D == Nodes \ C
<1> SUFFICES ASSUME D # {} PROVE FALSE
  OBVIOUS
<1>1. conf.nodes \in Nat \ {0} /\ Nodes = 0..conf.nodes - 1
  BY ConfType DEF Types, Nodes
<1>2. D \in SUBSET Nat
  BY <1>1
<1>3. PICK d \in D : \A m \in D : d <= m
  <2> HIDE DEF D
  <2> QED
    BY <1>2, LeastNatural
<1>4. PICK i : i = d - 1
  OBVIOUS
<1>5. i \in Nodes /\ d \in Nodes /\ d = i + 1 /\ i \notin D
  BY <1>1, <1>3, <1>4
<1>6. PICK m \in Neighbours(i) \cup {i} : d \in Neighbours(m)
  BY <1>5, NextReached
<1> QED
  BY <1>5, <1>6

\* The nodes and their neighbours.
Spread(R) == R \cup UNION {Neighbours(n) : n \in R}

\* R is what Within reaches from the first node, hop by hop.
Reaches(R) ==
  /\ R \in [0..conf.nodes -> SUBSET Nodes]
  /\ R[0] = {0}
  /\ \A h \in 1..conf.nodes : R[h] = Spread(R[h - 1])

LEMMA SpreadIn ==
  ASSUME NEW S, S \in SUBSET Nodes
  PROVE  Spread(S) \in SUBSET Nodes
  BY DEF Spread, Neighbours

LEMMA ReachExists ==
  ASSUME Types
  PROVE  \E R : Reaches(R) /\ Within({0}) = R[conf.nodes]
<1> PICK K, Y, a : K = conf.nodes /\ Y = SUBSET Nodes /\ a = {0}
  OBVIOUS
<1> DEFINE g == [S \in Y |-> Spread(S)]
           reach == CHOOSE f : f = [h \in 0..K |-> IF h = 0 THEN a ELSE Spread(f[h - 1])]
<1>1. K \in Nat /\ a \in Y
  BY ConfType DEF Types, Nodes
<1>2. g \in [Y -> Y] /\ \A S \in Y : g[S] = Spread(S)
  BY SpreadIn
<1>3. Within({0}) = reach[K]
  BY DEF Within, Spread
<1> HIDE DEF g
<1>4. PICK R : Iterates(R, Y, a, g, K)
  BY <1>1, <1>2, IterateExists
<1>5. ASSUME NEW k \in 1..K
      PROVE  R[k] = Spread(R[k - 1])
  <2>1. k - 1 \in 0..K
    BY <1>1
  <2> QED
    BY <1>2, <1>4, <2>1 DEF Iterates
<1>6. R \in [0..K -> Y] /\ R[0] = a
  BY <1>4 DEF Iterates
<1>7. R = [h \in 0..K |-> IF h = 0 THEN a ELSE Spread(R[h - 1])]
  <2>1. \A h \in 0..K : h = 0 \/ h \in 1..K
    BY <1>1
  <2>2. ASSUME NEW h \in 0..K
        PROVE  R[h] = IF h = 0 THEN a ELSE Spread(R[h - 1])
    <3>1. CASE h = 0
      BY <1>6, <3>1
    <3>2. CASE h # 0
      BY <1>5, <2>1, <3>2
    <3> QED
      BY <3>1, <3>2
  <2> HIDE DEF reach
  <2> QED
    BY <1>6, <2>2
<1>8. reach = [h \in 0..K |-> IF h = 0 THEN a ELSE Spread(reach[h - 1])]
  BY <1>7
<1> HIDE DEF reach
<1>9. \A k \in 1..K : reach[k] = Spread(reach[k - 1])
  <2>1. \A k \in 1..K : k \in 0..K /\ k # 0
    BY <1>1
  <2> QED
    BY <1>8, <2>1
<1>10. reach[0] = a
  BY <1>1, <1>8
<1> DEFINE T == {j \in Nat : reach[j] \in Y}
<1>11. 0 \in T
  BY <1>1, <1>10
<1>12. ASSUME NEW k \in 0..K - 1, k \in T
       PROVE  k + 1 \in T
  <2>1. k + 1 \in 1..K /\ (k + 1) - 1 = k /\ k + 1 \in Nat
    BY <1>1
  <2>2. reach[k + 1] = Spread(reach[k])
    BY <1>9, <2>1
  <2>3. Spread(reach[k]) \in Y
    BY <1>12, SpreadIn
  <2> QED
    BY <2>1, <2>2, <2>3
<1>13. \A k \in 0..K : k \in T
  <2> HIDE DEF T
  <2> QED
    BY <1>1, <1>11, <1>12, UpTo
<1>14. reach \in [0..K -> Y]
  BY <1>8, <1>13
<1>15. Reaches(reach)
  BY <1>9, <1>10, <1>14 DEF Reaches
<1> QED
  BY <1>3, <1>15

\* A hop reaches another node, unless all neighbours have been reached.
LEMMA Reached ==
  ASSUME Types, NEW R, Reaches(R)
  PROVE  0 \in R[conf.nodes] /\ R[conf.nodes] \subseteq Nodes /\ Spread(R[conf.nodes]) = R[conf.nodes]
<1> PICK K : K = conf.nodes
  OBVIOUS
<1> DEFINE T == {h \in 0..K : /\ 0 \in R[h]
                              /\ Cardinality(R[h]) > h \/ Spread(R[h]) = R[h]}
<1>1. K \in Nat \ {0} /\ R[0] = {0} /\ \A h \in 0..K : R[h] \in SUBSET Nodes
  BY ConfType DEF Types, Reaches
<1>2. 0 \in T
  <2>1. Cardinality(R[0]) = 1
    BY <1>1, FS_Singleton
  <2> QED
    BY <1>1, <2>1
<1>3. ASSUME NEW h \in 0..K - 1, h \in T
      PROVE  h + 1 \in T
  <2> PICK A, B : A = R[h] /\ B = R[h + 1]
    OBVIOUS
  <2>1. h + 1 \in 1..K /\ (h + 1) - 1 = h /\ h + 1 \in 0..K /\ h \in 0..K /\ h \in Nat
    BY <1>1
  <2>2. B = Spread(A)
    BY <2>1 DEF Reaches
  <2>3. A \subseteq B
    BY <2>2 DEF Spread
  <2>4. 0 \in A /\ (Cardinality(A) > h \/ B = A)
    BY <1>3, <2>2
  <2>5. CASE B = A
    <3>1. 0 \in R[h + 1] /\ Spread(R[h + 1]) = R[h + 1]
      BY <2>2, <2>4, <2>5
    <3> QED
      BY <2>1, <3>1
  <2>6. CASE B # A
    <3>1. IsFiniteSet(B)
      BY <1>1, <2>1, NodesFinite DEF Types
    <3>2. /\ Cardinality(A) \in Nat /\ Cardinality(B) \in Nat
          /\ Cardinality(A) < Cardinality(B)
      BY <2>3, <2>6, <3>1, FS_Subset, FS_CardinalityType
    <3>3. 0 \in R[h + 1] /\ Cardinality(R[h + 1]) > h + 1
      BY <2>1, <2>3, <2>4, <2>6, <3>2
    <3> QED
      BY <2>1, <3>3
  <2> QED
    BY <2>5, <2>6
<1>4. K \in T
  <2> HIDE DEF T
  <2>1. \A h \in 0..K : h \in T
    BY <1>1, <1>2, <1>3, UpTo
  <2> QED
    BY <1>1, <2>1
<1>5. R[K] \in SUBSET Nodes /\ ~(Cardinality(R[K]) > K)
  <2>1. R[K] \in SUBSET Nodes
    BY <1>1
  <2>2. IsFiniteSet(0..K - 1) /\ Cardinality(0..K - 1) = K
    <3> PICK j : j = K - 1
      OBVIOUS
    <3>1. 0 \in Int /\ j \in Int /\ ~(0 > j) /\ K = j - 0 + 1
      BY <1>1
    <3>2. /\ IsFiniteSet(0..j)
          /\ Cardinality(0..j) = IF 0 > j THEN 0 ELSE j - 0 + 1
      BY <3>1, FS_Interval, Zenon
    <3> QED
      BY <3>1, <3>2
  <2>3. R[K] \subseteq 0..K - 1
    BY <2>1 DEF Nodes
  <2>4. Cardinality(R[K]) \in Nat /\ Cardinality(R[K]) <= K
    BY <2>2, <2>3, FS_Subset, FS_CardinalityType
  <2> QED
    BY <1>1, <2>1, <2>4
<1> QED
  BY <1>4, <1>5

\* With two connections or more per node the overlay is connected, so every node
\* finds a path to every other (overlay.go:33-76).
THEOREM Connected == BuildSpec => []OverlayConnected
<1>1. IInv /\ RingInv => OverlayConnected
  <2> SUFFICES ASSUME IInv, RingInv, building = "built", conf.conns >= 2
               PROVE  Within({0}) = Nodes
    BY DEF OverlayConnected
  <2>1. Types /\ \A n \in Nodes : Served(n)
    BY DEF IInv, ServedInv
  <2>2. PICK R : Reaches(R) /\ Within({0}) = R[conf.nodes]
    BY <2>1, ReachExists
  <2> PICK C : C = R[conf.nodes]
    OBVIOUS
  <2>3. 0 \in C /\ C \subseteq Nodes /\ Spread(C) = C
    BY <2>1, <2>2, Reached
  <2>4. \A n \in C : Neighbours(n) \subseteq C
    BY <2>3 DEF Spread
  <2>5. C = Nodes
    BY <2>1, <2>3, <2>4, ClosedIsAll
  <2> QED
    BY <2>2, <2>5
<1> QED
  BY <1>1, Inductive, Ring, PTL

-----------------------------------------------------------------------------
(* The loops end *)

\* How often the inner loop can still go on for its node, and the outer loop's
\* share: more than twice round for each node that is left.
Turns ==
  IF targetIndex < 0 THEN 0
  ELSE (IF targetIndex = index THEN 0 ELSE Gap(conf.nodes, targetIndex, index))
       + (IF checkedSelf THEN 0 ELSE conf.nodes + 1)
Work ==
  IF building = "busy" THEN (conf.nodes - index) * (2 * conf.nodes + 2) + Turns + 1 ELSE 0

LEMMA TurnsType ==
  ASSUME Types
  PROVE  Turns \in 0..2 * conf.nodes
<1> PICK N, i, t : N = conf.nodes /\ i = index /\ t = targetIndex
  OBVIOUS
<1>1. N \in Nat \ {0} /\ i \in 0..N - 1 /\ t \in Int /\ t < N
  BY ConfType DEF Types, Nodes
<1>2. t >= 0 /\ t # i => Gap(N, t, i) \in 0..N - 1
  BY <1>1 DEF Gap
<1>3. CASE t < 0
  BY <1>1, <1>3 DEF Turns
<1>4. CASE t >= 0
  <2>1. Turns = (IF t = i THEN 0 ELSE Gap(N, t, i)) + (IF checkedSelf THEN 0 ELSE N + 1)
    BY <1>1, <1>4 DEF Turns
  <2> QED
    BY <1>1, <1>2, <1>4, <2>1
<1> QED
  BY <1>1, <1>3, <1>4

\* One iteration of the inner loop leaves fewer.
LEMMA LoopShrinks ==
  ASSUME IInv, Connect \/ SkipJoined \/ PassSelf
  PROVE  Turns' < Turns
<1>1. /\ UNCHANGED <<conf, index>> /\ targetIndex \in Nodes /\ Advance
      /\ Types /\ RangeInv /\ conf \in Settings
      /\ \/ targetIndex # index /\ checkedSelf' = checkedSelf
         \/ targetIndex = index /\ ~checkedSelf /\ checkedSelf'
  BY DEF Connect, SkipJoined, PassSelf, IInv, Types
<1>2. targetIndex' = IF targetIndex + 1 = conf.nodes THEN 0 ELSE targetIndex + 1
  BY <1>1, AdvanceStep
<1> PICK N, i, t, u : N = conf.nodes /\ i = index /\ t = targetIndex /\ u = targetIndex'
  OBVIOUS
<1>3. N \in Nat \ {0} /\ i \in 0..N - 1 /\ t \in 0..N - 1
  BY <1>1, ConfType DEF Types, Nodes
<1>4. /\ u \in 0..N - 1
      /\ t # i /\ u # i => Gap(N, u, i) = Gap(N, t, i) - 1
      /\ t # i /\ u = i => Gap(N, t, i) = 1
  BY <1>2, <1>3, GapNext
<1>5. Turns = (IF t = i THEN 0 ELSE Gap(N, t, i)) + (IF checkedSelf THEN 0 ELSE N + 1)
  BY <1>3 DEF Turns
<1>6. Turns' = (IF u = i THEN 0 ELSE Gap(N, u, i)) + (IF checkedSelf' THEN 0 ELSE N + 1)
  BY <1>1, <1>3, <1>4 DEF Turns
<1>7. Gap(N, t, i) \in Int /\ Gap(N, u, i) \in Int /\ (u # i => Gap(N, u, i) <= N - 1)
  BY <1>3, <1>4 DEF Gap
<1>8. CASE t # i /\ checkedSelf' = checkedSelf
  <2> PICK r : r = IF checkedSelf THEN 0 ELSE N + 1
    OBVIOUS
  <2>1. r \in Int /\ Turns = Gap(N, t, i) + r
    BY <1>3, <1>5, <1>8
  <2>2. Turns' = (IF u = i THEN 0 ELSE Gap(N, u, i)) + r
    BY <1>6, <1>8
  <2> QED
    BY <1>4, <1>7, <1>8, <2>1, <2>2
<1>9. CASE t = i /\ ~checkedSelf /\ checkedSelf'
  <2>1. Turns = 0 + (N + 1)
    BY <1>5, <1>9
  <2>2. Turns' = (IF u = i THEN 0 ELSE Gap(N, u, i)) + 0
    BY <1>6, <1>9
  <2> QED
    BY <1>3, <1>7, <2>1, <2>2
<1> QED
  BY <1>1, <1>8, <1>9

\* Every iteration leaves less work, so the nested loops make a bounded number of
\* them whatever the settings (overlay.go:35-66).
THEOREM BuildShrinks == BuildSpec => [][Work' \in Nat /\ Work' < Work]_overlayVars
<1>1. IInv /\ IInv' /\ [BuildStep]_overlayVars => [Work' \in Nat /\ Work' < Work]_overlayVars
  <2> SUFFICES ASSUME IInv, IInv', BuildStep PROVE Work' \in Nat /\ Work' < Work
    OBVIOUS
  <2>1. (Types => Turns \in 0..2 * conf.nodes)'
    BY TurnsType, PTL
  <2>2. Turns \in 0..2 * conf.nodes /\ Turns' \in 0..2 * conf'.nodes
    BY <2>1, TurnsType DEF IInv
  <2>3. /\ conf' = conf /\ building = "busy" /\ conf.nodes \in Nat \ {0}
        /\ index \in 0..conf.nodes - 1 /\ index' \in 0..conf.nodes - 1
    BY ConfType DEF BuildStep, Connect, SkipJoined, PassSelf, NextNode, IndexPanic, IInv,
                    Types, Nodes
  <2> PICK N, i, j, r, s : /\ N = conf.nodes /\ i = index /\ j = index'
                           /\ r = Turns /\ s = Turns'
    OBVIOUS
  <2>4. N \in Nat \ {0} /\ i \in 0..N - 1 /\ j \in 0..N - 1 /\ r \in 0..2 * N /\ s \in 0..2 * N
    BY <2>2, <2>3
  <2>5. Work = (N - i) * (2 * N + 2) + r + 1 /\ Work \in Nat \ {0}
    <3>1. Work = (N - i) * (2 * N + 2) + r + 1
      BY <2>3 DEF Work
    <3>2. (N - i) * (2 * N + 2) \in Nat
      BY <2>4
    <3> QED
      BY <2>4, <3>1, <3>2
  <2>6. CASE building' # "busy"
    BY <2>5, <2>6 DEF Work
  <2>7. CASE building' = "busy"
    <3>1. Work' = (N - j) * (2 * N + 2) + s + 1
      BY <2>3, <2>7 DEF Work
    <3>2. (N - j) * (2 * N + 2) \in Nat
      BY <2>4
    <3>3. CASE j = i /\ s < r
      BY <2>4, <2>5, <3>1, <3>2, <3>3
    <3>4. CASE j = i + 1
      <4>1. (N - i) * (2 * N + 2) = (N - j) * (2 * N + 2) + (2 * N + 2)
        BY <2>4, <3>4
      <4> QED
        BY <2>4, <2>5, <3>1, <3>2, <4>1
    <3>5. (j = i /\ s < r) \/ j = i + 1
      BY <2>7, LoopShrinks DEF BuildStep, Connect, SkipJoined, PassSelf, NextNode, IndexPanic
    <3> QED
      BY <3>3, <3>4, <3>5
  <2> QED
    BY <2>6, <2>7
<1> QED
  BY <1>1, Inductive, PTL DEF BuildSpec
=============================================================================
