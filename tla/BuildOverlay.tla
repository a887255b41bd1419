---------------------------- MODULE BuildOverlay ----------------------------
(***************************************************************************)
(* BuildOverlay of overlay/overlay.go.  The nodes are the indices of the   *)
(* shuffled nodeList.  Each node in turn is connected to the nodes after   *)
(* its start point, which lies reqConns / 2 places behind it, until it has *)
(* reqConns connections or has met itself twice.  A step is one iteration  *)
(* of the inner loop, or its end.                                          *)
(***************************************************************************)
EXTENDS Edges, Integers, FiniteSets

CONSTANTS
  Settings,        \* the settings considered: the number of nodes and reqConns
  Weight(_, _, _)  \* what randomWeight may draw for an edge, Intn(51) in the code

ASSUME SettingsAssumption ==
  /\ Settings \subseteq [nodes : Nat \ {0}, conns : Nat]
  /\ \A c \in Settings : \A a, b \in 0..c.nodes - 1 :
       a # b => Weight(c, a, b) \subseteq 0..50

\* connections and connMap are edges: those made so far.
VARIABLES
  conf,            \* the settings of this run
  index,           \* the outer loop's node
  targetIndex,     \* where the inner loop is
  checkedSelf,     \* the inner loop has met its own node
  building         \* "busy", "built", or "panicked"

overlayVars == <<conf, index, targetIndex, checkedSelf, edges, building>>

Nodes == 0..conf.nodes - 1
FaultyJoined(a, b) ==                                         \* Joined
  \E e \in edges : e.source = a /\ e.destination = b
Joined(a, b) == \E e \in edges : Ends(e) = {a, b}
Neighbours(n) == {m \in Nodes \ {n} : Joined(m, n)}
Degree(n) == Cardinality(Neighbours(n))

\* Go's %: the result has the sign of the dividend.
GoRem(a, b) == IF a >= 0 THEN a % b ELSE -((-a) % b)

(* Faults the properties must tell from the code. *)
FaultyStartPoint(c, n) == GoRem(n - c.conns \div 2, c.nodes)  \* StartPoint
FaultyMiddlePoint(c, n) == n                                  \* StartPoint
FaultyAdvance == targetIndex' = targetIndex + 1               \* Advance
FaultySatisfied(n) ==                                         \* Satisfied
  Cardinality({e \in edges : e.source = n}) >= conf.conns

StartPoint(c, n) == GoRem(n + c.nodes - c.conns \div 2, c.nodes)

Satisfied(n) == Degree(n) >= conf.conns

BuildInit ==
  /\ conf \in Settings
  /\ index = 0
  /\ targetIndex = StartPoint(conf, 0)
  /\ checkedSelf = FALSE
  /\ edges = {}
  /\ building = "busy"

Advance == targetIndex' = GoRem(targetIndex + 1, conf.nodes)

\* makeConnection with a node this one is not joined to yet.
Connect ==
  /\ building = "busy" /\ ~Satisfied(index)
  /\ targetIndex \in Nodes \ {index}
  /\ ~Joined(index, targetIndex)
  /\ \E w \in Weight(conf, index, targetIndex) :
       edges' = edges \cup {[source |-> index, destination |-> targetIndex, weight |-> w]}
  /\ Advance
  /\ UNCHANGED <<conf, index, checkedSelf, building>>

SkipJoined ==
  /\ building = "busy" /\ ~Satisfied(index)
  /\ targetIndex \in Nodes \ {index}
  /\ Joined(index, targetIndex)
  /\ Advance
  /\ UNCHANGED <<conf, index, checkedSelf, edges, building>>

FaultyPassSelf ==                                             \* PassSelf
  /\ building = "busy" /\ ~Satisfied(index)
  /\ targetIndex = index
  /\ Advance
  /\ UNCHANGED <<conf, index, checkedSelf, edges, building>>

PassSelf ==
  /\ building = "busy" /\ ~Satisfied(index)
  /\ targetIndex = index /\ ~checkedSelf
  /\ checkedSelf' = TRUE
  /\ Advance
  /\ UNCHANGED <<conf, index, edges, building>>

FaultyNextNode ==                                             \* NextNode
  /\ building = "busy"
  /\ Satisfied(index) \/ (targetIndex = index /\ checkedSelf)
  /\ \/ /\ index + 1 < conf.nodes
        /\ index' = index + 1
        /\ targetIndex' = StartPoint(conf, index + 1)
        /\ UNCHANGED <<checkedSelf, building>>
     \/ /\ index + 1 = conf.nodes
        /\ building' = "built"
        /\ UNCHANGED <<index, targetIndex, checkedSelf>>
  /\ UNCHANGED <<conf, edges>>

\* The inner loop ends: enough connections, or none left to find.
NextNode ==
  /\ building = "busy"
  /\ Satisfied(index) \/ (targetIndex = index /\ checkedSelf)
  /\ \/ /\ index + 1 < conf.nodes
        /\ index' = index + 1
        /\ targetIndex' = StartPoint(conf, index + 1)
        /\ checkedSelf' = FALSE
        /\ UNCHANGED building
     \/ /\ index + 1 = conf.nodes
        /\ building' = "built"
        /\ UNCHANGED <<index, targetIndex, checkedSelf>>
  /\ UNCHANGED <<conf, edges>>

\* nodeList[targetIndex] with a negative index.
IndexPanic ==
  /\ building = "busy" /\ ~Satisfied(index)
  /\ targetIndex < 0
  /\ building' = "panicked"
  /\ UNCHANGED <<conf, index, targetIndex, checkedSelf, edges>>

BuildStep == Connect \/ SkipJoined \/ PassSelf \/ NextNode \/ IndexPanic

BuildSpec == BuildInit /\ [][BuildStep]_overlayVars

-----------------------------------------------------------------------------
(* Properties *)

\* Every node gets the connections asked for, or is joined to all others: the
\* inner loop does not end before it has tried every node.
AllServed ==
  building = "built" =>
    \A n \in Nodes : Satisfied(n) \/ Neighbours(n) = Nodes \ {n}

\* Nodes later in the list do not push an earlier one far beyond the connections
\* asked for: it has at most one more, and none if they are even.
DegreesFit ==
  building = "built" =>
    \A n \in Nodes :
      /\ Degree(n) <= conf.conns + 1
      /\ conf.conns % 2 = 0 => Degree(n) <= conf.conns

\* The nodes reached from S after h hops at most.
Within(S) ==
  LET reach[h \in 0..conf.nodes] ==
        IF h = 0 THEN S
        ELSE reach[h - 1] \cup UNION {Neighbours(n) : n \in reach[h - 1]}
  IN  reach[conf.nodes]

\* With two connections or more per node the overlay is connected, so every
\* node finds a path to every other.
OverlayConnected ==
  building = "built" /\ conf.conns >= 2 => Within({0}) = Nodes

\* No edge is made twice, whichever of its nodes comes first (overlay.go:54).
SimpleGraph ==
  \A d, e \in edges :
    /\ d.source # d.destination
    /\ Ends(d) = Ends(e) => d = e

\* The loop indexes nodeList out of range only for a reqConns of more than
\* twice the number of nodes.
IndexInRange ==
  building = "panicked" => conf.conns > 2 * conf.nodes + 1

\* The nested loops end.
BuildEnds == <>(building # "busy")
=============================================================================
