---------------------------- MODULE MCOverlayTask ----------------------------
(* Instances of OverlayTask for TLC.                                        *)
EXTENDS OverlayTask, TLC

CONSTANTS n1, n2, n3

Symmetry == Permutations(Node)
\* The first messenger may leave at any time; the third replaces it, when the
\* second has joined, and is connected before the task starts or not started at
\* all.  Nothing follows a crash of the registration node or the first table.
Replacement ==
  /\ up /\ ~printed
  /\ main[n3] # "off" => /\ main[n1] \in {"left", "gone"}
                         /\ main[n2] \notin {"off", "registering"}
                         /\ startSent # {} => n3 \in nodeConnections
=============================================================================
