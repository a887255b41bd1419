--------------------------- MODULE MCOverlayPaths ---------------------------
(* Instances of OverlayPaths for TLC.                                      *)
EXTENDS OverlayPaths

\* Sizes at which the overlay is a ring, complete, with an odd number of
\* connections, disconnected, or out of the index range.
Sizes == {[nodes |-> 2, conns |-> 1], [nodes |-> 2, conns |-> 6],
          [nodes |-> 3, conns |-> 1], [nodes |-> 3, conns |-> 8],
          [nodes |-> 4, conns |-> 1], [nodes |-> 4, conns |-> 2],
          [nodes |-> 4, conns |-> 4], [nodes |-> 5, conns |-> 2],
          [nodes |-> 5, conns |-> 3], [nodes |-> 6, conns |-> 2], [nodes |-> 6, conns |-> 3]}

\* Zero, ties, and detours that are cheaper than an edge.  The complete overlay
\* takes two weights, the larger ones a single weight for each edge.
SmallWeights(c, a, b) ==
  IF c.conns <= 2 /\ c.nodes <= 5 THEN {0, 1, 3}
  ELSE IF c.nodes <= 4 THEN {0, 2}
  ELSE {(a * b + a + b) % 3}

\* The configuration template's size, with weights that make a path of four
\* hops the shortest between some nodes.
TemplateSize == {[nodes |-> 6, conns |-> 4]}

DetourWeights(c, a, b) ==
  LET row(k) == CASE k = 0 -> <<34, 0, 50, 1, 41>>
                  [] k = 1 -> <<43, 13, 50, 24>>
                  [] k = 2 -> <<27, 46, 50>>
                  [] k = 3 -> <<1, 33>>
                  [] k = 4 -> <<14>>
  IN  IF a < b THEN {row(a)[b - a]} ELSE {row(b)[a - b]}
=============================================================================
