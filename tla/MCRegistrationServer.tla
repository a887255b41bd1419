------------------------ MODULE MCRegistrationServer ------------------------
(* Instances of RegistrationServer for TLC.                                *)
EXTENDS RegistrationServer, TLC

CONSTANTS n1, n2, n3, c1, c2, c3

\* One RegisterNode call per node, as cmd/messenger makes it.
OneCallPerNode == [n \in Node |-> n]

\* Two concurrent calls that name the same node, and one of another.
TwoCallsForOneNode == [c \in {c1, c2, c3} |-> IF c = c3 THEN n2 ELSE n1]

Symmetry == Permutations(Node)
=============================================================================
