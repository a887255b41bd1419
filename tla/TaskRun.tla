------------------------------- MODULE TaskRun -------------------------------
(***************************************************************************)
(* What the README's process flow promises of one run: the nodes of the    *)
(* overlay get ready one by one; once all of them are, each starts its     *)
(* task; once all of them have completed it, the statistics are reported.  *)
(***************************************************************************)
CONSTANT Node    \* the nodes of the overlay

VARIABLES
  stage,         \* how far each node is
  reported       \* the statistics of the run have been printed

TypeOK ==
  /\ stage \in [Node -> {"joining", "ready", "working", "finished"}]
  /\ reported \in BOOLEAN

Init ==
  /\ stage = [n \in Node |-> "joining"]
  /\ reported = FALSE

GetReady(n) ==
  /\ stage[n] = "joining"
  /\ stage' = [stage EXCEPT ![n] = "ready"]
  /\ UNCHANGED reported

Start(n) ==
  /\ stage[n] = "ready"
  /\ \A m \in Node : stage[m] # "joining"
  /\ stage' = [stage EXCEPT ![n] = "working"]
  /\ UNCHANGED reported

Finish(n) ==
  /\ stage[n] = "working"
  /\ stage' = [stage EXCEPT ![n] = "finished"]
  /\ UNCHANGED reported

Report ==
  /\ \A n \in Node : stage[n] = "finished"
  /\ reported' = TRUE
  /\ UNCHANGED stage

Next ==
  \/ \E n \in Node : GetReady(n) \/ Start(n) \/ Finish(n)
  \/ Report

Spec == Init /\ [][Next]_<<stage, reported>>
=============================================================================
