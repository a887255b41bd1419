------------------------------ MODULE Delivery ------------------------------
(***************************************************************************)
(* What the messengers promise of a message, however many nodes relay it:  *)
(* it is issued once, and then delivered once, at its destination and      *)
(* nowhere else, or lost.                                                  *)
(***************************************************************************)
VARIABLES
  underWay,        \* the messages issued and not yet delivered or lost
  delivered,       \* receipts: a message and the node that has received it
  lost

deliveryVars == <<underWay, delivered, lost>>

Init == underWay = {} /\ delivered = {} /\ lost = {}

\* A new message.
Issue ==
  /\ \E m \in underWay' : /\ m \notin underWay \cup lost
                          /\ \A r \in delivered : r.msg # m
                          /\ underWay' = underWay \cup {m}
  /\ UNCHANGED <<delivered, lost>>

Deliver(m) ==
  /\ underWay' = underWay \ {m}
  /\ delivered' = delivered \cup {[msg |-> m, at |-> m.destination]}
  /\ UNCHANGED lost

Lose(m) ==
  /\ underWay' = underWay \ {m}
  /\ lost' = lost \cup {m}
  /\ UNCHANGED delivered

Next == Issue \/ \E m \in underWay : Deliver(m) \/ Lose(m)

Spec == Init /\ [][Next]_deliveryVars
=============================================================================
