---------------------------- MODULE PriorityQueue ----------------------------
(***************************************************************************)
(* PriorityQueue of overlay/pathing.go under container/heap: a sequence of *)
(* items, each with a weight and its own index in the sequence.  Indices   *)
(* count from 1 here, from 0 in the code.                                  *)
(***************************************************************************)
EXTENDS Integers, Sequences

Less(pq, i, j) == pq[i].weight < pq[j].weight

(* Faults the properties must tell from the code. *)
FaultySwap(pq, i, j) == [pq EXCEPT ![i] = pq[j], ![j] = pq[i]]      \* Swap
FaultyFix(pq, i) == pq                                              \* Fix

Swap(pq, i, j) ==
  [pq EXCEPT ![i] = [pq[j] EXCEPT !.index = i], ![j] = [pq[i] EXCEPT !.index = j]]

\* heap.up and heap.down move the item at s.at until its parent, or both of
\* its children, are in order with it: one swap of each, or none.
Parent(i) == i \div 2

UpStep(s) ==
  IF s.at > 1 /\ Less(s.pq, s.at, Parent(s.at))
  THEN [pq |-> Swap(s.pq, s.at, Parent(s.at)), at |-> Parent(s.at)]
  ELSE s

LesserChild(pq, i) ==
  LET left == 2 * i
      right == left + 1
  IN  IF right <= Len(pq) /\ Less(pq, right, left) THEN right ELSE left

DownStep(s) ==
  LET child == LesserChild(s.pq, s.at)
  IN  IF child <= Len(s.pq) /\ Less(s.pq, child, s.at)
      THEN [pq |-> Swap(s.pq, s.at, child), at |-> child]
      ELSE s

\* A walk in a heap takes fewer steps than the heap has items.
Up(pq, i) ==
  LET walk[k \in 0..Len(pq)] == IF k = 0 THEN [pq |-> pq, at |-> i] ELSE UpStep(walk[k - 1])
  IN  walk[Len(pq)].pq

Down(pq, i) ==
  LET walk[k \in 0..Len(pq)] == IF k = 0 THEN [pq |-> pq, at |-> i] ELSE DownStep(walk[k - 1])
  IN  walk[Len(pq)].pq

\* heap.Push: the item is appended, with its index, and moved up.
Push(pq, item) ==
  LET n == Len(pq) + 1
  IN  Up(Append(pq, [item EXCEPT !.index = n]), n)

\* The queue after heap.Pop of pq[1]: the last item takes its place.
Popped(pq) ==
  LET swapped == Swap(pq, 1, Len(pq))
  IN  Down(SubSeq(swapped, 1, Len(pq) - 1), 1)

\* heap.Fix after the weight of the item at i has changed.
Fix(pq, i) == IF Down(pq, i) # pq THEN Down(pq, i) ELSE Up(pq, i)

\* update: the item is changed in place, then moved by its own index.
Update(pq, item, weight, path) ==
  LET i == CHOOSE k \in 1..Len(pq) : pq[k] = item
  IN  Fix([pq EXCEPT ![i].weight = weight, ![i].path = path], item.index)

Holds(pq, address) == \E i \in 1..Len(pq) : pq[i].address = address
ItemOf(pq, address) == pq[CHOOSE i \in 1..Len(pq) : pq[i].address = address]
=============================================================================
