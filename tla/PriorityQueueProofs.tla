------------------------- MODULE PriorityQueueProofs -------------------------
(***************************************************************************)
(* Lemmas about PriorityQueue for every heap: Push, Popped and Update keep *)
(* the order of the heap, give each item its index, and hold what they     *)
(* should as a map from addresses.  The walks of heap.up and heap.down are *)
(* followed step by step: both end before they run out of steps, in a      *)
(* heap.                                                                   *)
(***************************************************************************)
EXTENDS PriorityQueue, RecursionLemmas

Items(A, P) == [address : A, weight : Nat, path : P, index : Nat]

\* A queue of items of different addresses, each with its own index.
WellFormed(A, P, pq) ==
  /\ pq \in Seq(Items(A, P))
  /\ \A i \in 1..Len(pq) : pq[i].index = i
  /\ \A i, j \in 1..Len(pq) : pq[i].address = pq[j].address => i = j

Heap(pq) == \A j \in 2..Len(pq) : pq[Parent(j)].weight <= pq[j].weight

\* The queue has what the map M has, and nothing else.
Represents(pq, M) ==
  /\ \A i \in 1..Len(pq) :
       /\ pq[i].address \in DOMAIN M
       /\ M[pq[i].address] = [weight |-> pq[i].weight, path |-> pq[i].path]
  /\ \A a \in DOMAIN M : \E i \in 1..Len(pq) : pq[i].address = a

LEMMA ParentFacts ==
  ASSUME NEW j \in Nat \ {0}
  PROVE  /\ Parent(j) \in Nat /\ Parent(j) < j
         /\ j > 1 => Parent(j) \in Nat \ {0}
         /\ \A i \in Nat : Parent(j) = i <=> j = 2 * i \/ j = 2 * i + 1
<1> DEFINE p == j \div 2
<1>1. p \in Int /\ j = 2 * p + (j % 2) /\ j % 2 \in 0..1
  OBVIOUS
<1> HIDE DEF p
<1>2. p \in Nat /\ p < j /\ (j > 1 => p # 0)
  BY <1>1
<1>3. \A i \in Nat : p = i <=> j = 2 * i \/ j = 2 * i + 1
  BY <1>1
<1> QED
  BY <1>2, <1>3 DEF Parent, p

LEMMA ItemFacts ==
  ASSUME NEW A, NEW P, NEW x, x \in Items(A, P), NEW k, k \in Nat
  PROVE  LET y == [x EXCEPT !.index = k]
         IN  /\ y \in Items(A, P) /\ y.index = k /\ y.address = x.address
             /\ y.weight = x.weight /\ y.path = x.path
             /\ x.address \in A /\ x.weight \in Nat /\ x.path \in P
BY DEF Items

Wrote(f, i, j, x, y) == [f EXCEPT ![i] = y, ![j] = x]

Rewritten(S, f, g, i, j, x, y) ==
  /\ g \in Seq(S) /\ Len(g) = Len(f)
  /\ g[j] = x /\ (i # j => g[i] = y)
  /\ \A k \in 1..Len(f) : k # i /\ k # j => g[k] = f[k]

LEMMA TwoWrites ==
  ASSUME NEW S, NEW f, f \in Seq(S), NEW i, i \in 1..Len(f), NEW j, j \in 1..Len(f),
         NEW x, x \in S, NEW y, y \in S
  PROVE  Rewritten(S, f, Wrote(f, i, j, x, y), i, j, x, y)
<1> PICK g : g = [f EXCEPT ![i] = y, ![j] = x] /\ g = Wrote(f, i, j, x, y)
  BY DEF Wrote
<1> PICK r : r = [f EXCEPT ![i] = y]
  OBVIOUS
<1>1. r \in Seq(S) /\ Len(r) = Len(f)
  OBVIOUS
<1>2. r[i] = y /\ \A k \in 1..Len(f) : k # i => r[k] = f[k]
  OBVIOUS
<1>3. g = [r EXCEPT ![j] = x]
  OBVIOUS
<1>4. g \in Seq(S) /\ Len(g) = Len(r)
  BY <1>1, <1>3
<1>5. g[j] = x /\ \A k \in 1..Len(r) : k # j => g[k] = r[k]
  BY <1>1, <1>3
<1> QED
  BY <1>1, <1>2, <1>4, <1>5 DEF Rewritten

\* q is pq with the items at i and j exchanged.
Exchanged(A, P, pq, q, i, j) ==
  /\ WellFormed(A, P, q) /\ Len(q) = Len(pq)
  /\ q[i].weight = pq[j].weight /\ q[j].weight = pq[i].weight
  /\ q[i].address = pq[j].address /\ q[j].address = pq[i].address
  /\ q[i].path = pq[j].path /\ q[j].path = pq[i].path
  /\ \A k \in 1..Len(pq) : k # i /\ k # j => q[k] = pq[k]

LEMMA SwapIs ==
  ASSUME NEW A, NEW P, NEW pq, WellFormed(A, P, pq),
         NEW i, i \in 1..Len(pq), NEW j, j \in 1..Len(pq)
  PROVE  Exchanged(A, P, pq, Swap(pq, i, j), i, j)
<1> PICK x, y, q : /\ x = [pq[i] EXCEPT !.index = j] /\ y = [pq[j] EXCEPT !.index = i]
                   /\ q = Swap(pq, i, j)
  OBVIOUS
<1>1. pq \in Seq(Items(A, P)) /\ Len(pq) \in Nat
  BY DEF WellFormed
<1>2. pq[i] \in Items(A, P) /\ pq[j] \in Items(A, P) /\ i \in Nat /\ j \in Nat
  BY <1>1
<1>3. /\ x \in Items(A, P) /\ x.index = j /\ x.address = pq[i].address
      /\ x.weight = pq[i].weight /\ x.path = pq[i].path
      /\ y \in Items(A, P) /\ y.index = i /\ y.address = pq[j].address
      /\ y.weight = pq[j].weight /\ y.path = pq[j].path
  BY <1>2, ItemFacts
<1>4. q = Wrote(pq, i, j, x, y)
  BY DEF Swap, Wrote
<1>5. /\ q \in Seq(Items(A, P)) /\ Len(q) = Len(pq)
      /\ q[j] = x /\ (i # j => q[i] = y)
      /\ \A k \in 1..Len(pq) : k # i /\ k # j => q[k] = pq[k]
  <2> PICK S : S = Items(A, P)
    OBVIOUS
  <2>1. pq \in Seq(S) /\ x \in S /\ y \in S
    BY <1>1, <1>3
  <2>2. Rewritten(S, pq, Wrote(pq, i, j, x, y), i, j, x, y)
    BY <2>1, TwoWrites
  <2>3. Rewritten(S, pq, q, i, j, x, y)
    BY <1>4, <2>2
  <2> QED
    BY <2>3 DEF Rewritten
<1>6. /\ q[i].weight = pq[j].weight /\ q[j].weight = pq[i].weight
      /\ q[i].address = pq[j].address /\ q[j].address = pq[i].address
      /\ q[i].path = pq[j].path /\ q[j].path = pq[i].path
      /\ q[i].index = i /\ q[j].index = j
  BY <1>3, <1>5
<1>7. \A k \in 1..Len(q) : q[k].index = k
  BY <1>5, <1>6 DEF WellFormed
<1>8. ASSUME NEW k \in 1..Len(q), NEW l \in 1..Len(q), q[k].address = q[l].address
      PROVE  k = l
  <2> PICK k0, l0 : /\ k0 = (IF k = i THEN j ELSE IF k = j THEN i ELSE k)
                    /\ l0 = (IF l = i THEN j ELSE IF l = j THEN i ELSE l)
    OBVIOUS
  <2>1. /\ k0 \in 1..Len(pq) /\ q[k].address = pq[k0].address
        /\ l0 \in 1..Len(pq) /\ q[l].address = pq[l0].address
    BY <1>5, <1>6
  <2>2. k0 = l0
    BY <1>8, <2>1 DEF WellFormed
  <2> QED
    BY <2>2
<1> QED
  BY <1>5, <1>6, <1>7, <1>8 DEF Exchanged, WellFormed

\* Exchanging items does not change what the queue holds.
LEMMA SwapHolds ==
  ASSUME NEW A, NEW P, NEW pq, NEW q, NEW i, i \in 1..Len(pq), NEW j, j \in 1..Len(pq),
         Exchanged(A, P, pq, q, i, j), NEW M, Represents(pq, M)
  PROVE  Represents(q, M)
<1>1. /\ Len(q) = Len(pq)
      /\ q[i].weight = pq[j].weight /\ q[j].weight = pq[i].weight
      /\ q[i].address = pq[j].address /\ q[j].address = pq[i].address
      /\ q[i].path = pq[j].path /\ q[j].path = pq[i].path
      /\ \A k \in 1..Len(pq) : k # i /\ k # j => q[k] = pq[k]
  BY DEF Exchanged
<1>2. ASSUME NEW k \in 1..Len(q)
      PROVE  /\ q[k].address \in DOMAIN M
             /\ M[q[k].address] = [weight |-> q[k].weight, path |-> q[k].path]
  <2>1. PICK l \in 1..Len(pq) : /\ q[k].address = pq[l].address
                                /\ q[k].weight = pq[l].weight /\ q[k].path = pq[l].path
    BY <1>1
  <2> QED
    BY <2>1 DEF Represents
<1>3. ASSUME NEW a \in DOMAIN M
      PROVE  \E k \in 1..Len(q) : q[k].address = a
  <2>1. PICK l \in 1..Len(pq) : pq[l].address = a
    BY DEF Represents
  <2> QED
    BY <1>1, <2>1
<1> QED
  BY <1>2, <1>3 DEF Represents

-----------------------------------------------------------------------------
(* The walk up *)

LEMMA WeightFacts ==
  ASSUME NEW A, NEW P, NEW pq, WellFormed(A, P, pq)
  PROVE  Len(pq) \in Nat /\ \A i \in 1..Len(pq) : pq[i].weight \in Nat
<1>1. pq \in Seq(Items(A, P))
  BY DEF WellFormed
<1>2. ASSUME NEW i \in 1..Len(pq)
      PROVE  pq[i].weight \in Nat
  <2>1. pq[i] \in Items(A, P)
    BY <1>1
  <2> QED
    BY <2>1 DEF Items
<1> QED
  BY <1>1, <1>2

\* A queue of L items with the contents of M, in order but for the item at s.at,
\* which may be too light; the items below it are not too light for its parent.
UpState(A, P, M, L, s) ==
  /\ s \in [pq : Seq(Items(A, P)), at : 1..L]
  /\ WellFormed(A, P, s.pq) /\ Len(s.pq) = L /\ Represents(s.pq, M)
  /\ \A j \in 2..L : j # s.at => s.pq[Parent(j)].weight <= s.pq[j].weight
  /\ \A j \in 2..L : Parent(j) = s.at /\ s.at > 1 =>
       s.pq[Parent(s.at)].weight <= s.pq[j].weight

\* t is s or the item nearer to the root; where the walk stops there is a heap.
UpProgress(A, P, M, L, s, t) ==
  /\ UpState(A, P, M, L, t)
  /\ t = s \/ t.at < s.at
  /\ t = s => Heap(s.pq)

LEMMA UpStepIs ==
  ASSUME NEW A, NEW P, NEW M, NEW L, L \in Nat, NEW s, UpState(A, P, M, L, s)
  PROVE  UpProgress(A, P, M, L, s, UpStep(s))
<1> PICK pq, at, p : pq = s.pq /\ at = s.at /\ p = Parent(s.at)
  OBVIOUS
<1>1. /\ at \in 1..L /\ pq \in Seq(Items(A, P)) /\ s = [pq |-> pq, at |-> at]
      /\ WellFormed(A, P, pq) /\ Len(pq) = L /\ Represents(pq, M)
  BY DEF UpState
<1>2. /\ \A j \in 2..L : j # at => pq[Parent(j)].weight <= pq[j].weight
      /\ \A j \in 2..L : Parent(j) = at /\ at > 1 => pq[p].weight <= pq[j].weight
  BY DEF UpState
<1>3. \A i \in 1..L : pq[i].weight \in Nat
  BY <1>1, WeightFacts
<1>4. \A j \in 2..L : Parent(j) \in 1..L /\ Parent(j) < j
  <2> SUFFICES ASSUME NEW j \in 2..L
               PROVE  Parent(j) \in 1..L /\ Parent(j) < j
    OBVIOUS
  <2>1. j \in Nat \ {0} /\ j > 1
    OBVIOUS
  <2> QED
    BY <2>1, ParentFacts
<1>5. CASE at > 1 /\ Less(pq, at, p)
  <2>1. at \in 2..L /\ p \in 1..L /\ p < at /\ p = Parent(at)
    BY <1>1, <1>4, <1>5
  <2> PICK q : q = Swap(pq, at, p)
    OBVIOUS
  <2> PICK t : t = [pq |-> q, at |-> p]
    OBVIOUS
  <2>2. UpStep(s) = t
    BY <1>1, <1>5 DEF UpStep
  <2>3. Exchanged(A, P, pq, q, at, p)
    BY <1>1, <2>1, SwapIs
  <2>4. Represents(q, M)
    BY <1>1, <2>1, <2>3, SwapHolds
  <2>5. /\ WellFormed(A, P, q) /\ Len(q) = L /\ q \in Seq(Items(A, P))
        /\ q[at].weight = pq[p].weight /\ q[p].weight = pq[at].weight
        /\ \A k \in 1..L : k # at /\ k # p => q[k].weight = pq[k].weight
    BY <1>1, <2>3 DEF Exchanged, WellFormed
  <2>6. pq[at].weight < pq[p].weight /\ pq[at].weight \in Nat /\ pq[p].weight \in Nat
    BY <1>1, <1>3, <1>5, <2>1 DEF Less
  <2>7. ASSUME NEW j \in 2..L, j # p
        PROVE  q[Parent(j)].weight <= q[j].weight
    <3> PICK pj : pj = Parent(j)
      OBVIOUS
    <3>1. pj \in 1..L /\ pj < j /\ j \in 1..L /\ pq[j].weight \in Nat /\ pq[pj].weight \in Nat
      BY <1>3, <1>4
    <3>2. CASE j = at
      BY <2>1, <2>5, <2>6, <3>2
    <3>3. CASE j # at /\ pj = at
      <4>1. pq[p].weight <= pq[j].weight
        BY <1>2, <1>5, <3>3
      <4>2. q[at].weight = pq[p].weight /\ q[j].weight = pq[j].weight
        BY <2>5, <2>7, <3>1, <3>3
      <4> QED
        BY <3>3, <4>1, <4>2
    <3>4. CASE j # at /\ pj = p
      <4>1. pq[p].weight <= pq[j].weight
        BY <1>2, <3>4
      <4> QED
        BY <2>5, <2>6, <2>7, <3>1, <3>4, <4>1
    <3>5. CASE j # at /\ pj # at /\ pj # p
      BY <1>2, <2>5, <2>7, <3>1, <3>5
    <3> QED
      BY <3>2, <3>3, <3>4, <3>5
  <2>8. ASSUME NEW j \in 2..L, Parent(j) = p, p > 1
        PROVE  q[Parent(p)].weight <= q[j].weight
    <3> PICK g : g = Parent(p)
      OBVIOUS
    <3>1. /\ p \in 2..L /\ g \in 1..L /\ g < p /\ pq[g].weight \in Nat
          /\ pq[g].weight <= pq[p].weight
      BY <1>2, <1>3, <1>4, <2>1, <2>8
    <3>2. q[g].weight = pq[g].weight
      BY <2>1, <2>5, <3>1
    <3>3. CASE j = at
      BY <2>5, <3>1, <3>2, <3>3
    <3>4. CASE j # at
      <4>1. j # p /\ pq[p].weight <= pq[j].weight /\ pq[j].weight \in Nat /\ j \in 1..L
        BY <1>2, <1>3, <1>4, <2>8, <3>4
      <4> QED
        BY <2>5, <2>6, <3>1, <3>2, <3>4, <4>1
    <3> QED
      BY <3>3, <3>4
  <2>9. t.pq = q /\ t.at = p /\ t \in [pq : Seq(Items(A, P)), at : 1..L]
    BY <2>1, <2>5
  <2>10. UpState(A, P, M, L, t)
    BY <2>4, <2>5, <2>7, <2>8, <2>9 DEF UpState
  <2>11. t.at < s.at /\ t # s
    BY <2>1, <2>9, <1>1
  <2> QED
    BY <2>2, <2>10, <2>11 DEF UpProgress
<1>6. CASE ~(at > 1 /\ Less(pq, at, p))
  <2>1. UpStep(s) = s
    BY <1>6 DEF UpStep
  <2>2. ASSUME NEW j \in 2..L
        PROVE  pq[Parent(j)].weight <= pq[j].weight
    <3>1. CASE j # at
      BY <1>2, <3>1
    <3>2. CASE j = at
      BY <1>3, <1>4, <1>6, <3>2 DEF Less
    <3> QED
      BY <3>1, <3>2
  <2>3. Heap(s.pq)
    BY <1>1, <2>2 DEF Heap
  <2> QED
    BY <2>1, <2>3 DEF UpProgress
<1> QED
  BY <1>5, <1>6

-----------------------------------------------------------------------------
(* The walk down *)

\* A queue of L items with the contents of M, in order but for the item at s.at,
\* which may be too heavy; the items below it are not too light for its parent.
DownState(A, P, M, L, s) ==
  /\ s \in [pq : Seq(Items(A, P)), at : 1..L]
  /\ WellFormed(A, P, s.pq) /\ Len(s.pq) = L /\ Represents(s.pq, M)
  /\ \A j \in 2..L : Parent(j) # s.at => s.pq[Parent(j)].weight <= s.pq[j].weight
  /\ \A j \in 2..L : Parent(j) = s.at /\ s.at > 1 =>
       s.pq[Parent(s.at)].weight <= s.pq[j].weight

\* t is s or the item farther from the root; where the walk stops there is a heap.
DownProgress(A, P, M, L, s, t) ==
  /\ DownState(A, P, M, L, t)
  /\ t = s \/ t.at > s.at
  /\ t = s => Heap(s.pq)

LEMMA DownStepIs ==
  ASSUME NEW A, NEW P, NEW M, NEW L, L \in Nat, NEW s, DownState(A, P, M, L, s)
  PROVE  DownProgress(A, P, M, L, s, DownStep(s))
<1> PICK pq, at, child : pq = s.pq /\ at = s.at /\ child = LesserChild(s.pq, s.at)
  OBVIOUS
<1>1. /\ at \in 1..L /\ pq \in Seq(Items(A, P)) /\ s = [pq |-> pq, at |-> at]
      /\ WellFormed(A, P, pq) /\ Len(pq) = L /\ Represents(pq, M)
  BY DEF DownState
<1>2. /\ \A j \in 2..L : Parent(j) # at => pq[Parent(j)].weight <= pq[j].weight
      /\ \A j \in 2..L : Parent(j) = at /\ at > 1 => pq[Parent(at)].weight <= pq[j].weight
  BY DEF DownState
<1>3. \A i \in 1..L : pq[i].weight \in Nat
  BY <1>1, WeightFacts
<1>4. \A j \in 2..L : /\ Parent(j) \in 1..L /\ Parent(j) < j
                      /\ Parent(j) = at <=> j = 2 * at \/ j = 2 * at + 1
  <2> SUFFICES ASSUME NEW j \in 2..L
               PROVE  /\ Parent(j) \in 1..L /\ Parent(j) < j
                      /\ Parent(j) = at <=> j = 2 * at \/ j = 2 * at + 1
    OBVIOUS
  <2>1. j \in Nat \ {0} /\ j > 1 /\ at \in Nat
    BY <1>1
  <2> QED
    BY <2>1, ParentFacts
<1>5. /\ child = 2 * at \/ child = 2 * at + 1
      /\ child <= L => /\ child \in 2..L /\ Parent(child) = at /\ at < child
                       /\ \A j \in 2..L : Parent(j) = at => pq[child].weight <= pq[j].weight
      /\ child > L => \A j \in 2..L : Parent(j) # at
  <2>1. child = IF 2 * at + 1 <= L /\ pq[2 * at + 1].weight < pq[2 * at].weight
                THEN 2 * at + 1 ELSE 2 * at
    BY <1>1 DEF LesserChild, Less
  <2>2. child <= L => child \in 2..L /\ at < child /\ Parent(child) = at
    BY <1>1, <1>4, <2>1
  <2>3. ASSUME child <= L, NEW j \in 2..L, Parent(j) = at
        PROVE  pq[child].weight <= pq[j].weight
    <3>1. j = 2 * at \/ j = 2 * at + 1
      BY <1>4, <2>3
    <3>2. pq[j].weight \in Nat /\ pq[child].weight \in Nat /\ child \in 1..L /\ at \in Nat
      BY <1>1, <1>3, <2>2, <2>3
    <3>3. CASE child = j
      BY <3>2, <3>3
    <3>4. CASE child = 2 * at + 1 /\ j = 2 * at
      BY <2>1, <3>2, <3>4
    <3>5. CASE child = 2 * at /\ j = 2 * at + 1
      BY <2>1, <3>2, <3>5, <1>3
    <3> QED
      BY <2>1, <3>1, <3>3, <3>4, <3>5
  <2>4. child > L => \A j \in 2..L : Parent(j) # at
    BY <1>1, <1>4, <2>1
  <2> QED
    BY <2>1, <2>2, <2>3, <2>4
<1>6. CASE child <= L /\ Less(pq, child, at)
  <2>1. child \in 2..L /\ child \in 1..L /\ at < child /\ Parent(child) = at
    BY <1>5, <1>6
  <2> PICK q : q = Swap(pq, at, child)
    OBVIOUS
  <2> PICK t : t = [pq |-> q, at |-> child]
    OBVIOUS
  <2>2. DownStep(s) = t
    BY <1>1, <1>6 DEF DownStep
  <2>3. Exchanged(A, P, pq, q, at, child)
    BY <1>1, <2>1, SwapIs
  <2>4. Represents(q, M)
    BY <1>1, <2>1, <2>3, SwapHolds
  <2>5. /\ WellFormed(A, P, q) /\ Len(q) = L /\ q \in Seq(Items(A, P))
        /\ q[at].weight = pq[child].weight /\ q[child].weight = pq[at].weight
        /\ \A k \in 1..L : k # at /\ k # child => q[k].weight = pq[k].weight
    BY <1>1, <2>3 DEF Exchanged, WellFormed
  <2>6. pq[child].weight < pq[at].weight /\ pq[at].weight \in Nat /\ pq[child].weight \in Nat
    BY <1>1, <1>3, <1>6, <2>1 DEF Less
  <2>7. ASSUME NEW j \in 2..L, Parent(j) # child
        PROVE  q[Parent(j)].weight <= q[j].weight
    <3> PICK pj : pj = Parent(j)
      OBVIOUS
    <3>1. pj \in 1..L /\ pj < j /\ j \in 1..L /\ pq[j].weight \in Nat /\ pq[pj].weight \in Nat
      BY <1>3, <1>4
    <3>2. CASE j = child
      BY <2>1, <2>5, <2>6, <3>2
    <3>3. CASE j # child /\ pj = at
      <4>1. pq[child].weight <= pq[j].weight
        BY <1>5, <1>6, <3>3
      <4>2. q[at].weight = pq[child].weight /\ q[j].weight = pq[j].weight
        BY <2>5, <3>1, <3>3
      <4> QED
        BY <3>3, <4>1, <4>2
    <3>4. CASE j = at
      <4>1. pq[pj].weight <= pq[child].weight
        BY <1>2, <2>1, <3>1, <3>4
      <4>2. q[pj].weight = pq[pj].weight /\ q[j].weight = pq[child].weight
        BY <2>1, <2>5, <3>1, <3>4
      <4> QED
        BY <4>1, <4>2
    <3>5. CASE j # child /\ j # at /\ pj # at
      <4>1. pq[pj].weight <= pq[j].weight
        BY <1>2, <3>5
      <4>2. q[pj].weight = pq[pj].weight /\ q[j].weight = pq[j].weight
        BY <2>5, <2>7, <3>1, <3>5
      <4> QED
        BY <4>1, <4>2
    <3> QED
      BY <3>2, <3>3, <3>4, <3>5
  <2>8. ASSUME NEW j \in 2..L, Parent(j) = child
        PROVE  q[at].weight <= q[j].weight
    <3>1. child < j /\ j \in 1..L
      BY <1>4, <2>8
    <3>2. pq[child].weight <= pq[j].weight
      BY <1>2, <2>1, <2>8
    <3>3. q[at].weight = pq[child].weight /\ q[j].weight = pq[j].weight
      BY <1>1, <2>1, <2>5, <3>1
    <3> QED
      BY <3>2, <3>3
  <2>9. t.pq = q /\ t.at = child /\ t \in [pq : Seq(Items(A, P)), at : 1..L]
    BY <2>1, <2>5
  <2>10. DownState(A, P, M, L, t)
    BY <2>1, <2>4, <2>5, <2>7, <2>8, <2>9 DEF DownState
  <2>11. t.at > s.at /\ t # s
    BY <2>1, <2>9, <1>1
  <2> QED
    BY <2>2, <2>10, <2>11 DEF DownProgress
<1>7. CASE ~(child <= L /\ Less(pq, child, at))
  <2>1. DownStep(s) = s
    BY <1>1, <1>7 DEF DownStep
  <2>2. ASSUME NEW j \in 2..L
        PROVE  pq[Parent(j)].weight <= pq[j].weight
    <3>1. CASE Parent(j) # at
      BY <1>2, <3>1
    <3>2. CASE Parent(j) = at
      <4>1. child \in Nat /\ at \in Nat
        BY <1>1, <1>5
      <4>2. child <= L /\ child \in 1..L
        BY <1>5, <3>2, <4>1
      <4>3. ~(pq[child].weight < pq[at].weight) /\ pq[child].weight <= pq[j].weight
        BY <1>5, <1>7, <3>2, <4>2 DEF Less
      <4>4. pq[child].weight \in Nat /\ pq[at].weight \in Nat /\ pq[j].weight \in Nat
        BY <1>1, <1>3, <4>2
      <4> QED
        BY <3>2, <4>3, <4>4
    <3> QED
      BY <3>1, <3>2
  <2>3. Heap(s.pq)
    BY <1>1, <2>2 DEF Heap
  <2> QED
    BY <2>1, <2>3 DEF DownProgress
<1> QED
  BY <1>6, <1>7
-----------------------------------------------------------------------------
(* Where the walks end *)

\* A heap of L items with the contents of M.
HeapOf(A, P, M, L, pq) ==
  WellFormed(A, P, pq) /\ Len(pq) = L /\ Represents(pq, M) /\ Heap(pq)

\* The walks from the item at i of pq.
UpFrom(A, P, M, pq, i) == UpState(A, P, M, Len(pq), [pq |-> pq, at |-> i])
DownFrom(A, P, M, pq, i) == DownState(A, P, M, Len(pq), [pq |-> pq, at |-> i])

LEMMA UpIs ==
  ASSUME NEW A, NEW P, NEW M, NEW pq, NEW i, UpFrom(A, P, M, pq, i)
  PROVE  HeapOf(A, P, M, Len(pq), Up(pq, i))
<1> DEFINE L == Len(pq)
           a == [pq |-> pq, at |-> i]
           X == {s \in [pq : Seq(Items(A, P)), at : 1..L] : UpState(A, P, M, L, s)}
           g == [s \in X |-> UpStep(s)]
           walk == CHOOSE f : f = [k \in 0..L |-> IF k = 0 THEN a ELSE UpStep(f[k - 1])]
<1>1. Up(pq, i) = walk[L].pq
  BY DEF Up
<1>2. a \in X /\ L \in Nat /\ i \in 1..L
  BY DEF UpFrom, UpState
<1>3. \A s : s \in X <=> UpState(A, P, M, L, s)
  BY DEF UpState
<1>4. \A s \in X : g[s] = UpStep(s)
  OBVIOUS
<1> HIDE DEF walk, X, L, a
<1>5. \A s \in X : /\ UpStep(s) \in X
                   /\ UpStep(s) = s \/ UpStep(s).at < s.at
                   /\ UpStep(s) = s => Heap(s.pq)
  <2> SUFFICES ASSUME NEW s \in X
               PROVE  UpProgress(A, P, M, L, s, UpStep(s))
    BY <1>3 DEF UpProgress
  <2> QED
    BY <1>2, <1>3, UpStepIs
<1>6. g \in [X -> X]
  BY <1>5
<1> HIDE DEF g
<1>7. PICK F \in [0..L -> X] : F[0] = a /\ \A k \in 1..L : F[k] = g[F[k - 1]]
  <2>1. PICK Y, b, h, K : Y = X /\ b = a /\ h = g /\ K = L
    OBVIOUS
  <2>2. K \in Nat /\ b \in Y /\ h \in [Y -> Y]
    BY <1>2, <1>6, <2>1
  <2>3. \E F : Iterates(F, Y, b, h, K)
    BY <2>2, IterateExists
  <2> QED
    BY <2>1, <2>3 DEF Iterates
<1>8. F = [k \in 0..L |-> IF k = 0 THEN a ELSE UpStep(F[k - 1])]
  <2>1. \A k \in 0..L : F[k] = IF k = 0 THEN a ELSE UpStep(F[k - 1])
    <3> SUFFICES ASSUME NEW k \in 0..L, k # 0
                 PROVE  F[k] = UpStep(F[k - 1])
      BY <1>7
    <3>1. k \in 1..L /\ k - 1 \in 0..L
      BY <1>2
    <3> QED
      BY <1>4, <1>7, <3>1
  <2> QED
    BY <2>1
<1>9. walk = [k \in 0..L |-> IF k = 0 THEN a ELSE UpStep(walk[k - 1])]
  BY <1>8 DEF walk
<1>10. walk[0] = a /\ \A k \in 0..L - 1 : walk[k + 1] = UpStep(walk[k])
  <2>1. 0 \in 0..L /\ \A k \in 0..L - 1 : k + 1 \in 0..L /\ k + 1 # 0 /\ (k + 1) - 1 = k
    BY <1>2
  <2> HIDE DEF walk
  <2> QED
    BY <1>9, <2>1
<1> DEFINE T == {k \in Nat : /\ walk[k] \in X
                            /\ (walk[k].at <= i - k \/ UpStep(walk[k]) = walk[k])}
<1>11. 0 \in T
  BY <1>2, <1>10 DEF a
<1>12. ASSUME NEW k \in 0..L - 1, k \in T
       PROVE  k + 1 \in T
  <2>0. PICK s, t : s = walk[k] /\ t = walk[k + 1]
    OBVIOUS
  <2>1. t = UpStep(s) /\ s \in X /\ (s.at <= i - k \/ t = s) /\ k \in Nat
    BY <1>10, <1>12, <2>0
  <2>2. t \in X /\ s.at \in 1..L /\ t.at \in 1..L
    BY <1>3, <1>5, <2>1 DEF UpState
  <2>3. t.at <= i - (k + 1) \/ UpStep(t) = t
    BY <1>2, <1>5, <2>1, <2>2
  <2>4. k + 1 \in Nat /\ t = walk[k + 1]
    BY <2>0, <2>1
  <2> QED
    BY <2>2, <2>3, <2>4
<1>13. L \in T
  <2> HIDE DEF T, walk
  <2>1. \A k \in 0..L : k \in T
    BY <1>2, <1>11, <1>12, UpTo
  <2> QED
    BY <1>2, <2>1
<1>14. walk[L] \in X /\ UpStep(walk[L]) = walk[L]
  <2>1. walk[L].at \in 1..L
    BY <1>3, <1>13 DEF UpState
  <2> QED
    BY <1>2, <1>13, <2>1
<1>15. HeapOf(A, P, M, L, walk[L].pq)
  <2> HIDE DEF T, walk
  <2>1. UpState(A, P, M, L, walk[L]) /\ Heap(walk[L].pq)
    BY <1>3, <1>5, <1>14
  <2> QED
    BY <2>1 DEF HeapOf, UpState
<1> QED
  BY <1>1, <1>15 DEF L

LEMMA DownIs ==
  ASSUME NEW A, NEW P, NEW M, NEW pq, NEW i, DownFrom(A, P, M, pq, i)
  PROVE  HeapOf(A, P, M, Len(pq), Down(pq, i))
<1> DEFINE L == Len(pq)
           a == [pq |-> pq, at |-> i]
           X == {s \in [pq : Seq(Items(A, P)), at : 1..L] : DownState(A, P, M, L, s)}
           g == [s \in X |-> DownStep(s)]
           walk == CHOOSE f : f = [k \in 0..L |-> IF k = 0 THEN a ELSE DownStep(f[k - 1])]
<1>1. Down(pq, i) = walk[L].pq
  BY DEF Down
<1>2. a \in X /\ L \in Nat /\ i \in 1..L
  BY DEF DownFrom, DownState
<1>3. \A s : s \in X <=> DownState(A, P, M, L, s)
  BY DEF DownState
<1>4. \A s \in X : g[s] = DownStep(s)
  OBVIOUS
<1> HIDE DEF walk, X, L, a
<1>5. \A s \in X : /\ DownStep(s) \in X
                   /\ DownStep(s) = s \/ DownStep(s).at > s.at
                   /\ DownStep(s) = s => Heap(s.pq)
  <2> SUFFICES ASSUME NEW s \in X
               PROVE  DownProgress(A, P, M, L, s, DownStep(s))
    BY <1>3 DEF DownProgress
  <2> QED
    BY <1>2, <1>3, DownStepIs
<1>6. g \in [X -> X]
  BY <1>5
<1> HIDE DEF g
<1>7. PICK F \in [0..L -> X] : F[0] = a /\ \A k \in 1..L : F[k] = g[F[k - 1]]
  <2>1. PICK Y, b, h, K : Y = X /\ b = a /\ h = g /\ K = L
    OBVIOUS
  <2>2. K \in Nat /\ b \in Y /\ h \in [Y -> Y]
    BY <1>2, <1>6, <2>1
  <2>3. \E F : Iterates(F, Y, b, h, K)
    BY <2>2, IterateExists
  <2> QED
    BY <2>1, <2>3 DEF Iterates
<1>8. F = [k \in 0..L |-> IF k = 0 THEN a ELSE DownStep(F[k - 1])]
  <2>1. \A k \in 0..L : F[k] = IF k = 0 THEN a ELSE DownStep(F[k - 1])
    <3> SUFFICES ASSUME NEW k \in 0..L, k # 0
                 PROVE  F[k] = DownStep(F[k - 1])
      BY <1>7
    <3>1. k \in 1..L /\ k - 1 \in 0..L
      BY <1>2
    <3> QED
      BY <1>4, <1>7, <3>1
  <2> QED
    BY <2>1
<1>9. walk = [k \in 0..L |-> IF k = 0 THEN a ELSE DownStep(walk[k - 1])]
  BY <1>8 DEF walk
<1>10. walk[0] = a /\ \A k \in 0..L - 1 : walk[k + 1] = DownStep(walk[k])
  <2>1. 0 \in 0..L /\ \A k \in 0..L - 1 : k + 1 \in 0..L /\ k + 1 # 0 /\ (k + 1) - 1 = k
    BY <1>2
  <2> HIDE DEF walk
  <2> QED
    BY <1>9, <2>1
<1> DEFINE T == {k \in Nat : /\ walk[k] \in X
                            /\ (walk[k].at >= i + k \/ DownStep(walk[k]) = walk[k])}
<1>11. 0 \in T
  BY <1>2, <1>10 DEF a
<1>12. ASSUME NEW k \in 0..L - 1, k \in T
       PROVE  k + 1 \in T
  <2>0. PICK s, t : s = walk[k] /\ t = walk[k + 1]
    OBVIOUS
  <2>1. t = DownStep(s) /\ s \in X /\ (s.at >= i + k \/ t = s) /\ k \in Nat
    BY <1>10, <1>12, <2>0
  <2>2. t \in X /\ s.at \in 1..L /\ t.at \in 1..L
    BY <1>3, <1>5, <2>1 DEF DownState
  <2>3. t.at >= i + (k + 1) \/ DownStep(t) = t
    BY <1>2, <1>5, <2>1, <2>2
  <2>4. k + 1 \in Nat /\ t = walk[k + 1]
    BY <2>0, <2>1
  <2> QED
    BY <2>2, <2>3, <2>4
<1>13. L \in T
  <2> HIDE DEF T, walk
  <2>1. \A k \in 0..L : k \in T
    BY <1>2, <1>11, <1>12, UpTo
  <2> QED
    BY <1>2, <2>1
<1>14. walk[L] \in X /\ DownStep(walk[L]) = walk[L]
  <2>1. walk[L].at \in 1..L
    BY <1>3, <1>13 DEF DownState
  <2> QED
    BY <1>2, <1>13, <2>1
<1>15. HeapOf(A, P, M, L, walk[L].pq)
  <2> HIDE DEF T, walk
  <2>1. DownState(A, P, M, L, walk[L]) /\ Heap(walk[L].pq)
    BY <1>3, <1>5, <1>14
  <2> QED
    BY <2>1 DEF HeapOf, DownState
<1> QED
  BY <1>1, <1>15 DEF L

-----------------------------------------------------------------------------
(* The operations *)

\* N is M with this weight and path at a.
Put(M, N, a, w, path) ==
  /\ DOMAIN N = DOMAIN M \cup {a} /\ N[a] = [weight |-> w, path |-> path]
  /\ \A b \in DOMAIN M : b # a => N[b] = M[b]

\* N is M without a.
Removed(M, N, a) ==
  DOMAIN N = DOMAIN M \ {a} /\ \A b \in DOMAIN N : N[b] = M[b]

LEMMA ParentInside ==
  ASSUME NEW L, L \in Nat, NEW j, j \in 2..L
  PROVE  Parent(j) \in 1..L /\ Parent(j) < j
<1>1. j \in Nat \ {0} /\ j > 1
  OBVIOUS
<1> QED
  BY <1>1, ParentFacts

\* The root of a heap has the least weight.
LEMMA RootIsLeast ==
  ASSUME NEW A, NEW P, NEW pq, WellFormed(A, P, pq), Heap(pq), NEW i, i \in 1..Len(pq)
  PROVE  pq[1].weight <= pq[i].weight
<1> PICK L : L = Len(pq)
  OBVIOUS
<1>1. L \in Nat /\ \A j \in 1..L : pq[j].weight \in Nat
  BY WeightFacts
<1> DEFINE T == {k \in Nat : \A j \in 1..L : j <= k => pq[1].weight <= pq[j].weight}
<1>2. 0 \in T
  OBVIOUS
<1>3. ASSUME NEW k \in 0..L - 1, k \in T
      PROVE  k + 1 \in T
  <2> SUFFICES ASSUME NEW j \in 1..L, j = k + 1
               PROVE  pq[1].weight <= pq[j].weight
    <3>1. k + 1 \in Nat /\ \A j \in 1..L : j <= k + 1 => j <= k \/ j = k + 1
      BY <1>1
    <3> QED
      BY <1>3, <3>1
  <2>1. CASE j = 1
    BY <1>1, <2>1
  <2>2. CASE j # 1
    <3>1. j \in 2..L /\ L \in Nat
      BY <1>1, <2>2
    <3>2. Parent(j) \in 1..L /\ Parent(j) <= k
      BY <1>1, <3>1, ParentInside
    <3>3. pq[Parent(j)].weight <= pq[j].weight
      BY <3>1 DEF Heap
    <3>4. pq[1].weight <= pq[Parent(j)].weight
      BY <1>3, <3>2
    <3>5. pq[1].weight \in Nat /\ pq[j].weight \in Nat /\ pq[Parent(j)].weight \in Nat
      BY <1>1, <3>1, <3>2
    <3> QED
      BY <3>3, <3>4, <3>5
  <2> QED
    BY <2>1, <2>2
<1>4. L \in T
  <2> HIDE DEF T
  <2>1. \A k \in 0..L : k \in T
    BY <1>1, <1>2, <1>3, UpTo
  <2> QED
    BY <1>1, <2>1
<1> QED
  BY <1>1, <1>4

\* heap.Push of an item with a new address (pathing.go:68).
LEMMA PushIs ==
  ASSUME NEW A, NEW P, NEW pq, WellFormed(A, P, pq), Heap(pq),
         NEW M, Represents(pq, M), NEW item, item \in Items(A, P), item.address \notin DOMAIN M,
         NEW N, Put(M, N, item.address, item.weight, item.path)
  PROVE  HeapOf(A, P, N, Len(pq) + 1, Push(pq, item))
<1> PICK L, n, x, q : /\ L = Len(pq) /\ n = Len(pq) + 1 /\ x = [item EXCEPT !.index = n]
                      /\ q = Append(pq, x)
  OBVIOUS
<1>1. pq \in Seq(Items(A, P)) /\ L \in Nat /\ n \in Nat /\ n = L + 1
  BY DEF WellFormed
<1>2. /\ x \in Items(A, P) /\ x.index = n /\ x.address = item.address
      /\ x.weight = item.weight /\ x.path = item.path
  BY <1>1, ItemFacts
<1>3. /\ q \in Seq(Items(A, P)) /\ Len(q) = n /\ q[n] = x
      /\ \A k \in 1..L : q[k] = pq[k]
  BY <1>1, <1>2
<1>4. \A k \in 1..n : k = n \/ k \in 1..L
  BY <1>1
<1>5. \A k \in 1..L : pq[k].address \in DOMAIN M
  BY DEF Represents
<1>6. \A k \in 1..n : q[k].index = k
  BY <1>2, <1>3, <1>4 DEF WellFormed
<1>7. \A k, l \in 1..n : q[k].address = q[l].address => k = l
  <2> SUFFICES ASSUME NEW k \in 1..n, NEW l \in 1..n, q[k].address = q[l].address
               PROVE  k = l
    OBVIOUS
  <2>1. CASE k \in 1..L /\ l \in 1..L
    BY <1>3, <2>1 DEF WellFormed
  <2>2. CASE k = n
    BY <1>2, <1>3, <1>4, <1>5, <2>2
  <2>3. CASE l = n
    BY <1>2, <1>3, <1>4, <1>5, <2>3
  <2> QED
    BY <1>4, <2>1, <2>2, <2>3
<1>8. WellFormed(A, P, q)
  BY <1>3, <1>6, <1>7 DEF WellFormed
<1>9. Represents(q, N)
  <2>1. ASSUME NEW k \in 1..n
        PROVE  /\ q[k].address \in DOMAIN N
               /\ N[q[k].address] = [weight |-> q[k].weight, path |-> q[k].path]
    <3>1. CASE k \in 1..L
      BY <1>3, <1>5, <3>1 DEF Put, Represents
    <3>2. CASE k = n
      BY <1>2, <1>3, <3>2 DEF Put
    <3> QED
      BY <1>4, <3>1, <3>2
  <2>2. ASSUME NEW a \in DOMAIN N
        PROVE  \E k \in 1..n : q[k].address = a
    <3>1. CASE a = item.address
      BY <1>1, <1>2, <1>3, <3>1
    <3>2. CASE a \in DOMAIN M
      <4>1. PICK k \in 1..L : pq[k].address = a
        BY <3>2 DEF Represents
      <4> QED
        BY <1>1, <1>3, <4>1
    <3> QED
      BY <3>1, <3>2 DEF Put
  <2> QED
    BY <1>3, <2>1, <2>2 DEF Represents
<1>10. ASSUME NEW j \in 2..n
       PROVE  /\ j # n => q[Parent(j)].weight <= q[j].weight
              /\ Parent(j) # n
  <2>1. Parent(j) \in 1..n /\ Parent(j) < j
    BY <1>1, ParentInside
  <2>2. ASSUME j # n
        PROVE  q[Parent(j)].weight <= q[j].weight
    <3>1. j \in 2..L
      BY <1>1, <2>2
    <3>2. Parent(j) \in 1..L
      BY <1>1, <3>1, ParentInside
    <3>3. q[Parent(j)] = pq[Parent(j)] /\ q[j] = pq[j]
      BY <1>1, <1>3, <3>1, <3>2
    <3> QED
      BY <3>1, <3>3 DEF Heap
  <2> QED
    BY <1>1, <2>1, <2>2
<1>11. UpFrom(A, P, N, q, n)
  <2> PICK s : s = [pq |-> q, at |-> n]
    OBVIOUS
  <2>1. s.pq = q /\ s.at = n /\ s \in [pq : Seq(Items(A, P)), at : 1..n]
    BY <1>1, <1>3
  <2>2. UpState(A, P, N, n, s)
    BY <1>3, <1>8, <1>9, <1>10, <2>1 DEF UpState
  <2> QED
    BY <1>3, <2>2 DEF UpFrom
<1>12. HeapOf(A, P, N, Len(q), Up(q, n))
  BY <1>11, UpIs
<1> QED
  BY <1>3, <1>12 DEF Push

DownStuck(pq, i) == DownStep([pq |-> pq, at |-> i]) = [pq |-> pq, at |-> i]

\* The walk down does not start if the item is in order with its children.
LEMMA DownStays ==
  ASSUME NEW pq, NEW i, Len(pq) \in Nat, DownStuck(pq, i)
  PROVE  Down(pq, i) = pq
<1> DEFINE L == Len(pq)
           a == [pq |-> pq, at |-> i]
           walk == CHOOSE f : f = [k \in 0..L |-> IF k = 0 THEN a ELSE DownStep(f[k - 1])]
<1>1. Down(pq, i) = walk[L].pq
  BY DEF Down
<1>2. DownStep(a) = a /\ L \in Nat /\ a.pq = pq
  BY DEF DownStuck
<1> HIDE DEF walk, a, L
<1> DEFINE F == [k \in 0..L |-> a]
<1>3. F = [k \in 0..L |-> IF k = 0 THEN a ELSE DownStep(F[k - 1])]
  <2>1. \A k \in 0..L : a = IF k = 0 THEN a ELSE DownStep(F[k - 1])
    <3> SUFFICES ASSUME NEW k \in 0..L, k # 0
                 PROVE  a = DownStep(F[k - 1])
      OBVIOUS
    <3>1. k - 1 \in 0..L
      BY <1>2
    <3>2. F[k - 1] = a
      BY <3>1
    <3> QED
      BY <1>2, <3>2
  <2> QED
    BY <2>1
<1> HIDE DEF F
<1>4. walk = [k \in 0..L |-> IF k = 0 THEN a ELSE DownStep(walk[k - 1])]
  BY <1>3 DEF walk
<1>5. walk[0] = a /\ \A k \in 0..L - 1 : walk[k + 1] = DownStep(walk[k])
  <2>1. 0 \in 0..L /\ \A k \in 0..L - 1 : k + 1 \in 0..L /\ k + 1 # 0 /\ (k + 1) - 1 = k
    BY <1>2
  <2> QED
    BY <1>4, <2>1
<1> DEFINE T == {k \in Nat : walk[k] = a}
<1>6. 0 \in T /\ \A k \in 0..L - 1 : k \in T => k + 1 \in T
  BY <1>2, <1>5
<1> HIDE DEF T
<1>7. \A k \in 0..L : k \in T
  BY <1>2, <1>6, UpTo
<1>8. walk[L] = a
  BY <1>2, <1>7 DEF T
<1> QED
  BY <1>1, <1>2, <1>8

\* update to a smaller weight (pathing.go:79): heap.Fix moves the item up.
LEMMA UpdateIs ==
  ASSUME NEW A, NEW P, NEW pq, WellFormed(A, P, pq), Heap(pq),
         NEW M, Represents(pq, M), NEW i, i \in 1..Len(pq),
         NEW w, w \in Nat, w < pq[i].weight, NEW path, path \in P,
         NEW N, Put(M, N, pq[i].address, w, path)
  PROVE  HeapOf(A, P, N, Len(pq), Update(pq, pq[i], w, path))
<1> PICK L, x, q : /\ L = Len(pq) /\ x = [[pq[i] EXCEPT !.weight = w] EXCEPT !.path = path]
                   /\ q = [pq EXCEPT ![i].weight = w, ![i].path = path]
  OBVIOUS
<1>1. pq \in Seq(Items(A, P)) /\ L \in Nat /\ i \in 1..L /\ pq[i] \in Items(A, P)
  BY DEF WellFormed
<1>2. pq[i].index = i /\ \A k \in 1..L : pq[k] = pq[i] => k = i
  BY DEF WellFormed
<1>3. Update(pq, pq[i], w, path) = Fix(q, i)
  <2> DEFINE k == CHOOSE l \in 1..Len(pq) : pq[l] = pq[i]
  <2>1. k = i
    BY <1>1, <1>2
  <2>2. Update(pq, pq[i], w, path)
        = Fix([pq EXCEPT ![k].weight = w, ![k].path = path], pq[i].index)
    BY DEF Update
  <2> HIDE DEF k
  <2> QED
    BY <1>2, <2>1, <2>2
<1>4. /\ x \in Items(A, P) /\ x.index = i /\ x.address = pq[i].address
      /\ x.weight = w /\ x.path = path
  BY <1>1, <1>2 DEF Items
<1>5. q = [pq EXCEPT ![i] = x]
  BY <1>1
<1>6. /\ q \in Seq(Items(A, P)) /\ Len(q) = L /\ q[i] = x
      /\ \A k \in 1..L : k # i => q[k] = pq[k]
  <2> PICK S : S = Items(A, P)
    OBVIOUS
  <2>1. pq \in Seq(S) /\ x \in S /\ i \in 1..Len(pq)
    BY <1>1, <1>4
  <2>2. Wrote(pq, i, i, x, x) = [pq EXCEPT ![i] = x]
    BY <2>1 DEF Wrote
  <2>3. Rewritten(S, pq, Wrote(pq, i, i, x, x), i, i, x, x)
    BY <2>1, TwoWrites
  <2>4. Rewritten(S, pq, q, i, i, x, x)
    BY <1>5, <2>2, <2>3
  <2> QED
    BY <2>4 DEF Rewritten
<1>7. WellFormed(A, P, q)
  <2>1. \A k \in 1..L : q[k].index = k /\ q[k].address = pq[k].address
    BY <1>1, <1>4, <1>6 DEF WellFormed
  <2> QED
    BY <1>1, <1>6, <2>1 DEF WellFormed
<1>8. Represents(q, N)
  <2>1. ASSUME NEW k \in 1..L
        PROVE  /\ q[k].address \in DOMAIN N
               /\ N[q[k].address] = [weight |-> q[k].weight, path |-> q[k].path]
    <3>1. CASE k # i
      <4>1. pq[k].address # pq[i].address
        BY <1>1, <3>1 DEF WellFormed
      <4> QED
        BY <1>6, <3>1, <4>1 DEF Put, Represents
    <3>2. CASE k = i
      BY <1>4, <1>6, <3>2 DEF Put
    <3> QED
      BY <3>1, <3>2
  <2>2. ASSUME NEW a \in DOMAIN N
        PROVE  \E k \in 1..L : q[k].address = a
    <3>1. CASE a = pq[i].address
      BY <1>1, <1>4, <1>6, <3>1
    <3>2. CASE a # pq[i].address
      <4>1. PICK k \in 1..L : pq[k].address = a
        BY <3>2 DEF Put, Represents
      <4> QED
        BY <1>6, <3>2, <4>1
    <3> QED
      BY <3>1, <3>2
  <2> QED
    BY <1>6, <2>1, <2>2 DEF Represents
<1>9. /\ \A k \in 1..L : pq[k].weight \in Nat /\ q[k].weight \in Nat
      /\ \A k \in 1..L : k # i => q[k].weight = pq[k].weight
      /\ q[i].weight < pq[i].weight
  BY <1>1, <1>4, <1>6, WeightFacts
<1>10. \A j \in 2..L : /\ Parent(j) \in 1..L /\ Parent(j) < j /\ j \in 1..L
                       /\ pq[Parent(j)].weight <= pq[j].weight
  BY <1>1, ParentInside DEF Heap
<1>11. DownStuck(q, i)
  <2> PICK s, child : s = [pq |-> q, at |-> i] /\ child = LesserChild(q, i)
    OBVIOUS
  <2>1. s.pq = q /\ s.at = i
    OBVIOUS
  <2>2. child = 2 * i \/ child = 2 * i + 1
    BY DEF LesserChild
  <2>3. CASE child <= L
    <3>1. child \in 2..L /\ child # i /\ child \in Nat \ {0} /\ i \in Nat
      BY <1>1, <2>2, <2>3
    <3>2. Parent(child) = i
      BY <2>2, <3>1, ParentFacts
    <3>3. pq[i].weight <= pq[child].weight /\ child \in 1..L
      BY <1>10, <3>1, <3>2
    <3>4. ~(q[child].weight < q[i].weight)
      BY <1>1, <1>9, <3>1, <3>3
    <3> QED
      BY <2>1, <3>4 DEF DownStep, Less, DownStuck
  <2>4. CASE ~(child <= L)
    BY <1>6, <2>1, <2>4 DEF DownStep, DownStuck
  <2> QED
    BY <2>3, <2>4
<1>12. Fix(q, i) = Up(q, i)
  <2>1. Down(q, i) = q
    BY <1>1, <1>6, <1>11, DownStays
  <2> QED
    BY <2>1 DEF Fix
<1>13. \A j \in 2..L : j # i => q[Parent(j)].weight <= q[j].weight
  <2> SUFFICES ASSUME NEW j \in 2..L, j # i
               PROVE  q[Parent(j)].weight <= q[j].weight
    OBVIOUS
  <2> PICK p : p = Parent(j)
    OBVIOUS
  <2>1. /\ p \in 1..L /\ j \in 1..L /\ pq[p].weight <= pq[j].weight
        /\ q[j].weight = pq[j].weight /\ q[p].weight <= pq[p].weight
    BY <1>9, <1>10
  <2> QED
    BY <1>9, <2>1
<1>14. \A j \in 2..L : Parent(j) = i /\ i > 1 => q[Parent(i)].weight <= q[j].weight
  <2> SUFFICES ASSUME NEW j \in 2..L, Parent(j) = i, i > 1
               PROVE  q[Parent(i)].weight <= q[j].weight
    OBVIOUS
  <2> PICK p : p = Parent(i)
    OBVIOUS
  <2>1. i \in 2..L
    BY <1>1
  <2>2. /\ p \in 1..L /\ p < i /\ pq[p].weight <= pq[i].weight
        /\ i < j /\ j \in 1..L /\ pq[i].weight <= pq[j].weight
    BY <1>10, <2>1
  <2>3. q[p].weight = pq[p].weight /\ q[j].weight = pq[j].weight
    BY <1>1, <1>9, <2>2
  <2> QED
    BY <1>1, <1>9, <2>2, <2>3
<1>15. UpFrom(A, P, N, q, i)
  <2> PICK s : s = [pq |-> q, at |-> i]
    OBVIOUS
  <2>1. s.pq = q /\ s.at = i /\ s \in [pq : Seq(Items(A, P)), at : 1..L]
    BY <1>1, <1>6
  <2>2. UpState(A, P, N, L, s)
    BY <1>6, <1>7, <1>8, <1>13, <1>14, <2>1 DEF UpState
  <2> QED
    BY <1>6, <2>2 DEF UpFrom
<1>16. HeapOf(A, P, N, Len(q), Up(q, i))
  BY <1>15, UpIs
<1> QED
  BY <1>3, <1>6, <1>12, <1>16

\* q is the first m items of r.
Prefix(A, P, r, q, m) ==
  WellFormed(A, P, q) /\ Len(q) = m /\ \A k \in 1..m : q[k] = r[k]

LEMMA PrefixIs ==
  ASSUME NEW A, NEW P, NEW r, WellFormed(A, P, r), NEW m, m \in Nat, m <= Len(r)
  PROVE  Prefix(A, P, r, SubSeq(r, 1, m), m)
<1> PICK q, L, S : q = SubSeq(r, 1, m) /\ L = Len(r) /\ S = Items(A, P)
  OBVIOUS
<1>1. r \in Seq(S) /\ L \in Nat /\ \A k \in 1..m : k \in 1..L
  BY DEF WellFormed
<1>2. /\ \A k \in 1..L : r[k].index = k
      /\ \A k, l \in 1..L : r[k].address = r[l].address => k = l
  BY DEF WellFormed
<1>3. q \in Seq(S) /\ Len(q) = m /\ \A k \in 1..m : q[k] = r[k]
  BY <1>1
<1>4. \A k \in 1..m : q[k].index = k
  BY <1>1, <1>2, <1>3
<1>5. ASSUME NEW k \in 1..m, NEW l \in 1..m, q[k].address = q[l].address
      PROVE  k = l
  BY <1>1, <1>2, <1>3, <1>5
<1>6. WellFormed(A, P, q)
  BY <1>3, <1>4, <1>5 DEF WellFormed
<1> QED
  BY <1>3, <1>6 DEF Prefix

\* The queue after heap.Pop (pathing.go:40).
LEMMA PoppedIs ==
  ASSUME NEW A, NEW P, NEW pq, WellFormed(A, P, pq), Heap(pq), pq # <<>>,
         NEW M, Represents(pq, M), NEW N, Removed(M, N, pq[1].address)
  PROVE  HeapOf(A, P, N, Len(pq) - 1, Popped(pq))
<1>0. PICK L, m, r, q : /\ L = Len(pq) /\ m = L - 1
                        /\ r = Swap(pq, 1, L) /\ q = SubSeq(r, 1, m)
  OBVIOUS
<1>1. /\ pq \in Seq(Items(A, P)) /\ L = Len(pq) /\ L \in Nat /\ L > 0
      /\ m \in Nat /\ L = m + 1 /\ m = L - 1
  BY <1>0 DEF WellFormed
<1>2. 1 \in 1..Len(pq) /\ L \in 1..Len(pq)
  BY <1>1
<1>3. Exchanged(A, P, pq, r, 1, L)
  BY <1>0, <1>2, SwapIs
<1>4. Represents(r, M)
  BY <1>1, <1>2, <1>3, SwapHolds
<1>5. /\ r \in Seq(Items(A, P)) /\ Len(r) = L /\ r[L].address = pq[1].address
      /\ \A k \in 1..L : k # 1 /\ k # L => r[k] = pq[k]
      /\ \A k \in 1..L : r[k].index = k
      /\ \A k, l \in 1..L : r[k].address = r[l].address => k = l
  BY <1>1, <1>3 DEF Exchanged, WellFormed
<1>6. /\ WellFormed(A, P, q) /\ Len(q) = m /\ \A k \in 1..m : q[k] = r[k]
      /\ q \in Seq(Items(A, P))
  <2>1. WellFormed(A, P, r) /\ m \in Nat /\ m <= Len(r)
    <3>1. WellFormed(A, P, r)
      BY <1>3 DEF Exchanged
    <3> QED
      BY <1>1, <1>5, <3>1
  <2>2. Prefix(A, P, r, q, m)
    BY <1>0, <2>1, PrefixIs
  <2> QED
    BY <2>2 DEF Prefix, WellFormed
<1>7. \A k \in 1..m : k \in 1..L /\ k # L
  BY <1>1
<1>8. Represents(q, N)
  <2>1. ASSUME NEW k \in 1..m
        PROVE  /\ q[k].address \in DOMAIN N
               /\ N[q[k].address] = [weight |-> q[k].weight, path |-> q[k].path]
    <3>0. k \in 1..L /\ k # L /\ L \in 1..L
      BY <1>1, <1>7
    <3>1. k \in 1..L /\ r[k].address # pq[1].address /\ q[k] = r[k]
      BY <1>5, <1>6, <3>0
    <3>2. /\ r[k].address \in DOMAIN M
          /\ M[r[k].address] = [weight |-> r[k].weight, path |-> r[k].path]
      BY <1>4, <1>5, <3>1 DEF Represents
    <3> QED
      BY <3>1, <3>2 DEF Removed
  <2>2. ASSUME NEW a \in DOMAIN N
        PROVE  \E k \in 1..m : q[k].address = a
    <3>1. a \in DOMAIN M /\ a # pq[1].address
      BY DEF Removed
    <3>2. PICK k \in 1..L : r[k].address = a
      BY <1>4, <1>5, <3>1 DEF Represents
    <3>3. k \in 1..m
      BY <1>1, <1>5, <3>1, <3>2
    <3> QED
      BY <1>6, <3>2, <3>3
  <2> QED
    BY <1>6, <2>1, <2>2 DEF Represents
<1>10. CASE L = 1
  <2>1. Len(q) = 0 /\ q = <<>>
    BY <1>1, <1>6, <1>10
  <2>2. DownStuck(q, 1)
    <3> PICK s : s = [pq |-> q, at |-> 1]
      OBVIOUS
    <3>1. s.pq = q /\ s.at = 1 /\ LesserChild(q, 1) > 0
      BY DEF LesserChild
    <3>2. ~(LesserChild(q, 1) <= Len(q))
      BY <2>1 DEF LesserChild
    <3> QED
      BY <3>1, <3>2 DEF DownStep, DownStuck
  <2>3. Down(q, 1) = q
    BY <2>1, <2>2, DownStays
  <2>4. Heap(q)
    BY <2>1 DEF Heap
  <2> QED
    BY <1>0, <1>6, <1>8, <2>3, <2>4 DEF Popped, HeapOf
<1>11. CASE L # 1
  <2>1. \A j \in 2..m : Parent(j) # 1 => q[Parent(j)].weight <= q[j].weight
    <3> SUFFICES ASSUME NEW j \in 2..m, Parent(j) # 1
                 PROVE  q[Parent(j)].weight <= q[j].weight
      OBVIOUS
    <3>1. j \in 2..L
      BY <1>1
    <3>2. Parent(j) \in 1..L /\ Parent(j) < j
      BY <1>1, <3>1, ParentInside
    <3>3. pq[Parent(j)].weight <= pq[j].weight
      BY <1>1, <3>1 DEF Heap
    <3>4. Parent(j) \in 1..m /\ Parent(j) # L /\ j \in 1..m /\ j \in 1..L /\ j # L /\ j # 1
      BY <1>1, <3>2
    <3>5. q[Parent(j)] = pq[Parent(j)] /\ q[j] = pq[j]
      BY <1>5, <1>6, <3>2, <3>4
    <3> QED
      BY <3>3, <3>5
  <2>2. DownFrom(A, P, N, q, 1)
    <3> PICK s : s = [pq |-> q, at |-> 1]
      OBVIOUS
    <3>1. s.pq = q /\ s.at = 1 /\ s \in [pq : Seq(Items(A, P)), at : 1..m]
      BY <1>1, <1>6, <1>11
    <3>2. DownState(A, P, N, m, s)
      BY <1>6, <1>8, <2>1, <3>1 DEF DownState
    <3> QED
      BY <1>6, <3>2 DEF DownFrom
  <2>3. HeapOf(A, P, N, Len(q), Down(q, 1))
    BY <2>2, DownIs
  <2> QED
    BY <1>0, <1>6, <2>3 DEF Popped
<1> QED
  BY <1>10, <1>11

-----------------------------------------------------------------------------
(* What a queue holds *)

Contents(pq) ==
  [a \in {pq[i].address : i \in 1..Len(pq)} |->
     [weight |-> ItemOf(pq, a).weight, path |-> ItemOf(pq, a).path]]

LEMMA ItemOfIs ==
  ASSUME NEW A, NEW P, NEW pq, WellFormed(A, P, pq), NEW i, i \in 1..Len(pq)
  PROVE  ItemOf(pq, pq[i].address) = pq[i] /\ Holds(pq, pq[i].address)
<1> DEFINE k == CHOOSE l \in 1..Len(pq) : pq[l].address = pq[i].address
<1>1. k \in 1..Len(pq) /\ pq[k].address = pq[i].address
  OBVIOUS
<1>2. ItemOf(pq, pq[i].address) = pq[k]
  BY DEF ItemOf
<1> HIDE DEF k
<1>3. k = i
  BY <1>1 DEF WellFormed
<1> QED
  BY <1>2, <1>3 DEF Holds

LEMMA ContentsIs ==
  ASSUME NEW A, NEW P, NEW pq, WellFormed(A, P, pq)
  PROVE  Represents(pq, Contents(pq))
<1> PICK M, D : M = Contents(pq) /\ D = {pq[i].address : i \in 1..Len(pq)}
  OBVIOUS
<1>1. DOMAIN M = D
  BY DEF Contents
<1>2. ASSUME NEW i \in 1..Len(pq)
      PROVE  /\ pq[i].address \in DOMAIN M
             /\ M[pq[i].address] = [weight |-> pq[i].weight, path |-> pq[i].path]
  <2>1. pq[i].address \in D
    OBVIOUS
  <2>2. ItemOf(pq, pq[i].address) = pq[i]
    BY ItemOfIs
  <2>3. M[pq[i].address] = [weight |-> ItemOf(pq, pq[i].address).weight,
                            path |-> ItemOf(pq, pq[i].address).path]
    BY <2>1 DEF Contents
  <2> QED
    BY <1>1, <2>1, <2>2, <2>3
<1>3. \A a \in DOMAIN M : \E i \in 1..Len(pq) : pq[i].address = a
  BY <1>1
<1>4. Represents(pq, M)
  BY <1>2, <1>3 DEF Represents
<1> QED
  BY <1>4

Same(M, N) == DOMAIN M = DOMAIN N /\ \A a \in DOMAIN M : M[a] = N[a]

\* A queue represents one map.
LEMMA ContentsOnly ==
  ASSUME NEW pq, NEW M, Represents(pq, M), NEW N, Represents(pq, N)
  PROVE  Same(M, N)
<1>1. \A i \in 1..Len(pq) : /\ pq[i].address \in DOMAIN M /\ pq[i].address \in DOMAIN N
                           /\ M[pq[i].address] = N[pq[i].address]
  <2> SUFFICES ASSUME NEW i \in 1..Len(pq)
               PROVE  /\ pq[i].address \in DOMAIN M /\ pq[i].address \in DOMAIN N
                      /\ M[pq[i].address] = N[pq[i].address]
    OBVIOUS
  <2>1. /\ pq[i].address \in DOMAIN M
        /\ M[pq[i].address] = [weight |-> pq[i].weight, path |-> pq[i].path]
    BY DEF Represents
  <2>2. /\ pq[i].address \in DOMAIN N
        /\ N[pq[i].address] = [weight |-> pq[i].weight, path |-> pq[i].path]
    BY DEF Represents
  <2> QED
    BY <2>1, <2>2
<1>2. /\ \A a \in DOMAIN M : \E i \in 1..Len(pq) : pq[i].address = a
      /\ \A a \in DOMAIN N : \E i \in 1..Len(pq) : pq[i].address = a
  BY DEF Represents
<1>3. \A a \in DOMAIN M : a \in DOMAIN N /\ M[a] = N[a]
  BY <1>1, <1>2
<1>4. \A a \in DOMAIN N : a \in DOMAIN M
  BY <1>1, <1>2
<1> QED
  BY <1>3, <1>4 DEF Same

\* What the items of a queue are made of.
LEMMA ContentsType ==
  ASSUME NEW A, NEW P, NEW pq, WellFormed(A, P, pq)
  PROVE  \A a \in DOMAIN Contents(pq) :
           /\ a \in A
           /\ Contents(pq)[a].weight \in Nat /\ Contents(pq)[a].path \in P
<1> SUFFICES ASSUME NEW a \in DOMAIN Contents(pq)
             PROVE  /\ a \in A
                    /\ Contents(pq)[a].weight \in Nat /\ Contents(pq)[a].path \in P
  OBVIOUS
<1> PICK M : M = Contents(pq)
  OBVIOUS
<1>1. Represents(pq, M)
  BY ContentsIs
<1>2. PICK i \in 1..Len(pq) : pq[i].address = a
  BY <1>1 DEF Represents
<1>3. M[a] = [weight |-> pq[i].weight, path |-> pq[i].path]
  BY <1>1, <1>2 DEF Represents
<1>4. pq[i] \in Items(A, P)
  BY DEF WellFormed
<1> QED
  BY <1>2, <1>3, <1>4 DEF Items
=============================================================================
