------------------------- MODULE OverlayPathsProofs -------------------------
(***************************************************************************)
(* Theorems about OverlayPaths for every setting and every weight: the     *)
(* heap implements the queue of UniformCostSearch, and so the search pops  *)
(* true distances, its first hops approach the destination, and a path of  *)
(* at most three hops is a shortest one, on every overlay that             *)
(* BuildOverlay can make.                                                  *)
(***************************************************************************)
EXTENDS OverlayPaths, BuildOverlayProofs, PriorityQueueProofs

S == INSTANCE UniformCostSearchProofs WITH unvisited <- Unvisited, nodes <- Nodes

-----------------------------------------------------------------------------
(* The range over the edges of the popped item *)

\* A heap that is fit for the operations of the queue.
Fit(A, P, pq) == WellFormed(A, P, pq) /\ Heap(pq)

\* What an offer of weight w to m does to what the queue holds.
OfferDoes(M, N, m, w, path) ==
  \/ /\ m \in DOMAIN M => M[m].weight > w
     /\ Put(M, N, m, w, path)
  \/ m \in DOMAIN M /\ M[m].weight <= w /\ Same(M, N)

\* An edge of the popped item (pathing.go:55-82).
LEMMA OfferIs ==
  ASSUME NEW A, NEW P, NEW pq, Fit(A, P, pq),
         NEW m, m \in A, NEW w, w \in Nat, NEW path, path \in P
  PROVE  /\ Fit(A, P, Offer(pq, m, w, path))
         /\ OfferDoes(Contents(pq), Contents(Offer(pq, m, w, path)), m, w, path)
<1> PICK M, q, L : M = Contents(pq) /\ q = Offer(pq, m, w, path) /\ L = Len(pq)
  OBVIOUS
<1>1. WellFormed(A, P, pq) /\ Heap(pq) /\ Represents(pq, M)
  BY ContentsIs DEF Fit
<1> DEFINE N == [b \in DOMAIN M \cup {m} |->
                   IF b = m THEN [weight |-> w, path |-> path] ELSE M[b]]
<1>2. Put(M, N, m, w, path)
  BY DEF Put
<1> HIDE DEF N
<1>3. ASSUME NEW K, HeapOf(A, P, N, K, q)
      PROVE  Fit(A, P, q) /\ Put(M, Contents(q), m, w, path)
  <2>1. WellFormed(A, P, q) /\ Heap(q) /\ Represents(q, N)
    BY <1>3 DEF HeapOf
  <2>2. Represents(q, Contents(q))
    BY <2>1, ContentsIs
  <2>3. Same(N, Contents(q))
    BY <2>1, <2>2, ContentsOnly
  <2>4. Put(M, Contents(q), m, w, path)
    BY <1>2, <2>3 DEF Put, Same
  <2> QED
    BY <2>1, <2>4 DEF Fit
<1>4. CASE m \notin DOMAIN M
  <2> PICK item : item = Item(m, w, path)
    OBVIOUS
  <2>1. /\ item \in Items(A, P) /\ item.address = m /\ item.weight = w /\ item.path = path
    BY DEF Item, Items
  <2>2. ~Holds(pq, m)
    BY <1>1, <1>4 DEF Holds, Represents
  <2>3. q = Push(pq, item)
    BY <2>2 DEF Offer
  <2>4. HeapOf(A, P, N, L + 1, Push(pq, item))
    BY <1>1, <1>2, <1>4, <2>1, PushIs
  <2> QED
    BY <1>3, <1>4, <2>3, <2>4 DEF OfferDoes
<1>5. CASE m \in DOMAIN M
  <2>1. PICK i \in 1..Len(pq) : pq[i].address = m
    BY <1>1, <1>5 DEF Represents
  <2>2. /\ Holds(pq, m) /\ ItemOf(pq, m) = pq[i] /\ M[m].weight = pq[i].weight
    <3>1. M[pq[i].address] = [weight |-> pq[i].weight, path |-> pq[i].path]
      BY <1>1 DEF Represents
    <3>2. Holds(pq, pq[i].address) /\ ItemOf(pq, pq[i].address) = pq[i]
      BY <1>1, ItemOfIs
    <3> QED
      BY <2>1, <3>1, <3>2
  <2>3. pq[i].weight \in Nat
    BY <1>1, WeightFacts
  <2>4. CASE pq[i].weight > w
    <3>1. q = Update(pq, pq[i], w, path)
      BY <2>2, <2>4 DEF Offer, U!Cheaper
    <3>2. w < pq[i].weight /\ Put(M, N, pq[i].address, w, path)
      BY <1>2, <2>1, <2>3, <2>4
    <3>3. HeapOf(A, P, N, L, Update(pq, pq[i], w, path))
      BY <1>1, <3>2, UpdateIs
    <3> QED
      BY <1>3, <2>2, <2>4, <3>1, <3>3 DEF OfferDoes
  <2>5. CASE ~(pq[i].weight > w)
    <3>1. q = pq /\ M[m].weight <= w
      BY <2>2, <2>3, <2>5 DEF Offer, U!Cheaper
    <3>2. Same(M, Contents(q))
      BY <3>1 DEF Same
    <3> QED
      BY <1>5, <3>1, <3>2 DEF OfferDoes
  <2> QED
    BY <2>4, <2>5
<1> QED
  BY <1>4, <1>5

\* The queue after the edges to t[1], ..., t[k], offered with the weights c.
RangedTo(M, N, k, t, c, path) ==
  /\ DOMAIN N = DOMAIN M \cup {t[j] : j \in 1..k}
  /\ \A j \in 1..k :
       /\ t[j] \in DOMAIN M => \/ M[t[j]].weight > c[j]
                               \/ M[t[j]].weight <= c[j] /\ N[t[j]] = M[t[j]]
       /\ (t[j] \in DOMAIN M => M[t[j]].weight > c[j]) =>
            N[t[j]] = [weight |-> c[j], path |-> path]
  /\ \A m \in DOMAIN M : (\A j \in 1..k : t[j] # m) => N[m] = M[m]

LEMMA RangedNext ==
  ASSUME NEW M, NEW N, NEW O, NEW K, K \in Nat, NEW k, k \in 0..K - 1, NEW t, NEW c, NEW path,
         \A i, j \in 1..K : t[i] = t[j] => i = j,
         \A j \in 1..K : c[j] \in Nat,
         \A m \in DOMAIN M : M[m].weight \in Nat,
         RangedTo(M, N, k, t, c, path),
         OfferDoes(N, O, t[k + 1], c[k + 1], path)
  PROVE  RangedTo(M, O, k + 1, t, c, path)
<1> PICK m, w, l : m = t[k + 1] /\ w = c[k + 1] /\ l = k + 1
  OBVIOUS
<1>1. /\ k \in Nat /\ l \in 1..K /\ w \in Nat
      /\ \A j \in 1..k : j \in 1..K /\ j # l /\ t[j] # m
      /\ \A j \in 1..l : j = l \/ j \in 1..k
      /\ \A j \in 1..k : j \in 1..l
      /\ l \in 1..l /\ t[l] = m /\ c[l] = w
  <2>1. /\ k \in Nat /\ l \in 1..K /\ w \in Nat /\ l = k + 1 /\ l \in 1..l
        /\ t[l] = m /\ c[l] = w
    OBVIOUS
  <2>2. \A j \in 1..k : j \in 1..K /\ j # l /\ j \in 1..l
    BY <2>1
  <2>3. \A j \in 1..l : j = l \/ j \in 1..k
    BY <2>1
  <2> QED
    BY <2>1, <2>2, <2>3
<1>2. /\ DOMAIN N = DOMAIN M \cup {t[j] : j \in 1..k}
      /\ \A j \in 1..k :
           /\ t[j] \in DOMAIN M => \/ M[t[j]].weight > c[j]
                                   \/ M[t[j]].weight <= c[j] /\ N[t[j]] = M[t[j]]
           /\ (t[j] \in DOMAIN M => M[t[j]].weight > c[j]) =>
                N[t[j]] = [weight |-> c[j], path |-> path]
      /\ \A a \in DOMAIN M : (\A j \in 1..k : t[j] # a) => N[a] = M[a]
  BY DEF RangedTo
<1>3. /\ m \in DOMAIN N <=> m \in DOMAIN M
      /\ m \in DOMAIN M => N[m] = M[m]
  BY <1>1, <1>2
<1>4. /\ DOMAIN O = DOMAIN N \cup {m}
      /\ \A a \in DOMAIN N : a # m => O[a] = N[a]
  BY DEF OfferDoes, Put, Same
<1>5. /\ m \in DOMAIN M => M[m].weight > w \/ (M[m].weight <= w /\ O[m] = M[m])
      /\ (m \in DOMAIN M => M[m].weight > w) => O[m] = [weight |-> w, path |-> path]
  <2>1. CASE (m \in DOMAIN N => N[m].weight > w) /\ Put(N, O, m, w, path)
    <3>1. O[m] = [weight |-> w, path |-> path]
      BY <2>1 DEF Put
    <3>2. m \in DOMAIN M => M[m].weight > w
      BY <1>3, <2>1
    <3> QED
      BY <3>1, <3>2
  <2>2. CASE m \in DOMAIN N /\ N[m].weight <= w /\ Same(N, O)
    <3>1. m \in DOMAIN M /\ M[m].weight <= w /\ M[m].weight \in Nat /\ O[m] = M[m]
      BY <1>3, <2>2 DEF Same
    <3> QED
      BY <1>1, <3>1
  <2> QED
    BY <2>1, <2>2 DEF OfferDoes
<1>6. DOMAIN O = DOMAIN M \cup {t[j] : j \in 1..l}
  BY <1>1, <1>2, <1>4
<1>7. ASSUME NEW j \in 1..l
      PROVE  /\ t[j] \in DOMAIN M => \/ M[t[j]].weight > c[j]
                                     \/ M[t[j]].weight <= c[j] /\ O[t[j]] = M[t[j]]
             /\ (t[j] \in DOMAIN M => M[t[j]].weight > c[j]) =>
                  O[t[j]] = [weight |-> c[j], path |-> path]
  <2>1. CASE j = l
    BY <1>1, <1>5, <2>1
  <2>2. CASE j \in 1..k
    <3>1. t[j] \in DOMAIN N /\ t[j] # m /\ O[t[j]] = N[t[j]]
      BY <1>1, <1>2, <1>4, <2>2
    <3> QED
      BY <1>2, <2>2, <3>1
  <2> QED
    BY <1>1, <2>1, <2>2
<1>8. ASSUME NEW a \in DOMAIN M, \A j \in 1..l : t[j] # a
      PROVE  O[a] = M[a]
  <2>1. a # m /\ \A j \in 1..k : t[j] # a
    BY <1>1, <1>8
  <2> QED
    BY <1>2, <1>4, <2>1
<1> QED
  BY <1>6, <1>7, <1>8 DEF RangedTo

\* f goes through the queues of the loop over edges to t with the weights c.
Loop(f, pq, L, t, c, path) ==
  f = [k \in 0..L |-> IF k = 0 THEN pq ELSE Offer(f[k - 1], t[k], c[k], path)]

\* L edges to different nodes.
Edged(A, L, t, c) ==
  /\ L \in Nat /\ t \in [1..L -> A] /\ c \in [1..L -> Nat]
  /\ \A i, j \in 1..L : t[i] = t[j] => i = j

LEMMA LoopExists ==
  ASSUME NEW A, NEW P, NEW pq, Fit(A, P, pq), NEW L, NEW t, NEW c, Edged(A, L, t, c),
         NEW path, path \in P
  PROVE  \E f : Loop(f, pq, L, t, c, path)
<1> DEFINE X == {q \in Seq(Items(A, P)) : Fit(A, P, q)}
           g == [k \in 1..L |-> [q \in X |-> Offer(q, t[k], c[k], path)]]
<1>1. L \in Nat /\ \A k \in 1..L : t[k] \in A /\ c[k] \in Nat
  BY DEF Edged
<1>2. pq \in X
  BY DEF Fit, WellFormed
<1>3. ASSUME NEW k \in 1..L, NEW q \in X
      PROVE  Offer(q, t[k], c[k], path) \in X
  <2> PICK r : r = Offer(q, t[k], c[k], path)
    OBVIOUS
  <2>1. Fit(A, P, q)
    OBVIOUS
  <2>2. Fit(A, P, r)
    BY <1>1, <2>1, OfferIs
  <2> QED
    BY <2>2 DEF Fit, WellFormed
<1>4. g \in [1..L -> [X -> X]] /\ \A k \in 1..L : \A q \in X : g[k][q] = Offer(q, t[k], c[k], path)
  BY <1>3
<1> HIDE DEF X, g
<1>5. PICK f : Ranges(f, X, pq, g, L)
  <2>1. PICK Y, h : Y = X /\ h = g
    OBVIOUS
  <2>2. pq \in Y /\ h \in [1..L -> [Y -> Y]]
    BY <1>2, <1>4, <2>1
  <2>3. \E f : Ranges(f, Y, pq, h, L)
    BY <1>1, <2>2, RangeExists
  <2> QED
    BY <2>1, <2>3
<1>6. \A k \in 0..L : f[k] = IF k = 0 THEN pq ELSE Offer(f[k - 1], t[k], c[k], path)
  <2> SUFFICES ASSUME NEW k \in 0..L, k # 0
               PROVE  f[k] = Offer(f[k - 1], t[k], c[k], path)
    BY <1>5 DEF Ranges
  <2>1. k \in 1..L /\ k - 1 \in 0..L
    BY <1>1
  <2>2. f[k] = g[k][f[k - 1]] /\ f[k - 1] \in X
    BY <1>5, <2>1 DEF Ranges
  <2> QED
    BY <1>4, <2>1, <2>2
<1>7. f = [k \in 0..L |-> f[k]]
  BY <1>5 DEF Ranges
<1> QED
  BY <1>6, <1>7 DEF Loop

LEMMA LoopEnds ==
  ASSUME NEW A, NEW P, NEW pq, Fit(A, P, pq), NEW L, NEW t, NEW c, Edged(A, L, t, c),
         NEW path, path \in P, NEW f, Loop(f, pq, L, t, c, path)
  PROVE  Fit(A, P, f[L]) /\ RangedTo(Contents(pq), Contents(f[L]), L, t, c, path)
<1> PICK M : M = Contents(pq)
  OBVIOUS
<1>1. /\ L \in Nat /\ \A k \in 1..L : t[k] \in A /\ c[k] \in Nat
      /\ \A i, j \in 1..L : t[i] = t[j] => i = j
  BY DEF Edged
<1>2. f[0] = pq /\ \A k \in 0..L - 1 : f[k + 1] = Offer(f[k], t[k + 1], c[k + 1], path)
  <2>1. 0 \in 0..L /\ \A k \in 0..L - 1 : k + 1 \in 0..L /\ k + 1 # 0 /\ (k + 1) - 1 = k
    BY <1>1
  <2> QED
    BY <2>1 DEF Loop
<1>3. \A m \in DOMAIN M : M[m].weight \in Nat
  BY ContentsType DEF Fit
<1> DEFINE T == {k \in Nat : Fit(A, P, f[k]) /\ RangedTo(M, Contents(f[k]), k, t, c, path)}
<1>4. 0 \in T
  <2>1. RangedTo(M, M, 0, t, c, path)
    <3>1. \A j \in 1..0 : FALSE
      OBVIOUS
    <3>2. {t[j] : j \in 1..0} = {}
      BY <3>1
    <3> QED
      BY <3>1, <3>2 DEF RangedTo
  <2> QED
    BY <1>2, <2>1
<1>5. ASSUME NEW k \in 0..L - 1, k \in T
      PROVE  k + 1 \in T
  <2> PICK q, r, N, O : q = f[k] /\ r = f[k + 1] /\ N = Contents(q) /\ O = Contents(r)
    OBVIOUS
  <2>1. k + 1 \in 1..L /\ k + 1 \in Nat /\ k \in Nat
    BY <1>1
  <2>2. Fit(A, P, q) /\ RangedTo(M, N, k, t, c, path)
    BY <1>5
  <2>3. r = Offer(q, t[k + 1], c[k + 1], path)
    BY <1>2
  <2>4. t[k + 1] \in A /\ c[k + 1] \in Nat
    BY <1>1, <2>1
  <2>5. Fit(A, P, r) /\ OfferDoes(N, O, t[k + 1], c[k + 1], path)
    BY <2>2, <2>3, <2>4, OfferIs
  <2>6. RangedTo(M, O, k + 1, t, c, path)
    <3>1. \A j \in 1..L : c[j] \in Nat
      BY <1>1
    <3> QED
      BY <1>1, <1>3, <2>2, <2>5, <3>1, RangedNext
  <2> QED
    BY <2>1, <2>5, <2>6
<1> HIDE DEF T
<1>6. \A k \in 0..L : k \in T
  BY <1>1, <1>4, <1>5, UpTo
<1>7. L \in T
  BY <1>1, <1>6
<1> QED
  BY <1>7 DEF T

-----------------------------------------------------------------------------
(* A visit *)

\* order lists S, each element once.
Lists(order, Z) ==
  /\ Len(order) \in Nat /\ order \in [1..Len(order) -> Z]
  /\ \A i, j \in 1..Len(order) : order[i] = order[j] => i = j
  /\ \A x \in Z : \E i \in 1..Len(order) : order[i] = x

LEMMA OrderIs ==
  ASSUME NEW Z, IsFiniteSet(Z), NEW order, order \in SetToSeqs(Z)
  PROVE  Lists(order, Z)
<1> PICK L : L = Cardinality(Z)
  OBVIOUS
<1>1. /\ L \in Nat /\ order \in [1..L -> Z]
      /\ \A i, j \in 1..L : i # j => order[i] # order[j]
  BY FS_CardinalityType DEF SetToSeqs
<1>2. Len(order) = L
  BY <1>1, FunctionSeq
<1>3. order \in Injection(1..L, Z)
  BY <1>1 DEF Injection, IsInjective
<1>4. order \in Surjection(1..L, Z)
  <2>1. Cardinality(1..L) = L
    BY <1>1, FS_Interval
  <2> QED
    BY <1>3, <2>1, FS_Injection
<1> QED
  BY <1>1, <1>2, <1>4 DEF Lists, Surjection

\* The edges a visit of n ranges over.
Ahead(n) == {e \in EdgesOf(n) : Target(e, n) \notin visited \cup {n}}

LEMMA AheadIs ==
  ASSUME S!GraphOK, NEW n
  PROVE  /\ IsFiniteSet(Ahead(n))
         /\ \A e \in Ahead(n) :
              /\ Target(e, n) \in Nodes /\ Target(e, n) \in S!Offered(n)
              /\ e.weight \in Nat /\ e.weight = S!Cost(n, Target(e, n))
         /\ \A e, f \in Ahead(n) : Target(e, n) = Target(f, n) => e = f
         /\ \A m \in S!Offered(n) : \E e \in Ahead(n) : Target(e, n) = m
<1>1. /\ \A e : S!Target(e, n) = Target(e, n)
      /\ S!EdgesOf(n) = EdgesOf(n)
  BY DEF S!Target, Target, S!EdgesOf, EdgesOf, S!Ends, Ends
<1>2. \A e \in EdgesOf(n) :
        /\ Target(e, n) \in Nodes \ {n} /\ e.weight \in 0..50
        /\ \A f \in EdgesOf(n) : Target(f, n) = Target(e, n) => f = e
  BY <1>1, S!EdgeFacts
<1>3. /\ \A e \in EdgesOf(n) :
           S!Adjacent(n, Target(e, n)) /\ e.weight = S!Cost(n, Target(e, n))
      /\ \A m : S!Adjacent(n, m) => \E e \in EdgesOf(n) : Target(e, n) = m
  BY <1>1, S!CostFacts
<1>4. IsFiniteSet(Ahead(n))
  <2> DEFINE f == [e \in Ahead(n) |-> Target(e, n)]
  <2>1. f \in [Ahead(n) -> Nodes]
    BY <1>2 DEF Ahead
  <2>2. \A d, e \in Ahead(n) : f[d] = f[e] => d = e
    BY <1>2 DEF Ahead
  <2>3. f \in Injection(Ahead(n), Nodes)
    BY <2>1, <2>2 DEF Injection, IsInjective
  <2>4. IsFiniteSet(Nodes)
    BY DEF S!GraphOK, S!IsFiniteSet, IsFiniteSet
  <2> QED
    BY <2>3, <2>4, FS_Injection
<1> QED
  BY <1>2, <1>3, <1>4 DEF Ahead, S!Offered

Slices == [array : Nodes \cup {None}, len : Nat]

QueueFit == Fit(Nodes, Slices, queue)

LEMMA UnvisitedIs == Unvisited = Contents(queue)
BY DEF Unvisited, Contents

\* What is popped next.
IsNext(n, w, path) ==
  /\ n = queue[1].address /\ w = queue[1].weight /\ path = queue[1].path
  /\ n \in Nodes /\ w \in Nat /\ path \in Slices
  /\ n \in DOMAIN Unvisited /\ Unvisited[n] = [weight |-> w, path |-> path]
  /\ \A m \in DOMAIN Unvisited : w <= Unvisited[m].weight

LEMMA NextIs ==
  ASSUME QueueFit, queue # <<>>
  PROVE  IsNext(queue[1].address, queue[1].weight, queue[1].path)
<1> PICK pq, M, P, A : pq = queue /\ M = Unvisited /\ A = Nodes /\ P = Slices
  OBVIOUS
<1>1. WellFormed(A, P, pq) /\ Heap(pq)
  BY DEF QueueFit, Fit
<1>2. Represents(pq, M)
  <2>1. Represents(pq, Contents(pq))
    BY <1>1, ContentsIs
  <2> QED
    BY <2>1, UnvisitedIs
<1>3. 1 \in 1..Len(pq) /\ pq[1] \in Items(A, P)
  BY <1>1 DEF WellFormed
<1>4. pq[1].address \in A /\ pq[1].weight \in Nat /\ pq[1].path \in P
  BY <1>3 DEF Items
<1>5. /\ pq[1].address \in DOMAIN M
      /\ M[pq[1].address] = [weight |-> pq[1].weight, path |-> pq[1].path]
  BY <1>2, <1>3 DEF Represents
<1>6. ASSUME NEW m \in DOMAIN M
      PROVE  pq[1].weight <= M[m].weight
  <2>1. PICK i \in 1..Len(pq) : pq[i].address = m
    BY <1>2 DEF Represents
  <2>2. M[m] = [weight |-> pq[i].weight, path |-> pq[i].path]
    BY <1>2, <2>1 DEF Represents
  <2>3. pq[1].weight <= pq[i].weight
    BY <1>1, RootIsLeast
  <2> QED
    BY <2>2, <2>3
<1> QED
  BY <1>4, <1>5, <1>6 DEF IsNext

\* The queue after the pop (pathing.go:40).
LEMMA PoppedFit ==
  ASSUME QueueFit, queue # <<>>, NEW n, n = queue[1].address, NEW q, q = Popped(queue)
  PROVE  /\ Fit(Nodes, Slices, q)
         /\ Contents(q) = [m \in DOMAIN Unvisited \ {n} |-> Unvisited[m]]
<1> PICK M, A, P : M = Unvisited /\ A = Nodes /\ P = Slices
  OBVIOUS
<1> DEFINE O == [m \in DOMAIN M \ {n} |-> M[m]]
<1>1. Removed(M, O, queue[1].address)
  BY DEF Removed
<1>2. O = [m \in DOMAIN O |-> O[m]] /\ O = [m \in DOMAIN M \ {n} |-> M[m]]
  OBVIOUS
<1> HIDE DEF O
<1>3. WellFormed(A, P, queue) /\ Heap(queue) /\ Represents(queue, M)
  <2>1. WellFormed(A, P, queue) /\ Heap(queue)
    BY DEF QueueFit, Fit
  <2>2. Represents(queue, Contents(queue))
    BY <2>1, ContentsIs
  <2> QED
    BY <2>1, <2>2, UnvisitedIs
<1>4. HeapOf(A, P, O, Len(queue) - 1, Popped(queue))
  BY <1>1, <1>3, PoppedIs
<1>5. WellFormed(A, P, q) /\ Heap(q) /\ Represents(q, O)
  BY <1>4 DEF HeapOf
<1>6. Represents(q, Contents(q))
  BY <1>5, ContentsIs
<1>7. Same(Contents(q), O)
  BY <1>5, <1>6, ContentsOnly
<1>8. Contents(q) = [m \in DOMAIN Contents(q) |-> Contents(q)[m]]
  BY DEF Contents
<1>9. Contents(q) = O
  <2> PICK X : X = Contents(q)
    OBVIOUS
  <2>1. X = [m \in DOMAIN X |-> X[m]] /\ Same(X, O)
    BY <1>7, <1>8
  <2> QED
    BY <1>2, <2>1 DEF Same
<1> QED
  BY <1>2, <1>5, <1>9 DEF Fit

\* The range of a visit over the edges ahead in this order.
Ranging(f, order, n, w, path) ==
  f = [k \in 0..Len(order) |->
         IF k = 0 THEN Popped(queue)
         ELSE Offer(f[k - 1], Target(order[k], n), w + order[k].weight, path)]

Targets(order, n) == [k \in 1..Len(order) |-> Target(order[k], n)]
Costs(order, w) == [k \in 1..Len(order) |-> w + order[k].weight]

\* L edges, one to each node a visit of n offers.
Covers(n, w, L, t, c) ==
  /\ Edged(Nodes, L, t, c)
  /\ \A k \in 1..L : t[k] \in S!Offered(n) /\ c[k] = w + S!Cost(n, t[k])
  /\ \A m \in S!Offered(n) : \E k \in 1..L : t[k] = m

LEMMA OrderEdged ==
  ASSUME S!GraphOK, NEW n, NEW w, w \in Nat, NEW order, order \in SetToSeqs(Ahead(n))
  PROVE  Covers(n, w, Len(order), Targets(order, n), Costs(order, w))
<1> PICK L, t, c : L = Len(order) /\ t = Targets(order, n) /\ c = Costs(order, w)
  OBVIOUS
<1>1. Lists(order, Ahead(n))
  BY AheadIs, OrderIs
<1>2. /\ L \in Nat /\ \A k \in 1..L : order[k] \in Ahead(n)
      /\ \A i, j \in 1..L : order[i] = order[j] => i = j
      /\ \A x \in Ahead(n) : \E i \in 1..L : order[i] = x
  BY <1>1 DEF Lists
<1>3. /\ t = [k \in 1..L |-> Target(order[k], n)]
      /\ c = [k \in 1..L |-> w + order[k].weight]
  BY DEF Targets, Costs
<1>4. \A k \in 1..L : /\ t[k] = Target(order[k], n) /\ t[k] \in Nodes /\ t[k] \in S!Offered(n)
                      /\ c[k] = w + order[k].weight /\ c[k] \in Nat
                      /\ order[k].weight = S!Cost(n, t[k])
  BY <1>2, <1>3, AheadIs
<1>5. \A i, j \in 1..L : t[i] = t[j] => i = j
  BY <1>2, <1>4, AheadIs
<1>6. \A m \in S!Offered(n) : \E k \in 1..L : t[k] = m
  BY <1>2, <1>4, AheadIs
<1>7. t \in [1..L -> Nodes] /\ c \in [1..L -> Nat]
  BY <1>3, <1>4
<1>8. Edged(Nodes, L, t, c)
  BY <1>2, <1>5, <1>7 DEF Edged
<1> QED
  BY <1>4, <1>6, <1>8 DEF Covers

LEMMA RangingLoops ==
  ASSUME NEW f, NEW order, Len(order) \in Nat, NEW n, NEW w, NEW path
  PROVE  Ranging(f, order, n, w, path)
         <=> Loop(f, Popped(queue), Len(order), Targets(order, n), Costs(order, w), path)
<1> PICK L, t, c, pq : /\ L = Len(order) /\ t = Targets(order, n) /\ c = Costs(order, w)
                       /\ pq = Popped(queue)
  OBVIOUS
<1>1. \A k \in 1..L : t[k] = Target(order[k], n) /\ c[k] = w + order[k].weight
  BY DEF Targets, Costs
<1>2. \A k \in 0..L : k # 0 => k \in 1..L
  OBVIOUS
<1>3. [k \in 0..L |-> IF k = 0 THEN pq
                      ELSE Offer(f[k - 1], Target(order[k], n), w + order[k].weight, path)]
      = [k \in 0..L |-> IF k = 0 THEN pq ELSE Offer(f[k - 1], t[k], c[k], path)]
  BY <1>1, <1>2
<1> QED
  BY <1>3 DEF Ranging, Loop

\* The range does to the queue what Relaxed says, in whatever order the edges come.
LEMMA RangeRelaxes ==
  ASSUME QueueFit, S!GraphOK, queue # <<>>,
         NEW n, NEW w, NEW p, IsNext(n, w, p), NEW path, path \in Slices,
         NEW order, order \in SetToSeqs(Ahead(n)), NEW f, Ranging(f, order, n, w, path)
  PROVE  /\ Fit(Nodes, Slices, f[Len(order)])
         /\ S!RelaxedQueue(n, w, path, Contents(f[Len(order)]))
<1>0. PICK L, t, c, pq, A, P, R, N :
        /\ L = Len(order) /\ t = Targets(order, n) /\ c = Costs(order, w)
        /\ pq = Popped(queue) /\ A = Nodes /\ P = Slices
        /\ R = Contents(pq) /\ N = Contents(f[L])
  OBVIOUS
<1>1. n = queue[1].address /\ w \in Nat /\ n \in A
  BY <1>0 DEF IsNext
<1>2. /\ Edged(A, L, t, c) /\ L \in Nat
      /\ \A k \in 1..L : t[k] \in S!Offered(n) /\ c[k] = w + S!Cost(n, t[k])
      /\ \A m \in S!Offered(n) : \E k \in 1..L : t[k] = m
  <2>1. Covers(n, w, Len(order), Targets(order, n), Costs(order, w))
    BY <1>1, OrderEdged
  <2>2. Covers(n, w, L, t, c)
    BY <1>0, <2>1
  <2> QED
    BY <1>0, <2>2 DEF Covers, Edged
<1>3. Fit(A, P, pq) /\ DOMAIN R = S!Queued(n) /\ \A m \in DOMAIN R : R[m] = Unvisited[m]
  <2>1. Fit(A, P, pq) /\ R = [m \in DOMAIN Unvisited \ {n} |-> Unvisited[m]]
    BY <1>0, <1>1, PoppedFit
  <2> QED
    BY <2>1 DEF S!Queued
<1>4. Loop(f, pq, L, t, c, path)
  BY <1>0, <1>2, RangingLoops
<1>5. Fit(A, P, f[L]) /\ RangedTo(R, N, L, t, c, path)
  <2>1. path \in P
    BY <1>0
  <2> QED
    BY <1>0, <1>2, <1>3, <1>4, <2>1, LoopEnds
<1>6. /\ DOMAIN N = DOMAIN R \cup {t[j] : j \in 1..L}
      /\ \A j \in 1..L :
           /\ t[j] \in DOMAIN R => \/ R[t[j]].weight > c[j]
                                   \/ R[t[j]].weight <= c[j] /\ N[t[j]] = R[t[j]]
           /\ (t[j] \in DOMAIN R => R[t[j]].weight > c[j]) =>
                N[t[j]] = [weight |-> c[j], path |-> path]
      /\ \A a \in DOMAIN R : (\A j \in 1..L : t[j] # a) => N[a] = R[a]
  BY <1>5 DEF RangedTo
<1>7. DOMAIN N = S!Queued(n) \cup S!Offered(n)
  <2>1. {t[j] : j \in 1..L} = S!Offered(n)
    BY <1>2
  <2> QED
    BY <1>3, <1>6, <2>1
<1>8. ASSUME NEW m \in S!Queued(n) \cup S!Offered(n)
      PROVE  \/ /\ m \in S!Offered(n)
                /\ N[m] = [weight |-> w + S!Cost(n, m), path |-> path]
                /\ m \in S!Queued(n) => Unvisited[m].weight > w + S!Cost(n, m)
             \/ /\ m \in S!Queued(n)
                /\ N[m] = Unvisited[m]
                /\ m \in S!Offered(n) => Unvisited[m].weight <= w + S!Cost(n, m)
  <2>1. CASE m \in S!Offered(n)
    <3>1. PICK k \in 1..L : t[k] = m /\ c[k] = w + S!Cost(n, m)
      BY <1>2, <2>1
    <3>2. /\ m \in DOMAIN R => \/ R[m].weight > c[k]
                               \/ R[m].weight <= c[k] /\ N[m] = R[m]
          /\ (m \in DOMAIN R => R[m].weight > c[k]) =>
               N[m] = [weight |-> c[k], path |-> path]
      BY <1>6, <3>1
    <3> QED
      BY <1>3, <2>1, <3>1, <3>2
  <2>2. CASE m \notin S!Offered(n)
    <3>1. m \in DOMAIN R /\ \A j \in 1..L : t[j] # m
      BY <1>2, <1>3, <2>2
    <3> QED
      BY <1>3, <1>6, <2>2, <3>1
  <2> QED
    BY <2>1, <2>2
<1>9. S!RelaxedQueue(n, w, path, N)
  BY <1>7, <1>8 DEF S!RelaxedQueue
<1> QED
  BY <1>0, <1>5, <1>9

\* There is one such queue.
LEMMA RelaxedOnly ==
  ASSUME S!GraphOK, S!QueueInv, NEW n, NEW w, w \in Nat, NEW path,
         NEW X, S!RelaxedQueue(n, w, path, X), NEW Y, S!RelaxedQueue(n, w, path, Y)
  PROVE  Same(X, Y)
<1>1. DOMAIN X = S!Queued(n) \cup S!Offered(n) /\ DOMAIN Y = DOMAIN X
  BY DEF S!RelaxedQueue
<1>2. ASSUME NEW m \in DOMAIN X
      PROVE  X[m] = Y[m]
  <2>1. m \in S!Queued(n) => Unvisited[m].weight \in Nat
    BY DEF S!QueueInv, S!Queued
  <2>2. m \in S!Offered(n) => S!Cost(n, m) \in Nat
    BY S!NeighbourFacts DEF S!Offered
  <2> PICK u, o, x : u = Unvisited[m].weight /\ o = w + S!Cost(n, m) /\ x = Unvisited[m]
    OBVIOUS
  <2>3. \/ /\ m \in S!Offered(n) /\ X[m] = [weight |-> o, path |-> path]
           /\ m \in S!Queued(n) => u > o
        \/ /\ m \in S!Queued(n) /\ X[m] = x
           /\ m \in S!Offered(n) => u <= o
    BY <1>1 DEF S!RelaxedQueue
  <2>4. \/ /\ m \in S!Offered(n) /\ Y[m] = [weight |-> o, path |-> path]
           /\ m \in S!Queued(n) => u > o
        \/ /\ m \in S!Queued(n) /\ Y[m] = x
           /\ m \in S!Offered(n) => u <= o
    BY <1>1 DEF S!RelaxedQueue
  <2>5. m \in S!Offered(n) /\ m \in S!Queued(n) => ~(u > o /\ u <= o)
    BY <2>1, <2>2
  <2> QED
    BY <2>3, <2>4, <2>5
<1> QED
  BY <1>1, <1>2 DEF Same

LEMMA SameSlices ==
  ASSUME NEW p, NEW n
  PROVE  /\ U!Written(p, n) = S!Written(p, n) /\ U!Appended(p, n) = S!Appended(p, n)
         /\ U!Nil = S!Nil
         /\ p \in Slices /\ n \in Nodes => U!Appended(p, n) \in Slices
<1>1. /\ U!Nil = S!Nil /\ U!Capacity(p) = S!Capacity(p)
  BY DEF U!Nil, S!Nil, U!Capacity, S!Capacity
<1>2. U!Grown(p, n) = S!Grown(p, n) /\ U!Fits(p) = S!Fits(p)
  BY <1>1 DEF U!Grown, S!Grown, U!Fits, S!Fits
<1>3. U!Written(p, n) = S!Written(p, n) /\ U!Appended(p, n) = S!Appended(p, n)
  BY <1>2 DEF U!Written, S!Written, U!Appended, S!Appended
<1>4. p \in Slices /\ n \in Nodes => U!Appended(p, n) \in Slices
  BY DEF Slices, U!Appended
<1> QED
  BY <1>1, <1>3, <1>4

\* What stays when the search runs.
Still == UNCHANGED <<conf, edges>>

LEMMA StillNodes ==
  ASSUME Still
  PROVE  Nodes' = Nodes /\ Slices' = Slices /\ edges' = edges
BY DEF Still, Nodes, Slices

\* The result of a visit as a map (pathing.go:40-82).
LEMMA VisitQueue ==
  ASSUME QueueFit, S!GraphOK, S!QueueInv, queue # <<>>,
         NEW n, NEW w, NEW p, IsNext(n, w, p), NEW path, path \in Slices,
         NEW order, order \in SetToSeqs(Ahead(n)), NEW q,
         q = (CHOOSE f : Ranging(f, order, n, w, path))[Len(order)]
  PROVE  Fit(Nodes, Slices, q) /\ Contents(q) = S!Relaxed(n, w, path)
<1> DEFINE f == CHOOSE f : Ranging(f, order, n, w, path)
<1>1. w \in Nat /\ n \in Nodes
  BY DEF IsNext
<1>2. \E g : Ranging(g, order, n, w, path)
  <2>0. PICK L, t, c, A, P, pq :
         /\ L = Len(order) /\ t = Targets(order, n) /\ c = Costs(order, w)
         /\ A = Nodes /\ P = Slices /\ pq = Popped(queue)
    OBVIOUS
  <2>1. Edged(A, L, t, c) /\ L \in Nat
    <3>1. Covers(n, w, Len(order), Targets(order, n), Costs(order, w))
      BY <1>1, OrderEdged
    <3>2. Covers(n, w, L, t, c)
      BY <2>0, <3>1
    <3> QED
      BY <2>0, <3>2 DEF Covers, Edged
  <2>2. Fit(A, P, pq)
    BY <2>0, PoppedFit DEF IsNext
  <2>3. \E g : Loop(g, pq, L, t, c, path)
    BY <2>0, <2>1, <2>2, LoopExists
  <2> QED
    BY <2>0, <2>1, <2>3, RangingLoops
<1>3. Ranging(f, order, n, w, path)
  BY <1>2
<1>4. q = f[Len(order)]
  OBVIOUS
<1> HIDE DEF f
<1>5. Fit(Nodes, Slices, q) /\ S!RelaxedQueue(n, w, path, Contents(q))
  BY <1>3, <1>4, RangeRelaxes
<1>6. S!RelaxedQueue(n, w, path, S!Relaxed(n, w, path))
  BY <1>1, S!RelaxedIs
<1>7. Same(Contents(q), S!Relaxed(n, w, path))
  <2> PICK X, Y : X = Contents(q) /\ Y = S!Relaxed(n, w, path)
    OBVIOUS
  <2>1. Same(X, Y)
    BY <1>1, <1>5, <1>6, RelaxedOnly
  <2> QED
    BY <2>1
<1>8. Contents(q) = [a \in DOMAIN Contents(q) |-> Contents(q)[a]]
  BY DEF Contents
<1>9. S!Relaxed(n, w, path)
      = [a \in DOMAIN S!Relaxed(n, w, path) |-> S!Relaxed(n, w, path)[a]]
  BY DEF S!Relaxed
<1>10. Contents(q) = S!Relaxed(n, w, path)
  <2> PICK X, Y : X = Contents(q) /\ Y = S!Relaxed(n, w, path)
    OBVIOUS
  <2>1. X = [a \in DOMAIN X |-> X[a]] /\ Y = [a \in DOMAIN Y |-> Y[a]] /\ Same(X, Y)
    BY <1>7, <1>8, <1>9
  <2> QED
    BY <2>1 DEF Same
<1> QED
  BY <1>5, <1>10

\* A visit is a visit of the abstract search.
LEMMA VisitMaps ==
  ASSUME QueueFit, S!GraphOK, S!QueueInv, Visit, Still
  PROVE  QueueFit' /\ S!Visit(queue[1].address)
<1> DEFINE n == queue[1].address
           w == queue[1].weight
           p == queue[1].path
           path == U!Appended(p, n)
<1>1. /\ search = "busy" /\ queue # <<>> /\ n # dest
      /\ cells' = U!Written(p, n) /\ visited' = visited \cup {n}
      /\ UNCHANGED <<edges, source, dest, result, search>>
  BY DEF Visit
<1>2. PICK order \in SetToSeqs(Ahead(n)) :
        queue' = (CHOOSE f : Ranging(f, order, n, w, path))[Len(order)]
  BY DEF Visit, Ahead, Ranging
<1>3. IsNext(n, w, p)
  BY <1>1, NextIs
<1>4. path \in Slices
  BY <1>3, SameSlices DEF IsNext
<1>5. PICK q, m, v, o, s : q = queue' /\ m = n /\ v = w /\ o = p /\ s = path
  OBVIOUS
<1> HIDE DEF n, w, p, path
<1>6. Fit(Nodes, Slices, q) /\ Contents(q) = S!Relaxed(m, v, s)
  <2>1. /\ IsNext(m, v, o) /\ s \in Slices /\ order \in SetToSeqs(Ahead(m))
        /\ q = (CHOOSE f : Ranging(f, order, m, v, s))[Len(order)]
    BY <1>2, <1>3, <1>4, <1>5
  <2> QED
    BY <1>1, <2>1, VisitQueue
<1>7. QueueFit'
  BY <1>5, <1>6, StillNodes DEF QueueFit
<1>8. Unvisited' = Contents(q)
  BY <1>5 DEF Unvisited, Contents
<1>9. /\ S!Least(m) /\ Unvisited[m].weight = v /\ Unvisited[m].path = o
      /\ S!Written(o, m) = U!Written(o, m) /\ s = S!Appended(o, m)
  <2>1. /\ m \in DOMAIN Unvisited /\ Unvisited[m] = [weight |-> v, path |-> o]
        /\ \A a \in DOMAIN Unvisited : v <= Unvisited[a].weight
    BY <1>3, <1>5 DEF IsNext
  <2>2. s = U!Appended(o, m)
    BY <1>5 DEF path
  <2> QED
    BY <2>1, <2>2, SameSlices DEF S!Least
<1>10. S!Visit(m)
  BY <1>1, <1>5, <1>6, <1>8, <1>9 DEF S!Visit
<1> QED
  BY <1>5, <1>7, <1>10 DEF n

LEMMA ReturnMaps ==
  ASSUME QueueFit, Return, Still
  PROVE  QueueFit' /\ S!Return(queue[1].address)
<1> DEFINE n == queue[1].address
           w == queue[1].weight
           p == queue[1].path
<1>1. /\ search = "busy" /\ queue # <<>> /\ n = dest
      /\ cells' = U!Written(p, n)
      /\ result' = SubSeq(cells'[U!Appended(p, n).array], 2, U!Appended(p, n).len)
      /\ queue' = Popped(queue) /\ search' = "found"
      /\ UNCHANGED <<edges, source, dest, visited>>
  BY DEF Return
<1>2. IsNext(n, w, p)
  BY <1>1, NextIs
<1>3. PICK q, m, v, o : q = queue' /\ m = n /\ v = w /\ o = p
  OBVIOUS
<1>4. Fit(Nodes, Slices, q) /\ Contents(q) = [a \in DOMAIN Unvisited \ {m} |-> Unvisited[a]]
  BY <1>1, <1>3, PoppedFit
<1> HIDE DEF n, w, p
<1>5. QueueFit'
  BY <1>3, <1>4, StillNodes DEF QueueFit
<1>6. Unvisited' = Contents(q)
  BY <1>3 DEF Unvisited, Contents
<1>7. /\ S!Least(m) /\ Unvisited[m].path = o
      /\ S!Written(o, m) = U!Written(o, m) /\ S!Appended(o, m) = U!Appended(o, m)
  <2>1. /\ m \in DOMAIN Unvisited /\ Unvisited[m] = [weight |-> v, path |-> o]
        /\ \A a \in DOMAIN Unvisited : v <= Unvisited[a].weight
    BY <1>2, <1>3 DEF IsNext
  <2> QED
    BY <2>1, SameSlices DEF S!Least
<1>8. S!Return(m)
  BY <1>1, <1>3, <1>4, <1>6, <1>7 DEF S!Return
<1> QED
  BY <1>3, <1>5, <1>8 DEF n

\* A well-formed queue of one item finds it by its address.
LEMMA OneItem ==
  ASSUME NEW A, NEW P, NEW pq, WellFormed(A, P, pq), NEW x, NEW a,
         1 \in 1..Len(pq), pq[1] = x, x.address = a
  PROVE  ItemOf(pq, a) = x
<1>1. ItemOf(pq, pq[1].address) = pq[1]
  BY ItemOfIs
<1> QED
  BY <1>1

\* Begin and the empty queue as maps.
LEMMA SingleFit ==
  ASSUME NEW s, s \in Nodes, NEW q, q = <<Item(s, 0, U!Nil)>>
  PROVE  /\ Fit(Nodes, Slices, q)
         /\ Contents(q) = [n \in {s} |-> [weight |-> 0, path |-> S!Nil]]
<1> PICK x : x = Item(s, 0, U!Nil)
  OBVIOUS
<1>1. /\ x \in Items(Nodes, Slices) /\ x.address = s /\ x.weight = 0 /\ x.path = S!Nil
      /\ x.index = 1
  BY DEF Item, Items, Slices, U!Nil, S!Nil
<1>2. q \in Seq(Items(Nodes, Slices)) /\ Len(q) = 1 /\ q[1] = x
  BY <1>1
<1>3. WellFormed(Nodes, Slices, q) /\ Heap(q)
  BY <1>1, <1>2 DEF WellFormed, Heap
<1>4. {q[i].address : i \in 1..Len(q)} = {s}
  BY <1>1, <1>2
<1>5. ItemOf(q, s) = x
  <2>1. 1 \in 1..Len(q) /\ q[1].address = s
    BY <1>1, <1>2
  <2>2. WellFormed(Nodes, Slices, q) /\ q[1] = x /\ x.address = s
    BY <1>1, <1>2, <1>3
  <2> QED
    BY <2>1, <2>2, OneItem, SMT
<1>6. Contents(q) = [n \in {s} |-> [weight |-> 0, path |-> S!Nil]]
  BY <1>1, <1>4, <1>5 DEF Contents
<1> QED
  BY <1>3, <1>6 DEF Fit

LEMMA EmptyFit ==
  ASSUME NEW q, q = <<>>
  PROVE  Fit(Nodes, Slices, q) /\ Contents(q) = [n \in {} |-> None]
<1>1. WellFormed(Nodes, Slices, q) /\ Heap(q)
  BY DEF WellFormed, Heap
<1>2. Len(q) = 0 /\ {q[i].address : i \in 1..Len(q)} = {}
  OBVIOUS
<1>3. Contents(q) = [n \in {} |-> None]
  BY <1>2 DEF Contents
<1> QED
  BY <1>1, <1>3 DEF Fit

LEMMA InitMaps ==
  ASSUME HeapInit
  PROVE  QueueFit /\ S!SearchInit
<1>1. queue = <<>>
  BY DEF HeapInit
<1>2. QueueFit /\ Unvisited = [n \in {} |-> None]
  BY <1>1, EmptyFit, UnvisitedIs DEF QueueFit
<1> QED
  BY <1>2 DEF HeapInit, S!SearchInit

\* Every step of the search is a step of the abstract one.
LEMMA SearchMaps ==
  ASSUME QueueFit, S!GraphOK, S!SearchInv, Search
  PROVE  QueueFit' /\ S!SearchStep /\ Still
<1>1. Still
  BY DEF Search, Begin, Visit, Return, NoPath, Still
<1>2. ASSUME NEW s \in UNION {Ends(e) : e \in edges}, NEW d \in UNION {Ends(e) : e \in edges},
             s # d, Begin(s, d)
      PROVE  QueueFit' /\ S!SearchStep
  <2>1. s \in Nodes
    BY DEF S!GraphOK, Ends
  <2>2. /\ search = "idle" /\ source' = s /\ dest' = d /\ search' = "busy"
        /\ queue' = <<Item(s, 0, U!Nil)>>
        /\ UNCHANGED <<edges, visited, cells, result>>
    BY <1>2 DEF Begin
  <2> PICK q : q = queue'
    OBVIOUS
  <2>3. /\ Fit(Nodes, Slices, q)
        /\ Contents(q) = [n \in {s} |-> [weight |-> 0, path |-> S!Nil]]
    BY <2>1, <2>2, SingleFit
  <2>4. QueueFit'
    BY <1>1, <2>3, StillNodes DEF QueueFit
  <2>5. Unvisited' = Contents(q)
    BY DEF Unvisited, Contents
  <2>6. S!Begin(s, d)
    BY <2>2, <2>3, <2>5 DEF S!Begin
  <2>7. {S!Ends(e) : e \in edges} = {Ends(e) : e \in edges}
    BY DEF S!Ends, Ends
  <2> QED
    BY <1>2, <2>4, <2>6, <2>7 DEF S!SearchStep
<1>3. ASSUME Visit
      PROVE  QueueFit' /\ S!SearchStep
  <2>1. S!QueueInv
    BY <1>3 DEF Visit, S!SearchInv, S!Busy
  <2>2. QueueFit' /\ S!Visit(queue[1].address)
    BY <1>1, <1>3, <2>1, VisitMaps
  <2>3. queue[1].address \in DOMAIN Unvisited
    BY <2>2 DEF S!Visit, S!Least
  <2> QED
    BY <2>2, <2>3 DEF S!SearchStep
<1>4. ASSUME Return
      PROVE  QueueFit' /\ S!SearchStep
  <2>1. QueueFit' /\ S!Return(queue[1].address)
    BY <1>1, <1>4, ReturnMaps
  <2>2. queue[1].address \in DOMAIN Unvisited
    BY <2>1 DEF S!Return, S!Least
  <2> QED
    BY <2>1, <2>2 DEF S!SearchStep
<1>5. ASSUME NoPath
      PROVE  QueueFit' /\ S!SearchStep
  <2>1. /\ search = "busy" /\ queue = <<>> /\ search' = "failed"
        /\ UNCHANGED <<edges, source, dest, queue, visited, cells, result>>
    BY <1>5 DEF NoPath
  <2>2. Unvisited = [n \in {} |-> None] /\ Unvisited' = Unvisited
    BY <2>1, EmptyFit, UnvisitedIs DEF Unvisited
  <2>3. QueueFit'
    BY <1>1, <2>1, StillNodes DEF QueueFit
  <2>4. S!NoPath
    BY <2>1, <2>2 DEF S!NoPath
  <2> QED
    BY <2>3, <2>4 DEF S!SearchStep
<1> QED
  BY <1>1, <1>2, <1>3, <1>4, <1>5 DEF Search

-----------------------------------------------------------------------------
(* The whole *)

\* The search leaves the overlay as it was built.
THEOREM OverlayIsBuilt == Spec => BuildSpec
<1>1. Init => BuildInit
  BY DEF Init
<1>2. [Next]_vars => [BuildStep]_overlayVars
  BY DEF Next, vars, Build, Search, Begin, Visit, Return, NoPath, overlayVars
<1> QED
  BY <1>1, <1>2, PTL DEF Spec, BuildSpec

LEMMA GraphIsOK ==
  ASSUME IInv
  PROVE  S!GraphOK
<1>1. conf \in Settings /\ edges \subseteq Edge /\ SimpleGraph
  BY DEF IInv, Types
<1>2. S!IsFiniteSet(Nodes)
  BY <1>1, NodesFinite DEF S!IsFiniteSet, IsFiniteSet
<1>3. None \notin Nodes
  <2>1. Nodes \subseteq Nat
    BY <1>1, ConfType DEF Nodes
  <2> QED
    BY <2>1, NoneAssumption DEF NoneAssumption
<1>4. \A d, e \in edges : d.source # d.destination /\ (S!Ends(d) = S!Ends(e) => d = e)
  BY <1>1 DEF SimpleGraph, Ends, S!Ends
<1> QED
  BY <1>1, <1>2, <1>3, <1>4 DEF S!GraphOK, Edge

\* The invariant of the composition: the heap is a heap, and what it holds is the
\* queue of a right search of the overlay, which is built before the search.
PathsInv ==
  /\ QueueFit /\ S!SearchInv
  /\ search # "idle" => building = "built"

LEMMA PathsStart ==
  ASSUME Init, IInv
  PROVE  PathsInv
<1>1. QueueFit /\ S!SearchInit /\ search = "idle"
  BY InitMaps DEF Init, HeapInit
<1>2. S!SearchInv
  BY <1>1, GraphIsOK, S!SearchStarts
<1> QED
  BY <1>1, <1>2 DEF PathsInv

LEMMA BuildKeeps ==
  ASSUME PathsInv, IInv', Build
  PROVE  PathsInv'
<1>1. search = "idle" /\ UNCHANGED heapVars /\ conf' = conf
  BY DEF PathsInv, Build, BuildStep, Connect, SkipJoined, PassSelf, NextNode, IndexPanic
<1>2. /\ UNCHANGED <<source, dest, queue, visited, cells, result, search>>
      /\ Nodes' = Nodes /\ Slices' = Slices /\ Unvisited' = Unvisited
  BY <1>1 DEF heapVars, Nodes, Slices, Unvisited
<1>3. QueueFit'
  BY <1>2 DEF QueueFit, PathsInv
<1>4. S!GraphOK'
  <2>1. (IInv => S!GraphOK)'
    BY GraphIsOK, PTL
  <2> QED
    BY <2>1
<1>5. S!SearchTypes'
  BY <1>2 DEF PathsInv, S!SearchInv, S!SearchTypes, S!ArraysOK
<1>6. S!SearchInv'
  BY <1>1, <1>2, <1>4, <1>5 DEF PathsInv, S!SearchInv
<1> QED
  BY <1>1, <1>2, <1>3, <1>6 DEF PathsInv

LEMMA SearchKeepsPaths ==
  ASSUME PathsInv, IInv, Search
  PROVE  PathsInv'
<1>1. QueueFit' /\ S!SearchStep /\ Still
  BY GraphIsOK, SearchMaps DEF PathsInv
<1>2. S!SearchInv'
  BY <1>1, StillNodes, S!SearchKeeps DEF PathsInv
<1>3. building' = "built"
  BY DEF Search
<1> QED
  BY <1>1, <1>2, <1>3 DEF PathsInv

LEMMA PathsStutter ==
  ASSUME PathsInv, UNCHANGED vars
  PROVE  PathsInv'
<1>1. /\ UNCHANGED <<source, dest, queue, visited, cells, result, search>>
      /\ UNCHANGED <<conf, edges, building>>
  BY DEF vars, heapVars, overlayVars
<1>2. Nodes' = Nodes /\ Slices' = Slices /\ Unvisited' = Unvisited
  BY <1>1 DEF Nodes, Slices, Unvisited
<1>3. QueueFit'
  BY <1>1, <1>2 DEF QueueFit, PathsInv
<1>4. UNCHANGED <<S!searchVars, edges, Nodes>>
  BY <1>1, <1>2 DEF S!searchVars
<1>5. S!SearchInv'
  BY <1>4, S!SearchStutters DEF PathsInv
<1> QED
  BY <1>1, <1>3, <1>5 DEF PathsInv

\* The invariant holds for every setting and every weight.
THEOREM PathsInvariant == Spec => []PathsInv
<1>1. Init /\ IInv => PathsInv
  BY PathsStart
<1>2. PathsInv /\ IInv /\ IInv' /\ [Next]_vars => PathsInv'
  BY BuildKeeps, SearchKeepsPaths, PathsStutter DEF Next
<1> QED
  BY <1>1, <1>2, OverlayIsBuilt, Inductive, PTL DEF Spec

LEMMA SameSteps ==
  /\ U!SearchInit <=> S!SearchInit
  /\ U!SearchStep <=> S!SearchStep
  /\ U!searchVars = S!searchVars
  /\ \A n : U!Least(n) <=> S!Least(n)
<1>1. \A n : U!Least(n) <=> S!Least(n)
  BY DEF U!Least, S!Least
<1>2. \A n, w, p : U!Relaxed(n, w, p) = S!Relaxed(n, w, p)
  BY DEF U!Relaxed, S!Relaxed, U!Cheaper, S!Cheaper, U!Target, S!Target,
         U!EdgesOf, S!EdgesOf, U!Ends, S!Ends
<1>3. ASSUME NEW n
      PROVE  U!Visit(n) <=> S!Visit(n)
  BY <1>1, <1>2, SameSlices DEF U!Visit, S!Visit
<1>4. ASSUME NEW n
      PROVE  U!Return(n) <=> S!Return(n)
  BY <1>1, SameSlices DEF U!Return, S!Return
<1>5. \A s, d : U!Begin(s, d) <=> S!Begin(s, d)
  BY SameSlices DEF U!Begin, S!Begin
<1>6. U!NoPath <=> S!NoPath
  BY DEF U!NoPath, S!NoPath
<1>7. {U!Ends(e) : e \in edges} = {S!Ends(e) : e \in edges}
  BY DEF U!Ends, S!Ends
<1>8. U!SearchStep <=> S!SearchStep
  BY <1>3, <1>4, <1>5, <1>6, <1>7 DEF U!SearchStep, S!SearchStep
<1>9. (U!SearchInit <=> S!SearchInit) /\ U!searchVars = S!searchVars
  BY DEF U!SearchInit, S!SearchInit, U!searchVars, S!searchVars
<1> QED
  BY <1>1, <1>8, <1>9

\* GetShortestPath with its heap implements the search that pops any item of
\* least weight (pathing.go:36-83 against UniformCostSearch).
THEOREM HeapImplements == Spec => PopsLeast
<1>1. Init => U!SearchInit
  BY InitMaps, SameSteps DEF Init
<1>2. PathsInv /\ IInv /\ [Next]_vars => [U!SearchStep]_U!searchVars
  <2>1. PathsInv /\ IInv /\ Search => U!SearchStep
    BY GraphIsOK, SearchMaps, SameSteps DEF PathsInv
  <2>2. Build \/ UNCHANGED vars => UNCHANGED U!searchVars
    BY DEF Build, vars, heapVars, U!searchVars, Unvisited
  <2> QED
    BY <2>1, <2>2 DEF Next
<1> QED
  BY <1>1, <1>2, PathsInvariant, OverlayIsBuilt, Inductive, PTL DEF Spec, PopsLeast, U!SearchSpec

\* The reference is the one of UniformCostSearchProofs.
LEMMA SameReference ==
  /\ \A d : Distances(Nodes, d) = S!Distances(Nodes, d)
  /\ \A a, b : Adjacent(a, b) = S!Adjacent(a, b) /\ Cost(a, b) = S!Cost(a, b)
  /\ \A n, r : Walked(Nodes, n, r) = S!Walked(Nodes, n, r)
<1>1. /\ \A a, b : Adjacent(a, b) = S!Adjacent(a, b)
      /\ \A a, b : Cost(a, b) = S!Cost(a, b)
  BY DEF Adjacent, S!Adjacent, Cost, S!Cost, Ends, S!Ends
<1>4. \A d : Distances(Nodes, d) = S!Distances(Nodes, d)
  BY DEF Distances, S!Distances, Far, S!Far, Cardinality, S!Cardinality, Round, S!Round, Min, S!Min,
         EdgesOf, S!EdgesOf, Ends, S!Ends, Target, S!Target
<1>5. \A n, r : Walked(Nodes, n, r) = S!Walked(Nodes, n, r)
  BY DEF Walked, S!Walked, Adjacent, S!Adjacent, Cost, S!Cost, Ends, S!Ends,
         Far, S!Far, Cardinality, S!Cardinality
<1> QED
  BY <1>1, <1>4, <1>5

\* The node popped next is at its true distance (pathing.go:40).
THEOREM PopsAtDistance == Spec => []PopsDistance
<1>1. PathsInv => PopsDistance
  BY S!PopIsDistance, SameReference, SameSteps
     DEF PathsInv, PopsDistance, Distance, S!SearchInv
<1> QED
  BY <1>1, PathsInvariant, PTL
\* Every first hop brings a message nearer to its destination, on every overlay and
\* however ties are broken: messages that are relayed hop by hop
\* (messenger.go:282-303) do not circle where weights are positive.
THEOREM HopsAreNearer == Spec => []HopsApproach
<1>1. PathsInv => HopsApproach
  <2> SUFFICES ASSUME PathsInv, search = "found"
               PROVE  /\ result[1] \in Neighbours(source)
                      /\ Distance(dest)[source] =
                           Cost(source, result[1]) + Distance(dest)[result[1]]
    BY DEF HopsApproach
  <2>1. S!GraphOK /\ S!Found
    BY DEF PathsInv, S!SearchInv
  <2> PICK h : h = result[1]
    OBVIOUS
  <2>2. /\ S!Adjacent(source, h)
        /\ S!Distances(Nodes, dest)[source] =
             S!Cost(source, h) + S!Distances(Nodes, dest)[h]
    BY <2>1 DEF S!Found
  <2>3. source \in Nodes /\ h \in Nodes /\ h # source /\ S!Adjacent(h, source)
    BY <2>1, <2>2, S!NeighbourFacts
  <2>4. Joined(h, source)
    BY <2>3 DEF Joined, S!Adjacent, Ends, S!Ends
  <2>5. h \in Neighbours(source)
    BY <2>3, <2>4 DEF Neighbours
  <2>6. Distance(dest)[source] = Cost(source, h) + Distance(dest)[h]
    BY <2>2, SameReference DEF Distance
  <2> QED
    BY <2>5, <2>6
<1> QED
  BY <1>1, PathsInvariant, PTL

\* A path of at most three hops ends at its destination and weighs what the shortest
\* one does: append has not yet written to an array that two paths share
\* (pathing.go:41).
THEOREM ShortPaths == Spec => []ShortPathIsShortest
<1>1. PathsInv => ShortPathIsShortest
  BY SameReference DEF PathsInv, S!SearchInv, S!Found, ShortPathIsShortest, Distance
<1> QED
  BY <1>1, PathsInvariant, PTL

\* The types of the composition: what is queued is a node that is not visited, and
\* each item knows its place in the heap, by which update moves it (pathing.go:133).
THEOREM TypeCorrect == Spec => []TypeOK
<1>1. ASSUME PathsInv, IInv
      PROVE  TypeOK
  <2>1. /\ conf \in Settings /\ index \in Nodes /\ checkedSelf \in BOOLEAN
        /\ edges \subseteq [source : Nodes, destination : Nodes, weight : 0..50]
        /\ building \in {"busy", "built", "panicked"}
    BY <1>1 DEF IInv, Types, Edge
  <2>2. targetIndex \in -conf.nodes..conf.nodes - 1
    <3>1. conf.nodes \in Nat
      BY <2>1, ConfType
    <3> QED
      BY <1>1, <3>1 DEF IInv, Types
  <2>3. /\ source \in Nodes \cup {None} /\ dest \in Nodes \cup {None}
        /\ visited \subseteq Nodes /\ DOMAIN Unvisited \subseteq Nodes \ visited
        /\ \A n \in DOMAIN cells : cells[n] \in Seq(Nodes \cup {None})
        /\ result \in Seq(Nodes)
        /\ search \in {"idle", "busy", "found", "failed"}
    BY <1>1 DEF PathsInv, S!SearchInv, S!SearchTypes, S!ArraysOK
  <2>4. ASSUME NEW i \in 1..Len(queue)
        PROVE  queue[i].address \in Nodes \ visited /\ queue[i].index = i
    <3>1. queue[i].index = i
      BY <1>1 DEF PathsInv, QueueFit, Fit, WellFormed
    <3>2. queue[i].address \in DOMAIN Unvisited
      BY DEF Unvisited
    <3> QED
      BY <2>3, <3>1, <3>2
  <2> QED
    BY <2>1, <2>2, <2>3, <2>4 DEF TypeOK
<1> QED
  BY <1>1, PathsInvariant, OverlayIsBuilt, Inductive, PTL

\* The overlay that is searched has what BuildOverlay promises: every node served, its
\* degree as asked for, and the whole connected.
COROLLARY OverlayKept ==
  Spec => [](AllServed /\ SimpleGraph /\ IndexInRange /\ DegreesFit /\ OverlayConnected)
BY OverlayIsBuilt, EveryNodeServed, Simple, InRange, DegreeBound, Connected, PTL

\* A search whose queue has run empty has visited all nodes that its own is joined to,
\* however far, and not its destination: with two connections there is no such search.
LEMMA EmptyQueueFails ==
  ASSUME PathsInv, IInv, RingInv, search = "busy", queue = <<>>, conf.conns >= 2
  PROVE  FALSE
<1>1. /\ S!Settled /\ source \in Nodes /\ dest \in Nodes /\ visited \subseteq Nodes \ {dest}
      /\ source \in visited \/ DOMAIN Unvisited = {source}
  BY DEF PathsInv, S!SearchInv, S!Busy, S!QueueInv
<1>2. DOMAIN Unvisited = {}
  BY DEF Unvisited
<1>3. source \in visited
  BY <1>1, <1>2
<1>4. Types /\ \A n \in Nodes : Served(n)
  BY DEF IInv, ServedInv, PathsInv
<1>5. ASSUME NEW a \in visited, NEW b \in Neighbours(a)
      PROVE  b \in visited
  <2>1. Joined(b, a)
    BY <1>5 DEF Neighbours
  <2>2. S!Adjacent(a, b)
    BY <2>1 DEF Joined, S!Adjacent, Ends, S!Ends
  <2> QED
    BY <1>1, <1>2, <2>2 DEF S!Settled, S!Settles
<1>6. CASE 0 \in visited
  <2>1. visited \subseteq Nodes /\ \A n \in visited : Neighbours(n) \subseteq visited
    BY <1>1, <1>5
  <2>2. visited = Nodes
    BY <1>4, <1>6, <2>1, ClosedIsAll
  <2> QED
    BY <1>1, <2>2
<1>7. CASE 0 \notin visited
  <2> PICK C : C = Nodes \ visited
    OBVIOUS
  <2>1. 0 \in C /\ C \subseteq Nodes
    BY <1>4, <1>7, ConfType DEF Types, Nodes
  <2>2. ASSUME NEW n \in C, NEW m \in Neighbours(n)
        PROVE  m \in C
    <3>1. n \in Neighbours(m) /\ m \in Nodes
      BY <2>1, <2>2, NeighbourOf
    <3> QED
      BY <1>5, <2>2, <3>1
  <2>3. C = Nodes
    BY <1>4, <2>1, <2>2, ClosedIsAll
  <2> QED
    BY <1>1, <1>3, <2>3
<1> QED
  BY <1>6, <1>7

\* The safety half of SearchSucceeds: with two connections or more per node no search
\* ends without a path, and no messenger in log.Fatal (pathing.go:37, messenger.go:230).
THEOREM PathExists == Spec => [](search = "failed" => conf.conns < 2)
<1> DEFINE Possible == search = "failed" => conf.conns < 2
<1>1. Init => Possible
  BY DEF Init, HeapInit
<1>2. PathsInv /\ IInv /\ RingInv /\ Possible /\ [Next]_vars => Possible'
  <2> SUFFICES ASSUME PathsInv, IInv, RingInv, Possible, [Next]_vars, search' = "failed"
               PROVE  conf'.conns < 2
    OBVIOUS
  <2>1. conf.conns \in Nat
    BY ConfType DEF IInv, Types
  <2>2. CASE Build
    <3>1. conf' = conf /\ search' = search
      BY <2>2 DEF Build, BuildStep, Connect, SkipJoined, PassSelf, NextNode, IndexPanic, heapVars
    <3> QED
      BY <3>1
  <2>3. CASE Search
    <3>1. conf' = conf /\ NoPath
      BY <2>3 DEF Search, Begin, Visit, Return
    <3>2. search = "busy" /\ queue = <<>>
      BY <3>1 DEF NoPath
    <3>3. ~(conf.conns >= 2)
      BY <3>2, EmptyQueueFails
    <3> QED
      BY <2>1, <3>1, <3>3
  <2>4. CASE UNCHANGED vars
    BY <2>4 DEF vars, overlayVars, heapVars
  <2> QED
    BY <2>2, <2>3, <2>4 DEF Next
<1> QED
  BY <1>1, <1>2, PathsInvariant, OverlayIsBuilt, Inductive, Ring, PTL DEF Spec

\* What a search has left: its nodes, and its end.
Left ==
  IF search = "idle" THEN conf.nodes + 2
  ELSE IF search = "busy" THEN conf.nodes - Cardinality(visited) + 1
  ELSE 0

\* Every iteration of the search visits a node for the first time or ends it, so
\* GetShortestPath makes no more iterations than there are nodes (pathing.go:36-83).
THEOREM SearchShrinks == Spec => [][Search => Left' \in Nat /\ Left' < Left]_vars
<1>1. ASSUME PathsInv, PathsInv', IInv, Search
      PROVE  Left' \in Nat /\ Left' < Left
  <2>1. conf' = conf /\ conf.nodes \in Nat \ {0} /\ Nodes' = Nodes
    BY <1>1, ConfType DEF Search, IInv, Types, Nodes
  <2>2. visited \subseteq Nodes /\ visited' \subseteq Nodes
    BY <1>1, <2>1 DEF PathsInv, S!SearchInv, S!SearchTypes
  <2> PICK N : N = conf.nodes
    OBVIOUS
  <2>3. IsFiniteSet(Nodes) /\ Cardinality(Nodes) = N
    <3> PICK j : j = N - 1
      OBVIOUS
    <3>1. 0 \in Int /\ j \in Int /\ ~(0 > j) /\ N = j - 0 + 1 /\ Nodes = 0..j
      BY <2>1 DEF Nodes
    <3>2. /\ IsFiniteSet(0..j)
          /\ Cardinality(0..j) = IF 0 > j THEN 0 ELSE j - 0 + 1
      BY <3>1, FS_Interval, Zenon
    <3> QED
      BY <3>1, <3>2
  <2> PICK c, d : c = Cardinality(visited) /\ d = Cardinality(visited')
    OBVIOUS
  <2>4. IsFiniteSet(visited) /\ c \in 0..N /\ d \in 0..N
    BY <2>1, <2>2, <2>3, FS_Subset, FS_CardinalityType
  <2>5. CASE search' = "found" \/ search' = "failed"
    <3>1. search = "busy"
      BY <1>1, <2>5 DEF Search, Begin, Visit, Return, NoPath
    <3>2. Left = N - c + 1 /\ Left' = 0
      BY <2>5, <3>1 DEF Left
    <3> QED
      BY <2>1, <2>4, <3>2
  <2>6. CASE \E s, e : Begin(s, e)
    <3>1. search = "idle" /\ search' = "busy"
      BY <2>6 DEF Begin
    <3>2. Left = N + 2 /\ Left' = N - d + 1
      BY <2>1, <3>1 DEF Left
    <3> QED
      BY <2>1, <2>4, <3>2
  <2>7. CASE Visit
    <3>1. search = "busy" /\ search' = "busy" /\ queue # <<>>
          /\ visited' = visited \cup {queue[1].address}
      BY <2>7 DEF Visit
    <3> PICK n : n = queue[1].address
      OBVIOUS
    <3>2. n \notin visited
      <4>1. \E w, path : IsNext(n, w, path)
        BY <1>1, <3>1, NextIs DEF PathsInv
      <4>2. n \in DOMAIN Unvisited
        BY <4>1 DEF IsNext
      <4> QED
        BY <1>1, <4>2 DEF PathsInv, S!SearchInv, S!SearchTypes
    <3>3. Cardinality(visited \cup {n}) = c + 1
      BY <2>4, <3>2, FS_AddElement
    <3>4. d = c + 1
      BY <3>1, <3>3
    <3>5. Left = N - c + 1 /\ Left' = N - d + 1
      BY <2>1, <3>1 DEF Left
    <3> QED
      BY <2>1, <2>4, <3>4, <3>5
  <2> QED
    BY <1>1, <2>5, <2>6, <2>7 DEF Search, Return, NoPath
<1>2. PathsInv /\ PathsInv' /\ IInv /\ [Next]_vars =>
        [Search => Left' \in Nat /\ Left' < Left]_vars
  BY <1>1
<1> QED
  BY <1>2, PathsInvariant, OverlayIsBuilt, Inductive, PTL DEF Spec
=============================================================================
