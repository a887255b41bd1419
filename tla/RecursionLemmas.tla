--------------------------- MODULE RecursionLemmas ---------------------------
(***************************************************************************)
(* Induction without operator parameters: every non-empty set of natural   *)
(* numbers has a least element, and a function defined by iterating a step *)
(* exists.  The proofs about the searches and the heap rest on these.      *)
(***************************************************************************)
EXTENDS Integers, Sequences, FiniteSets, FiniteSetTheorems, WellFoundedInduction, TLAPS

\* Every non-empty set of natural numbers has a least element.
LEMMA LeastNatural ==
  ASSUME NEW T \in SUBSET Nat, T # {}
  PROVE  \E n \in T : \A m \in T : n <= m
<1> DEFINE R == OpToRel(<, Nat)
<1>1. IsWellFoundedOn(R, Nat)
  BY NatLessThanWellFounded
<1>2. PICK n \in T : \A m \in T : ~ (<<m, n>> \in R)
  <2> HIDE DEF R
  <2> QED
    BY <1>1, WFMin
<1>3. \A m \in T : ~ (m < n)
  BY <1>2 DEF OpToRel
<1> QED
  BY <1>3

\* Induction: a set of naturals with 0 in it and closed under the successor up
\* to K has all numbers up to K.
LEMMA UpTo ==
  ASSUME NEW K \in Nat, NEW T, 0 \in T, \A k \in 0..K - 1 : k \in T => k + 1 \in T
  PROVE  \A k \in 0..K : k \in T
<1> DEFINE missing == {k \in 0..K : k \notin T}
<1> SUFFICES ASSUME missing # {} PROVE FALSE
  OBVIOUS
<1>1. missing \in SUBSET Nat
  OBVIOUS
<1>2. PICK n \in missing : \A m \in missing : n <= m
  <2> HIDE DEF missing
  <2> QED
    BY <1>1, LeastNatural
<1>3. n # 0 /\ n - 1 \in 0..K - 1
  OBVIOUS
<1>4. n - 1 \in T
  BY <1>2, <1>3
<1> QED
  BY <1>3, <1>4

\* f goes from a through K steps of g.
Iterates(f, X, a, g, K) ==
  f \in [0..K -> X] /\ f[0] = a /\ \A k \in 1..K : f[k] = g[f[k - 1]]

\* A step can be iterated.
LEMMA IterateExists ==
  ASSUME NEW X, NEW a, a \in X, NEW g, g \in [X -> X], NEW K, K \in Nat
  PROVE  \E f : Iterates(f, X, a, g, K)
<1> DEFINE T == {n \in Nat : \E f \in [0..n -> X] : f[0] = a /\ \A k \in 1..n : f[k] = g[f[k - 1]]}
<1>1. 0 \in T
  <2>1. [k \in 0..0 |-> a] \in [0..0 -> X] /\ [k \in 0..0 |-> a][0] = a
    OBVIOUS
  <2>2. \A k \in 1..0 : FALSE
    OBVIOUS
  <2> DEFINE f == [k \in 0..0 |-> a]
  <2>3. f \in [0..0 -> X] /\ f[0] = a /\ \A k \in 1..0 : f[k] = g[f[k - 1]]
    BY <2>1, <2>2
  <2> HIDE DEF f
  <2> QED
    BY <2>3
<1>2. ASSUME NEW n \in 0..K - 1, n \in T
      PROVE  n + 1 \in T
  <2>1. PICK f \in [0..n -> X] : f[0] = a /\ \A k \in 1..n : f[k] = g[f[k - 1]]
    BY <1>2
  <2> DEFINE h == [k \in 0..n + 1 |-> IF k = n + 1 THEN g[f[n]] ELSE f[k]]
  <2>2. h \in [0..n + 1 -> X] /\ h[0] = a
    BY <2>1
  <2>3. \A k \in 1..n + 1 : h[k] = g[h[k - 1]]
    BY <2>1
  <2> HIDE DEF h
  <2> QED
    BY <2>2, <2>3
<1> HIDE DEF T
<1>3. K \in T
  BY <1>1, <1>2, UpTo
<1> QED
  BY <1>3 DEF T, Iterates

\* f goes from a through the steps of g in turn.
Ranges(f, X, a, g, K) ==
  f \in [0..K -> X] /\ f[0] = a /\ \A k \in 1..K : f[k] = g[k][f[k - 1]]

\* A different step can be taken at each index, as a loop over a list does.
LEMMA RangeExists ==
  ASSUME NEW X, NEW a, a \in X, NEW K, K \in Nat, NEW g, g \in [1..K -> [X -> X]]
  PROVE  \E f : Ranges(f, X, a, g, K)
<1> DEFINE T == {n \in 0..K : \E f : Ranges(f, X, a, g, n)}
<1>1. 0 \in T
  <2> DEFINE f == [k \in 0..0 |-> a]
  <2>1. f \in [0..0 -> X] /\ f[0] = a /\ \A k \in 1..0 : FALSE
    OBVIOUS
  <2> HIDE DEF f
  <2>2. Ranges(f, X, a, g, 0)
    BY <2>1 DEF Ranges
  <2> QED
    BY <2>2
<1>2. ASSUME NEW n \in 0..K - 1, n \in T
      PROVE  n + 1 \in T
  <2>1. PICK f : Ranges(f, X, a, g, n)
    BY <1>2
  <2> DEFINE h == [k \in 0..n + 1 |-> IF k = n + 1 THEN g[n + 1][f[n]] ELSE f[k]]
  <2>2. f[n] \in X /\ g[n + 1] \in [X -> X] /\ n + 1 \in 0..K
    BY <2>1 DEF Ranges
  <2>3. h \in [0..n + 1 -> X] /\ h[0] = a
    BY <2>1, <2>2 DEF Ranges
  <2>4. \A k \in 1..n + 1 : h[k] = g[k][h[k - 1]]
    BY <2>1 DEF Ranges
  <2> HIDE DEF h
  <2>5. Ranges(h, X, a, g, n + 1)
    BY <2>3, <2>4 DEF Ranges
  <2> QED
    BY <2>2, <2>5
<1> HIDE DEF T
<1>3. \A k \in 0..K : k \in T
  BY <1>1, <1>2, UpTo
<1> QED
  BY <1>3 DEF T

\* A function on 1..n is a sequence of that length.
LEMMA FunctionSeq ==
  ASSUME NEW S, NEW n, n \in Nat, NEW f, f \in [1..n -> S]
  PROVE  f \in Seq(S) /\ Len(f) = n
<1>1. f \in Seq(S)
  OBVIOUS
<1> QED
  BY <1>1
=============================================================================
