-------------------------- MODULE UniformCostSearch --------------------------
(***************************************************************************)
(* One call of GetShortestPath of overlay/pathing.go.  A step is one       *)
(* iteration of its loop: the pop, the append to the popped item's path,   *)
(* and the return or the range over the item's edges.                      *)
(*                                                                         *)
(* The priority queue is abstracted to a map from addresses to items, of   *)
(* which any item of least weight is popped; HeapSearch has the queue of   *)
(* the code and implements this module.  Paths are Go slices: an array and a length.  The   *)
(* arrays are kept in cells, each named by the node whose append allocated *)
(* it, for items share them: an append within the capacity of the array    *)
(* writes to it.                                                           *)
(***************************************************************************)
EXTENDS Edges, Integers, Sequences, FiniteSets

CONSTANT None      \* the unwritten cell of an array

VARIABLES
  source, dest,    \* sourceAddr and destAddr
  unvisited,       \* the queue: weight and path of each address in it
  visited,
  cells,           \* the arrays
  result,          \* the path returned
  search           \* "idle", "busy", "found" or "failed"

searchVars == <<source, dest, unvisited, visited, cells, result, search>>

-----------------------------------------------------------------------------
(* Slices of graphEdges, of which only the addresses are read. *)

Nil == [array |-> None, len |-> 0]
Capacity(slice) == IF slice = Nil THEN 0 ELSE Len(cells[slice.array])

\* Arrays made with room for a longer path.
FaultyGrown(slice, n) ==                                     \* Grown
  [k \in 1..(IF slice = Nil THEN 4 ELSE 2 * Capacity(slice)) |->
     IF k <= slice.len THEN cells[slice.array][k]
     ELSE IF k = slice.len + 1 THEN n ELSE None]

\* The array of append's result once the capacity is used up: it doubles.
Grown(slice, n) ==
  [k \in 1..(IF slice = Nil THEN 1 ELSE 2 * Capacity(slice)) |->
     IF k <= slice.len THEN cells[slice.array][k]
     ELSE IF k = slice.len + 1 THEN n ELSE None]

(* Faults the properties must tell from the code. *)
FaultyNeverCheaper(old, new) == FALSE                        \* Cheaper

Fits(slice) == slice.len < Capacity(slice)

\* append(slice, n): the slice it returns, and the arrays after it.
Appended(slice, n) == [array |-> IF Fits(slice) THEN slice.array ELSE n,
                       len |-> slice.len + 1]
Written(slice, n) ==
  IF Fits(slice) THEN [cells EXCEPT ![slice.array][slice.len + 1] = n]
  ELSE [o \in DOMAIN cells \cup {n} |-> IF o = n THEN Grown(slice, n) ELSE cells[o]]

-----------------------------------------------------------------------------
SearchInit ==
  /\ source = None /\ dest = None
  /\ unvisited = [n \in {} |-> None] /\ visited = {}
  /\ cells = [n \in {} |-> <<>>]
  /\ result = <<>>
  /\ search = "idle"

\* GetShortestPath is called.
Begin(s, d) ==
  /\ search = "idle"
  /\ source' = s /\ dest' = d
  /\ unvisited' = [n \in {s} |-> [weight |-> 0, path |-> Nil]]
  /\ search' = "busy"
  /\ UNCHANGED <<edges, visited, cells, result>>

Least(n) ==
  /\ n \in DOMAIN unvisited
  /\ \A m \in DOMAIN unvisited : unvisited[n].weight <= unvisited[m].weight

Cheaper(old, new) == old > new

\* The queue after the range over the edges of n, popped with this weight.
Relaxed(n, weight, path) ==
  LET queued == DOMAIN unvisited \ {n}
      reached == {e \in EdgesOf(n) : Target(e, n) \notin visited \cup {n}}
      offer(m) == weight + (CHOOSE e \in reached : Target(e, n) = m).weight
      offered == {Target(e, n) : e \in reached}
      better == {m \in offered : m \in queued => Cheaper(unvisited[m].weight, offer(m))}
  IN  [m \in queued \cup offered |->
         IF m \in better THEN [weight |-> offer(m), path |-> path] ELSE unvisited[m]]

\* The popped item is the destination: its path is returned.
Return(n) ==
  /\ search = "busy"
  /\ Least(n) /\ n = dest
  /\ cells' = Written(unvisited[n].path, n)
  /\ LET path == Appended(unvisited[n].path, n)
     IN  result' = SubSeq(cells'[path.array], 2, path.len)
  /\ search' = "found"
  /\ unvisited' = [m \in DOMAIN unvisited \ {n} |-> unvisited[m]]
  /\ UNCHANGED <<edges, source, dest, visited>>

Visit(n) ==
  /\ search = "busy"
  /\ Least(n) /\ n # dest
  /\ cells' = Written(unvisited[n].path, n)
  /\ visited' = visited \cup {n}
  /\ unvisited' = Relaxed(n, unvisited[n].weight, Appended(unvisited[n].path, n))
  /\ UNCHANGED <<edges, source, dest, result, search>>

\* The queue is empty: an error, which makes the messenger call log.Fatal.
NoPath ==
  /\ search = "busy"
  /\ unvisited = [n \in {} |-> None]
  /\ search' = "failed"
  /\ UNCHANGED <<edges, source, dest, unvisited, visited, cells, result>>

SearchStep ==
  \/ \E s, d \in UNION {Ends(e) : e \in edges} : s # d /\ Begin(s, d)
  \/ \E n \in DOMAIN unvisited : Visit(n) \/ Return(n)
  \/ NoPath

SearchSpec == SearchInit /\ [][SearchStep]_searchVars
=============================================================================
