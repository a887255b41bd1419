------------------------------- MODULE Edges -------------------------------
(***************************************************************************)
(* The edges of the overlay, messaging.Edge of overlay_registration.proto: *)
(* made by BuildOverlay, pushed to the messengers, searched by             *)
(* GetShortestPath.  An edge may be followed both ways.                    *)
(***************************************************************************)
VARIABLE edges

Ends(e) == {e.source, e.destination}
FaultyEdgesOf(n) == {e \in edges : e.source = n}             \* EdgesOf
EdgesOf(n) == {e \in edges : n \in Ends(e)}
Target(e, n) == IF e.destination = n THEN e.source ELSE e.destination
=============================================================================
