----------------------------- MODULE MCRegistry -----------------------------
(* Instances of Registry: a chain of a parent, its child and the inlined     *)
(* member of that child.                                                     *)
EXTENDS Registry

CONSTANTS r, a, b, i

MCParentOf == [n \in Nodes |-> CASE n = a -> r [] n = b -> a [] n = i -> b]
=============================================================================
