---------------------------- MODULE MCHierarchy ----------------------------
(* A tree of one collection with one business, one case collection and one *)
(* case, a second business and case collection without children, and one   *)
(* unused key per lower table.                                             *)
EXTENDS Hierarchy

CONSTANTS w1, w2, c1, b1, b2, g1, g2, k1, k2

MCStart == [i \in Ids |->
  CASE i = c1 -> Root
    [] i = b1 -> c1
    [] i = b2 -> c1
    [] i = g1 -> b1
    [] i = k1 -> g1
    [] OTHER -> Absent]
=============================================================================
