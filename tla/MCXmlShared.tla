---------------------------- MODULE MCXmlShared ----------------------------
(* Three parses of which two may overlap, so that one may follow a race.   *)
(* Parses that overlap have two elements, one on its own has any document  *)
(* of up to four.                                                          *)
EXTENDS XmlShared, TLC

CONSTANTS q1, q2, q3

Pair == {<<0, 1>>}
Family == {<<0>>, <<0, 1>>, <<0, 1, 1>>, <<0, 1, 2>>}
          \cup ({<<0, 1, i, j>> : i \in 1..2, j \in 1..3} \ {<<0, 1, 1, 2>>})

\* The bound on documents that are parsed at the same time.
SmallRaces ==
  Cardinality(Active) > 1 => \A q \in Active : doc[q] \in Pair \cup {Malformed}

ParseSymmetry == Permutations(Parses)
=============================================================================
