--------------------------- MODULE MCSopMessage ----------------------------
(* Trees of up to MaxDeals deals with the lengths that matter: no business *)
(* data, some, and held lengths on both sides of the bound of getBuss.     *)
EXTENDS SopMessage

CONSTANTS MaxDeals, Outs, Combineds

MCDeals == {[biz |-> b, old |-> v] : b \in {0, 1, 40}, v \in {0, 65, 80}}

MCTrees ==
  {[out |-> o, combined |-> c, deals |-> d] :
     o \in Outs, c \in Combineds,
     d \in UNION {[1..n -> MCDeals] : n \in 1..MaxDeals}}

MCInTrees == {t \in MCTrees : t.out => Len(t.deals) = 1}
=============================================================================
