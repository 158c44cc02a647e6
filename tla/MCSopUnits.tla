---------------------------- MODULE MCSopUnits -----------------------------
(* Every message of up to MaxAny bytes, and forms of up to two lines and   *)
(* columns followed by up to MaxCells bytes.                               *)
EXTENDS SopUnits

CONSTANTS MaxAny, MaxCells

Strings(S, n) == UNION {[1..k -> S] : k \in 0..n}

MCMessages ==
  Strings(0..5, MaxAny) \cup
  {<<1, FByte, l, c>> \o t : l \in 0..2, c \in 0..2, t \in Strings({0, 1, 2, 4}, MaxCells)}
=============================================================================
