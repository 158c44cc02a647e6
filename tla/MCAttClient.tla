--------------------------- MODULE MCAttClient -----------------------------
(* Every reply of at most MaxReply bytes.                                  *)
EXTENDS AttClient

CONSTANT MaxReply

MCReplies ==
  {r \in SUBSET (0..MaxReply) :
     /\ 0 \in r /\ r # {0}
     /\ \A s, e \in r : s < e => s + 2 <= e}
=============================================================================
