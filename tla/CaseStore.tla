----------------------------- MODULE CaseStore -----------------------------
(***************************************************************************)
(* What the row of a test case can become, whatever the pages that edit it *)
(* do.  A case is added once and gone for good once removed.  Storing a    *)
(* tree, a result or a log path touches that column alone, and a result    *)
(* always answers a tree the case has held.  Storing the form rewrites the *)
(* whole row, but its tree and its result are those of one earlier row:    *)
(* columns of different times are never mixed by it.                       *)
(***************************************************************************)
CONSTANTS Rows,            \* the rows of a case
          Trees, Logs,
          Answers,         \* the results an exchange with an answer leaves
          NoReply,         \* the result of an exchange without an answer
          NotYet, Gone     \* no row: before the addition, after the removal

VARIABLES row,   \* the committed row
          past   \* what the rows committed so far were, form fields aside

svars == <<row, past>>

Init == row = NotYet /\ past = {}

Outline(r) == [tree |-> r.tree, result |-> r.result, format |-> r.format]

Record == past' = past \cup {Outline(row')}

Add ==
  /\ row = NotYet
  /\ row' \in Rows
  /\ Record

StoreForm ==
  /\ row \in Rows
  /\ row' \in Rows
  /\ \E r \in past : row'.tree = r.tree /\ row'.result = r.result
  /\ Record

StoreTree ==
  /\ row \in Rows
  /\ \E t \in Trees : row' = [row EXCEPT !.tree = t]
  /\ Record

StoreResult ==
  /\ row \in Rows
  /\ \E x \in {NoReply} \cup {a \in Answers : \E r \in past : a.tree = r.tree} :
       row' = [row EXCEPT !.result = x]
  /\ Record

StoreLog ==
  /\ row \in Rows
  /\ \E l \in Logs : row' = [row EXCEPT !.log = l]
  /\ Record

Remove ==
  /\ row \in Rows
  /\ row' = Gone
  /\ UNCHANGED past

Next == Add \/ StoreForm \/ StoreTree \/ StoreResult \/ StoreLog \/ Remove

Spec == Init /\ [][Next]_svars
=============================================================================
