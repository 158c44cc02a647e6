------------------------------ MODULE Catalog ------------------------------
(***************************************************************************)
(* What the tree of business collections, businesses, case collections and *)
(* cases promises its clients: every committed request changes the tables  *)
(* in exactly one of three ways.  It adds one row under an id nobody has   *)
(* seen before, it rewrites one row that is there, or it removes rows.     *)
(* A request never mixes the three, and an id that has been removed is     *)
(* never used again.                                                       *)
(***************************************************************************)
CONSTANTS Ids,      \* the primary keys (random UUIDs) of the four tables
          Root,     \* stands for "no parent": the parent of a collection
          Absent,   \* the value of an id with no row
          Start     \* the contents of the tables when the server starts

VARIABLES db,       \* the committed parent column of every row
          known     \* the ids that have ever been committed

cvars == <<db, known>>

Present(f) == {i \in Ids : f[i] # Absent}

Init == db = Start /\ known = Present(Start)

AddRow(i, p) ==
  /\ i \notin known
  /\ p # Absent
  /\ db' = [db EXCEPT ![i] = p]
  /\ known' = known \cup {i}

RewriteRow(i, p) ==
  /\ db[i] # Absent
  /\ p # Absent
  /\ db' = [db EXCEPT ![i] = p]
  /\ UNCHANGED known

\* A removal of the row t, already gone or one of the rows S it takes along.
RemoveRows(t, S) ==
  /\ t \in known
  /\ S \subseteq Present(db)
  /\ db[t] = Absent \/ t \in S
  /\ db' = [i \in Ids |-> IF i \in S THEN Absent ELSE db[i]]
  /\ UNCHANGED known

Next ==
  \/ \E i \in Ids, p \in Ids \cup {Root} : AddRow(i, p) \/ RewriteRow(i, p)
  \/ \E t \in Ids, S \in SUBSET Ids : RemoveRows(t, S)

Spec == Init /\ [][Next]_cvars
=============================================================================
