----------------------------- MODULE TreeStore -----------------------------
(***************************************************************************)
(* The tree store of Webix (TreeStore in codebase/webix.js) as the main    *)
(* page uses it: groups at the top, businesses under them.                 *)
(*                                                                         *)
(* The store keeps one fact in three places: an item names its parent, the *)
(* parent's branch lists the item, and the parent counts its children.     *)
(* Each operation repairs them on its own.  A branch is the set of what it *)
(* lists, its order is left out.                                           *)
(***************************************************************************)
EXTENDS Naturals, FiniteSets

CONSTANTS Groups, Businesses, Root, None

Items == Groups \cup Businesses

ASSUME ItemAssumption ==
  /\ IsFiniteSet(Items) /\ Groups \cap Businesses = {}
  /\ Root \notin Items /\ None \notin Items /\ Root # None

\* Items outside the pull have default values.
Stores == [pull : SUBSET Items, parent : [Items -> Items \cup {Root}],
           branch : [Items \cup {Root} -> SUBSET Items],
           count : [Items -> Nat], open : SUBSET Items]

EmptyStore == [pull |-> {}, parent |-> [i \in Items |-> Root],
               branch |-> [i \in Items \cup {Root} |-> {}],
               count |-> [i \in Items |-> 0], open |-> {}]

\* What the server sends: for each group the businesses in it.
Answers == UNION {[gs -> SUBSET Businesses] : gs \in SUBSET Groups}

-----------------------------------------------------------------------------
\* What the store of lists that it is built on does: an item is put into
\* the pull and into the order it is given, here a branch.
Stored(tree, id, p) == [tree EXCEPT !.pull = @ \cup {id}, !.branch[p] = @ \cup {id}]

\* The parent does not count it (a mutant of Added).
AddedUncounted(tree, id, p) ==
  [Stored(tree, id, p) EXCEPT !.parent[id] = p, !.count[id] = 0]

\* add, of an item that is not in the store, under p.  Under an item that is
\* not there it gets no parent, and is put into that item's branch all the
\* same.
Added(tree, id, p) ==
  [Stored(tree, id, p) EXCEPT
               !.parent[id] = IF p \in tree.pull THEN p ELSE Root,
               !.count = [i \in Items |-> IF i = id THEN 0
                                          ELSE IF i = p /\ p \in tree.pull THEN @[i] + 1
                                          ELSE @[i]]]

\* The parent stays open (a mutant of Removed).
RemovedStaysOpen(tree, id) ==
  LET p == tree.parent[id]
      gone == {id} \cup tree.branch[id]
  IN  [pull |-> tree.pull \ gone,
       parent |-> [i \in Items |-> IF i \in gone THEN Root ELSE tree.parent[i]],
       branch |-> [i \in Items \cup {Root} |->
                    IF i \in gone THEN {} ELSE tree.branch[i] \ {id}],
       count |-> [i \in Items |-> IF i \in gone THEN 0
                                  ELSE IF i = p THEN tree.count[i] - 1 ELSE tree.count[i]],
       open |-> tree.open \ gone]

\* remove takes what is below the item with it; a parent left without
\* children is closed.
Removed(tree, id) ==
  LET p == tree.parent[id]
      gone == {id} \cup tree.branch[id]
      left == IF p = Root THEN 1 ELSE tree.count[p] - 1
  IN  [pull |-> tree.pull \ gone,
       parent |-> [i \in Items |-> IF i \in gone THEN Root ELSE tree.parent[i]],
       branch |-> [i \in Items \cup {Root} |->
                    IF i \in gone THEN {} ELSE tree.branch[i] \ {id}],
       count |-> [i \in Items |-> IF i \in gone THEN 0
                                  ELSE IF i = p THEN left ELSE tree.count[i]],
       open |-> tree.open \ (gone \cup (IF left = 0 THEN {p} ELSE {}))]

\* A reload merges: what the store has and the server has not, stays.  An
\* item it has gets the parent the server names, but no branch is touched
\* for it.
Merged(tree, answer) ==
  LET sent(g) == answer[g]
      in(b) == {g \in DOMAIN answer : b \in answer[g]}
      branch == [i \in Items \cup {Root} |->
                  CASE i = Root -> tree.branch[Root] \cup (DOMAIN answer \ tree.pull)
                    [] i \in DOMAIN answer -> tree.branch[i] \cup (sent(i) \ tree.pull)
                    [] OTHER -> tree.branch[i]]
  IN  [pull |-> tree.pull \cup DOMAIN answer \cup UNION {sent(g) : g \in DOMAIN answer},
       parent |-> [i \in Items |->
                    IF i \in DOMAIN answer THEN Root
                    ELSE IF in(i) # {} THEN CHOOSE g \in in(i) : TRUE ELSE tree.parent[i]],
       branch |-> branch,
       count |-> [i \in Items |->
                   IF i \in DOMAIN answer THEN Cardinality(branch[i])
                   ELSE IF in(i) # {} THEN 0 ELSE tree.count[i]],
       open |-> tree.open]

-----------------------------------------------------------------------------
\* What a reload names another parent for than the tree has.
Displaced(tree, answer) ==
  {b \in tree.pull : \E g \in DOMAIN answer : b \in answer[g] /\ tree.parent[b] # g}

\* What a user can find by opening branches.
Listed(tree) ==
  {i \in tree.pull : \E p \in {Root} \cup (tree.branch[Root] \cap tree.pull) : i \in tree.branch[p]}
=============================================================================
