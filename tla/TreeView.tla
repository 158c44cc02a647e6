------------------------------ MODULE TreeView ------------------------------
(***************************************************************************)
(* How Webix shows a tree store (TreeRenderStack and TreeAPI in            *)
(* codebase/webix.js, with the item template of sidebar.js).               *)
(*                                                                         *)
(* An operation on the store repaints what it takes to be touched: an      *)
(* item, an item with what is below it, or everything.  painted maps each  *)
(* item to what its node on the page looks like.                           *)
(***************************************************************************)
EXTENDS TreeStore

Absent == "absent"

\* The collapsed sidebar paints icons, the other one an arrow if there is
\* something below the item.
template(tree, collapsed, i) ==
  CASE collapsed -> "icon"
    [] ~collapsed /\ tree.count[i] = 0 -> "plain"
    [] ~collapsed /\ tree.count[i] # 0 -> IF i \in tree.open THEN "down" ELSE "left"

isBranchOpen(tree, p) == p \in tree.open \cup {Root}

\* Everything: what the branches that are open list.
Render(tree, collapsed) ==
  [i \in Items |-> IF \E p \in Items \cup {Root} : isBranchOpen(tree, p) /\ i \in tree.branch[p]
                   THEN template(tree, collapsed, i) ELSE Absent]

\* The operations of render on one item.  One without a node is left alone.
RenderUpdate(painted, tree, collapsed, i) ==
  IF painted[i] = Absent THEN painted
  ELSE [painted EXCEPT ![i] = template(tree, collapsed, i)]

RenderBranch(painted, tree, collapsed, i) ==
  IF painted[i] = Absent THEN painted
  ELSE [j \in Items |-> IF j \in {i} \cup tree.branch[i] THEN Render(tree, collapsed)[j]
                        ELSE painted[j]]

RenderDelete(painted, gone) == [i \in Items |-> IF i \in gone THEN Absent ELSE painted[i]]

-----------------------------------------------------------------------------
closedAll(tree) == [tree EXCEPT !.open = {}]
opened(tree, id) == [tree EXCEPT !.open = @ \cup {id}]
closed(tree, id) == [tree EXCEPT !.open = @ \ {id}]

\* The parent is not painted again (a mutant of RenderRemoved).
RenderRemovedOnly(painted, tree, collapsed, id) ==
  RenderDelete(painted, {id} \cup tree.branch[id])

\* remove takes the item's node away; a parent left without children is
\* painted once more.
RenderRemoved(painted, tree, collapsed, id) ==
  LET p == tree.parent[id]
      cut == RenderDelete(painted, {id} \cup tree.branch[id])
  IN  IF p # Root /\ Removed(tree, id).count[p] = 0
      THEN RenderUpdate(cut, Removed(tree, id), collapsed, p) ELSE cut
=============================================================================
