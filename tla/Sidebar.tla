------------------------------ MODULE Sidebar ------------------------------
(***************************************************************************)
(* The sidebar of the main page (components-master/sidebar/sidebar.js): a  *)
(* tree of which one branch is open at most, and which can be collapsed to *)
(* icons; a popup then shows the branch the pointer is on.                 *)
(*                                                                         *)
(* Tree, popup title and popup list each keep marks and selections of      *)
(* their own, brought in step by events.  The page adds that opening a     *)
(* branch unselects everything (main.html) and remembers the item last     *)
(* clicked in the tree.                                                    *)
(***************************************************************************)
EXTENDS TreeView

VARIABLES
  tree,       \* the store
  painted,    \* what each item looks like on the page
  selected,   \* the item with webix_selected, None for none
  marks,      \* the items with webix_sidebar_selected
  collapsed,
  popup,      \* [shown, master, list, chosen], the title's two classes, and
              \*   current: history, no request has changed the store since
  sideBarSelectedItem  \* the item last clicked

sidebarVars == <<tree, painted, selected, marks, collapsed, popup, sideBarSelectedItem>>

NoPopup == [shown |-> FALSE, master |-> None, list |-> {}, chosen |-> None,
            titleMarked |-> FALSE, titleSelected |-> FALSE, current |-> TRUE]

getBranch(id) == tree.branch[id]
Leaf(id) == id \in tree.pull /\ tree.count[id] = 0
Visible(id) == painted[id] # Absent

\* The window of the popup.  Only a collapsed sidebar lets it be shown.
show(p) == [p EXCEPT !.shown = collapsed]
hide(p) == [p EXCEPT !.shown = FALSE]

-----------------------------------------------------------------------------
SidebarInit(answer) ==
  /\ tree = Merged(EmptyStore, answer) /\ painted = Render(tree, FALSE)
  /\ selected = None /\ marks = {} /\ collapsed = FALSE
  /\ popup = NoPopup /\ sideBarSelectedItem = None

\* The pointer gets to the button over the page, which hides the popup.  The
\* new width makes the tree paint itself.
Toggle ==
  /\ collapsed' = ~collapsed
  /\ tree' = IF collapsed' THEN closedAll(tree) ELSE tree
  /\ painted' = Render(tree', collapsed')
  /\ popup' = hide(popup)
  /\ UNCHANGED <<selected, marks, sideBarSelectedItem>>

addCss(marked, id) == marked \cup {id}
removeCss(marked, id) == marked \ {id}

\* The mark is put on before it is taken off (a mutant of MarksAfterSelect).
MarksAddedFirst(id) ==
  LET added == addCss(marks, tree.parent[id])
  IN  IF selected = None THEN added ELSE removeCss(added, tree.parent[selected])

\* onBeforeSelect takes the mark off the group of what was selected,
\* onAfterSelect puts it on the group of what is, and tells the title.
MarksAfterSelect(id) ==
  LET left == IF selected = None THEN marks ELSE removeCss(marks, tree.parent[selected])
  IN  addCss(left, tree.parent[id])

onMasterSelect(p, id) ==
  [p EXCEPT !.titleMarked = @ \/ tree.parent[id] = p.master,
            !.titleSelected = @ \/ (collapsed /\ tree.parent[id] = Root)]

\* select does nothing for the item that is selected, and onBeforeSelect
\* refuses one with children.  The items it concerns are painted once more.
select(id, p) ==
  IF Leaf(id) /\ id # selected
  THEN /\ selected' = id /\ marks' = MarksAfterSelect(id) /\ popup' = onMasterSelect(p, id)
       /\ painted' = LET unselected == IF selected = None THEN painted
                                       ELSE RenderUpdate(painted, tree, collapsed, selected)
                     IN  RenderUpdate(unselected, tree, collapsed, id)
  ELSE UNCHANGED <<selected, marks, painted>> /\ popup' = p

\* A click opens a branch or closes it, and then selects.
ClickItem(id) ==
  /\ Visible(id) /\ (collapsed => popup.shown /\ popup.master = id)
  /\ sideBarSelectedItem' = id
  /\ \/ /\ Leaf(id) /\ select(id, popup)
        /\ UNCHANGED tree
     \/ /\ ~Leaf(id) /\ id \notin tree.open
        /\ IF collapsed
           THEN /\ tree' = closedAll(tree) /\ painted' = Render(tree', collapsed)
                /\ UNCHANGED selected
           ELSE /\ tree' = opened(closedAll(tree), id) /\ selected' = None
                /\ painted' = RenderBranch(Render(closedAll(tree), collapsed), tree', collapsed, id)
        /\ UNCHANGED <<marks, popup>>
     \/ /\ id \in tree.open
        /\ tree' = closed(tree, id)
        /\ painted' = RenderBranch(painted, tree', collapsed, id)
        /\ UNCHANGED <<selected, marks, popup>>
  /\ UNCHANGED collapsed

-----------------------------------------------------------------------------
\* The title keeps its class (a mutant of updateTitle).
updateTitleKeeps(p, id) ==
  [p EXCEPT !.master = id,
            !.titleMarked = @ \/ (selected # None /\ tree.parent[selected] = id),
            !.titleSelected = selected = id]

updateTitle(p, id) ==
  [p EXCEPT !.master = id,
            !.titleMarked = selected # None /\ tree.parent[selected] = id,
            !.titleSelected = selected = id]

\* The list forgets what it had, its selection too.
importData(p, branch) == [p EXCEPT !.list = branch, !.chosen = None]

updateList(p, id) ==
  LET filled == importData(p, getBranch(id))
  IN  IF selected \in filled.list THEN [filled EXCEPT !.chosen = selected] ELSE filled

showPopup(id) ==
  /\ collapsed
  /\ popup' = [show(updateList(updateTitle(popup, id), id)) EXCEPT !.current = TRUE]

\* The pointer rests on the node of an item.
MouseMove(id) ==
  /\ Visible(id) /\ showPopup(id)
  /\ UNCHANGED <<tree, painted, selected, marks, collapsed, sideBarSelectedItem>>

HidePopup ==
  /\ popup.shown /\ popup' = hide(popup)
  /\ UNCHANGED <<tree, painted, selected, marks, collapsed, sideBarSelectedItem>>

ClickTitle ==
  /\ popup.shown /\ popup.master \in tree.pull
  /\ select(popup.master, popup)
  /\ UNCHANGED <<tree, collapsed, sideBarSelectedItem>>

\* The list selects first and then tells the tree, where an item that is no
\* longer in the store throws.
ClickListItem(id) ==
  /\ popup.shown /\ id \in popup.list
  /\ LET p == [popup EXCEPT !.chosen = id]
     IN  IF id = popup.chosen THEN UNCHANGED <<selected, marks, popup, painted>>
         ELSE select(id, p)
  /\ UNCHANGED <<tree, collapsed, sideBarSelectedItem>>

SidebarUser ==
  \/ Toggle
  \/ \E id \in Items : ClickItem(id) \/ MouseMove(id) \/ ClickListItem(id)
  \/ HidePopup
  \/ ClickTitle

-----------------------------------------------------------------------------
\* The page changes the store: what is gone is no longer selected or marked.
StoreChanged(store, kept, nodes) ==
  /\ tree' = store /\ painted' = nodes
  /\ selected' = IF selected \in kept THEN selected ELSE None
  /\ marks' = marks \cap (kept \cup {Root})
  /\ popup' = [popup EXCEPT !.current = FALSE]
  /\ UNCHANGED <<collapsed, sideBarSelectedItem>>

RemoveItem(id) ==
  StoreChanged(Removed(tree, id), Removed(tree, id).pull, RenderRemoved(painted, tree, collapsed, id))

\* Taken out and not put in (a mutant of MoveItem).
MoveItemOut(id, p) ==
  LET left == Removed(tree, id)
  IN  StoreChanged(left, left.pull, Render(left, collapsed))

\* Taken out and put in again, as a move is done; the page has all painted.
MoveItem(id, p) ==
  LET moved == Added(Removed(tree, id), id, p)
  IN  StoreChanged(moved, Removed(tree, id).pull, Render(moved, collapsed))

LoadTree(answer) ==
  StoreChanged(Merged(tree, answer), tree.pull, Render(Merged(tree, answer), collapsed))

-----------------------------------------------------------------------------
\* What the user sees is what the store has, although an operation paints
\* only what it takes to be touched: no arrow at a group whose last business
\* went away, none missing at one that got its first, no node of what is gone.
PaintedInStep == painted = Render(tree, collapsed)

\* At most one branch is open, it has children, and none is open in the
\* collapsed sidebar: also after the last business of the open branch went
\* away, or a click on an icon tried to open a branch.
OneBranchOpen ==
  /\ Cardinality(tree.open) <= 1 /\ (collapsed => tree.open = {})
  /\ \A g \in tree.open : tree.count[g] > 0

\* The popup that is shown says what the tree says, in its title, in its
\* list and in the selection of each, however the selection was made.  A
\* request that changes the store behind it leaves it as it was.  The title
\* may stay selected when something below it is selected instead: that of a
\* group which was selected while it was empty.
PopupInStep ==
  popup.shown /\ popup.current =>
    /\ popup.list = getBranch(popup.master)
    /\ popup.chosen = IF selected \in popup.list THEN selected ELSE None
    /\ popup.titleMarked <=> popup.chosen # None
    /\ selected = popup.master => popup.titleSelected
    /\ popup.titleSelected => selected = popup.master \/ ~Leaf(popup.master)
=============================================================================
