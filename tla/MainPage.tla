------------------------------ MODULE MainPage ------------------------------
(***************************************************************************)
(* The main page (templates/main.html) with the scripts the server answers *)
(* with: addTab.html for a selected item, busOperation.html for the menu.  *)
(* It composes the sidebar and the tab view with a server that others use  *)
(* too.                                                                    *)
(*                                                                         *)
(* Requests are executed by the server and answered in any order, and the  *)
(* scripts look at the page as it is when the answer comes.  The windows   *)
(* are modal: while one is open, nothing else on the page can be clicked.  *)
(* They share their ids: what was opened last has them, and when it is     *)
(* closed nothing has.                                                     *)
(*                                                                         *)
(* The page is followed up to the step by which an item goes astray: until *)
(* a reload has named another parent for it than the tree has, or a script *)
(* has put it under one that is not there, or a group under another.       *)
(***************************************************************************)
EXTENDS Sidebar, TabView

CONSTANTS MaxActs,    \* what the user does
          MaxOthers,  \* what other users do, and requests that fail
          MaxCalls    \* requests that are out

ASSUME BoundAssumption == MaxActs \in Nat /\ MaxOthers \in Nat /\ MaxCalls \in Nat
ASSUME TabsAreItems == Tabs = Items
ASSUME AnswerAssumption == None \notin {"true", "false"}

VARIABLES
  place,     \* the group of each business on the server, None for no such business
  groups,    \* the groups on the server
  given,     \* the ids it has given out so far
  tabCalls,  \* a bag: the items for which a tab was asked for
  menuCalls, \* a bag: the menu items whose script was asked for
  calls,     \* a bag: requests to change something, reloads, and their answers
  windows,   \* the forms on the screen, one over the other: [kind, item, to]
  ids,       \* the form that each id names, by its place in windows, 0 for none
  astray,    \* the items that have gone astray
  acts, others

serverVars == <<place, groups, given>>
windowVars == <<windows, ids>>
pageVars == <<tabCalls, menuCalls, calls, windowVars, astray>>
vars == <<sidebarVars, tabVars, serverVars, pageVars, acts, others>>

BusForms == {"addBus", "modifyBus"}     \* with a select of the groups
GroupForms == {"addBusColl", "modifyBusColl"}
MenuItems == BusForms \cup {"addBusColl", "delBus"}

\* Bags of one kind of thing or another.
Once(x) == SetToBag({x})
In(x, bag) == x \in BagToSet(bag)

findAllBusColls == [g \in groups |-> {b \in Businesses : place[b] = g}]

-----------------------------------------------------------------------------
(* The forms.  Window, form and toolbar have ids; busBusCollId, the select *)
(* of the groups, goes with the form.                                      *)

formOf(kind) == IF kind \in BusForms THEN "busForm" ELSE "busCollForm"
idsOf(kind) == {"windowForOper", formOf(kind), kind}
Ids == UNION {idsOf(kind) : kind \in BusForms \cup GroupForms}

Form(kind, item, to) == [kind |-> kind, item |-> item, to |-> to]

Free == windows = <<>>
Top == windows[Len(windows)]

OpenForm(w) ==
  /\ windows' = Append(windows, w)
  /\ ids' = [n \in Ids |-> IF n \in idsOf(w.kind) THEN Len(windows) + 1 ELSE ids[n]]

\* $$("windowForOper").close() throws without such a window.
CloseForm ==
  IF ids["windowForOper"] = 0 THEN UNCHANGED windowVars
  ELSE /\ windows' = Front(windows)
       /\ ids' = [n \in Ids |-> IF n \in idsOf(Top.kind) THEN 0 ELSE ids[n]]

-----------------------------------------------------------------------------
Init ==
  /\ place \in [Businesses -> Groups \cup {None}]
  /\ groups \in SUBSET Groups \ {{}}
  /\ \A b \in Businesses : place[b] \in groups \cup {None}
  /\ given = groups \cup {b \in Businesses : place[b] # None}
  /\ SidebarInit(findAllBusColls) /\ TabsInit
  /\ tabCalls = EmptyBag /\ menuCalls = EmptyBag /\ calls = EmptyBag
  /\ windows = <<>> /\ ids = [n \in Ids |-> 0]
  /\ astray = {} /\ acts = 0 /\ others = 0

Followed == astray = {}

Act ==
  /\ Followed /\ acts < MaxActs /\ acts' = acts + 1
  /\ UNCHANGED <<serverVars, others, astray>>

\* addTab, on each onAfterSelect.
addTab ==
  tabCalls' = IF selected' \in {selected, None} THEN tabCalls ELSE tabCalls (+) Once(selected')

UseSidebar ==
  /\ Act /\ Free /\ SidebarUser /\ addTab
  /\ UNCHANGED <<tabVars, menuCalls, calls, windowVars>>

\* Whatever else is clicked hides the popup of the sidebar.
ClickElsewhere ==
  /\ popup' = hide(popup)
  /\ UNCHANGED <<tree, painted, selected, marks, collapsed, sideBarSelectedItem>>

UseTabs ==
  /\ Act /\ Free /\ ClickElsewhere
  /\ \E id \in Tabs : ClickTab(id) \/ CloseTab(id)
  /\ UNCHANGED <<tabCalls, menuCalls, calls, windowVars>>

busCollHandle(kind) ==
  /\ Act /\ Free /\ ClickElsewhere /\ menuCalls' = menuCalls (+) Once(kind)
  /\ UNCHANGED <<tabVars, tabCalls, calls, windowVars>>

-----------------------------------------------------------------------------
\* A request on its way: [op, item, to, answer], the answer being None
\* until the server has executed it.
Sent(op, item, to) == [op |-> op, item |-> item, to |-> to, answer |-> None]

Send(call) == BagCardinality(calls) < MaxCalls /\ calls' = calls (+) Once(call)

\* addTab.html: the header is of what is selected now, and for a group, or
\* with nothing selected, there is no tab.
TabAnswered(id) ==
  /\ Followed /\ In(id, tabCalls) /\ tabCalls' = tabCalls (-) Once(id)
  /\ IF selected \in Businesses THEN AddView(id) ELSE UNCHANGED tabVars
  /\ UNCHANGED <<sidebarVars, serverVars, menuCalls, calls, windowVars, astray, acts, others>>

\* busOperation.html goes by the item clicked last; with none it throws.  The
\* select starts with a group the server has given out.
MenuAnswered(kind, to) ==
  LET item == sideBarSelectedItem
  IN  /\ Followed /\ In(kind, menuCalls) /\ menuCalls' = menuCalls (-) Once(kind)
      /\ CASE kind = "delBus" /\ item # None ->
                Send(Sent("delBus", item, None)) /\ UNCHANGED windowVars
           [] kind = "modifyBus" /\ item # None ->
                /\ OpenForm(IF item \in Businesses THEN Form("modifyBus", item, to)
                            ELSE Form("modifyBusColl", item, None))
                /\ UNCHANGED calls
           [] kind = "addBus" -> OpenForm(Form("addBus", None, to)) /\ UNCHANGED calls
           [] kind = "addBusColl" -> OpenForm(Form("addBusColl", None, None)) /\ UNCHANGED calls
           [] OTHER -> UNCHANGED <<calls, windowVars>>
      /\ UNCHANGED <<sidebarVars, tabVars, serverVars, tabCalls, astray, acts, others>>

\* The user picks another group in the form on top, sends it, or closes it.
PickGroup(g) ==
  /\ Act /\ ClickElsewhere /\ ~Free /\ Top.kind \in BusForms /\ g # Top.to
  /\ windows' = [windows EXCEPT ![Len(windows)].to = g]
  /\ UNCHANGED <<tabVars, tabCalls, menuCalls, calls, ids>>

\* The values are taken from what the id of the form names, if it names one,
\* and what is asked for goes by whether a toolbar has the id.
Submit ==
  /\ Act /\ ClickElsewhere /\ ~Free
  /\ LET at == ids[formOf(Top.kind)]
     IN  /\ at # 0
         /\ IF Top.kind \in BusForms
            THEN Send(Sent(IF ids["modifyBus"] # 0 THEN "modifyBus" ELSE "addBus",
                           windows[at].item, windows[at].to))
            ELSE Send(Sent(IF ids["modifyBusColl"] # 0 THEN "modifyBusColl" ELSE "addBusColl",
                           windows[at].item, None))
  /\ UNCHANGED <<tabVars, tabCalls, menuCalls, windowVars>>

windowForOperClose ==
  /\ Act /\ ClickElsewhere /\ ~Free /\ CloseForm
  /\ UNCHANGED <<tabVars, tabCalls, menuCalls, calls>>

-----------------------------------------------------------------------------
\* What the server does when it is asked, and what it says.  What is added
\* gets a new id.  modifyBus says "false" of a business that has gone since
\* it read its date; of one gone before it throws (Fails).
Serve(op, item, to, says) ==
  \/ /\ op = "addBus" /\ says = "true"
     /\ \E b \in Businesses \ given :
          /\ given' = given \cup {b} /\ place' = [place EXCEPT ![b] = to] /\ UNCHANGED groups
  \/ /\ op = "addBusColl" /\ says = "true"
     /\ \E g \in Groups \ given :
          /\ given' = given \cup {g} /\ groups' = groups \cup {g} /\ UNCHANGED place
  \/ /\ op \in {"addBus", "addBusColl"} /\ says = "false" /\ UNCHANGED serverVars
  \/ /\ op = "modifyBus" /\ item \in Businesses
     /\ IF place[item] = None THEN says = "false" /\ UNCHANGED place
        ELSE says = "true" /\ place' = [place EXCEPT ![item] = to]
     /\ UNCHANGED <<groups, given>>
  \/ /\ op = "modifyBusColl"
     /\ says = (IF item \in groups THEN "true" ELSE "false") /\ UNCHANGED serverVars
  \/ /\ op = "delBus" /\ item \in Businesses
     /\ says = (IF place[item] = None THEN "false" ELSE "true")
     /\ place' = [place EXCEPT ![item] = None] /\ UNCHANGED <<groups, given>>
  \/ /\ op = "delBus" /\ item \in Groups
     /\ says = (IF item \in groups THEN "true" ELSE "false")
     /\ groups' = groups \ {item} /\ UNCHANGED given
     /\ place' = [b \in Businesses |->
                   IF item \in groups /\ place[b] = item THEN None ELSE place[b]]

Executed(call, says) ==
  calls' = (calls (-) Once(call)) (+) Once([call EXCEPT !.answer = says])

ServerExecutes ==
  /\ Followed
  /\ \E call \in BagToSet(calls) :
       /\ call.answer = None
       /\ \/ call.op = "load" /\ Executed(call, findAllBusColls) /\ UNCHANGED serverVars
          \/ /\ call.op # "load"
             /\ \E says \in {"true", "false"} :
                  Executed(call, says) /\ Serve(call.op, call.item, call.to, says)
  /\ UNCHANGED <<sidebarVars, tabVars, tabCalls, menuCalls, windowVars, astray, acts, others>>

\* A request that ends without a callback: the server throws, or the
\* connection breaks, before the request is executed or after.
Fails(call) ==
  /\ Followed /\ In(call, calls) /\ calls' = calls (-) Once(call)
  /\ others < MaxOthers /\ others' = others + 1
  /\ UNCHANGED <<sidebarVars, tabVars, serverVars, tabCalls, menuCalls, windowVars,
                 astray, acts>>

\* Other users do the same from their pages.
OthersChange ==
  /\ Followed /\ others < MaxOthers /\ others' = others + 1
  /\ \E op \in BusForms \cup GroupForms \cup {"delBus"}, item \in Items, to \in Groups \cap given :
       Serve(op, item, to, "true")
  /\ serverVars' # serverVars
  /\ UNCHANGED <<sidebarVars, tabVars, pageVars, acts>>

-----------------------------------------------------------------------------
\* The callback of the delete: remove throws for an item that is not there.
DeleteAnswered(id) ==
  IF id \in tree.pull THEN RemoveItem(id) /\ CloseShown ELSE UNCHANGED <<sidebarVars, tabVars>>

\* The callback of modifyBusiness takes the item that is selected, whatever
\* was modified, out of the tree and puts it into the group that the form
\* names: if there is a form, and whether or not there is such a group.
ModifyAnswered ==
  LET form == ids["busForm"]
      to == windows[form].to
  IN  CASE selected = None -> UNCHANGED <<sidebarVars, windowVars, astray>>
        [] selected # None /\ form = 0 -> RemoveItem(selected) /\ UNCHANGED <<windowVars, astray>>
        [] selected # None /\ form # 0 ->
             /\ MoveItem(selected, to)
             /\ astray' = IF selected \in Groups \/ to \notin tree.pull THEN {selected} ELSE {}
             /\ CloseForm

Answered(call) ==
  /\ Followed /\ In(call, calls) /\ call.answer # None
  /\ CASE call.op = "load" ->
            /\ calls' = calls (-) Once(call)
            /\ LoadTree(call.answer) /\ astray' = Displaced(tree, call.answer)
            /\ UNCHANGED <<tabVars, windowVars>>
       [] call.op = "delBus" ->
            /\ calls' = calls (-) Once(call)
            /\ IF call.answer = "true" THEN DeleteAnswered(call.item)
               ELSE UNCHANGED <<sidebarVars, tabVars>>
            /\ UNCHANGED <<windowVars, astray>>
       [] call.op = "modifyBus" ->
            /\ calls' = calls (-) Once(call)
            /\ IF call.answer = "true" THEN ModifyAnswered
               ELSE CloseForm /\ UNCHANGED <<sidebarVars, astray>>
            /\ UNCHANGED tabVars
       [] OTHER ->  \* the others reload the tree
            /\ calls' = IF call.answer = "true"
                        THEN (calls (-) Once(call)) (+) Once(Sent("load", None, None))
                        ELSE calls (-) Once(call)
            /\ CloseForm
            /\ UNCHANGED <<sidebarVars, tabVars, astray>>
  /\ UNCHANGED <<serverVars, tabCalls, menuCalls, acts, others>>

-----------------------------------------------------------------------------
User ==
  \/ UseSidebar \/ UseTabs \/ Submit \/ windowForOperClose
  \/ \E kind \in MenuItems : busCollHandle(kind)
  \/ \E g \in Groups \cap given : PickGroup(g)

Answer ==
  \/ \E id \in Tabs : TabAnswered(id)
  \/ \E kind \in MenuItems, g \in Groups \cap given : MenuAnswered(kind, g)
  \/ \E call \in BagToSet(calls) : Answered(call) \/ Fails(call)

Next == User \/ ServerExecutes \/ Answer \/ OthersChange

Spec == Init /\ [][Next]_vars

-----------------------------------------------------------------------------
\* The tree's parents, branches and counts agree, whatever is added, moved,
\* deleted and merged in, by this page and others.  Only for an item that
\* goes astray they disagree, and it alone: it stays in one branch, and the
\* rest of the tree agrees without it.
TreeConsistent ==
  /\ tree \in Stores
  /\ \A p \in Items \cup {Root} :
       tree.branch[p] \ astray = {i \in tree.pull \ astray : tree.parent[i] = p}
  /\ \A i \in tree.pull \ astray :
       /\ tree.count[i] = Cardinality(tree.branch[i])
       /\ tree.parent[i] \in tree.pull \cup {Root}
  /\ \A i \in astray : \E p \in Items \cup {Root} :
       \A q \in Items \cup {Root} : i \in tree.branch[q] <=> q = p

\* What is selected is in the store, and the group it is in is marked, on
\* whichever way it was selected, moved, and selected again; but for an item
\* that a reload has given another parent.
SelectionMarked ==
  selected # None => /\ selected \in tree.pull
                     /\ selected \notin astray => tree.parent[selected] \in marks

\* A business that the server has in a group, and the tree has where the user
\* can find it, is lost from there in one of two ways only: with a group that
\* was deleted, after others have moved it out behind the page's back; or by
\* the answer to a modification, with what was selected when it came, if no
\* form was open then, or if the form named a group that the tree has not, or
\* if what was selected was a group.
VanishesOnly ==
  [][\A b \in Listed(tree) \ Listed(tree') :
       b \in Businesses /\ place[b] \in groups =>
         \E call \in BagToSet(calls) :
           /\ Answered(call) /\ call.answer = "true"
           /\ \/ call.op = "delBus" /\ call.item = tree.parent[b] /\ place[b] # tree.parent[b]
              \/ /\ call.op = "modifyBus" /\ b \in {selected} \cup tree.branch[selected]
                 /\ \/ ids["busForm"] = 0
                    \/ windows[ids["busForm"]].to \notin tree.pull
                    \/ selected \in Groups]_vars
=============================================================================
