----------------------------- MODULE PageProofs -----------------------------
(***************************************************************************)
(* Theorems about the pages in the browser: the main page, with its tree,  *)
(* its sidebar, its tabs and the requests that are out, and the uploads in *)
(* the windows of a case.  They hold for any number of groups, businesses, *)
(* requests and acts, and of windows and files.                            *)
(*                                                                         *)
(* The main page has one inductive invariant, IInv, in four parts that a   *)
(* step disturbs together: the sidebar (its store, what is painted, what   *)
(* is selected, the popup), the bar of the tabs, what is between page and  *)
(* server, and the forms on the screen.  The step by which an item goes    *)
(* astray leaves less of the first part, StrayInv, and is the last.        *)
(* Lemmas about the operations of the store and of its rendering come      *)
(* first, for any good store; the actions follow from them.                *)
(***************************************************************************)
EXTENDS MainPage, Uploader, SequenceTheorems, FiniteSetTheorems, TLAPS

-----------------------------------------------------------------------------
(* The inductive invariant of the main page.                               *)

\* A store whose three ways to say who is whose child agree,
ParentsAgree(t) == \A p \in Items \cup {Root} : t.branch[p] = {i \in t.pull : t.parent[i] = p}
CountsAgree(t) == \A i \in t.pull : t.count[i] = Cardinality(t.branch[i])
ParentsThere(t) == \A i \in t.pull : t.parent[i] \in t.pull \cup {Root}
Consistent(t) == ParentsAgree(t) /\ CountsAgree(t) /\ ParentsThere(t)

\* or would, but for what has gone out of order: TreeConsistent of any store.
InOneBranch(t, i) ==
  \E p \in Items \cup {Root} : \A q \in Items \cup {Root} : i \in t.branch[q] <=> q = p
ConsistentBut(t, out) ==
  /\ t \in Stores
  /\ \A p \in Items \cup {Root} : t.branch[p] \ out = {i \in t.pull \ out : t.parent[i] = p}
  /\ \A i \in t.pull \ out : t.count[i] = Cardinality(t.branch[i])
  /\ \A i \in t.pull \ out : t.parent[i] \in t.pull \cup {Root}
  /\ \A i \in out : InOneBranch(t, i)

\* A good one has two levels.
TwoLevels(t) ==
  \A i \in t.pull : /\ i \in Groups => t.parent[i] = Root
                    /\ i \in Businesses => t.parent[i] \in Groups
Good(t) == t \in Stores /\ Consistent(t) /\ TwoLevels(t)

\* At most one branch is open, and it is there and has children.
OpenOK(t, c) ==
  /\ \A g, h \in t.open : g = h
  /\ \A g \in t.open : g \in t.pull /\ t.count[g] # 0
  /\ c => t.open = {}

\* What the server can send: no business is in two groups.
Disjoint(answer) ==
  /\ answer \in Answers
  /\ \A g, h \in DOMAIN answer : g # h => answer[g] \cap answer[h] = {}

TreeInv ==
  /\ Good(tree) /\ OpenOK(tree, collapsed) /\ PaintedInStep
  /\ collapsed \in BOOLEAN

\* What is selected is in the store, and the group it is in is marked.
GroupMarked == selected # None => selected \in tree.pull /\ tree.parent[selected] \in marks

SelectInv == selected \in Items \cup {None} /\ GroupMarked

Popups == [shown : BOOLEAN, master : Items \cup {None}, list : SUBSET Items,
           chosen : Items \cup {None}, titleMarked : BOOLEAN, titleSelected : BOOLEAN,
           current : BOOLEAN]

\* The popup that says what the tree says is of a group.
PopupInv ==
  /\ popup \in Popups
  /\ popup.shown => collapsed
  /\ popup.shown /\ popup.current => popup.master \in tree.branch[Root]
  /\ PopupInStep

\* A bar without two options of the same id, and the hidden one in it.
Bar == {s \in Seq(Tabs \cup {Hidden}) :
          /\ \A i, j \in DOMAIN s : s[i] = s[j] => i = j
          /\ Hidden \in ToSet(s)}

BarInv ==
  /\ options \in Bar /\ value \in Tabs \cup {NoTab}
  /\ BarShowsView

\* An answer that something was deleted is about something that does not come
\* back: what is added gets a new id.
DeletedForGood(item) ==
  /\ item \in given
  /\ item \in Businesses => place[item] = None
  /\ item \in Groups => item \notin groups

Operations == {"addBus", "addBusColl", "modifyBus", "modifyBusColl", "delBus", "load"}

CallOK(call) ==
  /\ call = [op |-> call.op, item |-> call.item, to |-> call.to, answer |-> call.answer]
  /\ call.op \in Operations
  /\ call.op \in BusForms => call.to \in Groups
  /\ call.op = "load" => call.answer = None \/ Disjoint(call.answer)
  /\ call.op = "delBus" => /\ call.item \in Items
                           /\ call.answer = "true" => DeletedForGood(call.item)

\* What is in use has been given out.
GivenInv ==
  /\ place \in [Businesses -> Groups \cup {None}] /\ groups \subseteq Groups
  /\ groups \subseteq given /\ \A b \in Businesses : place[b] # None => b \in given

ServerInv == GivenInv /\ \A call \in BagToSet(calls) : CallOK(call)

FormKinds == BusForms \cup GroupForms

Forms == [kind : FormKinds, item : Items \cup {None}, to : Groups \cup {None}]

\* A form with a select of the groups names one.
FormOK(w) == w \in Forms /\ (w.kind \in BusForms => w.to \in Groups)

\* An id that names a form names one that has it.
IdOK(n) ==
  /\ ids[n] \in 0..Len(windows)
  /\ ids[n] # 0 => n \in idsOf(windows[ids[n]].kind)

\* The id of the windows names the one on top, or nothing.
WindowInv ==
  /\ windows \in Seq(Forms) /\ \A i \in 1..Len(windows) : FormOK(windows[i])
  /\ DOMAIN ids = Ids /\ \A n \in Ids : IdOK(n)
  /\ ids["windowForOper"] \in {0, Len(windows)}

PageInv ==
  sideBarSelectedItem \in Items \cup {None} /\ BagToSet(tabCalls) \subseteq Items /\ WindowInv

SideInv == TreeInv /\ SelectInv /\ PopupInv

\* What is left when an item has gone astray, where the page is followed no
\* further.
StrayInv ==
  TreeConsistent /\ OpenOK(tree, collapsed) /\ PaintedInStep /\ SelectionMarked /\ PopupInStep

SidePart == (Followed => SideInv) /\ (~Followed => StrayInv)

IInv == SidePart /\ BarInv /\ ServerInv /\ PageInv

-----------------------------------------------------------------------------
(* The tree store.                                                         *)

\* The branches of a good store, from above and from below.
LEMMA GoodFacts ==
  ASSUME NEW t, Good(t)
  PROVE  /\ t.pull \subseteq Items /\ t.open \subseteq Items
         /\ t.parent \in [Items -> Items \cup {Root}]
         /\ t.branch \in [Items \cup {Root} -> SUBSET Items]
         /\ t.count \in [Items -> Nat]
         /\ \A i \in t.pull : /\ t.parent[i] \in (t.pull \cap Groups) \cup {Root}
                              /\ t.parent[i] # i /\ i \in t.branch[t.parent[i]]
                              /\ t.count[i] = Cardinality(t.branch[i])
                              /\ i \in Groups => t.parent[i] = Root
                              /\ i \in Businesses => t.parent[i] \in Groups /\ t.branch[i] = {}
         /\ \A p \in Items \cup {Root} : \A i \in t.branch[p] :
              i \in t.pull /\ t.parent[i] = p
         /\ t.branch[Root] = t.pull \cap Groups
  <1>1. /\ t.pull \subseteq Items /\ t.open \subseteq Items
        /\ t.parent \in [Items -> Items \cup {Root}]
        /\ t.branch \in [Items \cup {Root} -> SUBSET Items]
        /\ t.count \in [Items -> Nat]
    BY DEF Good, Stores
  <1>2. \A p \in Items \cup {Root} : t.branch[p] = {i \in t.pull : t.parent[i] = p}
    BY DEF Good, Consistent, ParentsAgree
  <1>3. \A i \in t.pull : t.count[i] = Cardinality(t.branch[i])
    BY DEF Good, Consistent, CountsAgree
  <1>4. \A i \in t.pull : t.parent[i] \in t.pull \cup {Root}
    BY DEF Good, Consistent, ParentsThere
  <1>5. \A i \in t.pull : /\ i \in Groups => t.parent[i] = Root
                          /\ i \in Businesses => t.parent[i] \in Groups
    BY DEF Good, TwoLevels
  <1>6. Items = Groups \cup Businesses /\ Groups \cap Businesses = {} /\ Root \notin Items
    BY ItemAssumption DEF Items
  <1>7. \A i \in t.pull : t.parent[i] \in (t.pull \cap Groups) \cup {Root} /\ t.parent[i] # i
    BY <1>1, <1>4, <1>5, <1>6
  <1>8. \A i \in t.pull : i \in Businesses => t.branch[i] = {}
    BY <1>1, <1>2, <1>6, <1>7
  <1>9. t.branch[Root] = t.pull \cap Groups
    BY <1>1, <1>2, <1>5, <1>6
  <1>10. QED
    BY <1>1, <1>2, <1>3, <1>5, <1>7, <1>8, <1>9

\* Every branch is finite, and its count is zero exactly if it is empty.
LEMMA BranchCount ==
  ASSUME NEW t, Good(t), NEW i \in Items
  PROVE  /\ IsFiniteSet(t.branch[i]) /\ Cardinality(t.branch[i]) \in Nat
         /\ Cardinality(t.branch[i]) = 0 <=> t.branch[i] = {}
  <1>1. t.branch[i] \in SUBSET Items
    BY GoodFacts
  <1>2. IsFiniteSet(t.branch[i])
    BY <1>1, ItemAssumption, FS_Subset
  <1>3. QED
    BY <1>2, FS_CardinalityType, FS_EmptySet

\* The store a page starts with.
LEMMA EmptyIsGood == Good(EmptyStore) /\ \A c : OpenOK(EmptyStore, c)
  <1>1. EmptyStore \in Stores
    BY DEF EmptyStore, Stores
  <1>2. /\ EmptyStore.pull = {} /\ EmptyStore.open = {}
        /\ \A p \in Items \cup {Root} : EmptyStore.branch[p] = {}
    BY DEF EmptyStore
  <1>3. Consistent(EmptyStore) /\ TwoLevels(EmptyStore)
    BY <1>2 DEF Consistent, ParentsAgree, CountsAgree, ParentsThere, TwoLevels
  <1>4. \A c : OpenOK(EmptyStore, c)
    BY <1>2 DEF OpenOK
  <1>5. QED
    BY <1>1, <1>3, <1>4 DEF Good

\* What a removal takes away.
Gone(t, id) == {id} \cup t.branch[id]

\* What a removal changes, and what it leaves as it was.
LEMMA RemovedFacts ==
  ASSUME NEW t, Good(t), NEW id \in t.pull
  PROVE  /\ Removed(t, id).pull = t.pull \ Gone(t, id)
         /\ \A i \in Items : Removed(t, id).parent[i] =
                             IF i \in Gone(t, id) THEN Root ELSE t.parent[i]
         /\ \A q \in Items \cup {Root} : Removed(t, id).branch[q] =
                             IF q \in Gone(t, id) THEN {} ELSE t.branch[q] \ {id}
         /\ \A i \in Items \ Gone(t, id) :
              i # t.parent[id] => Removed(t, id).count[i] = t.count[i]
         /\ t.parent[id] # Root =>
              Removed(t, id).count[t.parent[id]] = t.count[t.parent[id]] - 1
         /\ \A i \in Gone(t, id) : Removed(t, id).count[i] = 0
         /\ \A i \in t.pull \ Gone(t, id) : t.parent[i] \notin Gone(t, id)
         /\ t.parent[id] \notin Gone(t, id) /\ Gone(t, id) \subseteq t.pull
         /\ Removed(t, id).open =
              t.open \ (Gone(t, id) \cup
                        (IF t.parent[id] # Root /\ Removed(t, id).count[t.parent[id]] = 0
                         THEN {t.parent[id]} ELSE {}))
  <1> DEFINE p == t.parent[id]
             left == IF p = Root THEN 1 ELSE t.count[p] - 1
             gone == Gone(t, id)
             new == Removed(t, id)
  <1>1. /\ new.pull = t.pull \ gone
        /\ new.parent = [i \in Items |-> IF i \in gone THEN Root ELSE t.parent[i]]
        /\ new.branch = [i \in Items \cup {Root} |->
                          IF i \in gone THEN {} ELSE t.branch[i] \ {id}]
        /\ new.count = [i \in Items |-> IF i \in gone THEN 0
                                        ELSE IF i = p THEN left ELSE t.count[i]]
        /\ new.open = t.open \ (gone \cup (IF left = 0 THEN {p} ELSE {}))
    BY DEF Removed, Gone
  <1>2. p \in Items \cup {Root} /\ p # id /\ gone \subseteq t.pull /\ id \in Items
    BY GoodFacts, ItemAssumption DEF Gone
  <1>3. \A i \in t.pull \ gone : t.parent[i] \notin gone
    BY GoodFacts, ItemAssumption DEF Items, Gone
  <1>4. p \notin gone
    BY <1>2, GoodFacts, ItemAssumption DEF Gone
  <1>5. left = 0 <=> p # Root /\ left = 0
    OBVIOUS
  <1>6. p # Root => left = t.count[p] - 1
    OBVIOUS
  <1>7. gone \subseteq Items
    BY <1>2, GoodFacts
  <1> HIDE DEF new, gone, left, p
  <1>8. p # Root => new.count[p] = left
    BY <1>1, <1>2, <1>4
  <1>9. new.open = t.open \ (gone \cup (IF p # Root /\ new.count[p] = 0 THEN {p} ELSE {}))
    <2>1. left = 0 <=> p # Root /\ new.count[p] = 0
      BY <1>5, <1>8
    <2>2. QED
      BY <1>1, <2>1
  <1>10. /\ new.pull = t.pull \ gone
         /\ \A i \in Items : new.parent[i] = IF i \in gone THEN Root ELSE t.parent[i]
         /\ \A q \in Items \cup {Root} :
              new.branch[q] = IF q \in gone THEN {} ELSE t.branch[q] \ {id}
    BY <1>1
  <1>11. /\ \A i \in Items \ gone : i # p => new.count[i] = t.count[i]
         /\ p # Root => new.count[p] = t.count[p] - 1
         /\ \A i \in gone : new.count[i] = 0
    BY <1>1, <1>6, <1>7, <1>8
  <1>12. QED
    BY <1>2, <1>3, <1>4, <1>9, <1>10, <1>11 DEF new, gone, p

\* The branches after a removal, one at a time.
LEMMA RemovedBranch ==
  ASSUME NEW t, Good(t), NEW id \in t.pull, NEW q \in Items \cup {Root}
  PROVE  Removed(t, id).branch[q] = IF q \in Gone(t, id) THEN {} ELSE t.branch[q] \ {id}
  BY DEF Removed, Gone

\* What the branch of the parent loses is the item, and its count says so.
LEMMA RemovedCount ==
  ASSUME NEW t, Good(t), NEW id \in t.pull, t.parent[id] # Root
  PROVE  LET p == t.parent[id]
         IN /\ Removed(t, id).count[p] \in Nat
            /\ Removed(t, id).count[p] = Cardinality(t.branch[p] \ {id})
            /\ p \in t.pull /\ p \in Groups /\ p \in Items /\ id \in t.branch[p]
  <1> DEFINE p == t.parent[id]
  <1>1. p \in t.pull /\ p \in Groups /\ id \in t.branch[p] /\ p \in Items
    BY GoodFacts
  <1>2. t.count[p] = Cardinality(t.branch[p]) /\ IsFiniteSet(t.branch[p])
        /\ Cardinality(t.branch[p]) \in Nat
    BY <1>1, GoodFacts, BranchCount
  <1>3. /\ IsFiniteSet(t.branch[p] \ {id})
        /\ Cardinality(t.branch[p] \ {id}) = Cardinality(t.branch[p]) - 1
    BY <1>1, <1>2, FS_RemoveElement
  <1>4. Cardinality(t.branch[p] \ {id}) \in Nat
    BY <1>3, FS_CardinalityType
  <1>5. Removed(t, id).count[p] = t.count[p] - 1
    BY RemovedFacts
  <1>6. QED
    BY <1>1, <1>2, <1>3, <1>4, <1>5

\* A removal repairs parents, branches and counts.
LEMMA RemovedIsGood ==
  ASSUME NEW t, Good(t), NEW id \in t.pull
  PROVE  Good(Removed(t, id))
  <1> DEFINE new == Removed(t, id)
             gone == Gone(t, id)
             p == t.parent[id]
  <1> HIDE DEF new, gone, p
  <1>a. /\ new.pull = t.pull \ gone
        /\ \A i \in Items : new.parent[i] = IF i \in gone THEN Root ELSE t.parent[i]
    BY RemovedFacts DEF new, gone, p
  <1>b. \A q \in Items \cup {Root} :
          new.branch[q] = IF q \in gone THEN {} ELSE t.branch[q] \ {id}
    BY RemovedBranch DEF new, gone
  <1>c. /\ \A i \in Items \ gone : i # p => new.count[i] = t.count[i]
        /\ \A i \in gone : new.count[i] = 0
    BY RemovedFacts DEF new, gone, p
  <1>d. /\ \A i \in t.pull \ gone : t.parent[i] \notin gone
        /\ p \notin gone /\ gone \subseteq t.pull
    BY RemovedFacts DEF new, gone, p
  <1>2. p # Root => /\ new.count[p] \in Nat
                    /\ new.count[p] = Cardinality(t.branch[p] \ {id})
                    /\ p \in t.pull /\ p \in Groups /\ p \in Items
    BY RemovedCount DEF new, p
  <1>3. t.pull \subseteq Items
    BY GoodFacts
  <1>4. new \in Stores
    <2>1. /\ new.pull \in SUBSET Items /\ new.open \in SUBSET Items
      BY GoodFacts DEF Removed, new
    <2>2. new.parent \in [Items -> Items \cup {Root}]
      BY GoodFacts DEF Removed, new
    <2>3. new.branch \in [Items \cup {Root} -> SUBSET Items]
      BY GoodFacts DEF Removed, new
    <2>4. new.count \in [Items -> Nat]
      <3>1. new.count = [i \in Items |-> new.count[i]]
        BY DEF Removed, new
      <3>2. \A i \in Items : new.count[i] \in Nat
        <4> SUFFICES ASSUME NEW i \in Items PROVE new.count[i] \in Nat
          OBVIOUS
        <4>1. CASE i \in gone
          BY <4>1, <1>a, <1>b, <1>c, <1>d
        <4>2. CASE i \notin gone /\ i # p
          <5>1. t.count[i] \in Nat
            BY GoodFacts
          <5>2. QED
            BY <4>2, <5>1, <1>a, <1>b, <1>c, <1>d
        <4>3. CASE i = p
          BY <4>3, <1>2, ItemAssumption
        <4>4. QED
          BY <4>1, <4>2, <4>3
      <3>3. QED
        BY <3>1, <3>2
    <2>5. new = [pull |-> new.pull, parent |-> new.parent, branch |-> new.branch,
                 count |-> new.count, open |-> new.open]
      BY DEF Removed, new
    <2>6. QED
      BY <2>1, <2>2, <2>3, <2>4, <2>5 DEF Stores
  <1>5. ParentsAgree(new)
    <2> SUFFICES ASSUME NEW q \in Items \cup {Root}
                 PROVE  new.branch[q] = {i \in new.pull : new.parent[i] = q}
      BY DEF ParentsAgree
    <2>1. {i \in new.pull : new.parent[i] = q} = {i \in t.pull \ gone : t.parent[i] = q}
      BY <1>a, <1>b, <1>c, <1>d, <1>3
    <2>2. t.branch[q] = {i \in t.pull : t.parent[i] = q}
      BY DEF Good, Consistent, ParentsAgree
    <2>3. CASE q \in gone
      <3>1. new.branch[q] = {}
        BY <2>3, <1>a, <1>b, <1>c, <1>d
      <3>2. \A i \in t.pull \ gone : t.parent[i] # q
        BY <2>3, <1>a, <1>b, <1>c, <1>d
      <3>3. QED
        BY <2>1, <3>1, <3>2
    <2>4. CASE q \notin gone
      <3>1. \A i \in t.branch[id] : t.parent[i] = id
        BY <1>3, GoodFacts
      <3>2. new.branch[q] = t.branch[q] \ {id}
        BY <2>4, <1>b
      <3>3. \A i \in t.branch[q] : i \in gone => i = id
        BY <2>2, <2>4, <3>1 DEF gone, Gone
      <3>4. id \in gone
        BY DEF gone, Gone
      <3>5. t.branch[q] \ {id} = {i \in t.pull \ gone : t.parent[i] = q}
        BY <2>2, <3>3, <3>4
      <3>6. QED
        BY <2>1, <3>2, <3>5
    <2>5. QED
      BY <2>3, <2>4
  <1>6. CountsAgree(new)
    <2> SUFFICES ASSUME NEW i \in t.pull \ gone
                 PROVE  new.count[i] = Cardinality(new.branch[i])
      BY <1>a DEF CountsAgree
    <2>1. i \in Items /\ new.branch[i] = t.branch[i] \ {id}
      BY <1>a, <1>b, <1>c, <1>d, <1>3
    <2>2. CASE i = p
      BY <2>1, <2>2, <1>2, <1>3, ItemAssumption
    <2>3. CASE i # p
      <3>1. id \notin t.branch[i]
        BY <2>1, <2>3, GoodFacts DEF p
      <3>2. t.branch[i] \ {id} = t.branch[i]
        BY <3>1
      <3>3. t.count[i] = Cardinality(t.branch[i])
        BY GoodFacts
      <3>4. QED
        BY <2>1, <2>3, <3>2, <3>3, <1>a, <1>b, <1>c, <1>d
    <2>4. QED
      BY <2>2, <2>3
  <1>7. ParentsThere(new) /\ TwoLevels(new)
    <2>1. \A i \in t.pull : /\ t.parent[i] \in t.pull \cup {Root}
                            /\ i \in Groups => t.parent[i] = Root
                            /\ i \in Businesses => t.parent[i] \in Groups
      BY GoodFacts
    <2>2. \A i \in new.pull : i \in t.pull /\ new.parent[i] = t.parent[i]
                              /\ t.parent[i] \notin gone
      BY <1>a, <1>b, <1>c, <1>d, <1>3
    <2>3. QED
      BY <1>a, <1>b, <1>c, <1>d, <2>1, <2>2 DEF ParentsThere, TwoLevels
  <1>8. QED
    BY <1>4, <1>5, <1>6, <1>7 DEF Good, Consistent, new

\* Nothing hangs below what is not in the store.
LEMMA NotThereNoBranch ==
  ASSUME NEW t, Good(t), NEW i \in Items \ t.pull
  PROVE  t.branch[i] = {}
  <1>1. \A j \in t.branch[i] : j \in t.pull /\ t.parent[j] = i
    BY GoodFacts
  <1>2. \A j \in t.pull : t.parent[j] \in t.pull \cup {Root}
    BY GoodFacts
  <1>3. i # Root
    BY ItemAssumption
  <1>4. QED
    BY <1>1, <1>2, <1>3

\* What an item that is added changes in the store,
LEMMA AddedFacts ==
  ASSUME NEW t, Good(t), NEW id \in Items \ t.pull, NEW p \in Groups
  PROVE  /\ Added(t, id, p).pull = t.pull \cup {id}
         /\ \A i \in Items : Added(t, id, p).parent[i] =
              IF i = id THEN (IF p \in t.pull THEN p ELSE Root) ELSE t.parent[i]
         /\ \A i \in Items : Added(t, id, p).count[i] =
              IF i = id THEN 0 ELSE IF i = p /\ p \in t.pull THEN t.count[p] + 1 ELSE t.count[i]
         /\ Added(t, id, p).open = t.open
  <1>1. t.parent \in [Items -> Items \cup {Root}]
    BY GoodFacts
  <1>2. QED
    BY <1>1 DEF Added, Stored

\* and in the branches.
LEMMA AddedBranch ==
  ASSUME NEW t, Good(t), NEW id \in Items \ t.pull, NEW p \in Groups, NEW q \in Items \cup {Root}
  PROVE  Added(t, id, p).branch[q] = IF q = p THEN t.branch[p] \cup {id} ELSE t.branch[q]
  <1>1. t.branch \in [Items \cup {Root} -> SUBSET Items]
    BY GoodFacts
  <1>2. QED
    BY <1>1 DEF Added, Stored

\* What is added is in one branch, and the rest is in order.
LEMMA AddedStrays ==
  ASSUME NEW t, Good(t), NEW id \in Items \ t.pull, NEW p \in Groups
  PROVE  /\ ConsistentBut(Added(t, id, p), {id})
         /\ \A q \in Items \cup {Root} : t.branch[q] \subseteq Added(t, id, p).branch[q]
  <1> DEFINE new == Added(t, id, p)
             up == IF p \in t.pull THEN p ELSE Root
  <1>0. /\ id \in Items /\ p \in Items /\ p # Root /\ id # Root /\ id \notin t.pull
        /\ t.pull \subseteq Items /\ up \in Items \cup {Root}
    BY ItemAssumption, GoodFacts DEF Items
  <1>1. new.pull = t.pull \cup {id}
    BY AddedFacts
  <1>2. \A i \in Items : new.parent[i] = IF i = id THEN up ELSE t.parent[i]
    BY AddedFacts
  <1>3. \A i \in Items : new.count[i] =
           IF i = id THEN 0 ELSE IF i = p /\ p \in t.pull THEN t.count[p] + 1 ELSE t.count[i]
    BY AddedFacts
  <1>4. \A q \in Items \cup {Root} :
          new.branch[q] = IF q = p THEN t.branch[p] \cup {id} ELSE t.branch[q]
    BY AddedBranch
  <1>5. new \in Stores
    <2> DEFINE counts == [i \in Items |-> IF i = id THEN 0
                                          ELSE IF i = p /\ p \in t.pull THEN t.count[i] + 1
                                          ELSE t.count[i]]
    <2>1. t \in Stores
      BY DEF Good
    <2>2. new = [t EXCEPT !.pull = @ \cup {id}, !.branch[p] = @ \cup {id}, !.parent[id] = up,
                          !.count = counts]
      BY DEF Added, Stored, new
    <2>3. counts \in [Items -> Nat]
      BY GoodFacts
    <2> HIDE DEF new, counts, up
    <2>4. QED
      BY <1>0, <2>1, <2>2, <2>3 DEF Stores
  <1>6. \A q \in Items \cup {Root} : t.branch[q] = {i \in t.pull : t.parent[i] = q}
    BY DEF Good, Consistent, ParentsAgree
  <1> HIDE DEF new, up
  <1>7. \A q \in Items \cup {Root} :
          new.branch[q] \ {id} = {i \in new.pull \ {id} : new.parent[i] = q}
    <2> SUFFICES ASSUME NEW q \in Items \cup {Root}
                 PROVE  new.branch[q] \ {id} = {i \in new.pull \ {id} : new.parent[i] = q}
      OBVIOUS
    <2>1. new.branch[q] \ {id} = t.branch[q]
      BY <1>0, <1>4, <1>6
    <2>2. \A i \in t.pull : i # id /\ new.parent[i] = t.parent[i]
      BY <1>0, <1>2
    <2>3. new.pull \ {id} = t.pull
      BY <1>0, <1>1
    <2>4. QED
      BY <1>6, <2>1, <2>2, <2>3
  <1>8. \A i \in new.pull \ {id} : new.count[i] = Cardinality(new.branch[i])
    <2> SUFFICES ASSUME NEW i \in t.pull PROVE new.count[i] = Cardinality(new.branch[i])
      BY <1>1
    <2>1. i # id /\ i \in Items /\ t.count[i] = Cardinality(t.branch[i])
      BY <1>0, GoodFacts
    <2>2. CASE i = p
      <3>1. id \notin t.branch[p]
        BY <1>0, <1>6
      <3>2. IsFiniteSet(t.branch[p])
        BY <1>0, BranchCount
      <3>3. Cardinality(t.branch[p] \cup {id}) = Cardinality(t.branch[p]) + 1
        BY <3>1, <3>2, FS_AddElement
      <3>4. new.count[i] = t.count[p] + 1
        BY <1>3, <2>1, <2>2
      <3>5. new.branch[i] = t.branch[p] \cup {id}
        BY <1>0, <1>4, <2>2
      <3>6. QED
        BY <2>1, <2>2, <3>3, <3>4, <3>5
    <2>3. CASE i # p
      <3>1. new.count[i] = t.count[i] /\ new.branch[i] = t.branch[i]
        BY <1>3, <1>4, <2>1, <2>3
      <3>2. QED
        BY <2>1, <3>1
    <2>4. QED
      BY <2>2, <2>3
  <1>9. \A i \in new.pull \ {id} : new.parent[i] \in new.pull \cup {Root}
    <2>1. \A i \in t.pull : t.parent[i] \in t.pull \cup {Root}
      BY GoodFacts
    <2>2. QED
      BY <1>0, <1>1, <1>2, <2>1
  <1>10. InOneBranch(new, id)
    <2>1. \A q \in Items \cup {Root} : id \in new.branch[q] <=> q = p
      BY <1>0, <1>4, <1>6
    <2>2. QED
      BY <1>0, <2>1 DEF InOneBranch
  <1>11. ConsistentBut(new, {id})
    BY <1>5, <1>7, <1>8, <1>9, <1>10 DEF ConsistentBut
  <1>12. \A q \in Items \cup {Root} : t.branch[q] \subseteq new.branch[q]
    BY <1>4
  <1>13. QED
    BY <1>11, <1>12 DEF new

\* A business under a group that is there is in order, too.
LEMMA AddedIsGood ==
  ASSUME NEW t, Good(t), NEW id \in Businesses \ t.pull, NEW p \in Groups \cap t.pull
  PROVE  Good(Added(t, id, p))
  <1> DEFINE new == Added(t, id, p)
  <1>0. /\ id \in Items \ t.pull /\ p \in Items /\ id # p /\ p # Root /\ id # Root
        /\ t.pull \subseteq Items /\ id \notin Groups
    BY ItemAssumption, GoodFacts DEF Items
  <1>1. ConsistentBut(new, {id})
    BY <1>0, AddedStrays
  <1>2. new.pull = t.pull \cup {id} /\ new.parent[id] = p /\ new.count[id] = 0
    BY <1>0, AddedFacts
  <1>3. \A i \in t.pull : new.parent[i] = t.parent[i]
    BY <1>0, AddedFacts
  <1>4. \A q \in Items \cup {Root} :
          new.branch[q] = IF q = p THEN t.branch[p] \cup {id} ELSE t.branch[q]
    BY <1>0, AddedBranch
  <1>5. \A q \in Items \cup {Root} : id \notin t.branch[q]
    BY <1>0, GoodFacts
  <1>6. t.branch[id] = {}
    BY <1>0, NotThereNoBranch
  <1> HIDE DEF new
  <1>7. /\ new \in Stores
        /\ \A q \in Items \cup {Root} :
             new.branch[q] \ {id} = {i \in new.pull \ {id} : new.parent[i] = q}
        /\ \A i \in new.pull \ {id} : new.count[i] = Cardinality(new.branch[i])
        /\ \A i \in new.pull \ {id} : new.parent[i] \in new.pull \cup {Root}
    BY <1>1 DEF ConsistentBut
  <1>8. ParentsAgree(new)
    <2> SUFFICES ASSUME NEW q \in Items \cup {Root}
                 PROVE  new.branch[q] = {i \in new.pull : new.parent[i] = q}
      BY DEF ParentsAgree
    <2>1. id \in new.branch[q] <=> q = p
      BY <1>0, <1>4, <1>5
    <2>2. new.branch[q] \ {id} = {i \in new.pull \ {id} : new.parent[i] = q}
      BY <1>7
    <2>3. QED
      BY <1>2, <2>1, <2>2
  <1>9. CountsAgree(new)
    <2>1. new.branch[id] = {}
      BY <1>0, <1>4, <1>6
    <2>2. new.count[id] = Cardinality(new.branch[id])
      BY <1>2, <2>1, FS_EmptySet
    <2>3. QED
      BY <1>7, <2>2 DEF CountsAgree
  <1>10. ParentsThere(new) /\ TwoLevels(new)
    <2>1. \A i \in t.pull : /\ i \in Groups => t.parent[i] = Root
                            /\ i \in Businesses => t.parent[i] \in Groups
      BY GoodFacts
    <2>2. QED
      BY <1>0, <1>2, <1>3, <1>7, <2>1 DEF ParentsThere, TwoLevels
  <1>11. QED
    BY <1>7, <1>8, <1>9, <1>10 DEF Good, Consistent, new

\* The groups an answer has a business in.
SentIn(answer, b) == {g \in DOMAIN answer : b \in answer[g]}

\* In what the server sends, a business is in one group.
LEMMA AnswerFacts ==
  ASSUME NEW answer, Disjoint(answer)
  PROVE  /\ DOMAIN answer \subseteq Groups
         /\ \A g \in DOMAIN answer : answer[g] \subseteq Businesses
         /\ \A g \in DOMAIN answer : \A b \in answer[g] : SentIn(answer, b) = {g}
  <1>1. answer \in Answers
    BY DEF Disjoint
  <1>2. PICK gs \in SUBSET Groups : answer \in [gs -> SUBSET Businesses]
    BY <1>1 DEF Answers
  <1>3. \A g, h \in DOMAIN answer : g # h => answer[g] \cap answer[h] = {}
    BY DEF Disjoint
  <1>4. QED
    BY <1>2, <1>3 DEF SentIn

\* What a merge changes: what it does not displace keeps its parent.
LEMMA MergedFacts ==
  ASSUME NEW t, Good(t), NEW answer, Disjoint(answer)
  PROVE  /\ Merged(t, answer).pull =
              t.pull \cup DOMAIN answer \cup UNION {answer[g] : g \in DOMAIN answer}
         /\ Merged(t, answer).open = t.open
         /\ \A i \in t.pull \ Displaced(t, answer) : Merged(t, answer).parent[i] = t.parent[i]
         /\ \A i \in DOMAIN answer : Merged(t, answer).parent[i] = Root
         /\ \A g \in DOMAIN answer : \A b \in answer[g] : Merged(t, answer).parent[b] = g
         /\ Merged(t, answer).parent \in [Items -> Items \cup {Root}]
  <1> DEFINE new == Merged(t, answer)
  <1>1. /\ DOMAIN answer \subseteq Groups
        /\ \A g \in DOMAIN answer : answer[g] \subseteq Businesses
    BY AnswerFacts
  <1>2. \A g \in DOMAIN answer : \A b \in answer[g] : SentIn(answer, b) = {g}
    BY AnswerFacts
  <1>3. new.parent = [i \in Items |->
                       IF i \in DOMAIN answer THEN Root
                       ELSE IF SentIn(answer, i) # {} THEN CHOOSE g \in SentIn(answer, i) : TRUE
                            ELSE t.parent[i]]
    BY DEF Merged, SentIn
  <1>4. new.pull = t.pull \cup DOMAIN answer \cup UNION {answer[g] : g \in DOMAIN answer}
        /\ new.open = t.open
    BY DEF Merged
  <1> HIDE DEF new
  <1>5. /\ t.pull \subseteq Items /\ t.parent \in [Items -> Items \cup {Root}]
        /\ \A i \in t.pull : i \in Groups => t.parent[i] = Root
    BY GoodFacts
  <1>6. Groups \subseteq Items /\ Businesses \subseteq Items /\ Groups \cap Businesses = {}
    BY ItemAssumption DEF Items
  <1>7. \A i \in DOMAIN answer : new.parent[i] = Root
    BY <1>1, <1>3, <1>6
  <1>8. \A g \in DOMAIN answer : \A b \in answer[g] : new.parent[b] = g
    <2> SUFFICES ASSUME NEW g \in DOMAIN answer, NEW b \in answer[g]
                 PROVE  new.parent[b] = g
      OBVIOUS
    <2>1. b \in Items /\ b \notin DOMAIN answer /\ SentIn(answer, b) = {g}
      BY <1>1, <1>2, <1>6
    <2>2. (CHOOSE h \in {g} : TRUE) = g
      OBVIOUS
    <2>3. QED
      BY <1>3, <2>1, <2>2
  <1>9. \A i \in Items : i \notin DOMAIN answer /\ SentIn(answer, i) = {}
                           => new.parent[i] = t.parent[i]
    BY <1>3
  <1>10. \A i \in t.pull \ Displaced(t, answer) : new.parent[i] = t.parent[i]
    <2> SUFFICES ASSUME NEW i \in t.pull \ Displaced(t, answer)
                 PROVE  new.parent[i] = t.parent[i]
      OBVIOUS
    <2>1. CASE i \in DOMAIN answer
      BY <1>1, <1>5, <1>7, <2>1
    <2>2. CASE \E g \in DOMAIN answer : i \in answer[g]
      BY <1>8, <2>2 DEF Displaced
    <2>3. CASE i \notin DOMAIN answer /\ ~\E g \in DOMAIN answer : i \in answer[g]
      BY <1>5, <1>9, <2>3 DEF SentIn
    <2>4. QED
      BY <2>1, <2>2, <2>3
  <1>11. new.parent \in [Items -> Items \cup {Root}]
    <2>1. \A i \in Items : new.parent[i] \in Items \cup {Root}
      <3> SUFFICES ASSUME NEW i \in Items PROVE new.parent[i] \in Items \cup {Root}
        OBVIOUS
      <3>1. CASE i \in DOMAIN answer
        BY <1>7, <3>1
      <3>2. CASE \E g \in DOMAIN answer : i \in answer[g]
        BY <1>1, <1>6, <1>8, <3>2
      <3>3. CASE i \notin DOMAIN answer /\ ~\E g \in DOMAIN answer : i \in answer[g]
        BY <1>5, <1>9, <3>3 DEF SentIn
      <3>4. QED
        BY <3>1, <3>2, <3>3
    <2>2. QED
      BY <1>3, <2>1
  <1>12. QED
    BY <1>4, <1>7, <1>8, <1>10, <1>11 DEF new

\* What a merge puts into the branches: what was not there.
LEMMA MergedBranches ==
  ASSUME NEW t, Good(t), NEW answer, Disjoint(answer)
  PROVE  /\ Merged(t, answer).branch \in [Items \cup {Root} -> SUBSET Items]
         /\ Merged(t, answer).branch[Root] = t.branch[Root] \cup (DOMAIN answer \ t.pull)
         /\ \A g \in DOMAIN answer :
              Merged(t, answer).branch[g] = t.branch[g] \cup (answer[g] \ t.pull)
         /\ \A i \in Items : i \notin DOMAIN answer => Merged(t, answer).branch[i] = t.branch[i]
  <1> DEFINE new == Merged(t, answer)
  <1>1. /\ DOMAIN answer \subseteq Groups
        /\ \A g \in DOMAIN answer : answer[g] \subseteq Businesses
    BY AnswerFacts
  <1>2. t.branch \in [Items \cup {Root} -> SUBSET Items]
    BY GoodFacts
  <1>3. Groups \subseteq Items /\ Businesses \subseteq Items /\ Root \notin Items
    BY ItemAssumption DEF Items
  <1>4. new.branch = [i \in Items \cup {Root} |->
                  CASE i = Root -> t.branch[Root] \cup (DOMAIN answer \ t.pull)
                    [] i \in DOMAIN answer -> t.branch[i] \cup (answer[i] \ t.pull)
                    [] OTHER -> t.branch[i]]
    BY DEF Merged
  <1> HIDE DEF new
  <1>5. new.branch[Root] = t.branch[Root] \cup (DOMAIN answer \ t.pull)
    BY <1>1, <1>3, <1>4
  <1>6. \A g \in DOMAIN answer : new.branch[g] = t.branch[g] \cup (answer[g] \ t.pull)
    BY <1>1, <1>3, <1>4
  <1>7. \A i \in Items : i \notin DOMAIN answer => new.branch[i] = t.branch[i]
    BY <1>3, <1>4
  <1>8. \A i \in Items \cup {Root} : new.branch[i] \in SUBSET Items
    <2> SUFFICES ASSUME NEW i \in Items \cup {Root} PROVE new.branch[i] \in SUBSET Items
      OBVIOUS
    <2>1. t.branch[i] \subseteq Items
      BY <1>2
    <2>2. CASE i = Root
      BY <1>1, <1>3, <1>5, <2>1, <2>2
    <2>3. CASE i \in DOMAIN answer
      BY <1>1, <1>3, <1>6, <2>1, <2>3
    <2>4. CASE i # Root /\ i \notin DOMAIN answer
      BY <1>7, <2>1, <2>4
    <2>5. QED
      BY <2>2, <2>3, <2>4
  <1>9. new.branch \in [Items \cup {Root} -> SUBSET Items]
    BY <1>4, <1>8
  <1>10. QED
    BY <1>5, <1>6, <1>7, <1>9 DEF new

\* What a merge counts: the groups that were sent.
LEMMA MergedCount ==
  ASSUME NEW t, Good(t), NEW answer, Disjoint(answer)
  PROVE  /\ Merged(t, answer).count \in [Items -> Nat]
         /\ \A i \in DOMAIN answer :
              Merged(t, answer).count[i] = Cardinality(Merged(t, answer).branch[i])
         /\ \A i \in Items : i \notin DOMAIN answer =>
              Merged(t, answer).count[i] = IF SentIn(answer, i) # {} THEN 0 ELSE t.count[i]
  <1> DEFINE new == Merged(t, answer)
  <1>1. new.count = [i \in Items |->
                   IF i \in DOMAIN answer THEN Cardinality(new.branch[i])
                   ELSE IF SentIn(answer, i) # {} THEN 0 ELSE t.count[i]]
    <2>1. \A i \in Items : i \in DOMAIN answer =>
            Cardinality(CASE i = Root -> t.branch[Root] \cup (DOMAIN answer \ t.pull)
                          [] i \in DOMAIN answer -> t.branch[i] \cup (answer[i] \ t.pull)
                          [] OTHER -> t.branch[i]) = Cardinality(new.branch[i])
      BY DEF Merged
    <2>2. QED
      BY <2>1 DEF Merged, SentIn
  <1> HIDE DEF new
  <1>2. \A i \in Items : IsFiniteSet(new.branch[i])
    <2>1. new.branch \in [Items \cup {Root} -> SUBSET Items]
      BY MergedBranches DEF new
    <2>2. QED
      BY <2>1, ItemAssumption, FS_Subset
  <1>3. \A i \in Items : Cardinality(new.branch[i]) \in Nat
    BY <1>2, FS_CardinalityType
  <1>4. t.count \in [Items -> Nat] /\ DOMAIN answer \subseteq Items
    BY GoodFacts, AnswerFacts DEF Items
  <1>5. new.count \in [Items -> Nat]
    BY <1>1, <1>3, <1>4
  <1>6. QED
    BY <1>1, <1>4, <1>5 DEF new

\* A merge leaves what it does not displace on two levels, and in order.
LEMMA MergedStrays ==
  ASSUME NEW t, Good(t), NEW answer, Disjoint(answer)
  PROVE  /\ ConsistentBut(Merged(t, answer), Displaced(t, answer))
         /\ \A i \in Merged(t, answer).pull \ Displaced(t, answer) :
              /\ i \in Groups => Merged(t, answer).parent[i] = Root
              /\ i \in Businesses => Merged(t, answer).parent[i] \in Groups
         /\ \A q \in Items \cup {Root} : t.branch[q] \subseteq Merged(t, answer).branch[q]
  <1> DEFINE new == Merged(t, answer)
             out == Displaced(t, answer)
             sent == UNION {answer[g] : g \in DOMAIN answer}
  <1>1. new.pull = t.pull \cup DOMAIN answer \cup sent /\ new.open = t.open
    BY MergedFacts
  <1>0. out \subseteq t.pull /\ t.pull \subseteq Items
    BY GoodFacts DEF Displaced
  <1>2. /\ \A i \in t.pull \ out : new.parent[i] = t.parent[i]
        /\ \A i \in DOMAIN answer : new.parent[i] = Root
    BY MergedFacts
  <1>3. \A g \in DOMAIN answer : \A b \in answer[g] : new.parent[b] = g
    BY MergedFacts
  <1>4. /\ DOMAIN answer \subseteq Groups
        /\ \A g \in DOMAIN answer : answer[g] \subseteq Businesses
    BY AnswerFacts
  <1>5. /\ Groups \subseteq Items /\ Businesses \subseteq Items /\ Root \notin Items
        /\ Groups \cap Businesses = {} /\ t.pull \subseteq Items /\ t.open \subseteq Items
    BY ItemAssumption, GoodFacts DEF Items
  <1>6. new \in Stores
    <2>1. new.parent \in [Items -> Items \cup {Root}]
      BY MergedFacts
    <2>2. new.branch \in [Items \cup {Root} -> SUBSET Items]
      BY MergedBranches
    <2>3. new.count \in [Items -> Nat]
      BY MergedCount
    <2>4. new = [pull |-> new.pull, parent |-> new.parent, branch |-> new.branch,
                 count |-> new.count, open |-> new.open]
      BY DEF Merged
    <2> HIDE DEF new
    <2>5. new.pull \in SUBSET Items /\ new.open \in SUBSET Items
      BY <1>1, <1>4, <1>5
    <2>6. QED
      BY <2>1, <2>2, <2>3, <2>4, <2>5 DEF Stores
  <1>7. \A i \in new.pull : \/ i \in t.pull
                            \/ i \in DOMAIN answer
                            \/ \E g \in DOMAIN answer : i \in answer[g]
    BY <1>1
  <1>8. t.pull \subseteq new.pull /\ DOMAIN answer \subseteq new.pull /\ sent \subseteq new.pull
    BY <1>1
  <1>9. \A g \in DOMAIN answer : answer[g] \subseteq sent
    OBVIOUS
  <1>10. \A q \in Items \cup {Root} : t.branch[q] = {i \in t.pull : t.parent[i] = q}
    BY DEF Good, Consistent, ParentsAgree
  <1>11. new.branch[Root] = t.branch[Root] \cup (DOMAIN answer \ t.pull)
    BY MergedBranches
  <1>12. \A g \in DOMAIN answer : new.branch[g] = t.branch[g] \cup (answer[g] \ t.pull)
    BY MergedBranches
  <1>13. \A i \in Items : i \notin DOMAIN answer => new.branch[i] = t.branch[i]
    BY MergedBranches
  <1>14. \A i \in DOMAIN answer : new.count[i] = Cardinality(new.branch[i])
    BY MergedCount
  <1>15. \A i \in Items : i \notin DOMAIN answer =>
           new.count[i] = IF SentIn(answer, i) # {} THEN 0 ELSE t.count[i]
    BY MergedCount
  <1> HIDE DEF new, sent, out
  <1>16. \A q \in Items \cup {Root} :
           new.branch[q] \ out = {i \in new.pull \ out : new.parent[i] = q}
    <2> SUFFICES ASSUME NEW q \in Items \cup {Root}
                 PROVE  new.branch[q] \ out = {i \in new.pull \ out : new.parent[i] = q}
      OBVIOUS
    <2>1. t.branch[q] = {i \in t.pull : t.parent[i] = q}
      BY <1>10
    <2>2. {i \in new.pull \ out : new.parent[i] = q}
          = (t.branch[q] \ out) \cup {i \in new.pull \ t.pull : new.parent[i] = q}
      BY <1>0, <1>2, <1>8, <2>1
    <2>3. CASE q = Root
      <3>1. {i \in new.pull \ t.pull : new.parent[i] = Root} = DOMAIN answer \ t.pull
        BY <1>2, <1>3, <1>4, <1>5, <1>7, <1>8
      <3>2. QED
        BY <1>0, <1>11, <2>2, <2>3, <3>1
    <2>4. CASE q \in DOMAIN answer
      <3>1. {i \in new.pull \ t.pull : new.parent[i] = q} = answer[q] \ t.pull
        BY <1>2, <1>3, <1>4, <1>5, <1>7, <1>8, <1>9, <2>4
      <3>2. QED
        BY <1>0, <1>12, <2>2, <2>4, <3>1
    <2>5. CASE q # Root /\ q \notin DOMAIN answer
      <3>1. {i \in new.pull \ t.pull : new.parent[i] = q} = {}
        BY <1>2, <1>3, <1>7, <2>5
      <3>2. new.branch[q] = t.branch[q]
        BY <1>13, <2>5
      <3>3. QED
        BY <2>2, <3>1, <3>2
    <2>6. QED
      BY <2>3, <2>4, <2>5
  <1>17. \A i \in new.pull : new.count[i] = Cardinality(new.branch[i])
    <2> SUFFICES ASSUME NEW i \in new.pull PROVE new.count[i] = Cardinality(new.branch[i])
      OBVIOUS
    <2>1. CASE i \in DOMAIN answer
      BY <1>14, <2>1
    <2>2. CASE \E g \in DOMAIN answer : i \in answer[g]
      <3>1. i \in Businesses /\ i \in Items /\ i \notin DOMAIN answer
            /\ SentIn(answer, i) # {}
        BY <1>4, <1>5, <2>2 DEF SentIn
      <3>2. new.count[i] = 0 /\ new.branch[i] = t.branch[i]
        BY <1>13, <1>15, <3>1
      <3>3. t.branch[i] = {}
        BY <3>1, GoodFacts, NotThereNoBranch
      <3>4. QED
        BY <3>2, <3>3, FS_EmptySet
    <2>3. CASE i \in t.pull /\ i \notin DOMAIN answer /\ ~\E g \in DOMAIN answer : i \in answer[g]
      <3>1. SentIn(answer, i) = {}
        BY <2>3 DEF SentIn
      <3>2. new.count[i] = t.count[i] /\ new.branch[i] = t.branch[i]
        BY <1>5, <1>13, <1>15, <2>3, <3>1
      <3>3. t.count[i] = Cardinality(t.branch[i])
        BY <2>3, GoodFacts
      <3>4. QED
        BY <3>2, <3>3
    <2>4. QED
      BY <1>7, <2>1, <2>2, <2>3
  <1>18. \A i \in new.pull \ out : /\ new.parent[i] \in new.pull \cup {Root}
                                   /\ i \in Groups => new.parent[i] = Root
                                   /\ i \in Businesses => new.parent[i] \in Groups
    <2>1. \A i \in t.pull : /\ t.parent[i] \in t.pull \cup {Root}
                            /\ i \in Groups => t.parent[i] = Root
                            /\ i \in Businesses => t.parent[i] \in Groups
      BY GoodFacts
    <2> SUFFICES ASSUME NEW i \in new.pull \ out
                 PROVE  /\ new.parent[i] \in new.pull \cup {Root}
                        /\ i \in Groups => new.parent[i] = Root
                        /\ i \in Businesses => new.parent[i] \in Groups
      OBVIOUS
    <2>2. CASE i \in t.pull
      BY <1>2, <1>8, <2>1, <2>2
    <2>3. CASE i \in DOMAIN answer
      BY <1>2, <1>4, <1>5, <2>3
    <2>4. CASE \E g \in DOMAIN answer : i \in answer[g]
      BY <1>3, <1>4, <1>5, <1>8, <2>4
    <2>5. QED
      BY <1>7, <2>2, <2>3, <2>4
  <1>19. \A q \in Items \cup {Root} : t.branch[q] \subseteq new.branch[q]
    BY <1>11, <1>12, <1>13
  <1>20. \A q \in Items \cup {Root} : \A i \in new.branch[q] : i \in t.pull => i \in t.branch[q]
    <2> SUFFICES ASSUME NEW q \in Items \cup {Root}, NEW i \in new.branch[q], i \in t.pull
                 PROVE  i \in t.branch[q]
      OBVIOUS
    <2>1. CASE q = Root
      BY <1>11, <2>1
    <2>2. CASE q \in DOMAIN answer
      BY <1>12, <2>2
    <2>3. CASE q # Root /\ q \notin DOMAIN answer
      BY <1>13, <2>3
    <2>4. QED
      BY <2>1, <2>2, <2>3
  <1>21. \A i \in out : InOneBranch(new, i)
    <2> SUFFICES ASSUME NEW i \in out PROVE InOneBranch(new, i)
      OBVIOUS
    <2>1. i \in t.pull /\ t.parent[i] \in Items \cup {Root}
      BY <1>0, GoodFacts
    <2>2. \A q \in Items \cup {Root} : i \in new.branch[q] <=> q = t.parent[i]
      BY <1>10, <1>19, <1>20, <2>1
    <2>3. QED
      BY <2>1, <2>2 DEF InOneBranch
  <1>22. ConsistentBut(new, out)
    BY <1>6, <1>16, <1>17, <1>18, <1>21 DEF ConsistentBut
  <1>23. QED
    BY <1>18, <1>19, <1>22 DEF new, out

\* One that displaces nothing leaves a good store.
LEMMA MergedIsGood ==
  ASSUME NEW t, Good(t), NEW answer, Disjoint(answer), Displaced(t, answer) = {}
  PROVE  Good(Merged(t, answer))
  <1> DEFINE new == Merged(t, answer)
  <1>1. /\ ConsistentBut(new, {})
        /\ \A i \in new.pull \ {} : /\ i \in Groups => new.parent[i] = Root
                                    /\ i \in Businesses => new.parent[i] \in Groups
    BY MergedStrays
  <1> HIDE DEF new
  <1>2. new \in Stores /\ Consistent(new)
    BY <1>1 DEF ConsistentBut, Consistent, ParentsAgree, CountsAgree, ParentsThere
  <1>3. TwoLevels(new)
    BY <1>1 DEF TwoLevels
  <1>4. QED
    BY <1>2, <1>3 DEF Good, new

\* An item with something below it is a group.
LEMMA ParentIsGroup ==
  ASSUME NEW t, Good(t), NEW g \in t.pull, t.count[g] # 0
  PROVE  g \in Groups /\ t.parent[g] = Root /\ t.branch[g] # {}
  <1>1. t.branch[g] # {}
    <2>1. t.count[g] = Cardinality(t.branch[g])
      BY GoodFacts
    <2>2. QED
      BY <2>1, FS_EmptySet
  <1>2. g \in Groups
    <2>1. g \in Items /\ (g \in Businesses => t.branch[g] = {})
      BY GoodFacts
    <2>2. QED
      BY <1>1, <2>1 DEF Items
  <1>3. QED
    BY <1>1, <1>2, GoodFacts

\* The operations that only open and close leave the rest alone.
LEMMA OpenOnlyIsGood ==
  ASSUME NEW t, Good(t), NEW s \in SUBSET Items
  PROVE  Good([t EXCEPT !.open = s])
  <1> DEFINE new == [t EXCEPT !.open = s]
  <1>1. t \in Stores /\ Consistent(t) /\ TwoLevels(t)
    BY DEF Good
  <1>2. new \in Stores
    BY <1>1 DEF Stores
  <1>3. new.pull = t.pull /\ new.parent = t.parent /\ new.branch = t.branch
        /\ new.count = t.count
    BY <1>1 DEF Stores
  <1> HIDE DEF new
  <1>4. Consistent(new) /\ TwoLevels(new)
    BY <1>1, <1>3 DEF Consistent, ParentsAgree, CountsAgree, ParentsThere, TwoLevels
  <1>5. QED
    BY <1>2, <1>4 DEF Good, new

\* All closed.
LEMMA ClosedAllIsGood == ASSUME NEW t, Good(t) PROVE Good(closedAll(t))
  BY OpenOnlyIsGood DEF closedAll

\* One opened or closed.
LEMMA OpeningIsGood ==
  ASSUME NEW t, Good(t), NEW id \in Items
  PROVE  Good(closedAll(t)) /\ Good(closed(t, id)) /\ Good(opened(closedAll(t), id))
  <1>1. t \in Stores /\ t.open \in SUBSET Items
    BY DEF Good, Stores
  <1>2. /\ closed(t, id) = [t EXCEPT !.open = t.open \ {id}]
        /\ opened(closedAll(t), id) = [t EXCEPT !.open = {id}]
    BY <1>1 DEF closedAll, closed, opened, Stores
  <1>3. Good([t EXCEPT !.open = t.open \ {id}]) /\ Good([t EXCEPT !.open = {id}])
    BY <1>1, OpenOnlyIsGood
  <1>4. QED
    BY <1>2, <1>3, ClosedAllIsGood

-----------------------------------------------------------------------------
(* What is open stays in order.                                            *)

\* A removal closes the parent that it leaves without children.
LEMMA RemovedOpenOK ==
  ASSUME NEW t, NEW c, Good(t), OpenOK(t, c), NEW id \in t.pull
  PROVE  OpenOK(Removed(t, id), c)
  <1> DEFINE new == Removed(t, id)
             gone == Gone(t, id)
             p == t.parent[id]
  <1>1. new.open = t.open \ (gone \cup (IF p # Root /\ new.count[p] = 0 THEN {p} ELSE {}))
    BY RemovedFacts
  <1>2. new.pull = t.pull \ gone /\ t.pull \subseteq Items
    BY RemovedFacts, GoodFacts
  <1>3. \A i \in Items \ gone : i # p => new.count[i] = t.count[i]
    BY RemovedFacts
  <1>4. /\ \A g, h \in t.open : g = h
        /\ \A g \in t.open : g \in t.pull /\ t.count[g] # 0
        /\ c => t.open = {}
    BY DEF OpenOK
  <1>5. Root \notin Items
    BY ItemAssumption
  <1> HIDE DEF new, gone, p
  <1>6. new.open \subseteq t.open
    BY <1>1
  <1>7. \A g \in new.open : g \in new.pull /\ new.count[g] # 0
    <2> SUFFICES ASSUME NEW g \in new.open PROVE g \in new.pull /\ new.count[g] # 0
      OBVIOUS
    <2>1. g \in t.open /\ g \notin gone /\ g \in t.pull /\ t.count[g] # 0 /\ g \in Items
      BY <1>1, <1>2, <1>4
    <2>2. CASE g = p
      BY <1>1, <1>2, <1>5, <2>1, <2>2
    <2>3. CASE g # p
      BY <1>2, <1>3, <2>1, <2>3
    <2>4. QED
      BY <2>2, <2>3
  <1>8. QED
    BY <1>4, <1>6, <1>7 DEF OpenOK, new

\* What is added leaves the open branch its children.
LEMMA AddedOpenOK ==
  ASSUME NEW t, NEW c, Good(t), OpenOK(t, c),
         NEW id \in Items \ t.pull, NEW p \in Groups
  PROVE  OpenOK(Added(t, id, p), c)
  <1> DEFINE new == Added(t, id, p)
  <1>1. new.open = t.open /\ new.pull = t.pull \cup {id}
    BY AddedFacts
  <1>2. \A i \in Items : new.count[i] =
           IF i = id THEN 0 ELSE IF i = p /\ p \in t.pull THEN t.count[p] + 1 ELSE t.count[i]
    BY AddedFacts
  <1>3. t.pull \subseteq Items /\ t.count \in [Items -> Nat]
    BY GoodFacts
  <1>4. /\ \A g, h \in t.open : g = h
        /\ \A g \in t.open : g \in t.pull /\ t.count[g] # 0
        /\ c => t.open = {}
    BY DEF OpenOK
  <1> HIDE DEF new
  <1>5. \A g \in t.open : new.count[g] # 0
    <2> SUFFICES ASSUME NEW g \in t.open PROVE new.count[g] # 0
      OBVIOUS
    <2>1. g \in Items /\ g # id /\ t.count[g] # 0 /\ t.count[g] \in Nat
      BY <1>3, <1>4
    <2>2. QED
      BY <1>2, <2>1
  <1>6. QED
    BY <1>1, <1>4, <1>5 DEF OpenOK, new

\* So does what is merged in.
LEMMA MergedOpenOK ==
  ASSUME NEW t, NEW c, Good(t), OpenOK(t, c),
         NEW answer, Disjoint(answer)
  PROVE  OpenOK(Merged(t, answer), c)
  <1> DEFINE new == Merged(t, answer)
  <1>1. new.open = t.open /\ t.pull \subseteq new.pull
    BY MergedFacts
  <1>2. /\ \A g, h \in t.open : g = h
        /\ \A g \in t.open : g \in t.pull /\ t.count[g] # 0
        /\ c => t.open = {}
    BY DEF OpenOK
  <1>3. \A i \in Items : i \notin DOMAIN answer =>
          new.count[i] = IF SentIn(answer, i) # {} THEN 0 ELSE t.count[i]
    BY MergedCount
  <1>4. \A i \in DOMAIN answer : new.count[i] = Cardinality(new.branch[i])
    BY MergedCount
  <1>5. \A i \in DOMAIN answer : new.branch[i] = t.branch[i] \cup (answer[i] \ t.pull)
    BY MergedBranches
  <1>6. new.branch \in [Items \cup {Root} -> SUBSET Items]
    BY MergedBranches
  <1>7. /\ \A g \in DOMAIN answer : answer[g] \subseteq Businesses
        /\ Groups \cap Businesses = {}
    BY AnswerFacts, ItemAssumption
  <1> HIDE DEF new
  <1>8. \A g \in t.open : new.count[g] # 0
    <2> SUFFICES ASSUME NEW g \in t.open PROVE new.count[g] # 0
      OBVIOUS
    <2>1. g \in Groups /\ g \in Items /\ t.branch[g] # {} /\ t.count[g] # 0
      BY <1>2, ParentIsGroup, GoodFacts DEF Items
    <2>2. CASE g \in DOMAIN answer
      <3>1. new.branch[g] # {} /\ new.branch[g] \in SUBSET Items
        BY <1>5, <1>6, <2>1, <2>2
      <3>2. IsFiniteSet(new.branch[g])
        BY <3>1, ItemAssumption, FS_Subset
      <3>3. Cardinality(new.branch[g]) # 0
        BY <3>1, <3>2, FS_EmptySet
      <3>4. QED
        BY <1>4, <2>2, <3>3
    <2>3. CASE g \notin DOMAIN answer
      <3>1. SentIn(answer, g) = {}
        BY <1>7, <2>1 DEF SentIn
      <3>2. QED
        BY <1>3, <2>1, <2>3, <3>1
    <2>4. QED
      BY <2>2, <2>3
  <1>9. QED
    BY <1>1, <1>2, <1>8 DEF OpenOK, new

\* To open a branch that has children, after all were closed, and to close one.
LEMMA OpeningOpenOK ==
  ASSUME NEW t, NEW c, Good(t), OpenOK(t, c), NEW id
  PROVE  /\ \A d : OpenOK(closedAll(t), d)
         /\ OpenOK(closed(t, id), c)
         /\ id \in t.pull /\ t.count[id] # 0 => OpenOK(opened(closedAll(t), id), FALSE)
  <1> USE DEF closedAll, closed, opened, OpenOK, Good, Stores
  <1>1. \A d : OpenOK(closedAll(t), d)
    OBVIOUS
  <1>2. OpenOK(closed(t, id), c)
    OBVIOUS
  <1>3. id \in t.pull /\ t.count[id] # 0 => OpenOK(opened(closedAll(t), id), FALSE)
    OBVIOUS
  <1>4. QED
    BY <1>1, <1>2, <1>3

-----------------------------------------------------------------------------
(* What is painted.                                                        *)

\* The items that have a node on the page.
Shown(t, i) == i \in t.pull /\ t.parent[i] \in t.open \cup {Root}

\* An item that is painted is not absent.
LEMMA TemplateIsThere == \A t, c, i : template(t, c, i) # Absent
  <1> SUFFICES ASSUME NEW t, NEW c, NEW i PROVE template(t, c, i) # Absent
    OBVIOUS
  <1>1. template(t, c, i) \in {"icon", "plain", "down", "left"}
    <2>1. CASE c
      BY <2>1 DEF template
    <2>2. CASE ~c /\ t.count[i] = 0
      BY <2>2 DEF template
    <2>3. CASE ~c /\ t.count[i] # 0
      BY <2>3 DEF template
    <2>4. QED
      BY <2>1, <2>2, <2>3
  <1>2. QED
    BY <1>1 DEF Absent

\* Everything is painted: what is shown as its template says, the rest not at all.
LEMMA Rendered ==
  ASSUME NEW t, NEW c, Good(t)
  PROVE  \A i \in Items :
           Render(t, c)[i] = IF Shown(t, i) THEN template(t, c, i) ELSE Absent
  <1> SUFFICES ASSUME NEW i \in Items
               PROVE  Render(t, c)[i] = IF Shown(t, i) THEN template(t, c, i) ELSE Absent
    OBVIOUS
  <1>1. (\E p \in Items \cup {Root} : isBranchOpen(t, p) /\ i \in t.branch[p]) <=> Shown(t, i)
    <2>1. \A p \in Items \cup {Root} : i \in t.branch[p] <=> i \in t.pull /\ t.parent[i] = p
      BY DEF Good, Consistent, ParentsAgree
    <2>2. t.open \subseteq Items
      BY GoodFacts
    <2>3. QED
      BY <2>1, <2>2 DEF Shown, isBranchOpen
  <1>2. QED
    BY <1>1 DEF Render

\* What is painted is a function on the items.
LEMMA RenderIsFunction == \A t, c : Render(t, c) = [i \in Items |-> Render(t, c)[i]]
  BY DEF Render

\* What can be clicked is in the store, and with nothing open it is at the top.
LEMMA RenderedVisible ==
  ASSUME NEW t, NEW c, Good(t), NEW i \in Items, Render(t, c)[i] # Absent
  PROVE  i \in t.pull /\ (t.open = {} => i \in t.branch[Root])
  <1>1. Shown(t, i)
    BY Rendered
  <1>2. i \in t.branch[t.parent[i]]
    BY <1>1, GoodFacts DEF Shown
  <1>3. QED
    BY <1>1, <1>2 DEF Shown

\* To paint one item once more changes nothing when all is painted.
LEMMA UpdateKeeps ==
  ASSUME NEW t, NEW c, Good(t), NEW i \in Items
  PROVE  RenderUpdate(Render(t, c), t, c, i) = Render(t, c)
  <1> DEFINE r == Render(t, c)
  <1>1. r[i] = Absent \/ r[i] = template(t, c, i)
    BY Rendered
  <1>2. r = [j \in Items |-> r[j]]
    BY RenderIsFunction
  <1> HIDE DEF r
  <1>3. [r EXCEPT ![i] = r[i]] = r
    BY <1>2
  <1>4. QED
    BY <1>1, <1>3 DEF RenderUpdate, r

\* To paint a branch is enough when only that branch was opened or closed.
LEMMA BranchRepaints ==
  ASSUME NEW u, NEW v, NEW c, Good(u), Good(v), NEW id \in Items,
         u.pull = v.pull, u.parent = v.parent, u.count = v.count,
         u.open \ {id} = v.open \ {id}, Render(u, c)[id] # Absent
  PROVE  RenderBranch(Render(u, c), v, c, id) = Render(v, c)
  <1>1. RenderBranch(Render(u, c), v, c, id) =
          [j \in Items |-> IF j \in {id} \cup v.branch[id] THEN Render(v, c)[j]
                           ELSE Render(u, c)[j]]
    BY DEF RenderBranch
  <1>2. ASSUME NEW j \in Items, j \notin {id} \cup v.branch[id]
        PROVE  Render(u, c)[j] = Render(v, c)[j]
    <2>1. j \in v.pull => v.parent[j] # id
      BY <1>2, GoodFacts
    <2>2. Shown(u, j) <=> Shown(v, j)
      BY <2>1 DEF Shown
    <2>3. template(u, c, j) = template(v, c, j)
      BY <1>2 DEF template
    <2>4. QED
      BY <2>2, <2>3, Rendered
  <1>3. RenderBranch(Render(u, c), v, c, id) = [j \in Items |-> Render(v, c)[j]]
    BY <1>1, <1>2
  <1>4. QED
    BY <1>3, RenderIsFunction

\* A click that opens a branch,
LEMMA OpeningRepaints ==
  ASSUME NEW t, NEW c, Good(t), NEW id \in t.pull, t.count[id] # 0
  PROVE  RenderBranch(Render(closedAll(t), c), opened(closedAll(t), id), c, id)
           = Render(opened(closedAll(t), id), c)
  <1> DEFINE u == closedAll(t)
             v == opened(closedAll(t), id)
  <1>1. id \in Items /\ t.parent[id] = Root
    BY ParentIsGroup, GoodFacts
  <1>2. Good(u) /\ Good(v)
    BY <1>1, OpeningIsGood
  <1>3. /\ u.pull = t.pull /\ u.parent = t.parent /\ u.count = t.count /\ u.open = {}
        /\ v.pull = t.pull /\ v.parent = t.parent /\ v.count = t.count /\ v.open = {id}
    BY DEF closedAll, opened, Good, Stores
  <1> HIDE DEF u, v
  <1>4. Shown(u, id)
    BY <1>1, <1>3 DEF Shown
  <1>5. Render(u, c)[id] # Absent
    BY <1>1, <1>2, <1>4, Rendered, TemplateIsThere
  <1>6. u.open \ {id} = v.open \ {id}
    BY <1>3
  <1>7. RenderBranch(Render(u, c), v, c, id) = Render(v, c)
    BY <1>1, <1>2, <1>3, <1>5, <1>6, BranchRepaints
  <1>8. QED
    BY <1>7 DEF u, v

\* and one that closes it.
LEMMA ClosingRepaints ==
  ASSUME NEW t, NEW c, Good(t), NEW id \in t.pull, t.count[id] # 0
  PROVE  RenderBranch(Render(t, c), closed(t, id), c, id) = Render(closed(t, id), c)
  <1> DEFINE v == closed(t, id)
  <1>1. id \in Items /\ t.parent[id] = Root
    BY ParentIsGroup, GoodFacts
  <1>2. Good(v)
    BY <1>1, OpeningIsGood
  <1>3. v.pull = t.pull /\ v.parent = t.parent /\ v.count = t.count /\ v.open = t.open \ {id}
    BY DEF closed, Good, Stores
  <1> HIDE DEF v
  <1>4. Shown(t, id)
    BY <1>1 DEF Shown
  <1>5. Render(t, c)[id] # Absent
    BY <1>1, <1>4, Rendered, TemplateIsThere
  <1>6. t.open \ {id} = v.open \ {id}
    BY <1>3
  <1>7. RenderBranch(Render(t, c), v, c, id) = Render(v, c)
    BY <1>1, <1>2, <1>3, <1>5, <1>6, BranchRepaints
  <1>8. QED
    BY <1>7 DEF v

\* To take the nodes away and to paint a parent left without children is
\* enough for a removal.
LEMMA RemovalRepaints ==
  ASSUME NEW t, NEW c, Good(t), NEW id \in t.pull
  PROVE  RenderRemoved(Render(t, c), t, c, id) = Render(Removed(t, id), c)
  <1> DEFINE new == Removed(t, id)
             gone == Gone(t, id)
             p == t.parent[id]
             cut == RenderDelete(Render(t, c), gone)
  <1>1. /\ Good(new) /\ new.pull = t.pull \ gone /\ t.pull \subseteq Items
        /\ p \in Items \cup {Root} /\ Root \notin Items
    BY RemovedIsGood, RemovedFacts, GoodFacts, ItemAssumption
  <1>2. \A i \in Items : new.parent[i] = IF i \in gone THEN Root ELSE t.parent[i]
    BY RemovedFacts
  <1>3. \A i \in Items \ gone : i # p => new.count[i] = t.count[i]
    BY RemovedFacts
  <1>4. p # Root => new.count[p] = t.count[p] - 1 /\ new.count[p] \in Nat /\ p \in t.pull
                    /\ new.count[p] = Cardinality(t.branch[p] \ {id})
                    /\ t.count[p] \in Nat
    <2>1. p # Root => new.count[p] = t.count[p] - 1
      BY RemovedFacts
    <2>2. p # Root => new.count[p] \in Nat /\ p \in t.pull /\ p \in Items
                      /\ new.count[p] = Cardinality(t.branch[p] \ {id})
      BY RemovedCount
    <2>3. p # Root => t.count[p] \in Nat
      BY <2>2, GoodFacts
    <2>4. QED
      BY <2>1, <2>2, <2>3
  <1>5. /\ \A i \in t.pull \ gone : t.parent[i] \notin gone
        /\ p \notin gone /\ id \in gone
    BY RemovedFacts DEF Gone
  <1>6. new.open = t.open \ (gone \cup (IF p # Root /\ new.count[p] = 0 THEN {p} ELSE {}))
    BY RemovedFacts
  <1>7. cut = [i \in Items |-> IF i \in gone THEN Absent ELSE Render(t, c)[i]]
    BY DEF RenderDelete
  <1>8. RenderRemoved(Render(t, c), t, c, id) =
          IF p # Root /\ new.count[p] = 0 THEN RenderUpdate(cut, new, c, p) ELSE cut
    BY DEF RenderRemoved, Gone
  <1> HIDE DEF new, gone, p, cut
  <1>9. p # Root /\ new.count[p] = 0 => t.branch[p] \subseteq {id}
    <2> SUFFICES ASSUME p # Root, new.count[p] = 0 PROVE t.branch[p] \subseteq {id}
      OBVIOUS
    <2>1. IsFiniteSet(t.branch[p])
      BY <1>1, <1>4, BranchCount
    <2>2. IsFiniteSet(t.branch[p] \ {id})
      BY <2>1, FS_Subset
    <2>3. t.branch[p] \ {id} = {}
      BY <1>4, <2>2, FS_EmptySet
    <2>4. QED
      BY <2>3
  <1>10. \A i \in Items : Shown(new, i) <=> i \notin gone /\ Shown(t, i)
    <2> SUFFICES ASSUME NEW i \in Items
                 PROVE  Shown(new, i) <=> i \notin gone /\ Shown(t, i)
      OBVIOUS
    <2>1. CASE i \in gone
      BY <1>1, <2>1 DEF Shown
    <2>2. CASE i \notin gone
      <3>1. new.parent[i] = t.parent[i] /\ (i \in new.pull <=> i \in t.pull)
        BY <1>1, <1>2, <2>2
      <3>2. i \in t.pull /\ t.parent[i] \in t.open
              => t.parent[i] \in new.open
        <4> SUFFICES ASSUME i \in t.pull, t.parent[i] \in t.open
                     PROVE  t.parent[i] \in new.open
          OBVIOUS
        <4>1. t.parent[i] \notin gone
          BY <1>5, <2>2
        <4>2. i \in t.branch[t.parent[i]] /\ i # id
          BY <1>5, <2>2, GoodFacts
        <4>3. QED
          BY <1>6, <1>9, <4>1, <4>2
      <3>3. new.open \subseteq t.open
        BY <1>6
      <3>4. QED
        BY <2>2, <3>1, <3>2, <3>3 DEF Shown
    <2>3. QED
      BY <2>1, <2>2
  <1>11. \A i \in Items \ gone : i # p => template(new, c, i) = template(t, c, i)
    <2> SUFFICES ASSUME NEW i \in Items \ gone, i # p
                 PROVE  template(new, c, i) = template(t, c, i)
      OBVIOUS
    <2>1. new.count[i] = t.count[i] /\ (i \in new.open <=> i \in t.open)
      BY <1>3, <1>6
    <2>2. QED
      BY <2>1 DEF template
  <1>12. p # Root /\ new.count[p] # 0 => template(new, c, p) = template(t, c, p)
    <2> SUFFICES ASSUME p # Root, new.count[p] # 0
                 PROVE  template(new, c, p) = template(t, c, p)
      OBVIOUS
    <2>1. t.count[p] # 0 /\ (p \in new.open <=> p \in t.open)
      BY <1>4, <1>5, <1>6
    <2>2. QED
      BY <2>1 DEF template
  <1>13. \A i \in Items : Render(new, c)[i] = IF Shown(new, i) THEN template(new, c, i)
                                              ELSE Absent
    BY <1>1, Rendered
  <1>14. \A i \in Items : Render(t, c)[i] = IF Shown(t, i) THEN template(t, c, i) ELSE Absent
    BY Rendered
  <1>15. \A i \in Items : i # p \/ p = Root \/ new.count[p] # 0 => cut[i] = Render(new, c)[i]
    <2> SUFFICES ASSUME NEW i \in Items, i # p \/ p = Root \/ new.count[p] # 0
                 PROVE  cut[i] = Render(new, c)[i]
      OBVIOUS
    <2>1. CASE i \in gone
      BY <1>7, <1>10, <1>13, <2>1
    <2>2. CASE i \notin gone
      <3>1. template(new, c, i) = template(t, c, i)
        BY <1>1, <1>11, <1>12, <2>2
      <3>2. QED
        BY <1>7, <1>10, <1>13, <1>14, <2>2, <3>1
    <2>3. QED
      BY <2>1, <2>2
  <1>16. Render(new, c) = [i \in Items |-> Render(new, c)[i]]
    BY RenderIsFunction
  <1>17. CASE p = Root \/ new.count[p] # 0
    <2>1. cut = Render(new, c)
      BY <1>7, <1>15, <1>16, <1>17
    <2>2. QED
      BY <1>8, <1>17, <2>1 DEF new
  <1>18. CASE p # Root /\ new.count[p] = 0
    <2>1. p \in Items /\ p \notin gone
      BY <1>1, <1>5, <1>18
    <2>2. cut[p] = Absent <=> ~Shown(new, p)
      BY <1>7, <1>10, <1>14, <2>1, TemplateIsThere
    <2>3. RenderUpdate(cut, new, c, p) = Render(new, c)
      <3>1. CASE Shown(new, p)
        <4>1. RenderUpdate(cut, new, c, p) = [cut EXCEPT ![p] = template(new, c, p)]
          BY <2>2, <3>1 DEF RenderUpdate
        <4>2. \A i \in Items : [cut EXCEPT ![p] = template(new, c, p)][i] = Render(new, c)[i]
          BY <1>7, <1>13, <1>15, <2>1, <3>1
        <4>3. QED
          BY <1>7, <1>16, <4>1, <4>2
      <3>2. CASE ~Shown(new, p)
        <4>1. RenderUpdate(cut, new, c, p) = cut
          BY <2>2, <3>2 DEF RenderUpdate
        <4>2. cut[p] = Render(new, c)[p]
          BY <1>13, <2>1, <2>2, <3>2
        <4>3. QED
          BY <1>7, <1>15, <1>16, <4>1, <4>2
      <3>3. QED
        BY <3>1, <3>2
    <2>4. QED
      BY <1>8, <1>18, <2>3 DEF new
  <1>19. QED
    BY <1>17, <1>18

-----------------------------------------------------------------------------
(* The sidebar.                                                            *)

\* Where an item is selected, its group is marked and all stays painted.
LEMMA SelectKeeps ==
  ASSUME TreeInv, SelectInv, NEW id \in Items, NEW p, select(id, p),
         UNCHANGED <<tree, collapsed>>
  PROVE  TreeInv' /\ SelectInv'
  <1>1. Good(tree) /\ painted = Render(tree, collapsed)
    BY DEF TreeInv, PaintedInStep
  <1>2. CASE ~(Leaf(id) /\ id # selected)
    <2>1. UNCHANGED <<selected, marks, painted>>
      BY <1>2 DEF select
    <2>2. QED
      BY <2>1 DEF TreeInv, SelectInv, GroupMarked, PaintedInStep
  <1>3. CASE Leaf(id) /\ id # selected
    <2>1. /\ selected' = id /\ marks' = MarksAfterSelect(id)
          /\ painted' = RenderUpdate(IF selected = None THEN painted
                                     ELSE RenderUpdate(painted, tree, collapsed, selected),
                                     tree, collapsed, id)
      BY <1>3 DEF select
    <2>2. selected # None => selected \in Items
      BY DEF SelectInv
    <2>3. (IF selected = None THEN painted
           ELSE RenderUpdate(painted, tree, collapsed, selected)) = painted
      BY <1>1, <2>2, UpdateKeeps
    <2>4. painted' = painted
      BY <1>1, <2>1, <2>3, UpdateKeeps
    <2>5. tree.parent[id] \in marks'
      BY <2>1 DEF MarksAfterSelect, addCss
    <2>6. id \in tree.pull
      BY <1>3 DEF Leaf
    <2>7. TreeInv'
      BY <2>4 DEF TreeInv, PaintedInStep
    <2>8. SelectInv'
      BY <2>1, <2>5, <2>6 DEF SelectInv, GroupMarked
    <2>9. QED
      BY <2>7, <2>8
  <1>4. QED
    BY <1>2, <1>3

\* A popup that is not shown, or not current, has nothing to say.
LEMMA PopupSilent ==
  ASSUME popup \in Popups, ~popup.shown \/ ~popup.current, popup.shown => collapsed
  PROVE  PopupInv
  BY DEF PopupInv, PopupInStep

\* What select makes of the popup it is given.
LEMMA SelectPopup ==
  ASSUME NEW id \in Items, NEW p \in Popups, select(id, p)
  PROVE  /\ popup' \in Popups
         /\ popup'.shown = p.shown /\ popup'.master = p.master /\ popup'.list = p.list
         /\ popup'.chosen = p.chosen /\ popup'.current = p.current
         /\ Leaf(id) /\ id # selected =>
              /\ selected' = id
              /\ popup'.titleMarked = (p.titleMarked \/ tree.parent[id] = p.master)
              /\ popup'.titleSelected =
                   (p.titleSelected \/ (collapsed /\ tree.parent[id] = Root))
         /\ ~(Leaf(id) /\ id # selected) => UNCHANGED selected /\ popup' = p
  <1>1. CASE Leaf(id) /\ id # selected
    <2>1. selected' = id /\ popup' = onMasterSelect(p, id)
      BY <1>1 DEF select
    <2>2. popup' \in Popups
      BY <2>1 DEF onMasterSelect, Popups
    <2>3. QED
      BY <1>1, <2>1, <2>2 DEF onMasterSelect, Popups
  <1>2. CASE ~(Leaf(id) /\ id # selected)
    <2>1. UNCHANGED selected /\ popup' = p
      BY <1>2 DEF select
    <2>2. QED
      BY <1>2, <2>1
  <1>3. QED
    BY <1>1, <1>2

\* A group that is selected by its icon or by the title of the popup.
LEMMA SelectGroupKeepsPopup ==
  ASSUME SideInv, select(popup.master, popup), UNCHANGED <<tree, collapsed>>,
         popup.shown, popup.master \in tree.pull
  PROVE  PopupInv'
  <1> DEFINE id == popup.master
  <1>1. /\ Good(tree) /\ popup \in Popups /\ (popup.shown => collapsed)
        /\ popup.shown /\ popup.current => id \in tree.branch[Root]
        /\ PopupInStep
    BY DEF SideInv, TreeInv, PopupInv
  <1>2. id \in Items
    BY <1>1, GoodFacts
  <1>3. /\ popup' \in Popups
        /\ popup'.shown = popup.shown /\ popup'.master = id /\ popup'.list = popup.list
        /\ popup'.chosen = popup.chosen /\ popup'.current = popup.current
    BY <1>1, <1>2, SelectPopup
  <1>4. CASE ~popup.current
    BY <1>1, <1>3, <1>4 DEF PopupInv, PopupInStep
  <1>5. CASE popup.current /\ ~(Leaf(id) /\ id # selected)
    <2>1. UNCHANGED selected /\ popup' = popup
      BY <1>1, <1>2, <1>5, SelectPopup
    <2>2. QED
      BY <2>1 DEF SideInv, PopupInv, PopupInStep, getBranch, Leaf
  <1>6. CASE popup.current /\ Leaf(id) /\ id # selected
    <2>1. /\ selected' = id
          /\ popup'.titleMarked = (popup.titleMarked \/ tree.parent[id] = id)
          /\ popup'.titleSelected = (popup.titleSelected \/ (collapsed /\ tree.parent[id] = Root))
      BY <1>1, <1>2, <1>6, SelectPopup
    <2>2. tree.parent[id] = Root /\ id # Root /\ id \in tree.branch[Root]
      BY <1>1, <1>2, <1>6, GoodFacts, ItemAssumption
    <2>3. tree.branch[id] = {}
      BY <1>1, <1>2, <1>6, BranchCount, GoodFacts DEF Leaf
    <2>4. popup.list = {} /\ popup.chosen = None /\ popup.titleMarked = FALSE
      BY <1>1, <1>6, <2>3 DEF PopupInStep, getBranch, Popups
    <2>5. PopupInStep'
      BY <1>1, <1>3, <2>1, <2>2, <2>3, <2>4 DEF PopupInStep, getBranch
    <2>6. QED
      BY <1>1, <1>3, <2>2, <2>5 DEF PopupInv
  <1>7. QED
    BY <1>4, <1>5, <1>6

\* What a popup p says of the tree t with s selected.
Says(p, t, s) ==
  /\ p.list = t.branch[p.master]
  /\ p.chosen = IF s \in p.list THEN s ELSE None
  /\ p.titleMarked <=> p.chosen # None
  /\ s = p.master => p.titleSelected
  /\ p.titleSelected => s = p.master \/ ~(p.master \in t.pull /\ t.count[p.master] = 0)

\* The same, as PopupInStep has it, before and after a step.
LEMMA PopupSays ==
  /\ PopupInStep <=> (popup.shown /\ popup.current => Says(popup, tree, selected))
  /\ PopupInStep' <=> (popup'.shown /\ popup'.current => Says(popup', tree', selected'))
  BY DEF PopupInStep, Says, getBranch, Leaf

\* The width changes: the popup is hidden and all is painted.
LEMMA ToggleKeeps == SideInv /\ Toggle => SideInv'
  <1> SUFFICES ASSUME SideInv, Toggle PROVE SideInv'
    OBVIOUS
  <1> USE DEF SideInv
  <1>1. Good(tree) /\ OpenOK(tree, collapsed) /\ collapsed \in BOOLEAN
    BY DEF TreeInv
  <1>2. /\ collapsed' = ~collapsed /\ tree' = IF collapsed' THEN closedAll(tree) ELSE tree
        /\ painted' = Render(tree', collapsed') /\ popup' = hide(popup)
        /\ UNCHANGED <<selected, marks>>
    BY DEF Toggle
  <1>4. Good(closedAll(tree)) /\ \A d : OpenOK(closedAll(tree), d)
    <2>1. \A d : OpenOK(closedAll(tree), d)
      BY <1>1, OpeningOpenOK
    <2>2. Good(closedAll(tree))
      BY <1>1, ClosedAllIsGood
    <2>3. QED
      BY <2>1, <2>2
  <1>5. ~collapsed' => collapsed = TRUE /\ OpenOK(tree, FALSE)
    BY <1>1, <1>2 DEF OpenOK
  <1>6. Good(tree') /\ OpenOK(tree', collapsed')
    <2>1. CASE collapsed'
      BY <1>2, <1>4, <2>1
    <2>2. CASE ~collapsed'
      BY <1>1, <1>2, <1>5, <2>2 DEF OpenOK
    <2>3. QED
      BY <2>1, <2>2
  <1>7. TreeInv'
    BY <1>1, <1>2, <1>6 DEF TreeInv, PaintedInStep
  <1>8. tree'.pull = tree.pull /\ tree'.parent = tree.parent
    BY <1>1, <1>2 DEF closedAll, Good, Stores
  <1>9. SelectInv'
    BY <1>2, <1>8 DEF SelectInv, GroupMarked
  <1>10. popup' \in Popups /\ popup'.shown = FALSE
    BY <1>2 DEF PopupInv, Popups, hide
  <1>11. PopupInv'
    BY <1>10 DEF PopupInv, PopupInStep
  <1>12. QED
    BY <1>7, <1>9, <1>11

\* Only the popup may change: it is hidden.
LEMMA HidingKeeps ==
  ASSUME SideInv, popup' = hide(popup) \/ popup' = popup,
         UNCHANGED <<tree, painted, selected, marks, collapsed>>
  PROVE  SideInv'
  <1>1. TreeInv' /\ SelectInv'
    BY DEF SideInv, TreeInv, SelectInv, GroupMarked, PaintedInStep
  <1>2. CASE popup' = popup
    BY <1>1, <1>2 DEF SideInv, PopupInv, PopupInStep, getBranch, Leaf
  <1>3. CASE popup' = hide(popup)
    <2>1. popup' \in Popups /\ popup'.shown = FALSE
      BY <1>3 DEF SideInv, PopupInv, Popups, hide
    <2>2. QED
      BY <1>1, <2>1 DEF SideInv, PopupInv, PopupInStep
  <1>4. QED
    BY <1>2, <1>3

\* The popup is filled from the branch that the pointer is on.
LEMMA MouseMoveKeeps ==
  ASSUME SideInv, NEW id \in Items, MouseMove(id)
  PROVE  SideInv'
  <1>1. /\ Good(tree) /\ painted = Render(tree, collapsed) /\ popup \in Popups
        /\ collapsed => tree.open = {}
        /\ selected \in Items \cup {None} /\ (selected # None => selected \in tree.pull)
    BY DEF SideInv, TreeInv, PaintedInStep, PopupInv, OpenOK, SelectInv, GroupMarked
  <1>2. /\ UNCHANGED <<tree, painted, selected, marks, collapsed>>
        /\ Visible(id) /\ collapsed
        /\ popup' = [show(updateList(updateTitle(popup, id), id)) EXCEPT !.current = TRUE]
    BY DEF MouseMove, showPopup
  <1>3. TreeInv' /\ SelectInv'
    BY <1>2 DEF SideInv, TreeInv, SelectInv, GroupMarked, PaintedInStep
  <1>4. id \in tree.pull /\ id \in tree.branch[Root]
    BY <1>1, <1>2, RenderedVisible DEF Visible
  <1>5. tree.branch[id] \in SUBSET Items /\ None \notin Items
    BY <1>1, GoodFacts, ItemAssumption
  <1> DEFINE titled == updateTitle(popup, id)
             filled == importData(titled, getBranch(id))
             listed == updateList(titled, id)
  <1>6. /\ titled \in Popups /\ titled.master = id
        /\ titled.titleMarked = (selected # None /\ tree.parent[selected] = id)
        /\ titled.titleSelected = (selected = id)
    BY <1>1 DEF updateTitle, Popups
  <1> HIDE DEF titled
  <1>7. /\ filled \in Popups /\ filled.list = tree.branch[id] /\ filled.chosen = None
        /\ filled.master = id /\ filled.titleMarked = titled.titleMarked
        /\ filled.titleSelected = titled.titleSelected
    BY <1>5, <1>6 DEF importData, getBranch, Popups
  <1>8. listed = IF selected \in filled.list THEN [filled EXCEPT !.chosen = selected]
                 ELSE filled
    BY DEF updateList
  <1> HIDE DEF filled, listed
  <1>9. /\ listed \in Popups /\ listed.list = tree.branch[id] /\ listed.master = id
        /\ listed.chosen = IF selected \in tree.branch[id] THEN selected ELSE None
        /\ listed.titleMarked = titled.titleMarked
        /\ listed.titleSelected = titled.titleSelected
    <2>1. CASE selected \in filled.list
      BY <1>1, <1>7, <1>8, <2>1 DEF Popups
    <2>2. CASE selected \notin filled.list
      BY <1>1, <1>7, <1>8, <2>2 DEF Popups
    <2>3. QED
      BY <2>1, <2>2
  <1>10. popup' = [show(listed) EXCEPT !.current = TRUE]
    BY <1>2 DEF listed, titled
  <1>11. /\ popup' \in Popups /\ popup'.list = tree.branch[id] /\ popup'.master = id
         /\ popup'.chosen = (IF selected \in tree.branch[id] THEN selected ELSE None)
         /\ popup'.titleMarked = titled.titleMarked
         /\ popup'.titleSelected = titled.titleSelected
         /\ popup'.shown = collapsed
    <2>1. collapsed \in BOOLEAN
      BY DEF SideInv, TreeInv
    <2>2. QED
      BY <1>9, <1>10, <2>1 DEF show, Popups
  <1>12. titled.titleMarked <=> popup'.chosen # None
    <2>1. selected \in tree.branch[id] <=> selected # None /\ tree.parent[selected] = id
      <3>1. tree.branch[id] = {i \in tree.pull : tree.parent[i] = id}
        BY <1>1, <1>5 DEF Good, Consistent, ParentsAgree
      <3>2. None \notin tree.pull
        BY <1>1, <1>5, GoodFacts
      <3>3. QED
        BY <1>1, <3>1, <3>2
    <2>2. selected \in tree.branch[id] => selected # None
      BY <1>5
    <2>3. QED
      BY <1>6, <1>11, <2>1, <2>2
  <1>13. PopupInStep'
    <2>1. selected' = selected /\ tree' = tree
      BY <1>2
    <2>2. Says(popup', tree', selected')
      BY <1>6, <1>11, <1>12, <2>1 DEF Says
    <2>3. QED
      BY <2>2, PopupSays
  <1>14. PopupInv'
    BY <1>2, <1>4, <1>11, <1>13 DEF PopupInv
  <1>15. QED
    BY <1>3, <1>14 DEF SideInv

\* A click in the list selects a business below the master of the popup.
LEMMA ClickListItemKeeps ==
  ASSUME SideInv, NEW id \in Items, ClickListItem(id)
  PROVE  SideInv'
  <1>1. UNCHANGED <<tree, collapsed>> /\ popup.shown /\ id \in popup.list
    BY DEF ClickListItem
  <1>2. CASE id = popup.chosen
    <2>1. UNCHANGED <<selected, marks, popup, painted>>
      BY <1>2 DEF ClickListItem
    <2>2. QED
      BY <1>1, <2>1, HidingKeeps
  <1>3. CASE id # popup.chosen
    <2> DEFINE p == [popup EXCEPT !.chosen = id]
    <2>1. select(id, p)
      BY <1>3 DEF ClickListItem
    <2>2. /\ TreeInv /\ SelectInv /\ Good(tree) /\ popup \in Popups /\ PopupInStep
          /\ popup.shown => collapsed
          /\ popup.shown /\ popup.current => popup.master \in tree.branch[Root]
      BY DEF SideInv, TreeInv, PopupInv
    <2>3. TreeInv' /\ SelectInv'
      BY <1>1, <2>1, <2>2, SelectKeeps
    <2>4. /\ p \in Popups /\ p.shown = popup.shown /\ p.master = popup.master
          /\ p.list = popup.list /\ p.chosen = id /\ p.current = popup.current
          /\ p.titleMarked = popup.titleMarked /\ p.titleSelected = popup.titleSelected
      BY <2>2 DEF Popups
    <2> HIDE DEF p
    <2>5. /\ popup' \in Popups
          /\ popup'.shown = p.shown /\ popup'.master = p.master /\ popup'.list = p.list
          /\ popup'.chosen = p.chosen /\ popup'.current = p.current
      BY <2>1, <2>4, SelectPopup
    <2>6. CASE ~popup.current
      BY <1>1, <2>2, <2>3, <2>4, <2>5, <2>6 DEF SideInv, PopupInv, PopupInStep
    <2>7. CASE popup.current
      <3> DEFINE m == popup.master
      <3>1. /\ m \in tree.branch[Root] /\ popup.list = tree.branch[m]
            /\ popup.chosen = IF selected \in popup.list THEN selected ELSE None
            /\ popup.titleSelected => selected = m \/ ~Leaf(m)
        BY <1>1, <2>2, <2>7 DEF PopupInStep, getBranch
      <3>2. m \in tree.pull /\ m \in Items /\ tree.parent[m] = Root /\ id \in tree.pull
            /\ tree.parent[id] = m
        BY <1>1, <2>2, <3>1, GoodFacts
      <3>3. m # Root /\ id # m
        BY <3>2, ItemAssumption
      <3>4. Leaf(id)
        <4>1. id \in Businesses
          BY <2>2, <3>2, <3>3, GoodFacts DEF Items
        <4>2. tree.branch[id] = {} /\ tree.count[id] = Cardinality(tree.branch[id])
          BY <2>2, <3>2, <4>1, GoodFacts
        <4>3. QED
          BY <3>2, <4>2, FS_EmptySet DEF Leaf
      <3>5. ~Leaf(m)
        <4>1. tree.branch[m] # {} /\ tree.count[m] = Cardinality(tree.branch[m])
          BY <1>1, <2>2, <3>1, <3>2, GoodFacts
        <4>2. QED
          BY <2>2, <3>2, <4>1, BranchCount DEF Leaf
      <3>6. id # selected
        BY <1>1, <1>3, <3>1
      <3>7. /\ selected' = id
            /\ popup'.titleMarked = (p.titleMarked \/ tree.parent[id] = p.master)
        BY <2>1, <2>4, <3>4, <3>6, SelectPopup
      <3>8. popup'.titleMarked = TRUE
        BY <2>4, <3>2, <3>7
      <3>9. id # None
        BY ItemAssumption
      <3>10. ~(m \in tree.pull /\ tree.count[m] = 0)
        BY <3>5 DEF Leaf
      <3>11. PopupInStep'
        <4>1. popup'.master = m /\ popup'.list = tree.branch[m] /\ popup'.chosen = id
              /\ id \in popup'.list
          BY <1>1, <2>4, <2>5, <3>1
        <4>2. Says(popup', tree', selected')
          BY <1>1, <3>3, <3>7, <3>8, <3>9, <3>10, <4>1 DEF Says
        <4>3. QED
          BY <4>2, PopupSays
      <3>12. popup'.master \in tree'.branch[Root] /\ collapsed'
        BY <1>1, <2>2, <2>4, <2>5, <3>1
      <3>13. QED
        BY <2>3, <2>5, <3>11, <3>12 DEF SideInv, PopupInv
    <2>8. QED
      BY <2>6, <2>7
  <1>4. QED
    BY <1>2, <1>3

\* The same store and selection, and a popup that is not shown: in the wide
\* sidebar there is none.
LEMMA WideKeepsPopup ==
  ASSUME PopupInv, UNCHANGED popup, ~collapsed
  PROVE  PopupInv'
  <1>1. popup' \in Popups /\ popup'.shown = FALSE
    BY DEF PopupInv, Popups
  <1>2. QED
    BY <1>1 DEF PopupInv, PopupInStep

\* A click in the tree selects, opens or closes.
LEMMA ClickItemKeeps ==
  ASSUME SideInv, NEW id \in Items, ClickItem(id)
  PROVE  SideInv'
  <1>1. /\ Good(tree) /\ OpenOK(tree, collapsed) /\ painted = Render(tree, collapsed)
        /\ TreeInv /\ SelectInv /\ PopupInv /\ collapsed \in BOOLEAN
    BY DEF SideInv, TreeInv, PaintedInStep
  <1>2. /\ Visible(id) /\ (collapsed => popup.shown /\ popup.master = id)
        /\ UNCHANGED collapsed
    BY DEF ClickItem
  <1>3. id \in tree.pull
    BY <1>1, <1>2, RenderedVisible DEF Visible
  <1>4. CASE Leaf(id) /\ select(id, popup) /\ UNCHANGED tree
    <2>1. TreeInv' /\ SelectInv'
      BY <1>1, <1>2, <1>4, SelectKeeps
    <2>2. CASE collapsed
      <3>1. popup.shown /\ popup.master = id
        BY <1>2, <2>2
      <3>2. PopupInv'
        BY <1>2, <1>3, <1>4, <3>1, SelectGroupKeepsPopup
      <3>3. QED
        BY <2>1, <3>2 DEF SideInv
    <2>3. CASE ~collapsed
      <3>1. popup \in Popups /\ popup.shown = FALSE
        BY <1>1, <2>3 DEF PopupInv, Popups
      <3>2. popup' \in Popups /\ popup'.shown = FALSE
        BY <1>4, <3>1, SelectPopup
      <3>3. PopupInv'
        BY <3>2 DEF PopupInv, PopupInStep
      <3>4. QED
        BY <2>1, <3>3 DEF SideInv
    <2>4. QED
      BY <1>1, <2>2, <2>3
  <1>5. CASE /\ ~Leaf(id) /\ id \notin tree.open
             /\ IF collapsed
                THEN /\ tree' = closedAll(tree) /\ painted' = Render(tree', collapsed)
                     /\ UNCHANGED selected
                ELSE /\ tree' = opened(closedAll(tree), id) /\ selected' = None
                     /\ painted' = RenderBranch(Render(closedAll(tree), collapsed), tree',
                                                collapsed, id)
             /\ UNCHANGED <<marks, popup>>
    <2>1. tree.count[id] # 0
      BY <1>3, <1>5 DEF Leaf
    <2>2. CASE collapsed
      <3>1. /\ tree' = closedAll(tree) /\ painted' = Render(tree', collapsed)
            /\ UNCHANGED <<selected, marks, popup>>
        BY <1>5, <2>2
      <3>2. Good(tree') /\ OpenOK(tree', collapsed)
        BY <1>1, <3>1, ClosedAllIsGood, OpeningOpenOK
      <3>3. tree.open = {}
        BY <1>1, <2>2 DEF OpenOK
      <3>4. tree' = tree
        BY <1>1, <3>1, <3>3 DEF closedAll, Good, Stores
      <3>5. painted' = painted
        BY <1>1, <3>1, <3>4
      <3>6. QED
        BY <1>2, <3>1, <3>4, <3>5, HidingKeeps
    <2>3. CASE ~collapsed
      <3>1. /\ tree' = opened(closedAll(tree), id) /\ selected' = None
            /\ painted' = RenderBranch(Render(closedAll(tree), collapsed), tree', collapsed, id)
            /\ UNCHANGED popup
        BY <1>5, <2>3
      <3>2. Good(tree')
        BY <1>1, <3>1, OpeningIsGood
      <3>3. OpenOK(tree', collapsed)
        <4>1. OpenOK(opened(closedAll(tree), id), FALSE)
          BY <1>1, <1>3, <2>1, OpeningOpenOK
        <4>2. QED
          BY <2>3, <3>1, <4>1 DEF OpenOK
      <3>4. painted' = Render(tree', collapsed)
        BY <1>1, <1>3, <2>1, <3>1, OpeningRepaints
      <3>5. TreeInv'
        BY <1>1, <1>2, <3>2, <3>3, <3>4 DEF TreeInv, PaintedInStep
      <3>6. SelectInv'
        BY <3>1 DEF SelectInv, GroupMarked
      <3>7. QED
        BY <1>1, <2>3, <3>1, <3>5, <3>6, WideKeepsPopup DEF SideInv
    <2>4. QED
      BY <1>1, <2>2, <2>3
  <1>6. CASE /\ id \in tree.open /\ tree' = closed(tree, id)
             /\ painted' = RenderBranch(painted, tree', collapsed, id)
             /\ UNCHANGED <<selected, marks, popup>>
    <2>1. ~collapsed /\ tree.count[id] # 0
      BY <1>1, <1>6 DEF OpenOK
    <2>2. Good(tree')
      BY <1>1, <1>6, OpeningIsGood
    <2>3. OpenOK(tree', collapsed)
      BY <1>1, <1>6, OpeningOpenOK
    <2>4. painted' = Render(tree', collapsed)
      BY <1>1, <1>3, <1>6, <2>1, ClosingRepaints
    <2>5. TreeInv'
      BY <1>1, <1>2, <2>2, <2>3, <2>4 DEF TreeInv, PaintedInStep
    <2>6. tree'.pull = tree.pull /\ tree'.parent = tree.parent
      BY <1>1, <1>6 DEF closed, Good, Stores
    <2>7. SelectInv'
      BY <1>1, <1>6, <2>6 DEF SelectInv, GroupMarked
    <2>8. QED
      BY <1>1, <1>6, <2>1, <2>5, <2>7, WideKeepsPopup DEF SideInv
  <1>7. QED
    BY <1>4, <1>5, <1>6 DEF ClickItem

\* A click on the title selects the group, if it is empty.
LEMMA ClickTitleKeeps == SideInv /\ ClickTitle => SideInv'
  <1> SUFFICES ASSUME SideInv, ClickTitle PROVE SideInv'
    OBVIOUS
  <1>1. /\ popup.shown /\ popup.master \in tree.pull /\ select(popup.master, popup)
        /\ UNCHANGED <<tree, collapsed>>
    BY DEF ClickTitle
  <1>2. TreeInv /\ SelectInv /\ popup.master \in Items
    BY <1>1, GoodFacts DEF SideInv, TreeInv
  <1>3. TreeInv' /\ SelectInv'
    BY <1>1, <1>2, SelectKeeps
  <1>4. PopupInv'
    BY <1>1, SelectGroupKeepsPopup
  <1>5. QED
    BY <1>3, <1>4 DEF SideInv

\* Whatever the user does in the sidebar.
LEMMA SidebarUserKeeps == SideInv /\ SidebarUser => SideInv'
  <1> SUFFICES ASSUME SideInv, SidebarUser PROVE SideInv'
    OBVIOUS
  <1>1. CASE Toggle
    BY <1>1, ToggleKeeps
  <1>2. CASE HidePopup
    BY <1>2, HidingKeeps DEF HidePopup
  <1>3. CASE ClickTitle
    BY <1>3, ClickTitleKeeps
  <1>4. ASSUME NEW id \in Items, ClickItem(id) \/ MouseMove(id) \/ ClickListItem(id)
        PROVE  SideInv'
    BY <1>4, ClickItemKeeps, MouseMoveKeeps, ClickListItemKeeps
  <1>5. QED
    BY <1>1, <1>2, <1>3, <1>4 DEF SidebarUser

\* What the page does to the store: what is kept stays where it was.
LEMMA StoreChangedKeeps ==
  ASSUME SideInv, NEW store, NEW kept, NEW nodes, StoreChanged(store, kept, nodes),
         Good(store), OpenOK(store, collapsed), nodes = Render(store, collapsed),
         kept \subseteq store.pull,
         \A i \in kept : store.parent[i] = tree.parent[i] /\ store.parent[i] \in kept \cup {Root}
  PROVE  SideInv'
  <1>1. /\ tree' = store /\ painted' = nodes
        /\ selected' = IF selected \in kept THEN selected ELSE None
        /\ marks' = marks \cap (kept \cup {Root})
        /\ popup' = [popup EXCEPT !.current = FALSE]
        /\ UNCHANGED collapsed
    BY DEF StoreChanged
  <1>2. TreeInv'
    BY <1>1 DEF SideInv, TreeInv, PaintedInStep
  <1>3. SelectInv'
    <2>1. CASE selected \in kept
      <3>1. selected # None
        BY <2>1, GoodFacts, ItemAssumption
      <3>2. tree.parent[selected] \in marks
        BY <3>1 DEF SideInv, SelectInv, GroupMarked
      <3>3. selected' = selected /\ tree'.parent[selected] \in marks'
        BY <1>1, <2>1, <3>2
      <3>4. selected \in tree'.pull
        BY <1>1, <2>1
      <3>5. QED
        BY <3>3, <3>4 DEF SideInv, SelectInv, GroupMarked
    <2>2. CASE selected \notin kept
      BY <1>1, <2>2 DEF SelectInv, GroupMarked
    <2>3. QED
      BY <2>1, <2>2
  <1>4. popup' \in Popups /\ popup'.shown = popup.shown /\ popup'.current = FALSE
    BY <1>1 DEF SideInv, PopupInv, Popups
  <1>5. PopupInv'
    BY <1>1, <1>4 DEF SideInv, PopupInv, PopupInStep
  <1>6. QED
    BY <1>2, <1>3, <1>5 DEF SideInv

\* The same for a store in which something has gone astray.
LEMMA StoreChangedStrays ==
  ASSUME SideInv, NEW store, NEW kept, NEW nodes, StoreChanged(store, kept, nodes),
         ConsistentBut(store, astray'), OpenOK(store, collapsed),
         nodes = Render(store, collapsed), kept \subseteq store.pull,
         \A i \in kept : /\ i \notin astray' => store.parent[i] = tree.parent[i]
                         /\ tree.parent[i] \in kept \cup {Root}
  PROVE  StrayInv'
  <1>1. /\ tree' = store /\ painted' = nodes
        /\ selected' = IF selected \in kept THEN selected ELSE None
        /\ marks' = marks \cap (kept \cup {Root})
        /\ popup' = [popup EXCEPT !.current = FALSE]
        /\ UNCHANGED collapsed
    BY DEF StoreChanged
  <1>2. TreeConsistent'
    BY <1>1 DEF ConsistentBut, InOneBranch, TreeConsistent
  <1>3. OpenOK(tree, collapsed)' /\ PaintedInStep'
    BY <1>1 DEF PaintedInStep
  <1>4. SelectionMarked'
    <2>1. CASE selected \in kept
      <3>1. selected # None
        BY <2>1, ItemAssumption DEF ConsistentBut, Stores
      <3>2. tree.parent[selected] \in marks
        BY <3>1 DEF SideInv, SelectInv, GroupMarked
      <3>3. selected' = selected /\ selected \in store.pull
        BY <1>1, <2>1
      <3>4. selected \notin astray' => store.parent[selected] \in marks'
        BY <1>1, <2>1, <3>2
      <3>5. QED
        BY <1>1, <3>3, <3>4 DEF SelectionMarked
    <2>2. CASE selected \notin kept
      BY <1>1, <2>2 DEF SelectionMarked
    <2>3. QED
      BY <2>1, <2>2
  <1>5. popup'.current = FALSE
    BY <1>1 DEF SideInv, PopupInv, Popups
  <1>6. PopupInStep'
    BY <1>5 DEF PopupInStep
  <1>7. QED
    BY <1>2, <1>3, <1>4, <1>6 DEF StrayInv

\* What a removal keeps.
LEMMA RemovedKeeps ==
  ASSUME NEW t, Good(t), NEW id \in t.pull
  PROVE  \A i \in Removed(t, id).pull :
           /\ i \in t.pull /\ Removed(t, id).parent[i] = t.parent[i]
           /\ t.parent[i] \in Removed(t, id).pull \cup {Root}
  <1>1. Removed(t, id).pull = t.pull \ Gone(t, id) /\ t.pull \subseteq Items
    BY RemovedFacts, GoodFacts
  <1>2. \A i \in Items : Removed(t, id).parent[i] =
                         IF i \in Gone(t, id) THEN Root ELSE t.parent[i]
    BY RemovedFacts
  <1>3. \A i \in t.pull \ Gone(t, id) : t.parent[i] \notin Gone(t, id)
    BY RemovedFacts
  <1>4. \A i \in t.pull : t.parent[i] \in t.pull \cup {Root}
    BY GoodFacts
  <1>5. QED
    BY <1>1, <1>2, <1>3, <1>4

\* An item is removed,
LEMMA RemoveItemKeeps ==
  ASSUME SideInv, NEW id \in tree.pull, RemoveItem(id)
  PROVE  SideInv'
  <1> DEFINE store == Removed(tree, id)
  <1>1. Good(tree) /\ OpenOK(tree, collapsed) /\ painted = Render(tree, collapsed)
    BY DEF SideInv, TreeInv, PaintedInStep
  <1>2. StoreChanged(store, store.pull, RenderRemoved(painted, tree, collapsed, id))
    BY DEF RemoveItem
  <1>3. RenderRemoved(painted, tree, collapsed, id) = Render(store, collapsed)
    BY <1>1, RemovalRepaints
  <1>4. Good(store) /\ OpenOK(store, collapsed)
    BY <1>1, RemovedIsGood, RemovedOpenOK
  <1>5. \A i \in store.pull : /\ store.parent[i] = tree.parent[i]
                              /\ store.parent[i] \in store.pull \cup {Root}
    BY <1>1, RemovedKeeps
  <1> HIDE DEF store
  <1>6. QED
    BY <1>2, <1>3, <1>4, <1>5, StoreChangedKeeps

\* moved,
LEMMA MoveItemKeeps ==
  ASSUME SideInv, NEW id \in tree.pull \cap Businesses, NEW p \in tree.pull \cap Groups,
         MoveItem(id, p)
  PROVE  /\ SideInv'
         /\ tree'.pull = tree.pull
  <1> DEFINE left == Removed(tree, id)
             moved == Added(left, id, p)
  <1>1. Good(tree) /\ OpenOK(tree, collapsed) /\ painted = Render(tree, collapsed)
    BY DEF SideInv, TreeInv, PaintedInStep
  <1>2. StoreChanged(moved, left.pull, Render(moved, collapsed))
    BY DEF MoveItem
  <1>3. Good(left) /\ OpenOK(left, collapsed)
    BY <1>1, RemovedIsGood, RemovedOpenOK
  <1>4. left.pull = tree.pull \ {id}
    <2>1. tree.branch[id] = {}
      BY <1>1, GoodFacts
    <2>2. QED
      BY <1>1, <2>1, RemovedFacts DEF Gone
  <1>5. id \in Businesses \ left.pull /\ id \in Items \ left.pull /\ p \in Groups \cap left.pull
    BY <1>4, ItemAssumption DEF Items
  <1>6. Good(moved) /\ OpenOK(moved, collapsed)
    BY <1>3, <1>5, AddedIsGood, AddedOpenOK
  <1>7. moved.pull = left.pull \cup {id}
    BY <1>3, <1>5, AddedFacts
  <1>8. \A i \in Items : moved.parent[i] = IF i = id THEN p ELSE left.parent[i]
    BY <1>3, <1>5, AddedFacts
  <1>9. \A i \in left.pull : i \in Items /\ left.parent[i] = tree.parent[i]
                             /\ left.parent[i] \in left.pull \cup {Root}
    BY <1>1, <1>3, RemovedKeeps, GoodFacts
  <1>10. tree' = moved
    BY <1>2 DEF StoreChanged
  <1> HIDE DEF left, moved
  <1>11. \A i \in left.pull : moved.parent[i] = tree.parent[i]
                              /\ moved.parent[i] \in left.pull \cup {Root}
    BY <1>5, <1>8, <1>9
  <1>12. SideInv'
    BY <1>2, <1>6, <1>7, <1>11, StoreChangedKeeps
  <1>13. QED
    BY <1>4, <1>7, <1>10, <1>12

\* moved under another item than a group that is there,
LEMMA MoveItemStrays ==
  ASSUME SideInv, NEW id \in tree.pull, NEW p \in Groups, MoveItem(id, p), astray' = {id}
  PROVE  StrayInv'
  <1> DEFINE left == Removed(tree, id)
             moved == Added(left, id, p)
  <1>1. Good(tree) /\ OpenOK(tree, collapsed)
    BY DEF SideInv, TreeInv
  <1>2. StoreChanged(moved, left.pull, Render(moved, collapsed))
    BY DEF MoveItem
  <1>3. Good(left) /\ OpenOK(left, collapsed)
    BY <1>1, RemovedIsGood, RemovedOpenOK
  <1>4. id \in Items \ left.pull
    BY <1>1, RemovedFacts, GoodFacts DEF Gone
  <1>5. ConsistentBut(moved, {id}) /\ OpenOK(moved, collapsed)
    BY <1>3, <1>4, AddedStrays, AddedOpenOK
  <1>6. moved.pull = left.pull \cup {id}
    BY <1>3, <1>4, AddedFacts
  <1>7. \A i \in Items : i # id => moved.parent[i] = left.parent[i]
    BY <1>3, <1>4, AddedFacts
  <1>8. \A i \in left.pull : i \in Items /\ left.parent[i] = tree.parent[i]
                             /\ tree.parent[i] \in left.pull \cup {Root}
    BY <1>1, <1>3, RemovedKeeps, GoodFacts
  <1> HIDE DEF left, moved
  <1>9. \A i \in left.pull : /\ i \notin astray' => moved.parent[i] = tree.parent[i]
                             /\ tree.parent[i] \in left.pull \cup {Root}
    BY <1>7, <1>8
  <1>10. ConsistentBut(moved, astray')
    BY <1>5
  <1>11. QED
    BY <1>2, <1>5, <1>6, <1>9, <1>10, StoreChangedStrays

\* or all is loaded again,
LEMMA LoadTreeKeeps ==
  ASSUME SideInv, NEW answer, Disjoint(answer), Displaced(tree, answer) = {}, LoadTree(answer)
  PROVE  SideInv'
  <1> DEFINE store == Merged(tree, answer)
  <1>1. Good(tree) /\ OpenOK(tree, collapsed)
    BY DEF SideInv, TreeInv
  <1>2. StoreChanged(store, tree.pull, Render(store, collapsed))
    BY DEF LoadTree
  <1>3. Good(store) /\ OpenOK(store, collapsed)
    BY <1>1, MergedIsGood, MergedOpenOK
  <1>4. tree.pull \subseteq store.pull /\ \A i \in tree.pull : store.parent[i] = tree.parent[i]
    BY <1>1, MergedFacts
  <1>5. \A i \in tree.pull : tree.parent[i] \in tree.pull \cup {Root}
    BY <1>1, GoodFacts
  <1> HIDE DEF store
  <1>6. QED
    BY <1>2, <1>3, <1>4, <1>5, StoreChangedKeeps

\* with another parent for some of it.
LEMMA LoadTreeStrays ==
  ASSUME SideInv, NEW answer, Disjoint(answer), LoadTree(answer),
         astray' = Displaced(tree, answer)
  PROVE  StrayInv'
  <1> DEFINE store == Merged(tree, answer)
  <1>1. Good(tree) /\ OpenOK(tree, collapsed)
    BY DEF SideInv, TreeInv
  <1>2. StoreChanged(store, tree.pull, Render(store, collapsed))
    BY DEF LoadTree
  <1>3. ConsistentBut(store, Displaced(tree, answer)) /\ OpenOK(store, collapsed)
    BY <1>1, MergedStrays, MergedOpenOK
  <1>4. /\ tree.pull \subseteq store.pull
        /\ \A i \in tree.pull \ Displaced(tree, answer) : store.parent[i] = tree.parent[i]
    BY <1>1, MergedFacts
  <1>5. \A i \in tree.pull : tree.parent[i] \in tree.pull \cup {Root}
    BY <1>1, GoodFacts
  <1> HIDE DEF store
  <1>6. ConsistentBut(store, astray')
    BY <1>3
  <1>7. \A i \in tree.pull : /\ i \notin astray' => store.parent[i] = tree.parent[i]
                             /\ tree.parent[i] \in tree.pull \cup {Root}
    BY <1>4, <1>5
  <1>8. QED
    BY <1>2, <1>3, <1>4, <1>6, <1>7, StoreChangedStrays

-----------------------------------------------------------------------------
(* The tab view.                                                           *)

\* Induction comes from the order of the finite sets.
LEMMA LeastIndex ==
  ASSUME NEW S \in SUBSET Nat, S # {}
  PROVE  \E k \in S : \A l \in S : k <= l
  <1> DEFINE T == {1 .. k : k \in S}
             R == StrictSubsetOrdering(Nat)
  <1>1. IsWellFoundedOn(R, FiniteSubsetsOf(Nat))
    BY FS_StrictSubsetOrderingWellFounded
  <1>2. T \subseteq FiniteSubsetsOf(Nat)
    <2> SUFFICES ASSUME NEW k \in S PROVE 1 .. k \in FiniteSubsetsOf(Nat)
      OBVIOUS
    <2>1. IsFiniteSet(1 .. k) /\ 1 .. k \in SUBSET Nat
      BY FS_Interval
    <2>2. QED
      BY <2>1 DEF FiniteSubsetsOf
  <1>3. T # {}
    OBVIOUS
  <1> HIDE DEF T, R
  <1>4. PICK x \in T : \A y \in T : ~(<<y, x>> \in R)
    BY <1>1, <1>2, <1>3, WFMin
  <1>5. PICK k \in S : x = 1 .. k
    BY DEF T
  <1>6. ASSUME NEW l \in S, l < k PROVE FALSE
    <2>1. 1 .. l \in T
      BY DEF T
    <2>2. 1 .. l \subseteq 1 .. k /\ k \in 1 .. k /\ k \notin 1 .. l
      BY <1>6
    <2>3. <<1 .. l, 1 .. k>> \in R
      BY <2>2 DEF R, StrictSubsetOrdering
    <2>4. QED
      BY <1>4, <1>5, <2>1, <2>3
  <1>7. QED
    BY <1>6

\* The same from above.
LEMMA GreatestIndex ==
  ASSUME NEW n \in Nat, NEW S \in SUBSET (1 .. n), S # {}
  PROVE  \E k \in S : \A l \in S : k >= l
  <1> DEFINE T == {n - k : k \in S}
  <1>1. \A k \in S : n - k \in Nat /\ k \in Nat
    OBVIOUS
  <1>2. T \subseteq Nat /\ T # {} /\ \A k \in S : n - k \in T
    BY <1>1
  <1>3. \A m \in T : \E k \in S : m = n - k
    OBVIOUS
  <1> HIDE DEF T
  <1>4. PICK m \in T : \A l \in T : m <= l
    BY <1>2, LeastIndex
  <1>5. PICK k \in S : m = n - k
    BY <1>3
  <1>6. \A l \in S : n - k <= n - l
    BY <1>2, <1>4, <1>5
  <1>7. \A l \in S : k >= l
    BY <1>1, <1>6
  <1>8. QED
    BY <1>7

\* The option that is chosen next is one that is shown, if there is one.
LEMMA NextOptionFacts ==
  ASSUME NEW s \in Bar, NEW i \in Nat \ {0}
  PROVE  /\ ToSet(s) # {Hidden} => NextOption(s, i) \in ToSet(s) \ {Hidden}
         /\ ToSet(s) = {Hidden} => NextOption(s, i) = NoTab /\ s = <<Hidden>>
  <1> DEFINE from == IF i > Len(s) THEN Len(s) ELSE i
             shown == {k \in DOMAIN s : s[k] # Hidden}
             after == {k \in shown : k >= from}
  <1>1. s \in Seq(Tabs \cup {Hidden}) /\ Len(s) \in Nat /\ DOMAIN s = 1 .. Len(s)
    BY DEF Bar
  <1>2. NextOption(s, i) =
          CASE after # {} -> s[CHOOSE k \in after : \A l \in after : k <= l]
            [] after = {} /\ shown # {} -> s[CHOOSE k \in shown : \A l \in shown : k >= l]
            [] OTHER -> NoTab
    BY DEF NextOption
  <1>3. shown \in SUBSET (1 .. Len(s)) /\ after \in SUBSET Nat /\ after \subseteq shown
    BY <1>1
  <1>4. \A k \in shown : s[k] \in ToSet(s) \ {Hidden}
    BY DEF ToSet
  <1>5. ToSet(s) # {Hidden} <=> shown # {}
    <2>1. Hidden \in ToSet(s)
      BY DEF Bar
    <2>2. shown = {} <=> \A x \in ToSet(s) : x = Hidden
      BY DEF ToSet
    <2>3. QED
      BY <2>1, <2>2
  <1> HIDE DEF from, shown, after
  <1>6. CASE after # {}
    <2>1. (CHOOSE k \in after : \A l \in after : k <= l) \in after
      BY <1>3, <1>6, LeastIndex
    <2>2. QED
      BY <1>2, <1>3, <1>4, <1>5, <1>6, <2>1
  <1>7. CASE after = {} /\ shown # {}
    <2>1. (CHOOSE k \in shown : \A l \in shown : k >= l) \in shown
      BY <1>1, <1>3, <1>7, GreatestIndex
    <2>2. QED
      BY <1>2, <1>4, <1>5, <1>7, <2>1
  <1>8. CASE shown = {}
    <2>1. after = {}
      BY <1>3, <1>8
    <2>2. NextOption(s, i) = NoTab
      BY <1>2, <1>8, <2>1
    <2>3. ToSet(s) = {Hidden}
      BY <1>5, <1>8
    <2>4. \A k \in 1 .. Len(s) : s[k] = Hidden
      BY <1>1, <2>3 DEF ToSet
    <2>5. \A j, k \in 1 .. Len(s) : j = k
      BY <1>1, <2>4 DEF Bar
    <2>6. Len(s) # 0
      BY <1>1 DEF Bar, ToSet
    <2>7. Len(s) = 1
      <3>1. Len(s) \in 1 .. Len(s) /\ 1 \in 1 .. Len(s)
        BY <1>1, <2>6
      <3>2. QED
        BY <2>5, <3>1
    <2>8. s = <<Hidden>>
      BY <1>1, <2>4, <2>7
    <2>9. QED
      BY <2>2, <2>3, <2>8
  <1>9. QED
    BY <1>6, <1>7, <1>8

\* Taking one option out.
LEMMA RemoveAtFacts ==
  ASSUME NEW s \in Bar, NEW i \in DOMAIN s, s[i] # Hidden
  PROVE  /\ RemoveAt(s, i) \in Bar
         /\ ToSet(RemoveAt(s, i)) = ToSet(s) \ {s[i]}
  <1> DEFINE S == Tabs \cup {Hidden}
             n == Len(s)
             a == SubSeq(s, 1, i - 1)
             b == SubSeq(s, i + 1, n)
             r == a \o b
  <1>1. s \in Seq(S) /\ n \in Nat /\ DOMAIN s = 1 .. n /\ i \in 1 .. n
    BY DEF Bar
  <1>2. \A k \in 1 .. n : s[k] \in S
    BY <1>1
  <1>3. /\ a \in Seq(S) /\ Len(a) = i - 1
        /\ \A k \in 1 .. i - 1 : a[k] = s[k]
    <2>1. /\ a \in Seq(S) /\ Len(a) = (IF 1 <= i - 1 THEN (i - 1) - 1 + 1 ELSE 0)
          /\ \A k \in 1 .. (i - 1) - 1 + 1 : a[k] = s[1 + k - 1]
      BY <1>1, <1>2, SubSeqProperties
    <2> HIDE DEF a
    <2>2. QED
      BY <1>1, <2>1
  <1>4. /\ b \in Seq(S) /\ Len(b) = n - i
        /\ \A k \in 1 .. n - i : b[k] = s[i + k]
    <2>1. /\ b \in Seq(S) /\ Len(b) = (IF i + 1 <= n THEN n - (i + 1) + 1 ELSE 0)
          /\ \A k \in 1 .. n - (i + 1) + 1 : b[k] = s[(i + 1) + k - 1]
      BY <1>1, <1>2, SubSeqProperties
    <2> HIDE DEF b, n
    <2>2. Len(b) = n - i
      BY <1>1, <2>1
    <2>3. n - (i + 1) + 1 = n - i /\ \A k \in 1 .. n - i : (i + 1) + k - 1 = i + k
      BY <1>1
    <2>4. QED
      BY <2>1, <2>2, <2>3
  <1> HIDE DEF a, b
  <1>5. /\ r \in Seq(S) /\ Len(r) = n - 1
        /\ \A k \in 1 .. n - 1 : r[k] = IF k <= i - 1 THEN a[k] ELSE b[k - (i - 1)]
    <2>1. /\ r \in Seq(S) /\ Len(r) = Len(a) + Len(b)
          /\ \A k \in 1 .. Len(a) + Len(b) : r[k] = IF k <= Len(a) THEN a[k] ELSE b[k - Len(a)]
      BY <1>3, <1>4, ConcatProperties
    <2> HIDE DEF r
    <2>2. QED
      BY <1>1, <1>3, <1>4, <2>1
  <1> HIDE DEF r, n, S
  <1>6. DOMAIN r = 1 .. n - 1
    BY <1>5
  <1>7. \A k \in 1 .. n - 1 : r[k] = IF k < i THEN s[k] ELSE s[k + 1]
    <2> SUFFICES ASSUME NEW k \in 1 .. n - 1
                 PROVE  r[k] = IF k < i THEN s[k] ELSE s[k + 1]
      OBVIOUS
    <2>1. CASE k < i
      BY <1>1, <1>3, <1>5, <2>1
    <2>2. CASE k >= i
      <3>1. r[k] = b[k - (i - 1)]
        <4>1. ~(k <= i - 1)
          BY <1>1, <2>2
        <4>2. QED
          BY <1>5, <4>1
      <3>2. k - (i - 1) \in 1 .. n - i /\ i + (k - (i - 1)) = k + 1
        BY <1>1, <2>2
      <3>3. QED
        BY <1>1, <1>4, <2>2, <3>1, <3>2
    <2>3. QED
      BY <1>1, <2>1, <2>2
  <1>8. \A k \in 1 .. n : k # i => \E l \in 1 .. n - 1 : r[l] = s[k]
    <2> SUFFICES ASSUME NEW k \in 1 .. n, k # i PROVE \E l \in 1 .. n - 1 : r[l] = s[k]
      OBVIOUS
    <2>1. CASE k < i
      BY <1>1, <1>7, <2>1
    <2>2. CASE k > i
      <3>1. k - 1 \in 1 .. n - 1 /\ ~(k - 1 < i) /\ (k - 1) + 1 = k
        BY <1>1, <2>2
      <3>2. r[k - 1] = s[k]
        BY <1>7, <3>1
      <3>3. QED
        BY <3>1, <3>2
    <2>3. QED
      BY <1>1, <2>1, <2>2
  <1>9. \A k \in 1 .. n - 1 : \E l \in 1 .. n : /\ l # i /\ r[k] = s[l]
                                                /\ l = IF k < i THEN k ELSE k + 1
    <2> SUFFICES ASSUME NEW k \in 1 .. n - 1
                 PROVE  \E l \in 1 .. n : /\ l # i /\ r[k] = s[l]
                                          /\ l = IF k < i THEN k ELSE k + 1
      OBVIOUS
    <2>1. CASE k < i
      <3>1. k \in 1 .. n /\ k # i /\ r[k] = s[k]
        BY <1>1, <1>7, <2>1
      <3>2. QED
        BY <2>1, <3>1
    <2>2. CASE k >= i
      <3>1. k + 1 \in 1 .. n /\ k + 1 # i /\ r[k] = s[k + 1] /\ ~(k < i)
        BY <1>1, <1>7, <2>2
      <3>2. QED
        BY <3>1
    <2>3. QED
      BY <1>1, <2>1, <2>2
  <1>10. \A j, k \in 1 .. n : s[j] = s[k] => j = k
    BY <1>1 DEF Bar
  <1>11. ToSet(r) = ToSet(s) \ {s[i]}
    <2>1. \A x \in ToSet(r) : x \in ToSet(s) /\ x # s[i]
      <3> SUFFICES ASSUME NEW k \in 1 .. n - 1 PROVE r[k] \in ToSet(s) /\ r[k] # s[i]
        BY <1>6 DEF ToSet
      <3>1. PICK l \in 1 .. n : l # i /\ r[k] = s[l]
        BY <1>9
      <3>2. QED
        BY <1>1, <1>10, <3>1 DEF ToSet
    <2>2. \A x \in ToSet(s) : x # s[i] => x \in ToSet(r)
      <3> SUFFICES ASSUME NEW k \in 1 .. n, s[k] # s[i] PROVE s[k] \in ToSet(r)
        BY <1>1 DEF ToSet
      <3>1. PICK l \in 1 .. n - 1 : r[l] = s[k]
        BY <1>8
      <3>2. QED
        BY <1>6, <3>1 DEF ToSet
    <2>3. QED
      BY <2>1, <2>2
  <1>12. \A j, k \in DOMAIN r : r[j] = r[k] => j = k
    <2> SUFFICES ASSUME NEW j \in 1 .. n - 1, NEW k \in 1 .. n - 1, r[j] = r[k] PROVE j = k
      BY <1>6
    <2>1. PICK l \in 1 .. n : l # i /\ r[j] = s[l] /\ l = IF j < i THEN j ELSE j + 1
      BY <1>9
    <2>2. PICK m \in 1 .. n : m # i /\ r[k] = s[m] /\ m = IF k < i THEN k ELSE k + 1
      BY <1>9
    <2>3. l = m
      BY <1>10, <2>1, <2>2
    <2>4. QED
      BY <1>1, <2>1, <2>2, <2>3
  <1>13. Hidden \in ToSet(r)
    BY <1>11 DEF Bar
  <1>14. r \in Bar
    BY <1>5, <1>12, <1>13 DEF Bar, S
  <1>15. RemoveAt(s, i) = r
    BY DEF RemoveAt, r, a, b, n
  <1>16. QED
    BY <1>11, <1>14, <1>15

\* The hidden option and no option are not tabs.
LEMMA TabSets == Hidden \notin Tabs /\ NoTab \notin Tabs /\ NoTab # Hidden
  BY TabAssumption

\* What the invariant of the bar says of each of its parts.
LEMMA BarFacts ==
  ASSUME BarInv
  PROVE  /\ options \in Bar /\ ToSet(options) = views
         /\ \A id \in views : id \in Tabs \cup {Hidden}
         /\ Hidden \in views
         /\ value \in Tabs \cup {NoTab}
         /\ value = NoTab => views = {Hidden}
         /\ value # NoTab => value \in views /\ active = value
  <1>1. options \in Bar /\ ToSet(options) = views
    BY DEF BarInv, BarShowsView
  <1>2. options \in Seq(Tabs \cup {Hidden}) /\ Hidden \in ToSet(options)
    BY <1>1 DEF Bar
  <1>3. \A id \in ToSet(options) : id \in Tabs \cup {Hidden}
    BY <1>2 DEF ToSet
  <1>4. value = NoTab => views = {Hidden}
    <2> SUFFICES ASSUME value = NoTab PROVE views = {Hidden}
      OBVIOUS
    <2>1. options = <<Hidden>>
      BY DEF BarInv, BarShowsView
    <2>2. \A i \in DOMAIN options : options[i] = Hidden
      BY <2>1
    <2>3. QED
      BY <1>1, <1>2, <2>2 DEF ToSet
  <1>5. QED
    BY <1>1, <1>2, <1>3, <1>4 DEF BarInv, BarShowsView

\* A tab is opened, or opened again,
LEMMA AddViewKeeps ==
  ASSUME BarInv, NEW id \in Tabs, AddView(id)
  PROVE  BarInv'
  <1>1. /\ options' = addOption(id) /\ views' = views \cup {id}
        /\ value' = id /\ active' = id
    BY DEF AddView, fc
  <1>2. options \in Bar /\ ToSet(options) = views
    BY BarFacts
  <1>3. options' \in Bar /\ ToSet(options') = ToSet(options) \cup {id}
    <2>1. CASE id \in ToSet(options)
      BY <1>1, <1>2, <2>1 DEF addOption
    <2>2. CASE id \notin ToSet(options)
      <3> DEFINE s == options
                 n == Len(options)
                 a == Append(options, id)
      <3>1. s \in Seq(Tabs \cup {Hidden}) /\ n \in Nat /\ DOMAIN s = 1 .. n
        BY <1>2 DEF Bar
      <3>2. /\ a \in Seq(Tabs \cup {Hidden}) /\ Len(a) = n + 1
            /\ \A i \in 1 .. n : a[i] = s[i]
            /\ a[n + 1] = id
        BY <3>1, AppendProperties
      <3>3. options' = a
        BY <1>1, <2>2 DEF addOption
      <3>4. \A i \in 1 .. n : s[i] \in ToSet(s) /\ s[i] # id
        BY <2>2, <3>1 DEF ToSet
      <3>5. \A i, j \in 1 .. n : s[i] = s[j] => i = j
        BY <1>2, <3>1 DEF Bar
      <3> HIDE DEF s, n, a
      <3>6. DOMAIN a = 1 .. n + 1
        BY <3>2
      <3>7. 1 .. n + 1 = 1 .. n \cup {n + 1}
        BY <3>1
      <3>8. \A i, j \in DOMAIN a : a[i] = a[j] => i = j
        BY <3>2, <3>4, <3>5, <3>6, <3>7
      <3>9. ToSet(a) = ToSet(s) \cup {id}
        <4>1. \A x \in ToSet(a) : x \in ToSet(s) \cup {id}
          BY <3>2, <3>4, <3>6, <3>7 DEF ToSet
        <4>2. \A x \in ToSet(s) : x \in ToSet(a)
          <5> SUFFICES ASSUME NEW i \in 1 .. n PROVE s[i] \in ToSet(a)
            BY <3>1 DEF ToSet
          <5>1. i \in DOMAIN a /\ a[i] = s[i]
            BY <3>2, <3>6, <3>7
          <5>2. QED
            BY <5>1 DEF ToSet
        <4>3. id \in ToSet(a)
          BY <3>2, <3>6, <3>7 DEF ToSet
        <4>4. QED
          BY <4>1, <4>2, <4>3
      <3>10. Hidden \in ToSet(s)
        BY <1>2 DEF Bar, s
      <3>11. QED
        BY <3>2, <3>3, <3>8, <3>9, <3>10 DEF Bar, s
    <2>3. QED
      BY <2>1, <2>2
  <1>4. \A i, j \in DOMAIN options' : options'[i] = options'[j] => i = j
    BY <1>3 DEF Bar
  <1>5. BarShowsView'
    BY <1>1, <1>2, <1>3, <1>4, TabSets DEF BarShowsView
  <1>6. QED
    BY <1>1, <1>3, <1>5 DEF BarInv

\* clicked,
LEMMA ClickTabKeeps ==
  ASSUME BarInv, NEW id \in Tabs, ClickTab(id)
  PROVE  BarInv'
  <1>1. /\ id \in ToSet(options) /\ value' = id /\ active' = aF(id)
        /\ UNCHANGED <<options, views>>
    BY DEF ClickTab
  <1>2. id \in views
    BY <1>1, BarFacts
  <1>3. active' = id
    BY <1>1, <1>2 DEF aF
  <1>4. QED
    BY <1>1, <1>2, <1>3, TabSets DEF BarInv, BarShowsView

\* or closed, whichever is chosen.
LEMMA RemoveOptionKeeps ==
  ASSUME BarInv, NEW id \in Tabs, id \in ToSet(options), RemoveOption(id)
  PROVE  BarInv'
  <1> DEFINE i == CHOOSE k \in DOMAIN options : options[k] = id
             rest == RemoveAt(options, i)
             next == NextOption(rest, i)
  <1>1. /\ options' = rest /\ value' = (IF id = value THEN next ELSE value)
        /\ views' = views \ {id}
        /\ LET shown == IF id = value THEN aF(next) ELSE active
           IN  active' = IF shown = id THEN NoTab ELSE shown
    BY DEF RemoveOption, Destruct
  <1>2. /\ options \in Bar /\ ToSet(options) = views
        /\ \A x \in views : x \in Tabs \cup {Hidden}
        /\ Hidden \in views
        /\ value \in Tabs \cup {NoTab}
        /\ value = NoTab => views = {Hidden}
        /\ value # NoTab => value \in views /\ active = value
    BY BarFacts
  <1>3. i \in DOMAIN options /\ options[i] = id
    BY DEF ToSet
  <1>4. i \in Nat \ {0}
    BY <1>2, <1>3 DEF Bar
  <1>5. id # Hidden /\ id # NoTab
    BY TabSets
  <1> HIDE DEF i
  <1>6. rest \in Bar /\ ToSet(rest) = ToSet(options) \ {id}
    BY <1>2, <1>3, <1>5, RemoveAtFacts
  <1> HIDE DEF rest
  <1>7. /\ ToSet(rest) # {Hidden} => next \in ToSet(rest) \ {Hidden}
        /\ ToSet(rest) = {Hidden} => next = NoTab /\ rest = <<Hidden>>
    BY <1>4, <1>6, NextOptionFacts
  <1> HIDE DEF next
  <1>8. ToSet(options') = views' /\ options' \in Bar
    BY <1>1, <1>2, <1>6
  <1>9. /\ value' \in Tabs \cup {NoTab}
        /\ IF value' = NoTab THEN options' = <<Hidden>> ELSE value' \in views' /\ active' = value'
    <2>1. CASE id = value
      <3>1. value' = next /\ active' = IF aF(next) = id THEN NoTab ELSE aF(next)
        BY <1>1, <2>1
      <3>2. CASE ToSet(rest) = {Hidden}
        BY <1>1, <1>7, <3>1, <3>2
      <3>3. CASE ToSet(rest) # {Hidden}
        <4>1. next \in views' /\ next \in views /\ next # Hidden /\ next # id /\ next \in Tabs
          BY <1>1, <1>2, <1>6, <1>7, <3>3
        <4>2. aF(next) = next
          BY <4>1 DEF aF
        <4>3. next # NoTab
          BY <4>1, TabSets
        <4>4. QED
          BY <3>1, <4>1, <4>2, <4>3
      <3>4. QED
        BY <3>2, <3>3
    <2>2. CASE id # value
      <3>1. value # NoTab
        BY <1>2, <1>5
      <3>2. value' = value /\ active' = IF active = id THEN NoTab ELSE active
        BY <1>1, <2>2
      <3>3. active' = value /\ value \in views'
        BY <1>1, <1>2, <2>2, <3>1, <3>2
      <3>4. QED
        BY <1>2, <3>1, <3>2, <3>3
    <2>3. QED
      BY <2>1, <2>2
  <1>10. \A k, j \in DOMAIN options' : options'[k] = options'[j] => k = j
    BY <1>8 DEF Bar
  <1>11. BarShowsView'
    BY <1>8, <1>9, <1>10 DEF BarShowsView
  <1>12. QED
    BY <1>8, <1>9, <1>11 DEF BarInv

\* The page closes the tab that is shown.
LEMMA CloseShownKeeps == BarInv /\ CloseShown => BarInv'
  <1> SUFFICES ASSUME BarInv, CloseShown PROVE BarInv'
    OBVIOUS
  <1>1. CASE value = NoTab
    BY <1>1 DEF CloseShown, tabVars, BarInv, BarShowsView
  <1>2. CASE value # NoTab
    <2>1. value \in Tabs /\ value \in ToSet(options)
      BY <1>2, BarFacts
    <2>2. RemoveOption(value)
      BY <1>2 DEF CloseShown
    <2>3. QED
      BY <2>1, <2>2, RemoveOptionKeeps
  <1>3. QED
    BY <1>1, <1>2

\* The bar starts with its hidden option.
LEMMA TabsInitBar == TabsInit => BarInv
  <1> SUFFICES ASSUME TabsInit PROVE BarInv
    OBVIOUS
  <1>1. options = <<Hidden>> /\ value = NoTab /\ views = {Hidden}
    BY DEF TabsInit
  <1>2. options \in Seq(Tabs \cup {Hidden}) /\ DOMAIN options = {1} /\ options[1] = Hidden
    BY <1>1
  <1>3. ToSet(options) = {Hidden}
    BY <1>2 DEF ToSet
  <1>4. options \in Bar
    BY <1>2, <1>3 DEF Bar
  <1>5. QED
    BY <1>1, <1>2, <1>3, <1>4 DEF BarInv, BarShowsView

-----------------------------------------------------------------------------
(* The server and its answers.                                             *)

\* The values that stand for nothing are nothing else.
LEMMA Differ == None \notin Items /\ Root \notin Items /\ None # "true" /\ None # "false"
  BY ItemAssumption, AnswerAssumption

\* The answers of an operation leave a request what it was.
LEMMA AnsweredCall ==
  ASSUME NEW call, CallOK(call), NEW ok
  PROVE  LET new == [call EXCEPT !.answer = ok]
         IN /\ new = [op |-> new.op, item |-> new.item, to |-> new.to, answer |-> new.answer]
            /\ new.op = call.op /\ new.item = call.item /\ new.to = call.to /\ new.answer = ok
  <1>1. call = [op |-> call.op, item |-> call.item, to |-> call.to, answer |-> call.answer]
    BY DEF CallOK
  <1>2. [call EXCEPT !.answer = ok]
          = [op |-> call.op, item |-> call.item, to |-> call.to, answer |-> ok]
    BY <1>1
  <1>3. QED
    BY <1>2

\* A request that is sent has no answer yet.
LEMMA SentOK ==
  ASSUME NEW op \in Operations, NEW item, NEW to,
         op \in BusForms => to \in Groups, op = "delBus" => item \in Items
  PROVE  CallOK(Sent(op, item, to))
  BY Differ DEF CallOK, Sent

\* What is in a bag when one is put in, taken out, or exchanged.
LEMMA BagFacts ==
  ASSUME NEW bag, NEW x, NEW y
  PROVE  /\ BagToSet(EmptyBag) = {}
         /\ BagToSet(bag (+) Once(x)) = BagToSet(bag) \cup {x}
         /\ BagToSet(bag (-) Once(x)) \subseteq BagToSet(bag)
         /\ BagToSet((bag (-) Once(x)) (+) Once(y)) \subseteq BagToSet(bag) \cup {y}
  <1>1. BagToSet(EmptyBag) = {}
    BY DEF BagToSet, EmptyBag, SetToBag
  <1>2. \A B, z : BagToSet(B (+) Once(z)) = BagToSet(B) \cup {z}
    BY DEF BagToSet, (+), Once, SetToBag
  <1>3. BagToSet(bag (-) Once(x)) \subseteq BagToSet(bag)
    BY DEF BagToSet, (-), Once, SetToBag
  <1>4. QED
    BY <1>1, <1>2, <1>3

\* What the server sends for the whole tree.
LEMMA AllIsDisjoint == GivenInv => Disjoint(findAllBusColls)
  <1> SUFFICES ASSUME GivenInv PROVE Disjoint(findAllBusColls)
    OBVIOUS
  <1>1. groups \in SUBSET Groups
    BY DEF GivenInv
  <1>2. findAllBusColls \in [groups -> SUBSET Businesses]
    BY DEF findAllBusColls
  <1>3. findAllBusColls \in Answers
    BY <1>1, <1>2 DEF Answers
  <1>4. \A g, h \in groups : g # h => findAllBusColls[g] \cap findAllBusColls[h] = {}
    BY DEF findAllBusColls
  <1>5. QED
    BY <1>2, <1>3, <1>4 DEF Disjoint

\* While what was deleted stays away, the requests stay in order.
LEMMA CallsKept ==
  ASSUME NEW call, CallOK(call),
         \A item \in Items : DeletedForGood(item) => DeletedForGood(item)'
  PROVE  CallOK(call)'
  <1>1. call.op = "delBus" => /\ call.item \in Items
                              /\ call.answer = "true" => DeletedForGood(call.item)'
    BY DEF CallOK
  <1>2. QED
    BY <1>1 DEF CallOK, Disjoint

\* A step of the page, which only sends requests and takes answers.
LEMMA ServerInvByCalls ==
  ASSUME ServerInv, UNCHANGED serverVars,
         \A call \in BagToSet(calls') : call \in BagToSet(calls) \/ CallOK(call)
  PROVE  ServerInv'
  <1>1. GivenInv'
    BY DEF ServerInv, GivenInv, serverVars
  <1>2. \A item \in Items : DeletedForGood(item) => DeletedForGood(item)'
    BY DEF DeletedForGood, serverVars
  <1>3. \A call \in BagToSet(calls') : CallOK(call)
    BY DEF ServerInv
  <1>4. \A call \in BagToSet(calls') : CallOK(call)'
    BY <1>2, <1>3, CallsKept
  <1>5. QED
    BY <1>1, <1>4 DEF ServerInv

\* A request that was executed, with its answer.
LEMMA ExecutedKeeps ==
  ASSUME ServerInv, NEW call \in BagToSet(calls), NEW says, Executed(call, says), GivenInv',
         \A item \in Items : DeletedForGood(item) => DeletedForGood(item)',
         call.op = "load" => Disjoint(says),
         call.op = "delBus" /\ says = "true" => DeletedForGood(call.item)'
  PROVE  ServerInv'
  <1> DEFINE new == [call EXCEPT !.answer = says]
  <1>1. CallOK(call) /\ \A c \in BagToSet(calls) : CallOK(c)
    BY DEF ServerInv
  <1>2. /\ new = [op |-> new.op, item |-> new.item, to |-> new.to, answer |-> new.answer]
        /\ new.op = call.op /\ new.item = call.item /\ new.to = call.to /\ new.answer = says
    BY <1>1, AnsweredCall
  <1>3. calls' = (calls (-) Once(call)) (+) Once(new)
    BY DEF Executed
  <1> HIDE DEF new
  <1>4. \A c \in BagToSet(calls') : c = new \/ c \in BagToSet(calls)
    BY <1>3, BagFacts
  <1>5. \A c \in BagToSet(calls) : CallOK(c)'
    BY <1>1, CallsKept
  <1>6. CallOK(new)'
    <2>1. call.op \in Operations /\ (call.op \in BusForms => call.to \in Groups)
          /\ (call.op = "delBus" => call.item \in Items)
      BY <1>1 DEF CallOK
    <2>2. new.op = "load" => new.answer = None \/ Disjoint(new.answer)
      BY <1>2
    <2>3. new.op = "delBus" => /\ new.item \in Items
                               /\ new.answer = "true" => DeletedForGood(new.item)'
      BY <1>2, <2>1
    <2>4. QED
      BY <1>2, <2>1, <2>2, <2>3 DEF CallOK, Disjoint
  <1>7. QED
    BY <1>4, <1>5, <1>6 DEF ServerInv

\* Whatever is asked for, what was deleted stays away.
LEMMA ServeKeeps ==
  ASSUME GivenInv, NEW op, NEW item, NEW to, NEW says, Serve(op, item, to, says),
         op \in BusForms => to \in Groups
  PROVE  /\ GivenInv'
         /\ \A i \in Items : DeletedForGood(i) => DeletedForGood(i)'
         /\ op = "delBus" /\ says = "true" => DeletedForGood(item)'
  <1>1. /\ place \in [Businesses -> Groups \cup {None}] /\ groups \subseteq Groups
        /\ groups \subseteq given /\ \A b \in Businesses : place[b] # None => b \in given
    BY DEF GivenInv
  <1>2. None \notin Groups /\ Groups \cap Businesses = {}
    BY ItemAssumption DEF Items
  <1>3. CASE op # "delBus" /\ UNCHANGED serverVars
    BY <1>1, <1>3 DEF GivenInv, DeletedForGood, serverVars
  <1>4. ASSUME op = "addBus", NEW b \in Businesses \ given, given' = given \cup {b},
               place' = [place EXCEPT ![b] = to], UNCHANGED groups
        PROVE  GivenInv' /\ \A i \in Items : DeletedForGood(i) => DeletedForGood(i)'
    <2>1. to \in Groups
      BY <1>4 DEF BusForms
    <2>2. GivenInv'
      BY <1>1, <1>4, <2>1 DEF GivenInv
    <2>3. \A i \in Items : DeletedForGood(i) => DeletedForGood(i)'
      BY <1>1, <1>4 DEF DeletedForGood
    <2>4. QED
      BY <2>2, <2>3
  <1>5. ASSUME op = "addBusColl", NEW g \in Groups \ given, given' = given \cup {g},
               groups' = groups \cup {g}, UNCHANGED place
        PROVE  GivenInv' /\ \A i \in Items : DeletedForGood(i) => DeletedForGood(i)'
    <2>1. GivenInv'
      BY <1>1, <1>5 DEF GivenInv
    <2>2. \A i \in Items : DeletedForGood(i) => DeletedForGood(i)'
      BY <1>5 DEF DeletedForGood
    <2>3. QED
      BY <2>1, <2>2
  <1>6. ASSUME op = "modifyBus", item \in Businesses, place[item] # None,
               place' = [place EXCEPT ![item] = to], UNCHANGED <<groups, given>>
        PROVE  GivenInv' /\ \A i \in Items : DeletedForGood(i) => DeletedForGood(i)'
    <2>1. to \in Groups
      BY <1>6 DEF BusForms
    <2>2. GivenInv'
      BY <1>1, <1>6, <2>1 DEF GivenInv
    <2>3. \A i \in Items : DeletedForGood(i) => DeletedForGood(i)'
      BY <1>1, <1>6 DEF DeletedForGood
    <2>4. QED
      BY <2>2, <2>3
  <1>7. ASSUME op = "delBus", item \in Businesses,
               says = (IF place[item] = None THEN "false" ELSE "true"),
               place' = [place EXCEPT ![item] = None], UNCHANGED <<groups, given>>
        PROVE  /\ GivenInv' /\ \A i \in Items : DeletedForGood(i) => DeletedForGood(i)'
               /\ says = "true" => DeletedForGood(item)'
    <2>1. GivenInv'
      BY <1>1, <1>7 DEF GivenInv
    <2>2. \A i \in Items : DeletedForGood(i) => DeletedForGood(i)'
      BY <1>1, <1>7 DEF DeletedForGood
    <2>3. place[item] # None => DeletedForGood(item)'
      BY <1>1, <1>2, <1>7 DEF DeletedForGood
    <2>4. QED
      BY <1>7, <2>1, <2>2, <2>3
  <1>8. ASSUME op = "delBus", item \in Groups,
               says = (IF item \in groups THEN "true" ELSE "false"),
               groups' = groups \ {item}, UNCHANGED given,
               place' = [b \in Businesses |->
                          IF item \in groups /\ place[b] = item THEN None ELSE place[b]]
        PROVE  /\ GivenInv' /\ \A i \in Items : DeletedForGood(i) => DeletedForGood(i)'
               /\ says = "true" => DeletedForGood(item)'
    <2>1. GivenInv'
      BY <1>1, <1>8 DEF GivenInv
    <2>2. \A i \in Items : DeletedForGood(i) => DeletedForGood(i)'
      BY <1>1, <1>8 DEF DeletedForGood
    <2>3. item \in groups => DeletedForGood(item)'
      BY <1>1, <1>2, <1>8 DEF DeletedForGood
    <2>4. QED
      BY <1>8, <2>1, <2>2, <2>3
  <1>9. CASE op = "modifyBus" /\ item \in Businesses
    <2>1. UNCHANGED serverVars \/ (/\ place[item] # None /\ UNCHANGED <<groups, given>>
                                   /\ place' = [place EXCEPT ![item] = to])
      BY <1>9 DEF Serve, serverVars
    <2>2. QED
      BY <1>3, <1>6, <1>9, <2>1
  <1>10. QED
    BY <1>3, <1>4, <1>5, <1>7, <1>8, <1>9 DEF Serve

\* The server executes a request.
LEMMA ExecuteKeeps ==
  ASSUME ServerInv, ServerExecutes
  PROVE  ServerInv'
  <1>1. GivenInv /\ \A c \in BagToSet(calls) : CallOK(c)
    BY DEF ServerInv
  <1>2. PICK call \in BagToSet(calls) :
          \/ call.op = "load" /\ Executed(call, findAllBusColls) /\ UNCHANGED serverVars
          \/ /\ call.op # "load"
             /\ \E says \in {"true", "false"} :
                  Executed(call, says) /\ Serve(call.op, call.item, call.to, says)
    BY DEF ServerExecutes
  <1>3. CallOK(call)
    BY <1>1
  <1>4. CASE call.op = "load" /\ Executed(call, findAllBusColls) /\ UNCHANGED serverVars
    <2>1. GivenInv' /\ \A item \in Items : DeletedForGood(item) => DeletedForGood(item)'
      BY <1>1, <1>4 DEF GivenInv, DeletedForGood, serverVars
    <2>2. Disjoint(findAllBusColls)
      BY <1>1, AllIsDisjoint
    <2>3. QED
      BY <1>4, <2>1, <2>2, ExecutedKeeps
  <1>5. ASSUME call.op # "load", NEW says, Executed(call, says),
               Serve(call.op, call.item, call.to, says)
        PROVE  ServerInv'
    <2>1. call.op \in BusForms => call.to \in Groups
      BY <1>3 DEF CallOK
    <2>2. /\ GivenInv'
          /\ \A i \in Items : DeletedForGood(i) => DeletedForGood(i)'
          /\ call.op = "delBus" /\ says = "true" => DeletedForGood(call.item)'
      BY <1>1, <1>5, <2>1, ServeKeeps
    <2>3. QED
      BY <1>5, <2>2, ExecutedKeeps
  <1>6. QED
    BY <1>2, <1>4, <1>5

-----------------------------------------------------------------------------
(* The forms.                                                              *)

\* The strings that the forms and their ids are.
LEMMA FormIds ==
  ASSUME NEW form \in FormKinds
  PROVE  /\ idsOf(form) \subseteq Ids
         /\ "windowForOper" \in idsOf(form) /\ formOf(form) \in idsOf(form)
         /\ formOf(form) \in {"busForm", "busCollForm"}
         /\ formOf(form) = "busForm" <=> form \in BusForms
         /\ \A k \in FormKinds : formOf(form) \in idsOf(k) => formOf(k) = formOf(form)
         /\ {"busForm", "busCollForm", "windowForOper"} \subseteq Ids
  <1>1. BusForms \subseteq FormKinds /\ GroupForms \subseteq FormKinds
        /\ \A k \in FormKinds : k \in BusForms \/ k \in GroupForms
    BY DEF FormKinds
  <1>2. \A k \in FormKinds : idsOf(k) \subseteq Ids
    BY DEF Ids, FormKinds
  <1>3. \A k \in FormKinds : /\ "windowForOper" \in idsOf(k) /\ formOf(k) \in idsOf(k)
                             /\ formOf(k) \in {"busForm", "busCollForm"}
                             /\ formOf(k) = "busForm" <=> k \in BusForms
    BY DEF idsOf, formOf
  <1>4. \A k \in FormKinds : formOf(form) \in idsOf(k) => formOf(k) = formOf(form)
    BY DEF idsOf, formOf, FormKinds, BusForms, GroupForms
  <1>5. formOf("addBus") = "busForm" /\ formOf("addBusColl") = "busCollForm"
        /\ "addBus" \in FormKinds /\ "addBusColl" \in FormKinds
    BY DEF formOf, FormKinds, BusForms, GroupForms
  <1>6. {"busForm", "busCollForm", "windowForOper"} \subseteq Ids
    BY <1>2, <1>3, <1>5
  <1>7. QED
    BY <1>2, <1>3, <1>4, <1>6

\* An id that names a form on the screen names one of its kind.
LEMMA NamedForm ==
  ASSUME WindowInv, NEW form \in FormKinds, ids[formOf(form)] # 0
  PROVE  /\ ids[formOf(form)] \in 1..Len(windows)
         /\ FormOK(windows[ids[formOf(form)]])
         /\ formOf(windows[ids[formOf(form)]].kind) = formOf(form)
  <1>1. formOf(form) \in Ids
    BY FormIds
  <1>2. /\ ids[formOf(form)] \in 0..Len(windows) /\ Len(windows) \in Nat
        /\ formOf(form) \in idsOf(windows[ids[formOf(form)]].kind)
    BY <1>1 DEF WindowInv, IdOK
  <1>3. ids[formOf(form)] \in 1..Len(windows)
    BY <1>2
  <1>4. FormOK(windows[ids[formOf(form)]])
    BY <1>3 DEF WindowInv
  <1>5. windows[ids[formOf(form)]].kind \in FormKinds
    BY <1>4 DEF FormOK, Forms
  <1>6. QED
    BY <1>2, <1>3, <1>4, <1>5, FormIds

\* A form is opened over the others,
LEMMA OpenFormKeeps ==
  ASSUME WindowInv, NEW w, FormOK(w), OpenForm(w)
  PROVE  WindowInv'
  <1> DEFINE k == Len(windows) + 1
  <1>1. /\ windows \in Seq(Forms) /\ \A i \in 1..Len(windows) : FormOK(windows[i])
        /\ DOMAIN ids = Ids /\ \A n \in Ids : IdOK(n)
    BY DEF WindowInv
  <1>2. w \in Forms /\ w.kind \in FormKinds /\ Len(windows) \in Nat
    BY <1>1 DEF FormOK, Forms
  <1>3. windows' = Append(windows, w)
        /\ ids' = [n \in Ids |-> IF n \in idsOf(w.kind) THEN k ELSE ids[n]]
    BY DEF OpenForm
  <1>4. /\ windows' \in Seq(Forms) /\ Len(windows') = k /\ windows'[k] = w
        /\ \A i \in 1..Len(windows) : windows'[i] = windows[i]
    BY <1>1, <1>2, <1>3
  <1>5. \A i \in 1..Len(windows') : FormOK(windows'[i])
    <2>1. \A i \in 1..Len(windows') : i \in 1..Len(windows) \/ i = k
      BY <1>2, <1>4
    <2>2. QED
      BY <1>1, <1>4, <2>1
  <1>6. ASSUME NEW n \in Ids PROVE IdOK(n)'
    <2>1. CASE n \in idsOf(w.kind)
      <3>1. ids'[n] = k
        BY <1>3, <2>1
      <3>2. QED
        BY <1>2, <1>4, <2>1, <3>1 DEF IdOK
    <2>2. CASE n \notin idsOf(w.kind)
      <3>1. ids'[n] = ids[n]
        BY <1>3, <2>2
      <3>2. ids[n] \in 0..Len(windows) /\ (ids[n] # 0 => n \in idsOf(windows[ids[n]].kind))
        BY <1>1 DEF IdOK
      <3>3. ids[n] \in 0..k /\ (ids[n] # 0 => windows'[ids[n]] = windows[ids[n]])
        BY <1>2, <1>4, <3>2
      <3>4. QED
        BY <1>4, <3>1, <3>2, <3>3 DEF IdOK
    <2>3. QED
      BY <2>1, <2>2
  <1>7. "windowForOper" \in Ids /\ "windowForOper" \in idsOf(w.kind)
    BY <1>2, FormIds
  <1>8. ids'["windowForOper"] = Len(windows') /\ DOMAIN ids' = Ids
    BY <1>3, <1>4, <1>7
  <1> HIDE DEF k
  <1>9. QED
    BY <1>4, <1>5, <1>6, <1>8 DEF WindowInv

\* and the one on top is closed, if the id of the windows names it.
LEMMA CloseFormKeeps ==
  ASSUME WindowInv, CloseForm
  PROVE  WindowInv'
  <1>1. /\ windows \in Seq(Forms) /\ \A i \in 1..Len(windows) : FormOK(windows[i])
        /\ DOMAIN ids = Ids /\ \A n \in Ids : IdOK(n)
        /\ ids["windowForOper"] \in {0, Len(windows)}
    BY DEF WindowInv
  <1>2. CASE UNCHANGED windowVars
    BY <1>2 DEF WindowInv, IdOK, FormOK, windowVars
  <1>3. CASE ids["windowForOper"] # 0
    <2> DEFINE k == Len(windows)
    <2>1. /\ windows' = Front(windows)
          /\ ids' = [n \in Ids |-> IF n \in idsOf(Top.kind) THEN 0 ELSE ids[n]]
      BY <1>3 DEF CloseForm
    <2>2. k \in Nat /\ k # 0
      BY <1>1, <1>3
    <2>3. windows' = SubSeq(windows, 1, k - 1)
      BY <2>1 DEF Front
    <2>4. /\ windows' \in Seq(Forms) /\ Len(windows') = k - 1
          /\ \A i \in 1..(k - 1) : windows'[i] = windows[i]
      <3>1. \A i \in 1 .. k - 1 : windows[i] \in Forms
        BY <1>1, <2>2
      <3> HIDE DEF k
      <3>2. /\ SubSeq(windows, 1, k - 1) \in Seq(Forms)
            /\ Len(SubSeq(windows, 1, k - 1)) = IF 1 <= k - 1 THEN (k - 1) - 1 + 1 ELSE 0
            /\ \A i \in 1 .. (k - 1) - 1 + 1 : SubSeq(windows, 1, k - 1)[i] = windows[1 + i - 1]
        BY <2>2, <3>1, SubSeqProperties
      <3>3. QED
        BY <2>2, <2>3, <3>2
    <2>5. \A i \in 1..Len(windows') : FormOK(windows'[i])
      BY <1>1, <2>2, <2>4
    <2>6. Top = windows[k] /\ Top.kind \in FormKinds
      BY <1>1, <2>2 DEF Top, FormOK, Forms
    <2>7. ASSUME NEW n \in Ids PROVE IdOK(n)'
      <3>1. CASE n \in idsOf(Top.kind)
        <4>1. ids'[n] = 0
          BY <2>1, <3>1
        <4>2. QED
          BY <2>2, <2>4, <4>1 DEF IdOK
      <3>2. CASE n \notin idsOf(Top.kind)
        <4>1. ids'[n] = ids[n]
          BY <2>1, <3>2
        <4>2. ids[n] \in 0..k /\ (ids[n] # 0 => n \in idsOf(windows[ids[n]].kind))
          BY <1>1 DEF IdOK
        <4>3. ids[n] # k
          BY <2>2, <2>6, <3>2, <4>2
        <4>4. ids[n] \in 0..(k - 1) /\ (ids[n] # 0 => windows'[ids[n]] = windows[ids[n]])
          BY <2>2, <2>4, <4>2, <4>3
        <4>5. QED
          BY <2>4, <4>1, <4>2, <4>4 DEF IdOK
      <3>3. QED
        BY <3>1, <3>2
    <2>8. "windowForOper" \in Ids /\ "windowForOper" \in idsOf(Top.kind)
      BY <2>6, FormIds
    <2>9. ids'["windowForOper"] = 0 /\ DOMAIN ids' = Ids
      BY <2>1, <2>8
    <2> HIDE DEF k
    <2>10. QED
      BY <2>4, <2>5, <2>7, <2>9 DEF WindowInv
  <1>4. QED
    BY <1>2, <1>3 DEF CloseForm

\* Another group in the form on top.
LEMMA PickKeeps ==
  ASSUME WindowInv, ~Free, Top.kind \in BusForms, NEW g \in Groups,
         windows' = [windows EXCEPT ![Len(windows)].to = g], UNCHANGED ids
  PROVE  WindowInv'
  <1> DEFINE k == Len(windows)
  <1>1. /\ windows \in Seq(Forms) /\ \A i \in 1..k : FormOK(windows[i])
        /\ DOMAIN ids = Ids /\ \A n \in Ids : IdOK(n)
        /\ ids["windowForOper"] \in {0, k}
    BY DEF WindowInv
  <1>2. k \in Nat /\ k # 0
    BY <1>1 DEF Free
  <1>3. windows[k] \in Forms
    BY <1>1, <1>2
  <1>4. [windows[k] EXCEPT !.to = g] \in Forms /\ [windows[k] EXCEPT !.to = g].to = g
        /\ [windows[k] EXCEPT !.to = g].kind = windows[k].kind
    BY <1>3 DEF Forms
  <1>5. windows' = [windows EXCEPT ![k] = [windows[k] EXCEPT !.to = g]]
    OBVIOUS
  <1>6. /\ windows' \in Seq(Forms) /\ Len(windows') = k
        /\ windows'[k] = [windows[k] EXCEPT !.to = g]
        /\ \A i \in 1..k : i # k => windows'[i] = windows[i]
    <2> DEFINE new == [windows[k] EXCEPT !.to = g]
    <2>1. windows' = [windows EXCEPT ![k] = new] /\ new \in Forms
      BY <1>4, <1>5
    <2> HIDE DEF new
    <2>2. QED
      BY <1>1, <1>2, <2>1 DEF new
  <1>7. \A i \in 1..k : windows'[i].kind = windows[i].kind
    BY <1>4, <1>6
  <1>8. \A i \in 1..Len(windows') : FormOK(windows'[i])
    <2>1. FormOK(windows'[k])
      BY <1>4, <1>6 DEF FormOK
    <2>2. QED
      BY <1>1, <1>6, <2>1
  <1>9. ASSUME NEW n \in Ids PROVE IdOK(n)'
    <2>1. ids[n] \in 0..k /\ (ids[n] # 0 => n \in idsOf(windows[ids[n]].kind))
      BY <1>1 DEF IdOK
    <2>2. ids[n] # 0 => windows'[ids[n]].kind = windows[ids[n]].kind
      BY <1>2, <1>7, <2>1
    <2>3. QED
      BY <1>6, <2>1, <2>2 DEF IdOK
  <1> HIDE DEF k
  <1>10. QED
    BY <1>1, <1>6, <1>8, <1>9 DEF WindowInv

-----------------------------------------------------------------------------
(* The page.                                                               *)

\* What each part of the invariant does not see.
LEMMA SideStays == SideInv /\ UNCHANGED sidebarVars => SideInv'
  BY HidingKeeps DEF sidebarVars

\* The same for the bar,
LEMMA BarStays == BarInv /\ UNCHANGED tabVars => BarInv'
  BY DEF BarInv, BarShowsView, tabVars

\* the server
LEMMA ServerStays == ServerInv /\ UNCHANGED <<serverVars, calls>> => ServerInv'
  <1> SUFFICES ASSUME ServerInv, UNCHANGED <<serverVars, calls>> PROVE ServerInv'
    OBVIOUS
  <1>1. \A call \in calls' : call \in calls
    OBVIOUS
  <1>2. UNCHANGED serverVars
    OBVIOUS
  <1>3. QED
    BY <1>1, <1>2, ServerInvByCalls

\* and the page.
LEMMA PageStays == PageInv /\ UNCHANGED <<sideBarSelectedItem, tabCalls, windowVars>> => PageInv'
  BY DEF PageInv, WindowInv, IdOK, FormOK, windowVars

\* What has gone astray is left as it is.
LEMMA StrayStays == StrayInv /\ UNCHANGED <<sidebarVars, astray>> => StrayInv'
  <1> SUFFICES ASSUME StrayInv, UNCHANGED <<sidebarVars, astray>> PROVE StrayInv'
    OBVIOUS
  <1>1. UNCHANGED <<tree, painted, selected, marks, collapsed, popup>>
    BY DEF sidebarVars
  <1>2. TreeConsistent'
    BY <1>1 DEF StrayInv, TreeConsistent
  <1>3. OpenOK(tree, collapsed)' /\ PaintedInStep' /\ SelectionMarked'
    BY <1>1 DEF StrayInv, OpenOK, PaintedInStep, SelectionMarked
  <1>4. PopupInStep'
    BY <1>1 DEF StrayInv, PopupInStep, getBranch, Leaf
  <1>5. QED
    BY <1>2, <1>3, <1>4 DEF StrayInv

\* While nothing has gone astray, the sidebar is in order,
LEMMA PartsOf ==
  ASSUME IInv, Followed
  PROVE  /\ SideInv /\ BarInv /\ ServerInv /\ PageInv /\ WindowInv
         /\ sideBarSelectedItem \in Items \cup {None}
  BY DEF IInv, SidePart, PageInv

\* and an action that lets nothing go astray has to keep it so.
LEMMA StillFollowed ==
  ASSUME Followed, UNCHANGED astray, SideInv', BarInv', ServerInv', PageInv'
  PROVE  IInv'
  BY DEF Followed, IInv, SidePart

\* A click elsewhere, which hides the popup.
LEMMA ElsewhereKeeps ==
  ASSUME SideInv, ClickElsewhere
  PROVE  SideInv' /\ UNCHANGED sideBarSelectedItem
  BY HidingKeeps DEF ClickElsewhere

\* The item clicked last is one of the tree.
LEMMA ClickedItem ==
  ASSUME SidebarUser, sideBarSelectedItem \in Items \cup {None}
  PROVE  sideBarSelectedItem' \in Items \cup {None}
  <1>1. CASE Toggle \/ HidePopup \/ ClickTitle
    BY <1>1 DEF Toggle, HidePopup, ClickTitle
  <1>2. ASSUME NEW id \in Items, ClickItem(id)
        PROVE  sideBarSelectedItem' \in Items \cup {None}
    BY <1>2 DEF ClickItem
  <1>3. ASSUME NEW id \in Items, MouseMove(id) \/ ClickListItem(id)
        PROVE  sideBarSelectedItem' \in Items \cup {None}
    BY <1>3 DEF MouseMove, ClickListItem
  <1>4. QED
    BY <1>1, <1>2, <1>3 DEF SidebarUser

\* The user in the sidebar,
LEMMA UseSidebarKeeps == IInv /\ UseSidebar => IInv'
  <1> SUFFICES ASSUME IInv, UseSidebar PROVE IInv'
    OBVIOUS
  <1>1. Followed /\ UNCHANGED astray
    BY DEF UseSidebar, Act
  <1>2. SideInv /\ BarInv /\ ServerInv /\ PageInv /\ sideBarSelectedItem \in Items \cup {None}
    BY <1>1, PartsOf
  <1>3. /\ SidebarUser /\ UNCHANGED serverVars /\ UNCHANGED tabVars
        /\ UNCHANGED calls /\ UNCHANGED windowVars
        /\ tabCalls' = IF selected' \in {selected, None} THEN tabCalls
                       ELSE tabCalls (+) Once(selected')
    BY DEF UseSidebar, Act, addTab
  <1>4. SideInv'
    BY <1>2, <1>3, SidebarUserKeeps
  <1>5. BarInv' /\ ServerInv'
    BY <1>2, <1>3, BarStays, ServerStays
  <1>6. sideBarSelectedItem' \in Items \cup {None}
    BY <1>2, <1>3, ClickedItem
  <1>7. BagToSet(tabCalls') \subseteq Items
    <2>1. BagToSet(tabCalls) \subseteq Items /\ selected' \in Items \cup {None}
      BY <1>2, <1>4 DEF PageInv, SideInv, SelectInv
    <2>2. BagToSet(tabCalls (+) Once(selected')) = BagToSet(tabCalls) \cup {selected'}
      BY BagFacts
    <2>3. QED
      BY <1>3, <2>1, <2>2
  <1>8. WindowInv'
    BY <1>2, <1>3 DEF PageInv, WindowInv, IdOK, FormOK, windowVars
  <1>9. PageInv'
    BY <1>6, <1>7, <1>8 DEF PageInv
  <1>10. QED
    BY <1>1, <1>4, <1>5, <1>9, StillFollowed

\* on the tabs,
LEMMA UseTabsKeeps == IInv /\ UseTabs => IInv'
  <1> SUFFICES ASSUME IInv, UseTabs PROVE IInv'
    OBVIOUS
  <1>1. Followed /\ UNCHANGED astray
    BY DEF UseTabs, Act
  <1>2. SideInv /\ BarInv /\ ServerInv /\ PageInv
    BY <1>1, PartsOf
  <1>3. PICK id \in Tabs : ClickTab(id) \/ CloseTab(id)
    BY DEF UseTabs
  <1>4. /\ ClickElsewhere /\ UNCHANGED serverVars /\ UNCHANGED <<tabCalls, calls>>
        /\ UNCHANGED windowVars
    BY DEF UseTabs, Act
  <1>5. BarInv'
    BY <1>2, <1>3, ClickTabKeeps, RemoveOptionKeeps DEF CloseTab
  <1>6. SideInv' /\ UNCHANGED sideBarSelectedItem
    BY <1>2, <1>4, ElsewhereKeeps
  <1>7. ServerInv' /\ PageInv'
    BY <1>2, <1>4, <1>6, ServerStays, PageStays
  <1>8. QED
    BY <1>1, <1>5, <1>6, <1>7, StillFollowed

\* in the menu.
LEMMA MenuClickedKeeps ==
  ASSUME IInv, NEW form, busCollHandle(form)
  PROVE  IInv'
  <1>1. Followed /\ UNCHANGED astray
    BY DEF busCollHandle, Act
  <1>2. SideInv /\ BarInv /\ ServerInv /\ PageInv
    BY <1>1, PartsOf
  <1>3. /\ ClickElsewhere /\ UNCHANGED serverVars /\ UNCHANGED tabVars
        /\ UNCHANGED <<tabCalls, calls>> /\ UNCHANGED windowVars
    BY DEF busCollHandle, Act
  <1>4. SideInv' /\ UNCHANGED sideBarSelectedItem
    BY <1>2, <1>3, ElsewhereKeeps
  <1>5. BarInv' /\ ServerInv' /\ PageInv'
    BY <1>2, <1>3, <1>4, BarStays, ServerStays, PageStays
  <1>6. QED
    BY <1>1, <1>4, <1>5, StillFollowed

\* A request that is sent.
LEMMA SendKeeps ==
  ASSUME ServerInv, UNCHANGED serverVars, NEW call, CallOK(call), Send(call)
  PROVE  ServerInv'
  <1>1. calls' = calls (+) Once(call)
    BY DEF Send
  <1>2. BagToSet(calls') = BagToSet(calls) \cup {call}
    BY <1>1, BagFacts
  <1>3. QED
    BY <1>2, ServerInvByCalls

\* The actions that send, change and close a form.
LEMMA FormsKeep ==
  ASSUME IInv, Submit \/ windowForOperClose \/ \E g \in Groups : PickGroup(g)
  PROVE  IInv'
  <1>1. Followed /\ UNCHANGED astray
    BY DEF Submit, windowForOperClose, PickGroup, Act
  <1>2. /\ SideInv /\ BarInv /\ ServerInv /\ PageInv /\ WindowInv
        /\ sideBarSelectedItem \in Items \cup {None}
    BY <1>1, PartsOf
  <1>3. /\ ClickElsewhere /\ UNCHANGED serverVars /\ UNCHANGED tabVars /\ UNCHANGED tabCalls
    BY DEF Submit, windowForOperClose, PickGroup, Act
  <1>4. SideInv' /\ UNCHANGED sideBarSelectedItem
    BY <1>2, <1>3, ElsewhereKeeps
  <1>5. BarInv'
    BY <1>2, <1>3, BarStays
  <1>6. ASSUME ServerInv', WindowInv' PROVE IInv'
    <2>1. PageInv'
      BY <1>2, <1>3, <1>4, <1>6 DEF PageInv
    <2>2. QED
      BY <1>1, <1>4, <1>5, <1>6, <2>1, StillFollowed
  <1>7. CASE Submit
    <2> DEFINE at == ids[formOf(Top.kind)]
    <2>1. UNCHANGED windowVars /\ ~Free /\ at # 0
      BY <1>7 DEF Submit
    <2>2. WindowInv'
      BY <1>2, <2>1 DEF WindowInv, IdOK, FormOK, windowVars
    <2>3. Top \in Forms /\ Top.kind \in FormKinds
      <3>1. windows \in Seq(Forms) /\ windows # <<>>
        BY <1>2, <2>1 DEF WindowInv, Free
      <3>2. windows[Len(windows)] \in Forms
        BY <3>1
      <3>3. QED
        BY <3>2 DEF Top, Forms
    <2>4. FormOK(windows[at]) /\ formOf(windows[at].kind) = formOf(Top.kind)
      BY <1>2, <2>1, <2>3, NamedForm
    <2>5. CASE Top.kind \in BusForms
      <3>1. windows[at].kind \in BusForms /\ windows[at].to \in Groups
        <4>1. windows[at].kind \in FormKinds
          BY <2>4 DEF FormOK, Forms
        <4>2. windows[at].kind \in BusForms
          BY <2>3, <2>4, <2>5, <4>1, FormIds
        <4>3. QED
          BY <2>4, <4>2 DEF FormOK
      <3>2. PICK op \in BusForms : Send(Sent(op, windows[at].item, windows[at].to))
        BY <1>7, <2>5 DEF Submit, BusForms
      <3>3. op \in Operations /\ op # "delBus"
        BY DEF Operations, BusForms
      <3>4. CallOK(Sent(op, windows[at].item, windows[at].to))
        BY <3>1, <3>3, SentOK
      <3>5. ServerInv'
        BY <1>2, <1>3, <3>2, <3>4, SendKeeps
      <3>6. QED
        BY <1>6, <2>2, <3>5
    <2>6. CASE Top.kind \notin BusForms
      <3>1. PICK op \in GroupForms : Send(Sent(op, windows[at].item, None))
        BY <1>7, <2>6 DEF Submit, GroupForms
      <3>2. op \in Operations /\ op # "delBus" /\ op \notin BusForms
        BY DEF Operations, BusForms, GroupForms
      <3>3. CallOK(Sent(op, windows[at].item, None))
        BY <3>2, SentOK
      <3>4. ServerInv'
        BY <1>2, <1>3, <3>1, <3>3, SendKeeps
      <3>5. QED
        BY <1>6, <2>2, <3>4
    <2>7. QED
      BY <2>5, <2>6
  <1>8. CASE windowForOperClose
    <2>1. CloseForm /\ UNCHANGED calls
      BY <1>8 DEF windowForOperClose
    <2>2. ServerInv' /\ WindowInv'
      BY <1>2, <1>3, <2>1, ServerStays, CloseFormKeeps
    <2>3. QED
      BY <1>6, <2>2
  <1>9. ASSUME NEW g \in Groups, PickGroup(g) PROVE IInv'
    <2>1. /\ windows' = [windows EXCEPT ![Len(windows)].to = g] /\ UNCHANGED ids
          /\ ~Free /\ Top.kind \in BusForms /\ UNCHANGED calls
      BY <1>9 DEF PickGroup
    <2>2. ServerInv' /\ WindowInv'
      BY <1>2, <1>3, <2>1, ServerStays, PickKeeps
    <2>3. QED
      BY <1>6, <2>2
  <1>10. QED
    BY <1>7, <1>8, <1>9

\* The script for a tab opens it, under whatever is selected by now.
LEMMA TabAnsweredKeeps ==
  ASSUME IInv, NEW id \in Tabs, TabAnswered(id)
  PROVE  IInv'
  <1>1. Followed /\ UNCHANGED astray
    BY DEF TabAnswered
  <1>2. SideInv /\ BarInv /\ ServerInv /\ PageInv
    BY <1>1, PartsOf
  <1>3. /\ AddView(id) \/ UNCHANGED tabVars
        /\ tabCalls' = tabCalls (-) Once(id) /\ UNCHANGED sidebarVars
        /\ UNCHANGED serverVars /\ UNCHANGED calls /\ UNCHANGED windowVars
    BY DEF TabAnswered
  <1>4. BarInv'
    BY <1>2, <1>3, AddViewKeeps, BarStays
  <1>5. SideInv' /\ ServerInv'
    BY <1>2, <1>3, SideStays, ServerStays
  <1>6. BagToSet(tabCalls') \subseteq BagToSet(tabCalls)
    BY <1>3, BagFacts
  <1>7. PageInv'
    BY <1>2, <1>3, <1>6 DEF PageInv, WindowInv, IdOK, FormOK, sidebarVars, windowVars
  <1>8. QED
    BY <1>1, <1>4, <1>5, <1>7, StillFollowed

\* The script of a menu item sends a request or opens a form.
LEMMA MenuAnsweredKeeps ==
  ASSUME IInv, NEW form, NEW to \in Groups, MenuAnswered(form, to)
  PROVE  IInv'
  <1>1. Followed /\ UNCHANGED astray
    BY DEF MenuAnswered
  <1>2. /\ SideInv /\ BarInv /\ ServerInv /\ PageInv /\ WindowInv
        /\ sideBarSelectedItem \in Items \cup {None}
    BY <1>1, PartsOf
  <1>3. /\ UNCHANGED sidebarVars /\ UNCHANGED tabVars /\ UNCHANGED serverVars
        /\ UNCHANGED tabCalls
    BY DEF MenuAnswered
  <1>4. SideInv' /\ BarInv' /\ UNCHANGED sideBarSelectedItem
    BY <1>2, <1>3, SideStays, BarStays DEF sidebarVars
  <1>5. ASSUME ServerInv', WindowInv' PROVE IInv'
    <2>1. PageInv'
      BY <1>2, <1>3, <1>4, <1>5 DEF PageInv
    <2>2. QED
      BY <1>1, <1>4, <1>5, <2>1, StillFollowed
  <1>6. CASE form = "delBus" /\ sideBarSelectedItem # None
    <2>1. Send(Sent("delBus", sideBarSelectedItem, None)) /\ UNCHANGED windowVars
      BY <1>6 DEF MenuAnswered
    <2>2. CallOK(Sent("delBus", sideBarSelectedItem, None))
      BY <1>2, <1>6, SentOK DEF Operations, BusForms
    <2>3. ServerInv'
      BY <1>2, <1>3, <2>1, <2>2, SendKeeps
    <2>4. WindowInv'
      BY <1>2, <2>1 DEF WindowInv, IdOK, FormOK, windowVars
    <2>5. QED
      BY <1>5, <2>3, <2>4
  <1>7. ASSUME NEW w, FormOK(w), OpenForm(w), UNCHANGED calls PROVE IInv'
    <2>1. ServerInv' /\ WindowInv'
      BY <1>2, <1>3, <1>7, ServerStays, OpenFormKeeps
    <2>2. QED
      BY <1>5, <2>1
  <1>8. \A k \in FormKinds, item \in Items \cup {None} :
          /\ k \in BusForms => FormOK(Form(k, item, to))
          /\ k \notin BusForms => FormOK(Form(k, item, None))
    BY DEF FormOK, Form, Forms
  <1>9. CASE form = "modifyBus" /\ sideBarSelectedItem # None
    <2> DEFINE item == sideBarSelectedItem
    <2>1. /\ OpenForm(IF item \in Businesses THEN Form("modifyBus", item, to)
                      ELSE Form("modifyBusColl", item, None))
          /\ UNCHANGED calls
      BY <1>9 DEF MenuAnswered
    <2>2. FormOK(Form("modifyBus", item, to)) /\ FormOK(Form("modifyBusColl", item, None))
      BY <1>2, <1>8 DEF FormKinds, BusForms, GroupForms
    <2>3. QED
      BY <1>7, <2>1, <2>2
  <1>10. CASE form = "addBus"
    <2>1. OpenForm(Form("addBus", None, to)) /\ UNCHANGED calls
      BY <1>10 DEF MenuAnswered
    <2>2. FormOK(Form("addBus", None, to))
      BY <1>8 DEF FormKinds, BusForms
    <2>3. QED
      BY <1>7, <2>1, <2>2
  <1>11. CASE form = "addBusColl"
    <2>1. OpenForm(Form("addBusColl", None, None)) /\ UNCHANGED calls
      BY <1>11 DEF MenuAnswered
    <2>2. FormOK(Form("addBusColl", None, None))
      BY <1>8 DEF FormKinds, BusForms, GroupForms
    <2>3. QED
      BY <1>7, <2>1, <2>2
  <1>12. CASE UNCHANGED <<calls, windowVars>>
    <2>1. ServerInv'
      BY <1>2, <1>3, <1>12, ServerStays
    <2>2. WindowInv'
      BY <1>2, <1>12 DEF WindowInv, IdOK, FormOK, windowVars
    <2>3. QED
      BY <1>5, <2>1, <2>2
  <1>13. QED
    BY <1>6, <1>9, <1>10, <1>11, <1>12 DEF MenuAnswered

\* The server executes a request, in any order.
LEMMA ServerExecutesKeeps == IInv /\ ServerExecutes => IInv'
  <1> SUFFICES ASSUME IInv, ServerExecutes PROVE IInv'
    OBVIOUS
  <1>1. Followed /\ UNCHANGED astray
    BY DEF ServerExecutes
  <1>2. SideInv /\ BarInv /\ ServerInv /\ PageInv
    BY <1>1, PartsOf
  <1>3. /\ UNCHANGED sidebarVars /\ UNCHANGED tabVars /\ UNCHANGED tabCalls
        /\ UNCHANGED windowVars /\ UNCHANGED sideBarSelectedItem
    BY DEF ServerExecutes, sidebarVars
  <1>4. ServerInv'
    BY <1>2, ExecuteKeeps
  <1>5. SideInv' /\ BarInv' /\ PageInv'
    BY <1>2, <1>3, SideStays, BarStays, PageStays
  <1>6. QED
    BY <1>1, <1>4, <1>5, StillFollowed

\* Other users do the same from their pages.
LEMMA OthersChangeKeeps == IInv /\ OthersChange => IInv'
  <1> SUFFICES ASSUME IInv, OthersChange PROVE IInv'
    OBVIOUS
  <1>1. Followed /\ UNCHANGED astray
    BY DEF OthersChange, pageVars
  <1>2. /\ SideInv /\ BarInv /\ PageInv /\ GivenInv
        /\ \A c \in BagToSet(calls) : CallOK(c)
    BY <1>1, PartsOf DEF ServerInv
  <1>3. PICK op \in BusForms \cup GroupForms \cup {"delBus"}, item \in Items, to \in Groups :
           Serve(op, item, to, "true")
    BY DEF OthersChange
  <1>4. /\ UNCHANGED sidebarVars /\ UNCHANGED tabVars /\ UNCHANGED <<calls, tabCalls>>
        /\ UNCHANGED windowVars /\ UNCHANGED sideBarSelectedItem
    BY DEF OthersChange, pageVars, sidebarVars
  <1>5. GivenInv' /\ \A i \in Items : DeletedForGood(i) => DeletedForGood(i)'
    BY <1>2, <1>3, ServeKeeps
  <1>6. \A c \in BagToSet(calls) : CallOK(c)'
    BY <1>2, <1>5, CallsKept
  <1>7. ServerInv'
    BY <1>4, <1>5, <1>6 DEF ServerInv
  <1>8. SideInv' /\ BarInv' /\ PageInv'
    BY <1>2, <1>4, SideStays, BarStays, PageStays
  <1>9. QED
    BY <1>1, <1>7, <1>8, StillFollowed

\* A request that fails is gone.
LEMMA FailsKeeps ==
  ASSUME IInv, NEW call, Fails(call)
  PROVE  IInv'
  <1>1. Followed /\ UNCHANGED astray
    BY DEF Fails
  <1>2. SideInv /\ BarInv /\ ServerInv /\ PageInv
    BY <1>1, PartsOf
  <1>3. /\ UNCHANGED sidebarVars /\ UNCHANGED tabVars /\ UNCHANGED serverVars
        /\ UNCHANGED tabCalls /\ UNCHANGED windowVars /\ UNCHANGED sideBarSelectedItem
        /\ calls' = calls (-) Once(call)
    BY DEF Fails, sidebarVars
  <1>4. BagToSet(calls') \subseteq BagToSet(calls)
    BY <1>3, BagFacts
  <1>5. ServerInv'
    BY <1>2, <1>3, <1>4, ServerInvByCalls
  <1>6. SideInv' /\ BarInv' /\ PageInv'
    BY <1>2, <1>3, SideStays, BarStays, PageStays
  <1>7. QED
    BY <1>1, <1>5, <1>6, StillFollowed

\* The callback of the delete.
LEMMA DeleteAnsweredKeeps ==
  ASSUME SideInv, BarInv, NEW id, DeleteAnswered(id)
  PROVE  SideInv' /\ BarInv' /\ UNCHANGED sideBarSelectedItem
  <1>1. CASE id \in tree.pull
    <2>1. RemoveItem(id) /\ CloseShown
      BY <1>1 DEF DeleteAnswered
    <2>2. UNCHANGED sideBarSelectedItem
      BY <2>1 DEF RemoveItem, StoreChanged
    <2>3. QED
      BY <1>1, <2>1, <2>2, RemoveItemKeeps, CloseShownKeeps
  <1>2. CASE id \notin tree.pull
    <2>1. UNCHANGED sidebarVars /\ UNCHANGED tabVars
      BY <1>2 DEF DeleteAnswered
    <2>2. QED
      BY <2>1, SideStays, BarStays DEF sidebarVars
  <1>3. QED
    BY <1>1, <1>2

\* The form it finds names a group.
LEMMA FormNamesGroup ==
  ASSUME WindowInv, ids["busForm"] # 0
  PROVE  windows[ids["busForm"]].to \in Groups
  <1> DEFINE form == ids["busForm"]
  <1>1. "addBus" \in FormKinds /\ formOf("addBus") = "busForm"
    BY DEF FormKinds, BusForms, formOf
  <1>2. FormOK(windows[form]) /\ formOf(windows[form].kind) = "busForm"
    BY <1>1, NamedForm
  <1>3. windows[form].kind \in BusForms
    BY <1>2, FormIds DEF FormOK, Forms
  <1>4. QED
    BY <1>2, <1>3 DEF FormOK

\* The callback of the modification.
LEMMA ModifyAnsweredKeeps ==
  ASSUME Followed, SideInv, WindowInv, ModifyAnswered
  PROVE  SidePart' /\ WindowInv' /\ UNCHANGED sideBarSelectedItem
  <1> DEFINE form == ids["busForm"]
             to == windows[form].to
  <1>1. selected # None => selected \in tree.pull
    BY DEF SideInv, SelectInv, GroupMarked
  <1>2. UNCHANGED windowVars => WindowInv'
    BY DEF WindowInv, IdOK, FormOK, windowVars
  <1>3. ASSUME UNCHANGED astray, SideInv' PROVE SidePart'
    BY <1>3 DEF Followed, SidePart
  <1>4. CASE selected = None
    <2>1. UNCHANGED sidebarVars /\ UNCHANGED windowVars /\ UNCHANGED astray
      BY <1>4 DEF ModifyAnswered
    <2>2. QED
      BY <1>2, <1>3, <2>1, SideStays DEF sidebarVars
  <1>5. CASE selected # None /\ form = 0
    <2>1. RemoveItem(selected) /\ UNCHANGED windowVars /\ UNCHANGED astray
      BY <1>5 DEF ModifyAnswered
    <2>2. UNCHANGED sideBarSelectedItem
      BY <2>1 DEF RemoveItem, StoreChanged
    <2>3. QED
      BY <1>1, <1>2, <1>3, <1>5, <2>1, <2>2, RemoveItemKeeps
  <1>6. CASE selected # None /\ form # 0
    <2>1. /\ MoveItem(selected, to) /\ CloseForm
          /\ astray' = IF selected \in Groups \/ to \notin tree.pull THEN {selected} ELSE {}
      BY <1>6 DEF ModifyAnswered
    <2>2. to \in Groups
      BY <1>6, FormNamesGroup
    <2>3. WindowInv' /\ UNCHANGED sideBarSelectedItem
      BY <2>1, CloseFormKeeps DEF MoveItem, StoreChanged
    <2> HIDE DEF to
    <2>4. CASE selected \in Groups \/ to \notin tree.pull
      <3>1. astray' = {selected}
        BY <2>1, <2>4
      <3>2. StrayInv'
        BY <1>1, <1>6, <2>1, <2>2, <3>1, MoveItemStrays
      <3>3. SidePart'
        BY <3>1, <3>2 DEF SidePart, Followed
      <3>4. QED
        BY <2>3, <3>3
    <2>5. CASE ~(selected \in Groups \/ to \notin tree.pull)
      <3>1. selected \in tree.pull \cap Businesses /\ to \in tree.pull \cap Groups
        <4>1. tree.pull \subseteq Items
          BY GoodFacts DEF SideInv, TreeInv
        <4>2. QED
          BY <1>1, <1>6, <2>2, <2>5, <4>1 DEF Items
      <3>2. SideInv'
        BY <2>1, <3>1, MoveItemKeeps
      <3>3. UNCHANGED astray
        BY <2>1, <2>5 DEF Followed
      <3>4. QED
        BY <1>3, <2>3, <3>2, <3>3
    <2>6. QED
      BY <2>4, <2>5
  <1>7. QED
    BY <1>4, <1>5, <1>6

\* The answer of a request comes, in any order.
LEMMA AnsweredKeepsPage ==
  ASSUME IInv, NEW call, Answered(call)
  PROVE  IInv'
  <1>1. Followed /\ call \in BagToSet(calls)
    BY DEF Answered, In
  <1>2. /\ SideInv /\ BarInv /\ ServerInv /\ PageInv /\ WindowInv
        /\ sideBarSelectedItem \in Items \cup {None}
    BY <1>1, PartsOf
  <1>3. CallOK(call) /\ call.op \in Operations /\ call.answer # None
    BY <1>1, <1>2 DEF ServerInv, CallOK, Answered
  <1>4. UNCHANGED serverVars /\ UNCHANGED tabCalls
    BY DEF Answered
  <1>5. BagToSet(calls (-) Once(call)) \subseteq BagToSet(calls)
    BY BagFacts
  <1>6. calls' = calls (-) Once(call) => ServerInv'
    BY <1>2, <1>4, <1>5, ServerInvByCalls
  <1>7. UNCHANGED windowVars => WindowInv'
    BY <1>2 DEF WindowInv, IdOK, FormOK, windowVars
  <1>8. UNCHANGED astray /\ SideInv' => SidePart'
    BY <1>1 DEF Followed, SidePart
  <1>9. ASSUME SidePart', BarInv', ServerInv', WindowInv', UNCHANGED sideBarSelectedItem
        PROVE  IInv'
    BY <1>2, <1>4, <1>9 DEF IInv, PageInv
  <1>10. CASE call.op = "load"
    <2>1. /\ calls' = calls (-) Once(call) /\ UNCHANGED tabVars /\ UNCHANGED windowVars
          /\ LoadTree(call.answer) /\ astray' = Displaced(tree, call.answer)
      BY <1>10 DEF Answered
    <2>2. Disjoint(call.answer)
      BY <1>3, <1>10 DEF CallOK
    <2>3. UNCHANGED sideBarSelectedItem
      BY <2>1 DEF LoadTree, StoreChanged
    <2>4. SidePart'
      <3>1. CASE Displaced(tree, call.answer) = {}
        <4>1. SideInv' /\ UNCHANGED astray
          BY <1>1, <1>2, <2>1, <2>2, <3>1, LoadTreeKeeps DEF Followed
        <4>2. QED
          BY <1>8, <4>1
      <3>2. CASE Displaced(tree, call.answer) # {}
        <4>1. StrayInv'
          BY <1>2, <2>1, <2>2, LoadTreeStrays
        <4>2. QED
          BY <2>1, <3>2, <4>1 DEF SidePart, Followed
      <3>3. QED
        BY <3>1, <3>2
    <2>5. BarInv'
      BY <1>2, <2>1, BarStays
    <2>6. QED
      BY <1>6, <1>7, <1>9, <2>1, <2>3, <2>4, <2>5
  <1>11. CASE call.op = "delBus"
    <2>1. /\ calls' = calls (-) Once(call) /\ UNCHANGED windowVars /\ UNCHANGED astray
          /\ DeleteAnswered(call.item) \/ (UNCHANGED sidebarVars /\ UNCHANGED tabVars)
      BY <1>11 DEF Answered
    <2>2. SideInv' /\ BarInv' /\ UNCHANGED sideBarSelectedItem
      <3>1. CASE DeleteAnswered(call.item)
        BY <1>2, <3>1, DeleteAnsweredKeeps
      <3>2. CASE UNCHANGED sidebarVars /\ UNCHANGED tabVars
        BY <1>2, <3>2, SideStays, BarStays DEF sidebarVars
      <3>3. QED
        BY <2>1, <3>1, <3>2
    <2>3. QED
      BY <1>6, <1>7, <1>8, <1>9, <2>1, <2>2
  <1>12. CASE call.op = "modifyBus"
    <2>1. /\ calls' = calls (-) Once(call) /\ UNCHANGED tabVars
          /\ ModifyAnswered \/ (CloseForm /\ UNCHANGED sidebarVars /\ UNCHANGED astray)
      BY <1>12 DEF Answered
    <2>2. SidePart' /\ WindowInv' /\ UNCHANGED sideBarSelectedItem
      <3>1. CASE ModifyAnswered
        BY <1>1, <1>2, <3>1, ModifyAnsweredKeeps
      <3>2. CASE CloseForm /\ UNCHANGED sidebarVars /\ UNCHANGED astray
        BY <1>2, <1>8, <3>2, CloseFormKeeps, SideStays DEF sidebarVars
      <3>3. QED
        BY <2>1, <3>1, <3>2
    <2>3. BarInv'
      BY <1>2, <2>1, BarStays
    <2>4. QED
      BY <1>6, <1>9, <2>1, <2>2, <2>3
  <1>13. CASE call.op \in {"addBus", "addBusColl", "modifyBusColl"}
    <2>1. /\ calls' = IF call.answer = "true"
                      THEN (calls (-) Once(call)) (+) Once(Sent("load", None, None))
                      ELSE calls (-) Once(call)
          /\ CloseForm /\ UNCHANGED sidebarVars /\ UNCHANGED tabVars /\ UNCHANGED astray
      BY <1>13 DEF Answered
    <2>2. CallOK(Sent("load", None, None))
      BY SentOK DEF Operations, BusForms
    <2>3. ServerInv'
      <3>1. CASE call.answer = "true"
        <4>1. calls' = (calls (-) Once(call)) (+) Once(Sent("load", None, None))
          BY <2>1, <3>1
        <4>2. BagToSet(calls') \subseteq BagToSet(calls) \cup {Sent("load", None, None)}
          BY <4>1, BagFacts
        <4>3. QED
          BY <1>2, <1>4, <2>2, <4>2, ServerInvByCalls
      <3>2. CASE call.answer # "true"
        BY <1>6, <2>1, <3>2
      <3>3. QED
        BY <3>1, <3>2
    <2>4. SideInv' /\ BarInv' /\ WindowInv' /\ UNCHANGED sideBarSelectedItem
      BY <1>2, <2>1, SideStays, BarStays, CloseFormKeeps DEF sidebarVars
    <2>5. QED
      BY <1>8, <1>9, <2>1, <2>3, <2>4
  <1>14. QED
    BY <1>3, <1>10, <1>11, <1>12, <1>13 DEF Operations

\* Every state the page starts in satisfies the invariant,
LEMMA InitIInv == Init => IInv
  <1> SUFFICES ASSUME Init PROVE IInv
    OBVIOUS
  <1>1. /\ place \in [Businesses -> Groups \cup {None}] /\ groups \in SUBSET Groups
        /\ given = groups \cup {b \in Businesses : place[b] # None}
        /\ tabCalls = EmptyBag /\ calls = EmptyBag /\ astray = {}
        /\ windows = <<>> /\ ids = [n \in Ids |-> 0]
    BY DEF Init
  <1>2. GivenInv
    BY <1>1 DEF GivenInv
  <1>3. /\ tree = Merged(EmptyStore, findAllBusColls) /\ painted = Render(tree, FALSE)
        /\ selected = None /\ collapsed = FALSE /\ popup = NoPopup
        /\ sideBarSelectedItem = None
    BY DEF Init, SidebarInit
  <1>4. Displaced(EmptyStore, findAllBusColls) = {}
    BY DEF Displaced, EmptyStore
  <1>5. Good(tree) /\ OpenOK(tree, collapsed)
    BY <1>2, <1>3, <1>4, AllIsDisjoint, EmptyIsGood, MergedIsGood, MergedOpenOK
  <1>6. TreeInv /\ SelectInv
    BY <1>3, <1>5 DEF TreeInv, PaintedInStep, SelectInv, GroupMarked
  <1>7. PopupInv
    BY <1>3 DEF PopupInv, Popups, NoPopup, PopupInStep
  <1>8. BarInv
    BY TabsInitBar DEF Init
  <1>9. BagToSet(calls) = {} /\ BagToSet(tabCalls) = {}
    BY <1>1, BagFacts
  <1>10. ServerInv
    BY <1>2, <1>9 DEF ServerInv
  <1>11. WindowInv
    <2>1. windows \in Seq(Forms) /\ Len(windows) = 0
      BY <1>1
    <2>2. \A n \in Ids : IdOK(n)
      BY <1>1, <2>1 DEF IdOK
    <2>3. "windowForOper" \in Ids
      BY FormIds DEF FormKinds, BusForms
    <2>4. QED
      BY <1>1, <2>1, <2>2, <2>3 DEF WindowInv
  <1>12. PageInv
    BY <1>3, <1>9, <1>11 DEF PageInv
  <1>13. QED
    BY <1>1, <1>6, <1>7, <1>8, <1>10, <1>12 DEF IInv, SidePart, SideInv, Followed

\* every step keeps it,
LEMMA NextIInv == IInv /\ [Next]_vars => IInv'
  <1> SUFFICES ASSUME IInv, [Next]_vars PROVE IInv'
    OBVIOUS
  <1>1. CASE UseSidebar
    BY <1>1, UseSidebarKeeps
  <1>2. CASE UseTabs
    BY <1>2, UseTabsKeeps
  <1>3. CASE \E form \in MenuItems : busCollHandle(form)
    BY <1>3, MenuClickedKeeps
  <1>4. CASE Submit \/ windowForOperClose \/ \E g \in Groups \cap given : PickGroup(g)
    BY <1>4, FormsKeep
  <1>5. CASE \E id \in Tabs : TabAnswered(id)
    BY <1>5, TabAnsweredKeeps
  <1>6. CASE \E form \in MenuItems, g \in Groups \cap given : MenuAnswered(form, g)
    BY <1>6, MenuAnsweredKeeps
  <1>7. CASE \E call \in BagToSet(calls) : Answered(call) \/ Fails(call)
    BY <1>7, AnsweredKeepsPage, FailsKeeps
  <1>8. CASE ServerExecutes
    BY <1>8, ServerExecutesKeeps
  <1>9. CASE OthersChange
    BY <1>9, OthersChangeKeeps
  <1>10. CASE UNCHANGED vars
    <2>1. /\ UNCHANGED sidebarVars /\ UNCHANGED tabVars /\ UNCHANGED serverVars
          /\ UNCHANGED <<calls, tabCalls>> /\ UNCHANGED windowVars /\ UNCHANGED astray
      BY <1>10 DEF vars, pageVars
    <2>2. UNCHANGED sideBarSelectedItem
      BY <2>1 DEF sidebarVars
    <2>3. SidePart'
      BY <2>1, SideStays, StrayStays DEF IInv, SidePart, Followed
    <2>4. QED
      BY <2>1, <2>2, <2>3, BarStays, ServerStays, PageStays DEF IInv
  <1>11. QED
    BY <1>1, <1>2, <1>3, <1>4, <1>5, <1>6, <1>7, <1>8, <1>9, <1>10 DEF Next, User, Answer

\* and so it always holds.
LEMMA IInvHolds == Spec => []IInv
  BY InitIInv, NextIInv, PTL DEF Spec

-----------------------------------------------------------------------------
(* What follows for the page.                                              *)

\* The parents, branches and counts of the tree agree, whatever is added,
\* moved, deleted and merged in, in whatever order the answers come; but for
\* an item that goes astray, which stays in one branch.
THEOREM TreeStaysConsistent == Spec => []TreeConsistent
  <1>1. IInv => TreeConsistent
    <2> SUFFICES ASSUME IInv PROVE TreeConsistent
      OBVIOUS
    <2>1. CASE Followed
      <3>1. Good(tree) /\ astray = {}
        BY <2>1, PartsOf DEF SideInv, TreeInv, Followed
      <3>2. /\ tree \in Stores
            /\ \A p \in Items \cup {Root} : tree.branch[p] = {i \in tree.pull : tree.parent[i] = p}
            /\ \A i \in tree.pull : tree.count[i] = Cardinality(tree.branch[i])
            /\ \A i \in tree.pull : tree.parent[i] \in tree.pull \cup {Root}
        BY <3>1 DEF Good, Consistent, ParentsAgree, CountsAgree, ParentsThere
      <3>3. \A p \in Items \cup {Root} :
              tree.branch[p] \ astray = {i \in tree.pull \ astray : tree.parent[i] = p}
        BY <3>1, <3>2
      <3>4. QED
        BY <3>1, <3>2, <3>3 DEF TreeConsistent
    <2>2. CASE ~Followed
      BY <2>2 DEF IInv, SidePart, StrayInv
    <2>3. QED
      BY <2>1, <2>2
  <1>2. QED
    BY <1>1, IInvHolds, PTL

\* At most one branch is open, one that has children, and none in the
\* collapsed sidebar.
THEOREM OneBranchIsOpen == Spec => []OneBranchOpen
  <1>1. IInv => OneBranchOpen
    <2> SUFFICES ASSUME IInv PROVE OneBranchOpen
      OBVIOUS
    <2>1. tree \in Stores /\ OpenOK(tree, collapsed)
      <3>1. CASE Followed
        BY <3>1, PartsOf DEF SideInv, TreeInv, Good
      <3>2. CASE ~Followed
        BY <3>2 DEF IInv, SidePart, StrayInv, TreeConsistent
      <3>3. QED
        BY <3>1, <3>2
    <2>2. /\ \A g, h \in tree.open : g = h
          /\ \A g \in tree.open : g \in tree.pull /\ tree.count[g] # 0
          /\ collapsed => tree.open = {}
      BY <2>1 DEF OpenOK
    <2>3. Cardinality(tree.open) <= 1
      <3>1. CASE tree.open = {}
        BY <3>1, FS_EmptySet
      <3>2. CASE tree.open # {}
        <4>1. PICK g \in tree.open : TRUE
          BY <3>2
        <4>2. tree.open = {g}
          BY <2>2, <4>1
        <4>3. QED
          BY <4>2, FS_Singleton
      <3>3. QED
        BY <3>1, <3>2
    <2>4. \A g \in tree.open : tree.count[g] > 0
      <3>1. tree.count \in [Items -> Nat] /\ tree.open \subseteq Items
        BY <2>1 DEF Stores
      <3>2. QED
        BY <2>2, <3>1
    <2>5. QED
      BY <2>2, <2>3, <2>4 DEF OneBranchOpen
  <1>2. QED
    BY <1>1, IInvHolds, PTL

\* What is selected is in the store, and the group it is in is marked; but
\* for an item that a reload has given another parent.
THEOREM SelectionIsMarked == Spec => []SelectionMarked
  <1>1. IInv => SelectionMarked
    <2>1. IInv /\ Followed => SelectionMarked
      BY PartsOf DEF SideInv, SelectInv, GroupMarked, SelectionMarked
    <2>2. IInv /\ ~Followed => SelectionMarked
      BY DEF IInv, SidePart, StrayInv
    <2>3. QED
      BY <2>1, <2>2
  <1>2. QED
    BY <1>1, IInvHolds, PTL

\* What is painted is what the store has, although each operation paints
\* only what it takes to be touched.
THEOREM PageIsPainted == Spec => []PaintedInStep
  <1>1. IInv => PaintedInStep
    <2>1. IInv /\ Followed => PaintedInStep
      BY PartsOf DEF SideInv, TreeInv
    <2>2. IInv /\ ~Followed => PaintedInStep
      BY DEF IInv, SidePart, StrayInv
    <2>3. QED
      BY <2>1, <2>2
  <1>2. QED
    BY <1>1, IInvHolds, PTL

\* The popup that is shown and was not overtaken by a request says what the
\* tree says.
THEOREM PopupSaysTree == Spec => []PopupInStep
  <1>1. IInv => PopupInStep
    <2>1. IInv /\ Followed => PopupInStep
      BY PartsOf DEF SideInv, PopupInv
    <2>2. IInv /\ ~Followed => PopupInStep
      BY DEF IInv, SidePart, StrayInv
    <2>3. QED
      BY <2>1, <2>2
  <1>2. QED
    BY <1>1, IInvHolds, PTL

\* The option that is chosen in the bar is the view on the screen.
THEOREM BarAndScreenAgree == Spec => []BarShowsView
  <1>1. IInv => BarShowsView
    BY DEF IInv, BarInv
  <1>2. QED
    BY <1>1, IInvHolds, PTL

-----------------------------------------------------------------------------
(* What can vanish from the tree.                                          *)

\* In a good store the user can find everything,
LEMMA GoodListed ==
  ASSUME NEW t, Good(t)
  PROVE  Listed(t) = t.pull
  <1>1. \A i \in t.pull : /\ t.parent[i] \in (t.pull \cap Groups) \cup {Root}
                          /\ i \in t.branch[t.parent[i]]
    BY GoodFacts
  <1>2. t.branch[Root] = t.pull \cap Groups
    BY GoodFacts
  <1>3. QED
    BY <1>1, <1>2 DEF Listed

\* and then also where the store and its branches only grow.
LEMMA ListedGrows ==
  ASSUME NEW t, Good(t), NEW u, t.pull \subseteq u.pull,
         \A q \in Items \cup {Root} : t.branch[q] \subseteq u.branch[q]
  PROVE  t.pull \subseteq Listed(u)
  <1>1. \A i \in t.pull : /\ t.parent[i] \in (t.pull \cap Groups) \cup {Root}
                          /\ i \in t.branch[t.parent[i]]
    BY GoodFacts
  <1>2. t.branch[Root] = t.pull \cap Groups /\ t.pull \subseteq Items
    BY GoodFacts
  <1>3. \A i \in t.pull : i \in u.branch[t.parent[i]]
    BY <1>1, <1>2
  <1>4. t.pull \cap Groups \subseteq u.branch[Root] \cap u.pull
    BY <1>2
  <1>5. QED
    BY <1>1, <1>3, <1>4 DEF Listed

\* What the user does in the sidebar takes nothing out of the store.
LEMMA SidebarUserKeepsItems ==
  ASSUME Good(tree), SidebarUser
  PROVE  tree'.pull = tree.pull
  <1>1. \A id : /\ closedAll(tree).pull = tree.pull
                /\ opened(closedAll(tree), id).pull = tree.pull
                /\ closed(tree, id).pull = tree.pull
    BY DEF closedAll, opened, closed, Good, Stores
  <1>2. CASE Toggle
    BY <1>1, <1>2 DEF Toggle
  <1>3. CASE HidePopup \/ ClickTitle
    BY <1>3 DEF HidePopup, ClickTitle
  <1>4. ASSUME NEW id \in Items, ClickItem(id) PROVE tree'.pull = tree.pull
    <2>1. \/ tree' = tree \/ tree' = closedAll(tree) \/ tree' = opened(closedAll(tree), id)
          \/ tree' = closed(tree, id)
      BY <1>4 DEF ClickItem
    <2>2. QED
      BY <1>1, <2>1
  <1>5. ASSUME NEW id \in Items, MouseMove(id) \/ ClickListItem(id)
        PROVE  tree'.pull = tree.pull
    BY <1>5 DEF MouseMove, ClickListItem
  <1>6. QED
    BY <1>2, <1>3, <1>4, <1>5 DEF SidebarUser

\* How a business can vanish.
Excused(call, b) ==
  \/ call.op = "delBus" /\ call.item = tree.parent[b] /\ place[b] # tree.parent[b]
  \/ /\ call.op = "modifyBus" /\ b \in {selected} \cup tree.branch[selected]
     /\ \/ ids["busForm"] = 0
        \/ windows[ids["busForm"]].to \notin tree.pull
        \/ selected \in Groups

VanishesWell(b) ==
  b \in Businesses /\ place[b] \in groups =>
    \E call \in BagToSet(calls) :
      /\ Answered(call) /\ call.answer = "true" /\ Excused(call, b)

\* With the answer to a delete: the business is gone for good, or its group
\* is, and then the server has it in another.
LEMMA DeleteVanishesWell ==
  ASSUME SideInv, GivenInv, NEW call, call.op = "delBus", DeletedForGood(call.item),
         DeleteAnswered(call.item), NEW b \in Listed(tree) \ Listed(tree'),
         b \in Businesses, place[b] \in groups
  PROVE  Excused(call, b)
  <1> DEFINE id == call.item
  <1>1. Good(tree) /\ groups \subseteq Groups
    BY DEF SideInv, TreeInv, GivenInv
  <1>2. id \in tree.pull
    <2>1. id \notin tree.pull => tree' = tree
      BY DEF DeleteAnswered, sidebarVars
    <2>2. QED
      BY <2>1
  <1>3. tree' = Removed(tree, id)
    BY <1>2 DEF DeleteAnswered, RemoveItem, StoreChanged
  <1>4. Listed(tree) = tree.pull /\ Listed(tree') = tree.pull \ Gone(tree, id)
    BY <1>1, <1>2, <1>3, GoodListed, RemovedIsGood, RemovedFacts
  <1>5. b # id
    BY <1>1, Differ DEF DeletedForGood, Items
  <1>6. b \in tree.branch[id] /\ id \in Items
    BY <1>1, <1>2, <1>4, <1>5, GoodFacts DEF Gone
  <1>7. b \in tree.pull /\ tree.parent[b] = id
    BY <1>1, <1>6, GoodFacts
  <1>8. id \in Groups
    BY <1>1, <1>7, GoodFacts
  <1>9. place[b] # id
    BY <1>8 DEF DeletedForGood
  <1>10. QED
    BY <1>7, <1>9 DEF Excused

\* With the answer to a modification: what was selected.
LEMMA ModifyVanishesWell ==
  ASSUME SideInv, WindowInv, NEW call, call.op = "modifyBus", ModifyAnswered,
         NEW b \in Listed(tree) \ Listed(tree')
  PROVE  Excused(call, b)
  <1> DEFINE form == ids["busForm"]
             to == windows[form].to
  <1>1. Good(tree)
    BY DEF SideInv, TreeInv
  <1>2. selected # None => selected \in tree.pull
    BY DEF SideInv, SelectInv, GroupMarked
  <1>3. Listed(tree) = tree.pull
    BY <1>1, GoodListed
  <1>4. CASE selected = None
    BY <1>4 DEF ModifyAnswered, sidebarVars
  <1>5. CASE selected # None /\ form = 0
    <2>1. tree' = Removed(tree, selected)
      BY <1>5 DEF ModifyAnswered, RemoveItem, StoreChanged
    <2>2. Listed(tree') = tree.pull \ Gone(tree, selected)
      BY <1>1, <1>2, <1>5, <2>1, GoodListed, RemovedIsGood, RemovedFacts
    <2>3. b \in {selected} \cup tree.branch[selected]
      BY <1>3, <2>2 DEF Gone
    <2>4. QED
      BY <1>5, <2>3 DEF Excused
  <1>6. CASE selected # None /\ form # 0
    <2> DEFINE left == Removed(tree, selected)
    <2>1. MoveItem(selected, to)
      BY <1>6 DEF ModifyAnswered
    <2>2. to \in Groups
      BY <1>6, FormNamesGroup
    <2>3. tree' = Added(left, selected, to)
      BY <2>1 DEF MoveItem, StoreChanged
    <2>4. Good(left) /\ left.pull = tree.pull \ Gone(tree, selected) /\ selected \in Items \ left.pull
      BY <1>1, <1>2, <1>6, RemovedIsGood, RemovedFacts, GoodFacts DEF Gone
    <2>5. left.pull \subseteq Listed(tree')
      <3>1. left.pull \subseteq tree'.pull
        BY <2>2, <2>3, <2>4, AddedFacts
      <3>2. \A q \in Items \cup {Root} : left.branch[q] \subseteq tree'.branch[q]
        BY <2>2, <2>3, <2>4, AddedStrays
      <3>3. QED
        BY <2>4, <3>1, <3>2, ListedGrows
    <2>6. b \in {selected} \cup tree.branch[selected]
      BY <1>3, <2>4, <2>5 DEF Gone
    <2>7. CASE to \notin tree.pull \/ selected \in Groups
      BY <2>6, <2>7 DEF Excused
    <2>8. CASE to \in tree.pull /\ selected \notin Groups
      <3>1. selected \in tree.pull \cap Businesses /\ to \in tree.pull \cap Groups
        BY <1>1, <1>2, <1>6, <2>2, <2>8, GoodFacts DEF Items
      <3>2. SideInv' /\ tree'.pull = tree.pull
        BY <2>1, <3>1, MoveItemKeeps
      <3>3. Listed(tree') = tree.pull
        BY <3>2, GoodListed DEF SideInv, TreeInv
      <3>4. QED
        BY <1>3, <3>3
    <2>9. QED
      BY <2>7, <2>8
  <1>7. QED
    BY <1>4, <1>5, <1>6

\* What vanishes from the tree when an answer comes.
LEMMA AnswersVanishWell ==
  ASSUME IInv, NEW call \in BagToSet(calls), Answered(call),
         NEW b \in Listed(tree) \ Listed(tree')
  PROVE  VanishesWell(b)
  <1>1. SideInv /\ ServerInv /\ WindowInv /\ GivenInv /\ Good(tree)
    BY PartsOf DEF Answered, SideInv, TreeInv, ServerInv
  <1>2. CallOK(call) /\ call.op \in Operations
    BY <1>1 DEF ServerInv, CallOK
  <1>3. ~UNCHANGED sidebarVars
    BY DEF sidebarVars
  <1>4. SUFFICES ASSUME b \in Businesses, place[b] \in groups
                 PROVE  call.answer = "true" /\ Excused(call, b)
    BY DEF VanishesWell
  <1>5. CASE call.op = "load"
    <2>1. LoadTree(call.answer) /\ Disjoint(call.answer)
      BY <1>2, <1>5 DEF Answered, CallOK
    <2>2. tree' = Merged(tree, call.answer)
      BY <2>1 DEF LoadTree, StoreChanged
    <2>3. tree.pull \subseteq tree'.pull
      BY <1>1, <2>1, <2>2, MergedFacts
    <2>4. \A q \in Items \cup {Root} : tree.branch[q] \subseteq tree'.branch[q]
      BY <1>1, <2>1, <2>2, MergedStrays
    <2>5. QED
      BY <1>1, <2>3, <2>4, ListedGrows, GoodListed
  <1>6. CASE call.op = "delBus"
    <2>1. call.answer = "true" /\ DeleteAnswered(call.item)
      BY <1>3, <1>6 DEF Answered
    <2>2. DeletedForGood(call.item)
      BY <1>2, <1>6, <2>1 DEF CallOK
    <2>3. QED
      BY <1>1, <1>4, <1>6, <2>1, <2>2, DeleteVanishesWell
  <1>7. CASE call.op = "modifyBus"
    <2>1. call.answer = "true" /\ ModifyAnswered
      BY <1>3, <1>7 DEF Answered
    <2>2. QED
      BY <1>1, <1>7, <2>1, ModifyVanishesWell
  <1>8. CASE call.op \in {"addBus", "addBusColl", "modifyBusColl"}
    BY <1>3, <1>8 DEF Answered
  <1>9. QED
    BY <1>2, <1>5, <1>6, <1>7, <1>8 DEF Operations

\* A business that the server has in a group vanishes from where the user can
\* find it only with a group that was deleted while it was moved out behind
\* the page's back, or as what is selected when the answer to a modification
\* finds no form, or a form of a group that the tree has not, or a group
\* selected.
THEOREM VanishesOnlyHolds == Spec => VanishesOnly
  <1>1. IInv /\ [Next]_vars => [\A b \in Listed(tree) \ Listed(tree') : VanishesWell(b)]_vars
    <2> SUFFICES ASSUME IInv, [Next]_vars, NEW b \in Listed(tree) \ Listed(tree')
                 PROVE  VanishesWell(b)
      OBVIOUS
    <2>1. tree' # tree
      OBVIOUS
    <2>2. CASE UseSidebar
      <3>1. SideInv /\ Good(tree) /\ SidebarUser
        BY <2>2, PartsOf DEF SideInv, TreeInv, UseSidebar, Act
      <3>2. Good(tree')
        BY <3>1, SidebarUserKeeps DEF SideInv, TreeInv
      <3>3. Listed(tree) = tree.pull /\ Listed(tree') = tree'.pull
        BY <3>1, <3>2, GoodListed
      <3>4. QED
        BY <3>1, <3>3, SidebarUserKeepsItems
    <2>3. CASE \E call \in BagToSet(calls) : Answered(call)
      BY <2>3, AnswersVanishWell
    <2>4. CASE \/ UseTabs \/ Submit \/ windowForOperClose
               \/ \E form \in MenuItems : busCollHandle(form)
               \/ \E g \in Groups \cap given : PickGroup(g)
      <3>1. ClickElsewhere
        BY <2>4 DEF UseTabs, Submit, windowForOperClose, busCollHandle, PickGroup
      <3>2. QED
        BY <2>1, <3>1 DEF ClickElsewhere
    <2>5. CASE ServerExecutes \/ OthersChange \/ UNCHANGED vars
      BY <2>1, <2>5 DEF ServerExecutes, OthersChange, vars, sidebarVars
    <2>6. CASE \/ \E id \in Tabs : TabAnswered(id)
               \/ \E form \in MenuItems, g \in Groups \cap given : MenuAnswered(form, g)
               \/ \E call \in BagToSet(calls) : Fails(call)
      BY <2>1, <2>6 DEF TabAnswered, MenuAnswered, Fails, sidebarVars
    <2>7. QED
      BY <2>2, <2>3, <2>4, <2>5, <2>6 DEF Next, User, Answer
  <1>2. [\A b \in Listed(tree) \ Listed(tree') : VanishesWell(b)]_vars
          => [\A b \in Listed(tree) \ Listed(tree') :
                b \in Businesses /\ place[b] \in groups =>
                  \E call \in BagToSet(calls) :
                    /\ Answered(call) /\ call.answer = "true"
                    /\ \/ call.op = "delBus" /\ call.item = tree.parent[b] /\ place[b] # tree.parent[b]
                       \/ /\ call.op = "modifyBus" /\ b \in {selected} \cup tree.branch[selected]
                          /\ \/ ids["busForm"] = 0
                             \/ windows[ids["busForm"]].to \notin tree.pull
                             \/ selected \in Groups]_vars
    BY DEF VanishesWell, Excused
  <1>3. QED
    BY <1>1, <1>2, IInvHolds, PTL DEF Spec, VanishesOnly

-----------------------------------------------------------------------------
(* Uploader: the inductive invariant.                                      *)

\* A window that has not been opened has no callback, so that the next one
\* starts without.
FreshWindows == \A w \in Windows : w > Len(kind) => fs[w] = "none"

UploaderInv == UploaderTypeOK /\ FreshWindows /\ WaitsForSomething /\ SubmitNeverWaits

\* The open window is one of the windows.
LEMMA CurrentIsWindow ==
  ASSUME UploaderTypeOK, current # 0
  PROVE  current \in Windows /\ current <= Len(kind)
  BY WindowAssumption DEF UploaderTypeOK, Windows

LEMMA InitUploaderInv == UploaderInit => UploaderInv
  <1> SUFFICES ASSUME UploaderInit PROVE UploaderInv
    OBVIOUS
  <1>1. UploaderTypeOK
    BY WindowAssumption DEF UploaderInit, UploaderTypeOK, Windows, Loaded
  <1>2. FreshWindows /\ SubmitNeverWaits
    BY DEF UploaderInit, FreshWindows, SubmitNeverWaits
  <1>3. WaitsForSomething
    BY DEF UploaderInit, WaitsForSomething
  <1>4. QED
    BY <1>1, <1>2, <1>3 DEF UploaderInv

-----------------------------------------------------------------------------
(* Opening and closing.                                                    *)

LEMMA OpenWindowStep ==
  ASSUME UploaderInv, NEW k \in Kinds, OpenWindow(k)
  PROVE  UploaderInv'
  <1>1. Len(kind) \in Nat /\ Len(kind) + 1 \in Windows /\ Len(kind') = Len(kind) + 1
    BY WindowAssumption DEF UploaderInv, UploaderTypeOK, OpenWindow, Windows
  <1>2. fs[Len(kind) + 1] = "none"
    BY <1>1 DEF UploaderInv, FreshWindows
  <1>3. UploaderTypeOK'
    <2>1. kind' \in Seq(Kinds) /\ Len(kind') <= MaxWindows /\ current' \in 0..Len(kind')
      BY <1>1 DEF UploaderInv, UploaderTypeOK, OpenWindow, Windows
    <2>2. messageTree' \in [of : 0..MaxWindows, file : 0..MaxFiles, bad : BOOLEAN]
      BY <1>1, WindowAssumption DEF OpenWindow, Loaded, Windows
    <2>3. QED
      BY <2>1, <2>2 DEF UploaderInv, UploaderTypeOK, OpenWindow
  <1>4. FreshWindows'
    BY <1>1 DEF UploaderInv, FreshWindows, OpenWindow, Windows
  <1>5. WaitsForSomething'
    BY <1>2 DEF WaitsForSomething, OpenWindow
  <1>6. SubmitNeverWaits'
    BY DEF UploaderInv, SubmitNeverWaits, OpenWindow
  <1>7. QED
    BY <1>3, <1>4, <1>5, <1>6 DEF UploaderInv

LEMMA CloseWindowStep ==
  ASSUME UploaderInv, CloseWindow \/ SubmitNew
  PROVE  UploaderInv'
  <1>1. UploaderTypeOK'
    BY DEF UploaderInv, UploaderTypeOK, CloseWindow, SubmitNew
  <1>2. FreshWindows' /\ SubmitNeverWaits'
    BY DEF UploaderInv, FreshWindows, SubmitNeverWaits, CloseWindow, SubmitNew
  <1>3. WaitsForSomething'
    BY DEF WaitsForSomething, CloseWindow, SubmitNew
  <1>4. QED
    BY <1>1, <1>2, <1>3 DEF UploaderInv

-----------------------------------------------------------------------------
(* Sending.                                                                *)

\* A file that is added is sent at once, and keeps the callback waiting.
LEMMA AddFileStep ==
  ASSUME UploaderInv, AddFile
  PROVE  UploaderInv'
  <1> DEFINE statuses == Append(files[current], "client")
             last == Len(files[current]) + 1
             clients == {i \in DOMAIN statuses : statuses[i] = "client"}
             sent == [i \in DOMAIN statuses |->
                        IF i \in clients THEN "transfer" ELSE statuses[i]]
  <1>1. current \in Windows /\ current <= Len(kind)
    BY CurrentIsWindow DEF UploaderInv, AddFile
  <1>2. statuses \in Seq(Statuses) /\ last \in 1..MaxFiles /\ Len(statuses) = last
    BY <1>1, WindowAssumption DEF UploaderInv, UploaderTypeOK, AddFile, Statuses
  <1>3. last \in clients /\ DOMAIN statuses = 1..last /\ statuses[last] = "client"
    BY <1>1, <1>2 DEF UploaderInv, UploaderTypeOK
  <1> HIDE DEF statuses, last
  <1>4. sent \in Seq(Statuses) /\ DOMAIN sent = 1..last /\ sent[last] = "transfer"
        /\ \A i \in DOMAIN sent : sent[i] # "client"
    <2>1. \A i \in 1..last : sent[i] \in Statuses
      BY <1>2, <1>3 DEF Statuses
    <2>2. sent \in Seq(Statuses)
      BY <2>1, <1>2, <1>3
    <2>3. QED
      BY <2>2, <1>3
  <1>5. /\ files' = [files EXCEPT ![current] = sent]
        /\ onTheWay' = onTheWay \cup {<<current, i>> : i \in clients}
        /\ fs' = [fs EXCEPT ![current] = "show"]
        /\ UNCHANGED <<kind, current, messageTree, posts>>
        /\ isFileAdd' \in {1, isFileAdd}
    BY <1>3 DEF AddFile, send, statuses
  <1> HIDE DEF sent
  <1>6. clients \subseteq 1..MaxFiles
    BY <1>2, <1>3, WindowAssumption
  <1> HIDE DEF clients
  <1>7. UploaderTypeOK'
    BY <1>1, <1>4, <1>5, <1>6 DEF UploaderInv, UploaderTypeOK
  <1>8. FreshWindows'
    BY <1>1, <1>5 DEF UploaderInv, UploaderTypeOK, FreshWindows, Windows
  <1>9. files'[current] = sent /\ ~isUploaded(sent)
    <2>1. files'[current] = sent
      BY <1>1, <1>5 DEF UploaderInv, UploaderTypeOK
    <2>2. last \in DOMAIN sent
      BY <1>2, <1>4
    <2>3. QED
      BY <2>1, <2>2, <1>4 DEF isUploaded
  <1>10. WaitsForSomething'
    BY <1>5, <1>9 DEF WaitsForSomething
  <1>11. SubmitNeverWaits'
    BY <1>1, <1>4, <1>5 DEF UploaderInv, UploaderTypeOK, SubmitNeverWaits
  <1>12. QED
    BY <1>7, <1>8, <1>10, <1>11 DEF UploaderInv

\* With no file that is still to be sent, send posts at once.
LEMMA SubmitStep ==
  ASSUME UploaderInv, SubmitEdit
  PROVE  UploaderInv'
  <1>1. current \in Windows /\ current <= Len(kind)
    BY CurrentIsWindow DEF UploaderInv, SubmitEdit
  <1>2. \A i \in DOMAIN files[current] : files[current][i] # "client"
    BY <1>1 DEF UploaderInv, SubmitNeverWaits
  <1>3. \/ UNCHANGED <<files, onTheWay, fs>>
        \/ UNCHANGED <<files, onTheWay>> /\ fs' = [fs EXCEPT ![current] = "none"]
    <2>1. CASE isFileAdd # 1
      BY <2>1 DEF SubmitEdit
    <2>2. CASE isFileAdd = 1
      <3> DEFINE clients == {i \in DOMAIN files[current] : files[current][i] = "client"}
      <3>1. clients = {}
        BY <1>2
      <3>2. send(current, files[current], "post")
        BY <2>2 DEF SubmitEdit
      <3>3. [i \in DOMAIN files[current] |->
               IF i \in clients THEN "transfer" ELSE files[current][i]] = files[current]
        BY <1>1, <3>1 DEF UploaderInv, UploaderTypeOK
      <3>4. files' = [files EXCEPT ![current] = files[current]] /\ onTheWay' = onTheWay
            /\ fs' = [fs EXCEPT ![current] = "none"]
        BY <3>1, <3>2, <3>3 DEF send
      <3>5. files' = files
        BY <1>1, <3>4 DEF UploaderInv, UploaderTypeOK
      <3>6. QED
        BY <3>4, <3>5
    <2>3. QED
      BY <2>1, <2>2
  <1>4. posts' = posts \cup {current} /\ isFileAdd' = 0 /\ UNCHANGED <<kind, current, messageTree>>
    BY <1>2 DEF SubmitEdit, send
  <1>5. UploaderTypeOK'
    BY <1>1, <1>3, <1>4 DEF UploaderInv, UploaderTypeOK
  <1>6. FreshWindows'
    BY <1>1, <1>3, <1>4 DEF UploaderInv, UploaderTypeOK, FreshWindows
  <1>7. WaitsForSomething'
    BY <1>1, <1>3, <1>4 DEF UploaderInv, UploaderTypeOK, WaitsForSomething
  <1>8. SubmitNeverWaits'
    BY <1>1, <1>3, <1>4 DEF UploaderInv, UploaderTypeOK, SubmitNeverWaits
  <1>9. QED
    BY <1>5, <1>6, <1>7, <1>8 DEF UploaderInv

LEMMA PostAnsweredStep ==
  ASSUME UploaderInv, NEW w \in Windows, PostAnswered(w)
  PROVE  UploaderInv'
  <1>1. Loaded(w) \in [of : 0..MaxWindows, file : 0..MaxFiles, bad : BOOLEAN]
    BY WindowAssumption DEF Loaded, Windows
  <1>2. UploaderTypeOK'
    BY <1>1 DEF UploaderInv, UploaderTypeOK, PostAnswered
  <1>3. FreshWindows' /\ SubmitNeverWaits' /\ WaitsForSomething'
    BY DEF UploaderInv, FreshWindows, SubmitNeverWaits, WaitsForSomething, PostAnswered
  <1>4. QED
    BY <1>2, <1>3 DEF UploaderInv

-----------------------------------------------------------------------------
(* Answers.                                                                *)

\* The callback of a file that was chosen runs and is gone, unless no window
\* is open; that of a window without one changes nothing.
LEMMA RunCallbackFacts ==
  ASSUME UploaderInv, NEW w \in Windows, NEW i \in 1..MaxFiles,
         NEW answer \in {"tree", "false", "none"}, RunCallback(w, i, answer)
  PROVE  /\ fs' = fs \/ (fs' = [fs EXCEPT ![w] = "none"])
         /\ current # 0 => fs'[w] = "none"
         /\ messageTree' \in [of : 0..MaxWindows, file : 0..MaxFiles, bad : BOOLEAN]
         /\ posts' = posts
  <1>1. fs[w] \in {"none", "show"} /\ fs \in [Windows -> {"none", "show", "post"}]
    BY DEF UploaderInv, UploaderTypeOK, SubmitNeverWaits
  <1>2. messageTree \in [of : 0..MaxWindows, file : 0..MaxFiles, bad : BOOLEAN]
    BY DEF UploaderInv, UploaderTypeOK
  <1>3. CASE fs[w] = "none"
    BY <1>1, <1>2, <1>3 DEF RunCallback
  <1>4. CASE fs[w] = "show"
    <2>1. /\ Show(w, i, answer) /\ UNCHANGED posts
          /\ fs' = [fs EXCEPT ![w] =
                     IF current = 0 /\ ~(kind[w] = "add" /\ answer = "false")
                     THEN fs[w] ELSE "none"]
      BY <1>4 DEF RunCallback
    <2>2. messageTree' \in [of : 0..MaxWindows, file : 0..MaxFiles, bad : BOOLEAN]
      BY <2>1, <1>2, WindowAssumption DEF Show, Windows
    <2>3. fs' = fs \/ (fs' = [fs EXCEPT ![w] = "none"])
      BY <2>1, <1>1
    <2>4. current # 0 => fs'[w] = "none"
      BY <2>1, <1>1
    <2>5. QED
      BY <2>1, <2>2, <2>3, <2>4
  <1>5. QED
    BY <1>1, <1>3, <1>4

LEMMA AnsweredStep ==
  ASSUME UploaderInv, NEW w \in Windows, NEW i \in 1..MaxFiles,
         NEW answer \in {"tree", "false", "none"}, FileAnswered(w, i, answer)
  PROVE  UploaderInv'
  <1> DEFINE status == IF answer = "none" THEN "error" ELSE "server"
  <1>1. files \in [Windows -> Seq(Statuses)] /\ files' = [files EXCEPT ![w][i] = status]
        /\ onTheWay' \subseteq onTheWay /\ UNCHANGED <<kind, current, isFileAdd>>
    BY DEF UploaderInv, UploaderTypeOK, FileAnswered
  <1>2. /\ files'[w] = [files[w] EXCEPT ![i] = status]
        /\ \A v \in Windows \ {w} : files'[v] = files[v]
    BY <1>1
  <1>3. status \in Statuses /\ status # "client"
    BY DEF Statuses
  <1> HIDE DEF status
  <1>4. files'[w] \in Seq(Statuses)
    <2>1. files[w] \in Seq(Statuses)
      BY <1>1
    <2>2. DOMAIN files'[w] = 1..Len(files[w]) /\ Len(files[w]) \in Nat
      BY <2>1, <1>2
    <2>3. \A j \in 1..Len(files[w]) : files'[w][j] \in Statuses
      BY <2>1, <1>2, <1>3
    <2>4. files'[w] \in [1..Len(files[w]) -> Statuses]
      <3>1. files'[w] = [j \in 1..Len(files[w]) |-> files'[w][j]]
        BY <2>2, <1>2
      <3>2. QED
        BY <2>3, <3>1
    <2>5. QED
      BY <2>2, <2>4, SeqDef
  <1>5. files' \in [Windows -> Seq(Statuses)]
    BY <1>1, <1>2, <1>4
  <1>6. /\ fs' = fs \/ (fs' = [fs EXCEPT ![w] = "none"])
        /\ messageTree' \in [of : 0..MaxWindows, file : 0..MaxFiles, bad : BOOLEAN]
        /\ posts' = posts
    <2>1. CASE answer # "none" /\ isUploaded(files'[w])
      BY <2>1, RunCallbackFacts DEF FileAnswered
    <2>2. CASE ~(answer # "none" /\ isUploaded(files'[w]))
      BY <2>2 DEF FileAnswered, UploaderInv, UploaderTypeOK
    <2>3. QED
      BY <2>1, <2>2
  <1>7. fs \in [Windows -> {"none", "show", "post"}]
    BY DEF UploaderInv, UploaderTypeOK
  <1>8. UploaderTypeOK'
    BY <1>1, <1>5, <1>6, <1>7 DEF UploaderInv, UploaderTypeOK
  <1>9. FreshWindows'
    BY <1>1, <1>6, <1>7 DEF UploaderInv, FreshWindows
  <1>10. SubmitNeverWaits'
    <2>1. \A j \in DOMAIN files'[w] : files'[w][j] # "client"
      BY <1>1, <1>2, <1>3 DEF UploaderInv, SubmitNeverWaits
    <2>2. QED
      BY <2>1, <1>2, <1>6, <1>7 DEF UploaderInv, SubmitNeverWaits
  <1>11. WaitsForSomething'
    <2> SUFFICES ASSUME current # 0, fs'[current] # "none"
                 PROVE  ~isUploaded(files'[current])
      BY <1>1 DEF WaitsForSomething
    <2>1. current \in Windows
      BY CurrentIsWindow DEF UploaderInv
    <2>2. fs[current] # "none" /\ ~isUploaded(files[current])
      BY <2>1, <1>6, <1>7 DEF UploaderInv, WaitsForSomething
    <2>3. CASE current # w
      BY <2>1, <2>2, <2>3, <1>2
    <2>4. CASE current = w /\ answer # "none"
      BY <2>4, RunCallbackFacts DEF FileAnswered
    <2>5. CASE current = w /\ answer = "none"
      <3>1. status = "error"
        BY <2>5 DEF status
      <3>2. CASE i \in DOMAIN files[w]
        BY <3>1, <3>2, <2>5, <1>1, <1>2 DEF isUploaded
      <3>3. CASE i \notin DOMAIN files[w]
        BY <3>3, <2>2, <2>5, <1>1, <1>2 DEF isUploaded
      <3>4. QED
        BY <3>2, <3>3
    <2>6. QED
      BY <2>3, <2>4, <2>5
  <1>12. QED
    BY <1>8, <1>9, <1>10, <1>11 DEF UploaderInv

LEMMA ConnectionLostStep ==
  ASSUME UploaderInv, NEW w \in Windows, NEW i \in 1..MaxFiles, ConnectionLost(w, i)
  PROVE  UploaderInv'
  <1>1. UploaderTypeOK'
    BY DEF UploaderInv, UploaderTypeOK, ConnectionLost
  <1>2. FreshWindows' /\ SubmitNeverWaits' /\ WaitsForSomething'
    BY DEF UploaderInv, FreshWindows, SubmitNeverWaits, WaitsForSomething, ConnectionLost
  <1>3. QED
    BY <1>1, <1>2 DEF UploaderInv

LEMMA UploaderStutter ==
  ASSUME UploaderInv, UNCHANGED uploaderVars
  PROVE  UploaderInv'
  BY DEF UploaderInv, UploaderTypeOK, FreshWindows, SubmitNeverWaits, WaitsForSomething, uploaderVars

-----------------------------------------------------------------------------
LEMMA NextUploaderInv == UploaderInv /\ [UploaderNext]_uploaderVars => UploaderInv'
  <1> SUFFICES ASSUME UploaderInv, [UploaderNext]_uploaderVars PROVE UploaderInv'
    OBVIOUS
  <1>1. CASE UploaderUser
    BY <1>1, OpenWindowStep, CloseWindowStep, AddFileStep, SubmitStep DEF UploaderUser
  <1>2. CASE \E w \in Windows : PostAnswered(w)
    BY <1>2, PostAnsweredStep
  <1>3. CASE \E w \in Windows, i \in 1..MaxFiles : Settled(w, i)
    BY <1>3, AnsweredStep, ConnectionLostStep DEF Settled, AnswerTo
  <1>4. CASE UNCHANGED uploaderVars
    BY <1>4, UploaderStutter
  <1>5. QED
    BY <1>1, <1>2, <1>3, <1>4 DEF UploaderNext

\* The strengthened invariant, from which all three properties follow.
THEOREM UploaderInvHolds == UploaderSpec => []UploaderInv
  BY InitUploaderInv, NextUploaderInv, PTL DEF UploaderSpec

\* Windows, files, callbacks and trees stay within their types.
THEOREM UploaderTypeCorrect == UploaderSpec => []UploaderTypeOK
  <1>1. UploaderInv => UploaderTypeOK
    BY DEF UploaderInv
  <1>2. QED
    BY <1>1, UploaderInvHolds, PTL

\* A callback kept in the open window waits for a file that is not at the
\* server: none is left over once all answers have come (gs in webix.js).
THEOREM WaitsForSomethingHolds == UploaderSpec => []WaitsForSomething
  <1>1. UploaderInv => WaitsForSomething
    BY DEF UploaderInv
  <1>2. QED
    BY <1>1, UploaderInvHolds, PTL

\* The posts of the submit button never wait for an upload: with autosend in
\* the handlers no file is left to send when it is pressed.
THEOREM SubmitNeverWaitsHolds == UploaderSpec => []SubmitNeverWaits
  <1>1. UploaderInv => SubmitNeverWaits
    BY DEF UploaderInv
  <1>2. QED
    BY <1>1, UploaderInvHolds, PTL
=============================================================================
