--------------------------- MODULE CaseEditProofs ---------------------------
(* Theorems about CaseEdit, for any number of pages, requests to send,     *)
(* formats, edits and saves.                                               *)
EXTENDS CaseEdit, TLAPS

-----------------------------------------------------------------------------
(* The inductive invariant.                                                *)

Known(t, r) == \E o \in past : o.tree = t /\ o.result = r
KnownTree(t) == \E o \in past : o.tree = t

\* The row, and the tree and result of every form, are of one committed row.
Outlined ==
  /\ Present => Store!Outline(row) \in past
  /\ \A p \in Pages : form[p] # Unloaded => Known(form[p].tree, form[p].result)
  /\ \A p \in Pages : \A x \in formPost[p] :
       x.form # Unloaded => Known(x.form.tree, x.form.result)
  /\ row = NotYet => past = {}

\* What a request to send has read was a tree of the case, and what it has
\* got answers that tree.
SendKnown(s) ==
  /\ send[s].st = "read" => KnownTree(send[s].tree) /\ send[s].as \in Formats
  /\ send[s].st = "answered" /\ send[s].result # NoReply =>
       /\ send[s].result \in [tree : Trees, as : Formats]
       /\ send[s].result.tree = send[s].tree
       /\ KnownTree(send[s].tree)

\* Undisturbed, it is still the tree of the row.
SendCalm(s) ==
  /\ send[s].st = "read" \/ (send[s].st = "answered" /\ send[s].result # NoReply)
  /\ send[s].calm /\ Present
  => send[s].tree = row.tree

Sent == \A s \in Sends : SendKnown(s) /\ SendCalm(s)

\* A save nobody has crossed: what is on the way belongs to it, no post of
\* another save among it, and what has arrived is in the row.
AtMostOne(S) == \A x, y \in S : x = y

SaveOK(p) ==
  save[p] # None =>
    /\ Present
    /\ save[p].row.result = row.result
    /\ AtMostOne(formPost[p]) /\ AtMostOne(treePost[p])
    /\ \A x \in formPost[p] :
         x.form \in Rows /\ save[p].row = [x.form EXCEPT !.tree = save[p].row.tree]
    /\ \A x \in treePost[p] : x.tree = save[p].row.tree
    /\ formPost[p] = {} => [row EXCEPT !.tree = save[p].row.tree] = save[p].row
    /\ save[p].treeLast => Answered(p) /\ row = save[p].row

Saved == \A p \in Pages : SaveOK(p)

IInv == TypeOK /\ Outlined /\ Sent /\ Saved

-----------------------------------------------------------------------------
LEMMA ConvertedIsTree ==
  ASSUME NEW c \in Contents \cup {Empty}, NEW f \in Formats
  PROVE  Converted(c, f) \in Trees
  BY DEF Converted, Trees

\* Where there is a row, it is one, and no marker is a row.
LEMMA RowFacts ==
  ASSUME TypeOK
  PROVE  /\ Present <=> row \in Rows
         /\ None \notin Rows /\ Unloaded \notin Rows /\ Unloaded # None
         /\ Gone \notin Rows /\ NotYet \notin Rows /\ NotYet # Gone
         /\ None \notin Trees
  BY CaseAssumption DEF TypeOK, Present

LEMMA RowWithTree ==
  ASSUME NEW r \in Rows, NEW t \in Trees
  PROVE  /\ [r EXCEPT !.tree = t] \in Rows
         /\ [r EXCEPT !.tree = t].tree = t
         /\ [r EXCEPT !.tree = t].result = r.result
  BY DEF Rows

LEMMA RowWithResult ==
  ASSUME NEW r \in Rows, NEW x \in Results
  PROVE  /\ [r EXCEPT !.result = x] \in Rows
         /\ [r EXCEPT !.result = x].tree = r.tree
         /\ [r EXCEPT !.result = x].result = x
  BY DEF Rows

LEMMA RowWithLog ==
  ASSUME NEW r \in Rows, NEW l \in Logs
  PROVE  /\ [r EXCEPT !.log = l] \in Rows
         /\ [r EXCEPT !.log = l].tree = r.tree
         /\ [r EXCEPT !.log = l].result = r.result
  BY DEF Rows

LEMMA OutlineType ==
  ASSUME NEW r \in Rows
  PROVE  /\ Store!Outline(r) \in [tree : Trees, result : Results, format : Formats]
         /\ Store!Outline(r).tree = r.tree
         /\ Store!Outline(r).result = r.result
  BY DEF Rows, Store!Outline

LEMMA InitIInv == ASSUME Init PROVE IInv
  <1>1. TypeOK
    BY CaseAssumption DEF Init, TypeOK, SendStates, IdleSend, Results
  <1>2. ~Present
    BY <1>1, RowFacts DEF Init
  <1>3. QED
    BY <1>1, <1>2, CaseAssumption
    DEF Init, IInv, Outlined, Sent, SendKnown, SendCalm, Saved, SaveOK, IdleSend

-----------------------------------------------------------------------------
(* One step.                                                               *)

\* A committed row is outlined, and what was known stays known.
LEMMA CommitFacts ==
  ASSUME TypeOK, NEW r \in Rows, Commit(r)
  PROVE  /\ row' = r
         /\ past' = past \cup {Store!Outline(r)}
         /\ past' \subseteq [tree : Trees, result : Results, format : Formats]
         /\ Present'
         /\ Known(r.tree, r.result)'
         /\ \A t, x : Known(t, x) => Known(t, x)'
         /\ \A t : KnownTree(t) => KnownTree(t)'
  <1>1. r # Gone /\ r # NotYet
    BY RowFacts
  <1>2. row' = r /\ past' = past \cup {Store!Outline(r)}
    BY <1>1 DEF Commit
  <1>3. QED
    BY <1>1, <1>2, OutlineType DEF TypeOK, Present, Known, KnownTree

LEMMA AddCaseStep ==
  ASSUME IInv, NEW f \in Formats, NEW c \in Contents, NEW t \in Contents \cup {Empty},
         AddCase(f, c, t)
  PROVE  IInv'
  <1> DEFINE r == [fields |-> c, format |-> f, tree |-> Converted(t, f),
                   result |-> NoResult, log |-> Empty]
  <1> USE DEF IInv
  <1>1. r \in Rows
    BY ConvertedIsTree DEF Rows, Results, Logs
  <1>2. Commit(r) /\ row = NotYet
    BY DEF AddCase
  <1> HIDE DEF r
  <1>3. ~Present /\ past = {}
    BY <1>2, RowFacts DEF Outlined
  <1>4. TypeOK'
    BY <1>1, <1>2, CommitFacts DEF TypeOK, AddCase, Fresh
  <1>5. Outlined'
    BY <1>1, <1>2, CommitFacts, RowFacts DEF Outlined, AddCase
  <1>6. Sent'
    BY <1>2, <1>3 DEF Sent, SendKnown, SendCalm, KnownTree, AddCase
  <1>7. Saved'
    BY <1>3 DEF Saved, SaveOK, AddCase
  <1>8. QED
    BY <1>4, <1>5, <1>6, <1>7

LEMMA CalmOff ==
  ASSUME NEW x \in SendStates
  PROVE  /\ [x EXCEPT !.calm = FALSE] \in SendStates
         /\ [x EXCEPT !.calm = FALSE].st = x.st
         /\ [x EXCEPT !.calm = FALSE].tree = x.tree
         /\ [x EXCEPT !.calm = FALSE].as = x.as
         /\ [x EXCEPT !.calm = FALSE].result = x.result
         /\ ~[x EXCEPT !.calm = FALSE].calm
  BY DEF SendStates

LEMMA StartledType ==
  ASSUME TypeOK
  PROVE  /\ Startled \in [Sends -> SendStates]
         /\ \A s \in Sends :
              /\ Startled[s].st = send[s].st
              /\ Startled[s].tree = send[s].tree
              /\ Startled[s].as = send[s].as
              /\ Startled[s].result = send[s].result
              /\ Startled[s].calm => ~Present /\ send[s].calm
  <1>1. CASE Present
    <2>1. Startled = [s \in Sends |-> [send[s] EXCEPT !.calm = FALSE]]
      BY <1>1 DEF Startled
    <2>2. \A s \in Sends : send[s] \in SendStates
      BY DEF TypeOK
    <2>3. \A s \in Sends : Startled[s] = [send[s] EXCEPT !.calm = FALSE]
      BY <2>1
    <2>4. QED
      BY <2>1, <2>2, <2>3, CalmOff
  <1>2. CASE ~Present
    BY <1>2 DEF TypeOK, Startled
  <1>3. QED
    BY <1>1, <1>2

LEMMA RemoveCaseStep ==
  ASSUME IInv, RemoveCase
  PROVE  IInv'
  <1> USE DEF IInv
  <1>1. row' = Gone /\ past' = past /\ ~Present' /\ save' = [p \in Pages |-> None]
    BY RowFacts DEF RemoveCase, Commit, Present, Crossed
  <1>2. TypeOK'
    BY <1>1, StartledType DEF TypeOK, RemoveCase
  <1>3. Outlined'
    BY <1>1, RowFacts DEF Outlined, RemoveCase, Known
  <1>4. Sent'
    BY <1>1, StartledType DEF Sent, SendKnown, SendCalm, KnownTree, RemoveCase
  <1>5. Saved'
    BY <1>1 DEF Saved, SaveOK
  <1>6. QED
    BY <1>2, <1>3, <1>4, <1>5

LEMMA ModifyMessageLogUrlStep ==
  ASSUME IInv, NEW l \in Contents, ModifyMessageLogUrl(l)
  PROVE  IInv'
  <1> USE DEF IInv
  <1>1. l \in Logs
    BY DEF Logs
  <1>2. CASE ~Present
    <2>1. UNCHANGED <<row, past, save, send, form, formPost, treePost, shown, loading>>
      BY <1>2 DEF ModifyMessageLogUrl, UpdateRow, Crossed, TypeOK
    <2>2. TypeOK' /\ Outlined' /\ Sent' /\ Saved'
      BY <2>1 DEF TypeOK, Outlined, Known, KnownTree, Sent, SendKnown, SendCalm, Saved, SaveOK,
                  Answered, Present, ModifyMessageLogUrl, Fresh
    <2>3. QED
      BY <2>2
  <1>3. CASE Present
    <2> DEFINE r == [row EXCEPT !.log = l]
    <2>1. row \in Rows /\ r \in Rows /\ r.tree = row.tree /\ r.result = row.result
      BY <1>1, <1>3, RowFacts, RowWithLog
    <2>2. Commit(r) /\ save' = [p \in Pages |-> None]
      BY <1>3 DEF ModifyMessageLogUrl, UpdateRow, Crossed
    <2> HIDE DEF r
    <2>3. TypeOK'
      BY <2>1, <2>2, CommitFacts DEF TypeOK, ModifyMessageLogUrl, Fresh
    <2>4. Outlined'
      BY <2>1, <2>2, CommitFacts, RowFacts DEF Outlined, ModifyMessageLogUrl
    <2>5. Sent'
      BY <1>3, <2>1, <2>2, CommitFacts DEF Sent, SendKnown, SendCalm, ModifyMessageLogUrl
    <2>6. Saved'
      BY <2>2 DEF Saved, SaveOK
    <2>7. QED
      BY <2>3, <2>4, <2>5, <2>6
  <1>4. QED
    BY <1>2, <1>3

\* Steps of a page that do not touch the row.
LEMMA PageLoads ==
  ASSUME IInv, NEW p \in Pages, Open(p) \/ LoadForm(p) \/ LoadTree(p)
  PROVE  IInv'
  <1> USE DEF IInv
  <1>1. UNCHANGED <<row, formPost, treePost, send, past, save>>
    BY DEF Open, LoadForm, LoadTree
  <1>2. Sent' /\ Saved'
    BY <1>1 DEF Sent, SendKnown, SendCalm, KnownTree, Saved, SaveOK, Answered, Present
  <1>3. CASE LoadForm(p)
    <2>1. Loaded(p) \in Rows \cup {Unloaded}
      BY RowFacts DEF Loaded, TypeOK
    <2>2. Loaded(p) # Unloaded => Known(Loaded(p).tree, Loaded(p).result)
      BY RowFacts, OutlineType DEF Loaded, Outlined, Known
    <2>3. loading' \in [Pages -> [form : Nat, tree : Nat]]
      BY <1>3 DEF TypeOK, LoadForm
    <2>4. TypeOK'
      BY <1>1, <1>3, <2>1, <2>3 DEF TypeOK, LoadForm
    <2>5. Outlined'
      BY <1>1, <1>3, <2>2 DEF Outlined, LoadForm, TypeOK, Present, Known
    <2>6. QED
      BY <1>2, <2>4, <2>5
  <1>4. CASE Open(p)
    <2>1. TypeOK'
      BY <1>1, <1>4 DEF TypeOK, Open
    <2>2. Outlined'
      BY <1>1, <1>4 DEF Outlined, Open, Present, Known
    <2>3. QED
      BY <1>2, <2>1, <2>2
  <1>5. CASE LoadTree(p)
    <2>1. TreeData \in Contents \cup {Empty}
      BY RowFacts DEF TreeData, Rows, Trees
    <2>2. loading' \in [Pages -> [form : Nat, tree : Nat]]
      <3>1. loading' = [loading EXCEPT ![p].tree = @ - 1] /\ loading[p].tree > 0
        BY <1>5 DEF LoadTree
      <3>2. QED
        BY <3>1 DEF TypeOK
    <2>3. edits' \in 0..MaxEdits /\ saves' = saves /\ form' = form
      BY <1>5, CaseAssumption DEF TypeOK, LoadTree, Fresh
    <2>4. shown' \in [Pages -> Contents \cup {Empty, None}]
      BY <1>5, <2>1 DEF TypeOK, LoadTree
    <2>5. TypeOK'
      BY <1>1, <2>2, <2>3, <2>4 DEF TypeOK
    <2>6. Outlined'
      BY <1>1, <2>3 DEF Outlined, Present, Known
    <2>7. QED
      BY <1>2, <2>5, <2>6
  <1>6. QED
    BY <1>3, <1>4, <1>5

LEMMA EditedForm ==
  ASSUME NEW r \in Rows, NEW c \in Contents, NEW f \in Formats
  PROVE  /\ [r EXCEPT !.fields = c, !.format = f] \in Rows
         /\ [r EXCEPT !.fields = c, !.format = f].tree = r.tree
         /\ [r EXCEPT !.fields = c, !.format = f].result = r.result
  BY DEF Rows

LEMMA PageEdits ==
  ASSUME IInv, NEW p \in Pages, NEW c \in Contents, NEW f,
         (f \in Formats /\ EditFields(p, c, f)) \/ EditLog(p, c) \/ EditTree(p, c)
  PROVE  IInv'
  <1> USE DEF IInv
  <1>1. /\ UNCHANGED <<row, saves, formPost, treePost, send, past, save, loading>>
        /\ edits' \in 0..MaxEdits
    BY CaseAssumption DEF EditFields, EditLog, EditTree, Fresh, TypeOK
  <1>2. Sent' /\ Saved'
    BY <1>1 DEF Sent, SendKnown, SendCalm, KnownTree, Saved, SaveOK, Answered, Present
  <1>3. c \in Logs
    BY DEF Logs
  <1>4. CASE EditTree(p, c)
    BY <1>1, <1>2, <1>4 DEF EditTree, TypeOK, Outlined, Present, Known
  <1>5. CASE ~EditTree(p, c)
    <2>1. form[p] \in Rows
      BY <1>5 DEF EditFields, EditLog, TypeOK
    <2>2. PICK r \in Rows : /\ form' = [form EXCEPT ![p] = r]
                            /\ r.tree = form[p].tree /\ r.result = form[p].result
      <3>1. CASE f \in Formats /\ EditFields(p, c, f)
        <4> DEFINE r == [form[p] EXCEPT !.fields = c, !.format = f]
        <4>1. form' = [form EXCEPT ![p] = r]
          BY <3>1 DEF EditFields
        <4>2. r \in Rows /\ r.tree = form[p].tree /\ r.result = form[p].result
          BY <2>1, <3>1, EditedForm
        <4> HIDE DEF r
        <4>3. QED
          BY <4>1, <4>2
      <3>2. CASE EditLog(p, c)
        BY <1>3, <2>1, <3>2, RowWithLog DEF EditLog
      <3>3. QED
        BY <1>5, <3>1, <3>2
    <2>3. shown' = shown
      BY <1>5 DEF EditFields, EditLog
    <2>4. TypeOK'
      BY <1>1, <2>2, <2>3 DEF TypeOK
    <2>5. form[p] # Unloaded
      BY <2>1, RowFacts
    <2>6. Outlined'
      BY <1>1, <2>2, <2>5 DEF Outlined, TypeOK, Present, Known
    <2>7. QED
      BY <1>2, <2>4, <2>6
  <1>6. QED
    BY <1>4, <1>5

LEMMA SubmitStep ==
  ASSUME IInv, NEW p \in Pages, NEW f \in Formats, Submit(p, f)
  PROVE  IInv'
  <1> DEFINE t == Converted(shown[p], f)
             fp == [no |-> saves', form |-> form[p]]
             tp == [no |-> saves', tree |-> t]
  <1> USE DEF IInv
  <1>1. t \in Trees
    BY ConvertedIsTree DEF Submit, Opened, TypeOK
  <1>2. /\ formPost' = [formPost EXCEPT ![p] = @ \cup {fp}]
        /\ treePost' = [treePost EXCEPT ![p] = @ \cup {tp}]
        /\ UNCHANGED <<row, edits, form, shown, loading, send, past>>
        /\ saves' \in 1..MaxSaves
    BY CaseAssumption DEF Submit, TypeOK
  <1>3. save' = [save EXCEPT ![p] =
          IF Answered(p) /\ form[p] # Unloaded /\ Present /\ form[p].result = row.result
          THEN [row |-> [form[p] EXCEPT !.tree = t], treeLast |-> FALSE] ELSE None]
    BY DEF Submit
  <1> HIDE DEF t
  <1>4. form[p] # Unloaded =>
          /\ form[p] \in Rows
          /\ [form[p] EXCEPT !.tree = t] \in Rows
          /\ [form[p] EXCEPT !.tree = t].tree = t
          /\ [form[p] EXCEPT !.tree = t].result = form[p].result
    BY <1>1, RowWithTree DEF TypeOK
  <1>5. fp \in FormPosts /\ tp \in TreePosts
    BY <1>1, <1>2 DEF FormPosts, TreePosts, TypeOK
  <1>6. fp.form = form[p] /\ tp.tree = t
    OBVIOUS
  <1> HIDE DEF fp, tp
  <1>7. save' \in [Pages -> [row : Rows, treeLast : BOOLEAN] \cup {None}]
    BY <1>3, <1>4 DEF TypeOK
  <1>8. TypeOK'
    <2>1. formPost' \in [Pages -> SUBSET FormPosts] /\ treePost' \in [Pages -> SUBSET TreePosts]
      BY <1>2, <1>5 DEF TypeOK
    <2>2. saves' \in 0..MaxSaves
      BY <1>2
    <2>3. QED
      BY <1>2, <1>7, <2>1, <2>2 DEF TypeOK
  <1>9. Outlined'
    <2>1. ASSUME NEW q \in Pages, NEW x \in formPost'[q], x.form # Unloaded
          PROVE  Known(x.form.tree, x.form.result)'
      BY <1>2, <1>6, <2>1 DEF Outlined, TypeOK, Known
    <2>2. QED
      BY <1>2, <2>1 DEF Outlined, TypeOK, Present, Known
  <1>10. Sent'
    BY <1>2 DEF Sent, SendKnown, SendCalm, KnownTree, Present
  <1>11. Saved'
    <2> SUFFICES ASSUME NEW q \in Pages PROVE SaveOK(q)'
      BY DEF Saved
    <2>1. CASE q # p
      <3>1. save'[q] = save[q] /\ formPost'[q] = formPost[q] /\ treePost'[q] = treePost[q]
        BY <1>2, <1>3, <2>1 DEF TypeOK
      <3>2. QED
        BY <1>2, <3>1 DEF Saved, SaveOK, Present, Answered
    <2>2. CASE q = p
      <3>1. SUFFICES ASSUME save'[p] # None PROVE SaveOK(p)'
        BY <2>2 DEF SaveOK
      <3>2. /\ Answered(p) /\ form[p] # Unloaded /\ Present /\ form[p].result = row.result
            /\ save'[p] = [row |-> [form[p] EXCEPT !.tree = t], treeLast |-> FALSE]
        BY <1>3, <3>1 DEF TypeOK
      <3>3. formPost'[p] = {fp} /\ treePost'[p] = {tp}
        BY <1>2, <3>2 DEF TypeOK, Answered
      <3>4. Present' /\ row' = row
        BY <1>2, <3>2 DEF Present
      <3>5. /\ save'[p].row = [form[p] EXCEPT !.tree = t]
            /\ save'[p].treeLast = FALSE
        BY <3>2
      <3>6. save'[p].row.tree = t /\ save'[p].row.result = row'.result
        BY <1>4, <3>2, <3>4, <3>5
      <3>7. /\ fp.form \in Rows
            /\ save'[p].row = [fp.form EXCEPT !.tree = save'[p].row.tree]
            /\ tp.tree = save'[p].row.tree
        BY <1>4, <1>6, <3>2, <3>5, <3>6
      <3>8. QED
        BY <3>3, <3>4, <3>5, <3>6, <3>7 DEF SaveOK, AtMostOne
    <2>3. QED
      BY <2>1, <2>2
  <1>12. QED
    BY <1>8, <1>9, <1>10, <1>11

LEMMA ServeTreeFailsStep ==
  ASSUME IInv, NEW p \in Pages, NEW x \in treePost[p], ServeTreeFails(p, x)
  PROVE  IInv'
  <1> USE DEF IInv
  <1>1. /\ treePost' = [treePost EXCEPT ![p] = @ \ {x}]
        /\ UNCHANGED <<row, edits, saves, form, shown, loading, formPost, send, past, save>>
    BY DEF ServeTreeFails
  <1>2. TypeOK' /\ Outlined' /\ Sent'
    BY <1>1 DEF TypeOK, Outlined, Known, KnownTree, Sent, SendKnown, SendCalm, Present
  <1>3. \A q \in Pages : treePost'[q] \subseteq treePost[q]
    BY <1>1 DEF TypeOK
  <1>4. ASSUME NEW q \in Pages PROVE SaveOK(q)'
    BY <1>1, <1>3 DEF Saved, SaveOK, AtMostOne, Answered, Present
  <1>5. QED
    BY <1>2, <1>4 DEF Saved

\* The posts of a page.
LEMMA CrossedType ==
  ASSUME TypeOK, NEW Q \in SUBSET Pages
  PROVE  /\ Crossed(Q) \in [Pages -> [row : Rows, treeLast : BOOLEAN] \cup {None}]
         /\ \A q \in Pages : Crossed(Q)[q] # None => Crossed(Q)[q] = save[q]
         /\ Present => \A q \in Q : Crossed(Q)[q] = None
         /\ \A q \in Pages \ Q : Crossed(Q)[q] = save[q]
  BY DEF Crossed, TypeOK

\* What a write by a page leaves true of the requests to send.
LEMMA SentAfterWrite ==
  ASSUME IInv, NEW r \in Rows, Present, Commit(r), send' = Startled
  PROVE  Sent'
  BY CommitFacts, StartledType DEF IInv, Sent, SendKnown, SendCalm

LEMMA ServeFormStep ==
  ASSUME IInv, NEW p \in Pages, NEW x \in formPost[p], ServeForm(p, x)
  PROVE  IInv'
  <1> USE DEF IInv
  <1>1. /\ formPost' = [formPost EXCEPT ![p] = @ \ {x}]
        /\ UNCHANGED <<edits, saves, form, shown, treePost>>
        /\ x.form \in Rows \cup {Unloaded}
    BY DEF ServeForm, TypeOK, FormPosts
  <1>2. loading' \in [Pages -> [form : Nat, tree : Nat]]
    BY DEF ServeForm, TypeOK
  <1>3. /\ formPost' \in [Pages -> SUBSET FormPosts]
        /\ formPost'[p] = formPost[p] \ {x}
        /\ \A q \in Pages : formPost'[q] \subseteq formPost[q]
        /\ \A q \in Pages \ {p} : formPost'[q] = formPost[q]
    BY <1>1 DEF TypeOK
  <1>4. CASE x.form = Unloaded
    <2>1. UNCHANGED <<row, past, save, send>>
      BY <1>4 DEF ServeForm, HasId
    <2>2. save[p] = None
      BY <1>4, RowFacts DEF Saved, SaveOK
    <2>3. TypeOK' /\ Outlined' /\ Sent'
      BY <1>1, <1>2, <1>3, <2>1
      DEF TypeOK, Outlined, Known, KnownTree, Sent, SendKnown, SendCalm, Present
    <2>4. Saved'
      BY <1>1, <1>3, <2>1, <2>2 DEF Saved, SaveOK, Present, Answered
    <2>5. QED
      BY <2>3, <2>4
  <1>5. CASE x.form # Unloaded /\ ~Present
    <2>1. /\ UNCHANGED <<row, past>> /\ save' = save /\ send' = send
      BY <1>5 DEF ServeForm, HasId, UpdateRow, Crossed, Startled, TypeOK
    <2>2. TypeOK' /\ Outlined' /\ Sent'
      BY <1>1, <1>2, <1>3, <2>1
      DEF TypeOK, Outlined, Known, KnownTree, Sent, SendKnown, SendCalm, Present
    <2>3. Saved'
      BY <1>5, <2>1 DEF Saved, SaveOK, Present
    <2>4. QED
      BY <2>2, <2>3
  <1>6. CASE x.form # Unloaded /\ Present
    <2> DEFINE r == x.form
    <2>1. r \in Rows /\ Known(r.tree, r.result)
      BY <1>1, <1>6 DEF Outlined
    <2>2. Commit(r) /\ save' = Crossed(Pages \ {p}) /\ send' = Startled
      BY <1>6 DEF ServeForm, HasId, UpdateRow, FormColumns
    <2> HIDE DEF r
    <2>3. TypeOK'
      BY <1>1, <1>2, <1>3, <2>1, <2>2, CommitFacts, CrossedType, StartledType DEF TypeOK
    <2>4. Outlined'
      BY <1>1, <1>3, <2>1, <2>2, CommitFacts, RowFacts DEF Outlined
    <2>5. Sent'
      BY <1>6, <2>1, <2>2, SentAfterWrite
    <2>6. SaveOK(p)'
      <3>1. save'[p] = save[p]
        BY <2>2, CrossedType
      <3>2. SUFFICES ASSUME save[p] # None PROVE SaveOK(p)'
        BY <3>1 DEF SaveOK
      <3>3. /\ AtMostOne(formPost[p]) /\ AtMostOne(treePost[p])
            /\ save[p].row = [r EXCEPT !.tree = save[p].row.tree]
            /\ save[p].row.result = row.result
            /\ \A y \in treePost[p] : y.tree = save[p].row.tree
            /\ ~save[p].treeLast
        BY <3>2 DEF Saved, SaveOK, Answered, r
      <3>4. formPost'[p] = {} /\ treePost'[p] = treePost[p]
        BY <1>1, <1>3, <3>3 DEF AtMostOne
      <3>5. row' = r /\ Present'
        BY <2>1, <2>2, CommitFacts
      <3>6. save[p].row \in Rows
        BY <3>2 DEF TypeOK
      <3>7. save[p].row.tree \in Trees
        BY <3>6 DEF Rows
      <3>8. save[p].row.result = r.result
        BY <2>1, <3>3, <3>7, RowWithTree
      <3>9. QED
        BY <3>1, <3>3, <3>4, <3>5, <3>8 DEF SaveOK, AtMostOne
    <2>7. \A q \in Pages \ {p} : save'[q] = None
      BY <1>6, <2>2, CrossedType
    <2>8. Saved'
      BY <2>6, <2>7 DEF Saved, SaveOK
    <2>9. QED
      BY <2>3, <2>4, <2>5, <2>8
  <1>7. QED
    BY <1>4, <1>5, <1>6

LEMMA ServeTreeStep ==
  ASSUME IInv, NEW p \in Pages, NEW x \in treePost[p], ServeTree(p, x)
  PROVE  IInv'
  <1> DEFINE C == Crossed(Pages \ {p})
  <1> USE DEF IInv
  <1>1. /\ treePost' = [treePost EXCEPT ![p] = @ \ {x}]
        /\ shown' = [shown EXCEPT ![p] = Empty]
        /\ UNCHANGED <<edits, saves, form, formPost>>
        /\ send' = Startled
        /\ x.tree \in Trees
    BY DEF ServeTree, TypeOK, TreePosts
  <1>2. loading' \in [Pages -> [form : Nat, tree : Nat]]
    BY DEF ServeTree, TypeOK
  <1>3. /\ save' = [C EXCEPT ![p] =
             IF @ = None THEN None ELSE [@ EXCEPT !.treeLast = formPost[p] = {}]]
        /\ C \in [Pages -> [row : Rows, treeLast : BOOLEAN] \cup {None}]
        /\ C[p] = save[p]
    BY CrossedType DEF ServeTree
  <1> HIDE DEF C
  <1>4. /\ save'[p] = IF save[p] = None THEN None
                      ELSE [save[p] EXCEPT !.treeLast = formPost[p] = {}]
        /\ \A q \in Pages \ {p} : save'[q] = C[q]
        /\ save' \in [Pages -> [row : Rows, treeLast : BOOLEAN] \cup {None}]
    BY <1>3
  <1>5. /\ treePost' \in [Pages -> SUBSET TreePosts]
        /\ treePost'[p] = treePost[p] \ {x}
        /\ shown' \in [Pages -> Contents \cup {Empty, None}]
    BY <1>1 DEF TypeOK
  <1>6. CASE ~Present
    <2>1. UNCHANGED <<row, past, send>>
      BY <1>1, <1>6 DEF ServeTree, UpdateRow, Startled
    <2>2. save[p] = None /\ \A q \in Pages : C[q] # None => C[q] = save[q]
      BY <1>6, CrossedType DEF Saved, SaveOK, C
    <2>3. TypeOK'
      BY <1>1, <1>2, <1>4, <1>5, <2>1 DEF TypeOK
    <2>4. Outlined' /\ Sent'
      BY <1>1, <2>1 DEF Outlined, Known, KnownTree, Sent, SendKnown, SendCalm, Present
    <2>5. Saved'
      BY <1>4, <1>6, <2>2 DEF Saved, SaveOK
    <2>6. QED
      BY <2>3, <2>4, <2>5
  <1>7. CASE Present
    <2> DEFINE r == [row EXCEPT !.tree = x.tree]
    <2>1. row \in Rows /\ r \in Rows /\ r.tree = x.tree /\ r.result = row.result
      BY <1>1, <1>7, RowFacts, RowWithTree
    <2>2. Commit(r)
      BY <1>7 DEF ServeTree, UpdateRow, TreeColumns
    <2>3. save[p] # None /\ formPost[p] = {} => r = save[p].row
      BY DEF Saved, SaveOK
    <2> HIDE DEF r
    <2>4. TypeOK'
      BY <1>1, <1>2, <1>4, <1>5, <2>1, <2>2, CommitFacts, StartledType DEF TypeOK
    <2>5. Outlined'
      BY <1>1, <2>1, <2>2, CommitFacts, RowFacts DEF Outlined
    <2>6. Sent'
      BY <1>1, <1>7, <2>1, <2>2, SentAfterWrite
    <2>7. SaveOK(p)'
      <3>1. SUFFICES ASSUME save[p] # None PROVE SaveOK(p)'
        BY <1>4 DEF SaveOK
      <3>2. /\ save'[p].row = save[p].row
            /\ save'[p].treeLast => formPost[p] = {}
        BY <1>4, <3>1 DEF TypeOK
      <3>3. AtMostOne(formPost[p]) /\ AtMostOne(treePost[p])
        BY <3>1 DEF Saved, SaveOK
      <3>4. treePost'[p] = {} /\ formPost'[p] = formPost[p] /\ row' = r /\ Present'
        BY <1>1, <1>5, <2>1, <2>2, <3>3, CommitFacts DEF AtMostOne
      <3>5. save[p].row \in Rows /\ save[p].row.tree \in Trees
        BY <3>1 DEF TypeOK, Rows
      <3>6. save'[p].row.result = row'.result
        BY <2>1, <3>1, <3>2, <3>4 DEF Saved, SaveOK
      <3>7. \A y \in formPost'[p] :
              y.form \in Rows
              /\ save'[p].row = [y.form EXCEPT !.tree = save'[p].row.tree]
        <4>1. \A y \in formPost[p] :
                y.form \in Rows /\ save[p].row = [y.form EXCEPT !.tree = save[p].row.tree]
          BY <3>1 DEF Saved, SaveOK
        <4>2. QED
          BY <3>2, <3>4, <4>1
      <3>8. [save[p].row EXCEPT !.tree = save[p].row.tree] = save[p].row
        BY <3>5 DEF Rows
      <3>9. formPost'[p] = {} =>
              row' = save'[p].row /\ [row' EXCEPT !.tree = save'[p].row.tree] = save'[p].row
        BY <2>3, <3>1, <3>2, <3>4, <3>8
      <3>10. QED
        BY <3>2, <3>3, <3>4, <3>6, <3>7, <3>9 DEF SaveOK, AtMostOne, Answered
    <2>8. \A q \in Pages \ {p} : save'[q] = None
      BY <1>4, <1>7, CrossedType DEF C
    <2>9. Saved'
      BY <2>7, <2>8 DEF Saved, SaveOK
    <2>10. QED
      BY <2>4, <2>5, <2>6, <2>9
  <1>8. QED
    BY <1>6, <1>7

-----------------------------------------------------------------------------
(* The steps of a request to send.                                         *)

LEMMA SelectCaseStep ==
  ASSUME IInv, NEW s \in Sends, NEW f \in Formats, SelectCase(s, f)
  PROVE  IInv'
  <1> USE DEF IInv
  <1>1. UNCHANGED <<row, edits, saves, form, shown, loading, formPost, treePost, past, save>>
    BY DEF SelectCase
  <1>2. Outlined' /\ Saved'
    BY <1>1 DEF Outlined, Known, Saved, SaveOK, Answered, Present
  <1>3. send[s] \in SendStates /\ NoReply \in Results
    BY DEF TypeOK, Results
  <1>4. PICK x \in SendStates :
          /\ send' = [send EXCEPT ![s] = x]
          /\ x.st = "read" => Present /\ x.tree = row.tree /\ x.as = f
          /\ x.st = "answered" => x.result = NoReply
    <2>1. CASE Present
      <3> DEFINE x == [send[s] EXCEPT !.st = "read", !.tree = row.tree, !.as = f, !.calm = TRUE]
      <3>1. send' = [send EXCEPT ![s] = x]
        BY <2>1 DEF SelectCase
      <3>2. row.tree \in Trees
        BY <2>1, RowFacts DEF Rows
      <3>3. x \in SendStates /\ x.st = "read" /\ x.tree = row.tree /\ x.as = f
        BY <1>3, <3>2 DEF SendStates
      <3> HIDE DEF x
      <3>4. QED
        BY <2>1, <3>1, <3>3
    <2>2. CASE ~Present
      <3> DEFINE x == [send[s] EXCEPT !.st = "answered", !.result = NoReply]
      <3>1. send' = [send EXCEPT ![s] = x]
        BY <2>2 DEF SelectCase
      <3>2. x \in SendStates /\ x.st = "answered" /\ x.result = NoReply
        BY <1>3 DEF SendStates
      <3> HIDE DEF x
      <3>3. QED
        BY <3>1, <3>2
    <2>3. QED
      BY <2>1, <2>2
  <1>5. TypeOK'
    BY <1>1, <1>4 DEF TypeOK
  <1>6. Present => KnownTree(row.tree)
    BY RowFacts, OutlineType DEF Outlined, KnownTree
  <1>7. Sent'
    BY <1>1, <1>4, <1>6 DEF Sent, SendKnown, SendCalm, KnownTree, Present, TypeOK
  <1>8. QED
    BY <1>2, <1>5, <1>7

LEMMA SendDataStep ==
  ASSUME IInv, NEW s \in Sends, SendData(s)
  PROVE  IInv'
  <1> USE DEF IInv
  <1>1. UNCHANGED <<row, edits, saves, form, shown, loading, formPost, treePost, past, save>>
    BY DEF SendData
  <1>2. Outlined' /\ Saved'
    BY <1>1 DEF Outlined, Known, Saved, SaveOK, Answered, Present
  <1>3. /\ send[s] \in SendStates /\ send[s].st = "read"
        /\ KnownTree(send[s].tree) /\ send[s].as \in Formats
    BY DEF TypeOK, SendData, Sent, SendKnown
  <1>4. send[s].tree \in Trees
    BY <1>3 DEF KnownTree, TypeOK
  <1>5. PICK x \in {NoReply, [tree |-> send[s].tree, as |-> send[s].as]} :
          send' = [send EXCEPT ![s].st = "answered", ![s].result = x]
    BY DEF SendData, RepliesTo
  <1> DEFINE y == [send[s] EXCEPT !.st = "answered", !.result = x]
  <1>6. send' = [send EXCEPT ![s] = y]
    BY <1>5 DEF TypeOK
  <1>7. /\ x \in Results
        /\ x # NoReply => x \in [tree : Trees, as : Formats] /\ x.tree = send[s].tree
    BY <1>3, <1>4, <1>5 DEF Results
  <1>8. /\ y \in SendStates /\ y.st = "answered" /\ y.result = x
        /\ y.tree = send[s].tree /\ y.calm = send[s].calm
    BY <1>3, <1>7 DEF SendStates
  <1> HIDE DEF y
  <1>9. TypeOK'
    BY <1>1, <1>6, <1>8 DEF TypeOK
  <1>10. Sent'
    <2> SUFFICES ASSUME NEW q \in Sends PROVE SendKnown(q)' /\ SendCalm(q)'
      BY DEF Sent
    <2>1. CASE q # s
      <3>1. send'[q] = send[q]
        BY <1>6, <2>1 DEF TypeOK
      <3>2. QED
        BY <1>1, <3>1 DEF Sent, SendKnown, SendCalm, KnownTree, Present
    <2>2. CASE q = s
      <3>1. send'[q] = y
        BY <1>6, <2>2 DEF TypeOK
      <3>2. SendKnown(q)'
        BY <1>1, <1>3, <1>7, <1>8, <3>1 DEF SendKnown, KnownTree
      <3>3. SendCalm(q)'
        <4>1. send[s].calm /\ Present => send[s].tree = row.tree
          BY <1>3 DEF Sent, SendCalm
        <4>2. send'[q].calm => send[s].calm
          BY <1>8, <3>1
        <4>3. send'[q].tree = send[s].tree /\ row' = row /\ (Present' => Present)
          BY <1>1, <1>8, <3>1 DEF Present
        <4>4. QED
          BY <4>1, <4>2, <4>3 DEF SendCalm
      <3>4. QED
        BY <3>2, <3>3
    <2>3. QED
      BY <2>1, <2>2
  <1>11. QED
    BY <1>2, <1>9, <1>10

LEMMA SendFailsStep ==
  ASSUME IInv, NEW s \in Sends, SendFails(s)
  PROVE  IInv'
  <1> USE DEF IInv
  <1>1. UNCHANGED <<row, edits, saves, form, shown, loading, formPost, treePost, past, save>>
    BY DEF SendFails
  <1>2. Outlined' /\ Saved'
    BY <1>1 DEF Outlined, Known, Saved, SaveOK, Answered, Present
  <1>3. TypeOK' /\ Sent'
    BY <1>1 DEF SendFails, TypeOK, SendStates, Sent, SendKnown, SendCalm, KnownTree, Present
  <1>4. QED
    BY <1>2, <1>3

LEMMA ModifyResultStep ==
  ASSUME IInv, NEW s \in Sends, ModifyResult(s)
  PROVE  IInv'
  <1> USE DEF IInv
  <1>1. /\ UNCHANGED <<edits, saves, form, shown, loading, formPost, treePost>>
        /\ send' = [send EXCEPT ![s].st = "done"]
        /\ save' = Crossed(Pages)
        /\ send[s] \in SendStates /\ send[s].st = "answered"
    BY DEF ModifyResult, TypeOK
  <1>2. /\ send' \in [Sends -> SendStates] /\ send'[s].st = "done"
        /\ \A q \in Sends \ {s} : send'[q] = send[q]
    BY <1>1 DEF TypeOK, SendStates
  <1>3. CASE ~Present
    <2>1. UNCHANGED <<row, past>> /\ save' = save
      BY <1>1, <1>3 DEF ModifyResult, UpdateRow, Crossed, TypeOK
    <2>2. TypeOK' /\ Outlined'
      BY <1>1, <1>2, <2>1 DEF TypeOK, Outlined, Known, Present
    <2>3. Sent'
      BY <1>1, <1>2, <2>1 DEF KnownTree, Sent, SendKnown, SendCalm, Present
    <2>4. Saved'
      BY <1>1, <2>1 DEF Saved, SaveOK, Answered, Present
    <2>5. QED
      BY <2>2, <2>3, <2>4
  <1>4. CASE Present
    <2> DEFINE r == [row EXCEPT !.result = send[s].result]
    <2>1. row \in Rows /\ r \in Rows /\ r.tree = row.tree
      BY <1>1, <1>4, RowFacts, RowWithResult DEF SendStates
    <2>2. Commit(r)
      BY <1>4 DEF ModifyResult, UpdateRow
    <2>3. save' = [q \in Pages |-> None]
      BY <1>1, <1>4 DEF Crossed
    <2> HIDE DEF r
    <2>4. TypeOK'
      BY <1>1, <1>2, <2>1, <2>2, <2>3, CommitFacts DEF TypeOK
    <2>5. Outlined'
      BY <1>1, <2>1, <2>2, CommitFacts, RowFacts DEF Outlined
    <2>6. Sent'
      BY <1>2, <1>4, <2>1, <2>2, CommitFacts DEF Sent, SendKnown, SendCalm
    <2>7. Saved'
      BY <2>3 DEF Saved, SaveOK
    <2>8. QED
      BY <2>4, <2>5, <2>6, <2>7
  <1>5. QED
    BY <1>3, <1>4

-----------------------------------------------------------------------------
LEMMA NextIInv == ASSUME IInv, [Next]_vars PROVE IInv'
  <1>1. CASE \E f \in Formats, c \in Contents, t \in Contents \cup {Empty} : AddCase(f, c, t)
    BY <1>1, AddCaseStep
  <1>2. CASE RemoveCase
    BY <1>2, RemoveCaseStep
  <1>3. CASE \E l \in Contents : ModifyMessageLogUrl(l)
    BY <1>3, ModifyMessageLogUrlStep
  <1>4. ASSUME NEW p \in Pages, PageStep(p) PROVE IInv'
    <2>1. CASE Open(p) \/ LoadForm(p) \/ LoadTree(p)
      BY <2>1, PageLoads
    <2>2. ASSUME NEW c \in Contents, NEW f \in Formats, EditFields(p, c, f) PROVE IInv'
      BY <2>2, PageEdits
    <2>3. ASSUME NEW c \in Contents, EditLog(p, c) \/ EditTree(p, c) PROVE IInv'
      BY <2>3, PageEdits
    <2>4. CASE \E f \in Formats : Submit(p, f)
      BY <2>4, SubmitStep
    <2>5. CASE \E x \in formPost[p] : ServeForm(p, x)
      BY <2>5, ServeFormStep
    <2>6. CASE \E x \in treePost[p] : ServeTree(p, x)
      BY <2>6, ServeTreeStep
    <2>7. CASE \E x \in treePost[p] : ServeTreeFails(p, x)
      BY <2>7, ServeTreeFailsStep
    <2>8. QED
      BY <1>4, <2>1, <2>2, <2>3, <2>4, <2>5, <2>6, <2>7 DEF PageStep
  <1>5. ASSUME NEW s \in Sends, SendStep(s) PROVE IInv'
    BY <1>5, SelectCaseStep, SendDataStep, SendFailsStep, ModifyResultStep DEF SendStep
  <1>6. CASE UNCHANGED vars
    BY <1>6 DEF vars, IInv, TypeOK, Outlined, Known, KnownTree, Sent, SendKnown, SendCalm,
                Saved, SaveOK, Answered, Present
  <1>7. QED
    BY <1>1, <1>2, <1>3, <1>4, <1>5, <1>6 DEF Next

LEMMA Inductive == Spec => []IInv
  BY InitIInv, NextIInv, PTL DEF Spec

\* Type correctness of the row, the pages and the requests to send.
THEOREM TypeCorrect == Spec => []TypeOK
  <1>1. IInv => TypeOK
    BY DEF IInv
  <1>2. QED
    BY <1>1, Inductive, PTL

\* A save that nobody crosses, made from a form that has the result of the row
\* and with its tree stored after its form, leaves exactly what was posted
\* (CaseService.modifyCaseByCaseId and modifyTreeOfCaseByCaseId).
THEOREM UncontestedSaveKeptHolds == Spec => []UncontestedSaveKept
  <1>1. IInv => UncontestedSaveKept
    BY DEF IInv, Saved, SaveOK, UncontestedSaveKept
  <1>2. QED
    BY <1>1, Inductive, PTL

-----------------------------------------------------------------------------
(* The steps of a request, seen from the row.                              *)

\* An answered request is done only when its result is stored.
LEMMA DoneByModifyResult ==
  ASSUME TypeOK, Next, NEW s \in Sends, send[s].st = "answered", send'[s].st = "done"
  PROVE  ModifyResult(s)
  <1>1. \A q \in Sends : Startled[q].st = send[q].st
    BY StartledType
  <1>2. send'[s].st # send[s].st
    OBVIOUS
  <1>3. ASSUME \E f \in Formats, c \in Contents, t \in Contents \cup {Empty} : AddCase(f, c, t) PROVE FALSE
    BY <1>2, <1>3 DEF AddCase
  <1>4. ASSUME RemoveCase \/ \E l \in Contents : ModifyMessageLogUrl(l) PROVE FALSE
    BY <1>1, <1>2, <1>4 DEF RemoveCase, ModifyMessageLogUrl
  <1>5. ASSUME NEW p \in Pages, PageStep(p) PROVE FALSE
    <2>1. send' = send \/ send' = Startled
      BY <1>5 DEF PageStep, Open, LoadForm, LoadTree, EditFields, EditLog, EditTree, Submit,
                  ServeForm, ServeTree, ServeTreeFails
    <2>2. QED
      BY <1>1, <1>2, <2>1
  <1>6. ASSUME NEW q \in Sends, SendStep(q) PROVE q = s /\ ModifyResult(s)
    <2>1. \A t \in Sends \ {q} : send'[t] = send[t]
      BY <1>6 DEF SendStep, SelectCase, SendData, SendFails, ModifyResult, TypeOK
    <2>2. q = s
      BY <1>2, <2>1
    <2>3. QED
      BY <1>6, <2>2 DEF SendStep, SelectCase, SendData, SendFails
  <1>7. QED
    BY <1>3, <1>4, <1>5, <1>6 DEF Next

\* A result stored while nobody has changed the case since it was read answers
\* the tree stored beside it (CaseController.sendMessage, whose two service
\* calls are two transactions).
THEOREM CalmSendFitsHolds == Spec => CalmSendFits
  <1> DEFINE Fits == \A s \in Sends :
       /\ send[s].st = "answered" /\ send'[s].st = "done"
       /\ send[s].calm /\ Present /\ send[s].result # NoReply
       => row'.result.tree = row'.tree
  <1>1. ASSUME IInv, [Next]_vars PROVE [Fits]_vars
    <2>1. SUFFICES ASSUME Next, NEW s \in Sends,
                          send[s].st = "answered", send'[s].st = "done",
                          send[s].calm, Present, send[s].result # NoReply
                   PROVE  row'.result.tree = row'.tree
      BY <1>1
    <2>2. ModifyResult(s)
      BY <1>1, <2>1, DoneByModifyResult DEF IInv
    <2>3. row \in Rows /\ send[s].result \in Results
      BY <1>1, <2>1, RowFacts DEF IInv, TypeOK, SendStates
    <2>4. send[s].result.tree = row.tree
      BY <1>1, <2>1 DEF IInv, Sent, SendKnown, SendCalm
    <2> DEFINE r == [row EXCEPT !.result = send[s].result]
    <2>5. r \in Rows /\ r.tree = row.tree /\ r.result = send[s].result
      BY <2>3, RowWithResult
    <2>6. Commit(r)
      BY <2>1, <2>2 DEF ModifyResult, UpdateRow
    <2> HIDE DEF r
    <2>7. row' = r
      BY <1>1, <2>5, <2>6, CommitFacts DEF IInv
    <2>8. QED
      BY <2>4, <2>5, <2>7
  <1>2. QED
    BY <1>1, Inductive, PTL DEF Spec, CalmSendFits

-----------------------------------------------------------------------------
(* The row is a CaseStore.                                                 *)

LEMMA RowIsARow ==
  ASSUME TypeOK, NEW r \in Rows, Commit(r)
  PROVE  row' = r /\ Store!Record
  BY CommitFacts DEF Store!Record

LEMMA PageStepRefines ==
  ASSUME IInv, NEW p \in Pages, PageStep(p)
  PROVE  Store!Next \/ UNCHANGED <<row, past>>
  <1>1. TypeOK /\ Outlined
    BY DEF IInv
  <1>2. CASE UNCHANGED <<row, past>>
    BY <1>2
  <1>3. ASSUME NEW x \in formPost[p], ServeForm(p, x), Present, HasId(x)
        PROVE  Store!Next
    <2>1. x.form \in Rows /\ Known(x.form.tree, x.form.result)
      BY <1>1, <1>3 DEF HasId, TypeOK, FormPosts, Outlined
    <2>2. Commit(x.form)
      BY <1>3 DEF ServeForm, UpdateRow, FormColumns
    <2>3. row \in Rows /\ row' = x.form /\ Store!Record
      BY <1>1, <1>3, <2>1, <2>2, RowFacts, RowIsARow
    <2>4. \E o \in past : row'.tree = o.tree /\ row'.result = o.result
      BY <2>1, <2>3 DEF Known
    <2>5. Store!StoreForm
      BY <2>1, <2>3, <2>4 DEF Store!StoreForm
    <2>6. QED
      BY <2>5 DEF Store!Next
  <1>4. ASSUME NEW x \in treePost[p], ServeTree(p, x), Present
        PROVE  Store!Next
    <2>1. row \in Rows /\ x.tree \in Trees
      BY <1>1, <1>4, RowFacts DEF TypeOK, TreePosts
    <2> DEFINE r == [row EXCEPT !.tree = x.tree]
    <2>2. r \in Rows /\ Commit(r)
      BY <1>4, <2>1, RowWithTree DEF ServeTree, UpdateRow, TreeColumns
    <2>3. row' = r /\ Store!Record
      BY <1>1, <2>2, RowIsARow
    <2>4. Store!StoreTree
      BY <2>1, <2>3 DEF Store!StoreTree
    <2>5. QED
      BY <2>4 DEF Store!Next
  <1>5. \/ \E x \in formPost[p] : ServeForm(p, x) /\ Present /\ HasId(x)
        \/ \E x \in treePost[p] : ServeTree(p, x) /\ Present
        \/ UNCHANGED <<row, past>>
    BY DEF PageStep, Open, LoadForm, LoadTree, EditFields, EditLog, EditTree, Submit,
           ServeForm, ServeTree, ServeTreeFails, UpdateRow
  <1>6. QED
    BY <1>2, <1>3, <1>4, <1>5

LEMMA SendStepRefines ==
  ASSUME IInv, NEW s \in Sends, SendStep(s)
  PROVE  Store!Next \/ UNCHANGED <<row, past>>
  <1>1. CASE ModifyResult(s) /\ Present
    <2> DEFINE x == send[s].result
    <2>1. row \in Rows /\ x \in Results /\ TypeOK
      BY <1>1, RowFacts DEF IInv, TypeOK, SendStates
    <2>2. x = NoReply \/ (x \in [tree : Trees, as : Formats] /\ KnownTree(x.tree))
      BY <1>1 DEF ModifyResult, IInv, Sent, SendKnown
    <2> HIDE DEF x
    <2> DEFINE r == [row EXCEPT !.result = x]
    <2>3. r \in Rows /\ Commit(r)
      BY <1>1, <2>1, RowWithResult DEF ModifyResult, UpdateRow, x
    <2>4. row' = r /\ Store!Record
      BY <2>1, <2>3, RowIsARow
    <2>5. x \in {NoReply} \cup
            {a \in [tree : Trees, as : Formats] : \E o \in past : a.tree = o.tree}
      BY <2>2 DEF KnownTree
    <2>6. Store!StoreResult
      BY <2>1, <2>4, <2>5 DEF Store!StoreResult
    <2>7. QED
      BY <2>6 DEF Store!Next
  <1>2. CASE ~(ModifyResult(s) /\ Present)
    BY <1>2 DEF SendStep, SelectCase, SendData, SendFails, ModifyResult, UpdateRow
  <1>3. QED
    BY <1>1, <1>2

\* The row of a case does what CaseStore allows and nothing else: whatever
\* crosses whatever, columns of different times mix no further, a result
\* answers a tree the case has held, and a removed case stays removed
\* (CaseService's transactions on one row).
THEOREM Refinement == Spec => ImplementsStore
  <1>1. Init => Store!Init
    BY DEF Init, Store!Init
  <1>2. ASSUME IInv, [Next]_vars PROVE [Store!Next]_(Store!svars)
    <2>1. TypeOK
      BY <1>2 DEF IInv
    <2>2. ASSUME NEW f \in Formats, NEW c \in Contents, NEW t \in Contents \cup {Empty},
                 AddCase(f, c, t)
          PROVE  Store!Next
      <3> DEFINE r == [fields |-> c, format |-> f, tree |-> Converted(t, f),
                       result |-> NoResult, log |-> Empty]
      <3>1. r \in Rows
        BY ConvertedIsTree DEF Rows, Results, Logs
      <3>2. Commit(r) /\ row = NotYet
        BY <2>2 DEF AddCase
      <3> HIDE DEF r
      <3>3. row' \in Rows /\ Store!Record
        BY <2>1, <3>1, <3>2, RowIsARow
      <3>4. QED
        BY <3>2, <3>3 DEF Store!Add, Store!Next
    <2>3. CASE RemoveCase
      BY <2>1, <2>3, RowFacts DEF RemoveCase, Commit, Store!Remove, Store!Next
    <2>4. ASSUME NEW l \in Contents, ModifyMessageLogUrl(l)
          PROVE  Store!Next \/ UNCHANGED <<row, past>>
      <3>1. CASE Present
        <4> DEFINE r == [row EXCEPT !.log = l]
        <4>1. l \in Logs /\ row \in Rows
          BY <2>1, <3>1, RowFacts DEF Logs
        <4>2. r \in Rows /\ Commit(r)
          BY <2>4, <3>1, <4>1, RowWithLog DEF ModifyMessageLogUrl, UpdateRow
        <4>3. row' = r /\ Store!Record
          BY <2>1, <4>2, RowIsARow
        <4>4. QED
          BY <4>1, <4>3 DEF Store!StoreLog, Store!Next
      <3>2. CASE ~Present
        BY <2>4, <3>2 DEF ModifyMessageLogUrl, UpdateRow
      <3>3. QED
        BY <3>1, <3>2
    <2>5. CASE \E p \in Pages : PageStep(p)
      BY <1>2, <2>5, PageStepRefines DEF Store!svars
    <2>6. CASE \E s \in Sends : SendStep(s)
      BY <1>2, <2>6, SendStepRefines DEF Store!svars
    <2>7. QED
      BY <1>2, <2>2, <2>3, <2>4, <2>5, <2>6 DEF Next, vars, Store!svars
  <1>3. QED
    BY <1>1, <1>2, Inductive, PTL DEF Spec, ImplementsStore, Store!Spec
=============================================================================
