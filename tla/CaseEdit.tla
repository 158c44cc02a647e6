------------------------------ MODULE CaseEdit ------------------------------
(***************************************************************************)
(* One test case, the pages on which it is edited (getSelectedItem.html),  *)
(* and the requests that send it to the agent and store what came back     *)
(* (CaseService, CaseController).                                          *)
(*                                                                         *)
(* A page fills its form and its tree by two requests and saves them by    *)
(* two posts.  Each may be served at any time: the browser has both on the *)
(* way at once.  The form holds the whole row as it was when the form was  *)
(* loaded, the columns without an input field included (the form object of *)
(* webix hands out everything it has loaded), and modifyCaseByCaseId       *)
(* writes them all; modifyTreeOfCaseByCaseId writes the tree alone.        *)
(* sendSop2Server reads the case in one transaction, and its result is     *)
(* stored by a second one.  Every transaction here writes in one statement *)
(* at most, so serving a request is one step; sending is three.            *)
(*                                                                         *)
(* Contents are numbers, drawn afresh for every edit.  Of a form the name, *)
(* description, protocol, configuration, remark and test flag are one      *)
(* content.  A tree is stored converted: modifyTreeOfCaseByCaseId and      *)
(* addCase serialise a SOP tree and read it back, which fails when it is   *)
(* no SOP tree, and hang the nodes of any other tree below their           *)
(* parents.                                                                *)
(***************************************************************************)
EXTENDS Naturals, FiniteSets

CONSTANTS Pages,              \* windows on which the case is edited
          Sends,              \* requests to send the case
          Formats,            \* values of dataFormat
          SopFormats,         \* those of SOP messages: insop and outsop
          MaxEdits,           \* bound on the edits of a run
          MaxSaves,           \* bound on the saves of a run
          NotYet, Gone,       \* no row: not yet added, removed
          Unloaded,           \* a form whose case has not been loaded
          NoResult, NoReply,  \* no result stored, an exchange without answer
          None

Empty == 0         \* the content of a tree without nodes, of no log path
Contents == 1..MaxEdits

Trees == [content : Contents \cup {Empty}, format : Formats]
Results == {NoResult, NoReply} \cup [tree : Trees, as : Formats]
Logs == Contents \cup {Empty}
Rows == [fields : Contents, format : Formats, tree : Trees, result : Results, log : Logs]

ASSUME CaseAssumption ==
  /\ MaxEdits \in Nat /\ MaxSaves \in Nat
  /\ SopFormats \subseteq Formats
  /\ {NotYet, Gone, Unloaded, None} \cap Rows = {}
  /\ NotYet # Gone /\ NoResult # NoReply
  /\ {NoResult, NoReply, None} \cap [tree : Trees, as : Formats] = {}
  /\ None \notin Trees \cup {Unloaded}

VARIABLES
  row,        \* the committed row of the case
  edits,      \* contents drawn so far
  saves,      \* saves so far
  form,       \* the values of each page's form: a row, edited
  shown,      \* the content of the tree each page shows, None before it is opened
  loading,    \* how often each page has asked for form and tree and not yet
              \*   got them
  formPost,   \* the form posts each page has on the way
  treePost,   \* the tree posts each page has on the way
  send,       \* each request to send
  past,       \* history: outlines of the rows committed so far, which lists
              \*   loaded earlier still show
  save        \* history: the last save of a page, unless it was made from a
              \*   stale result, before the posts of an earlier one had been
              \*   answered, or crossed by another writer

vars == <<row, edits, saves, form, shown, loading, formPost, treePost, send, past, save>>

\* A post on the way, with the number of its save.
FormPosts == [no : 1..MaxSaves, form : Rows \cup {Unloaded}]
TreePosts == [no : 1..MaxSaves, tree : Trees]

SendStates == [st : {"idle", "read", "answered", "done"}, tree : Trees \cup {None},
               as : Formats \cup {None}, result : Results, calm : BOOLEAN]

IdleSend == [st |-> "idle", tree |-> None, as |-> None, result |-> NoResult, calm |-> TRUE]

Init ==
  /\ row = NotYet
  /\ edits = 0
  /\ saves = 0
  /\ form = [p \in Pages |-> Unloaded]
  /\ shown = [p \in Pages |-> None]
  /\ loading = [p \in Pages |-> [form |-> 0, tree |-> 0]]
  /\ formPost = [p \in Pages |-> {}]
  /\ treePost = [p \in Pages |-> {}]
  /\ send = [s \in Sends |-> IdleSend]
  /\ past = {}
  /\ save = [p \in Pages |-> None]

Present == row \notin {NotYet, Gone}

Store == INSTANCE CaseStore WITH Answers <- [tree : Trees, as : Formats]

\* A content nobody has used.
Fresh(c) == c = edits + 1 /\ c <= MaxEdits /\ edits' = c /\ UNCHANGED saves

\* What the server makes of a posted tree, if it can.
Convertible(t) == t.format \in SopFormats => t.content # Empty
Converted(c, f) == [content |-> c, format |-> f]

-----------------------------------------------------------------------------
Commit(r) ==
  /\ row' = r
  /\ past' = IF r = Gone THEN past ELSE past \cup {Store!Outline(r)}

\* An UPDATE of columns of the row, if there is one.
UpdateRow(r) == IF Present THEN Commit(r) ELSE UNCHANGED <<row, past>>

\* History: the saves of the pages Q and the sends under way are no longer
\* alone with the row.
Crossed(Q) == [p \in Pages |-> IF Present /\ p \in Q THEN None ELSE save[p]]
Startled == IF Present THEN [s \in Sends |-> [send[s] EXCEPT !.calm = FALSE]] ELSE send

\* A case is added with the tree of an uploaded message or none; addCase
\* inserts nothing when the conversion throws.
AddCase(f, c, t) ==
  /\ row = NotYet
  /\ Fresh(c)
  /\ t \in {c, Empty} /\ Convertible(Converted(t, f))
  /\ Commit([fields |-> c, format |-> f, tree |-> Converted(t, f),
             result |-> NoResult, log |-> Empty])
  /\ UNCHANGED <<form, shown, loading, formPost, treePost, send, save>>

RemoveCase ==
  /\ Present
  /\ Commit(Gone)
  /\ save' = Crossed(Pages)
  /\ send' = Startled
  /\ UNCHANGED <<edits, saves, form, shown, loading, formPost, treePost>>

\* A log file is uploaded from the list of cases.
ModifyMessageLogUrl(l) ==
  /\ row # NotYet
  /\ Fresh(l)
  /\ UpdateRow([row EXCEPT !.log = l])
  /\ save' = Crossed(Pages)
  /\ UNCHANGED <<form, shown, loading, formPost, treePost, send>>

-----------------------------------------------------------------------------
(* A page.  It is opened from a list, which may still name a case removed. *)

Opened(p) == shown[p] # None

Open(p) ==
  /\ row # NotYet
  /\ ~Opened(p)
  /\ shown' = [shown EXCEPT ![p] = Empty]
  /\ loading' = [loading EXCEPT ![p] = [form |-> 1, tree |-> 1]]
  /\ UNCHANGED <<row, edits, saves, form, formPost, treePost, send, past, save>>

\* findCaseByCaseId answers nothing for a case that is gone.
Loaded(p) == IF Present THEN row ELSE form[p]

LoadForm(p) ==
  /\ loading[p].form > 0
  /\ loading' = [loading EXCEPT ![p].form = @ - 1]
  /\ form' = [form EXCEPT ![p] = Loaded(p)]
  /\ UNCHANGED <<row, edits, saves, shown, formPost, treePost, send, past, save>>

\* findTreeDataByCaseId fails for a case that is gone.
TreeData == IF Present THEN row.tree.content ELSE Empty

\* The answer is merged into the tree the page shows by then, node by node:
\* nothing changes nothing, an answer that names all nodes shown takes their
\* place, any other leaves a tree nobody has made.
LoadTree(p) ==
  /\ loading[p].tree > 0
  /\ loading' = [loading EXCEPT ![p].tree = @ - 1]
  /\ \/ TreeData = Empty /\ UNCHANGED <<shown, edits, saves>>
     \/ /\ TreeData # Empty
        /\ shown' = [shown EXCEPT ![p] = TreeData]
        /\ UNCHANGED <<edits, saves>>
     \/ /\ Empty \notin {TreeData, shown[p]} /\ TreeData # shown[p]
        /\ \E c \in Contents : Fresh(c) /\ shown' = [shown EXCEPT ![p] = c]
  /\ UNCHANGED <<row, form, formPost, treePost, send, past, save>>

EditFields(p, c, f) ==
  /\ form[p] # Unloaded
  /\ Fresh(c)
  /\ form' = [form EXCEPT ![p] = [@ EXCEPT !.fields = c, !.format = f]]
  /\ UNCHANGED <<row, shown, loading, formPost, treePost, send, past, save>>

\* A log file is uploaded from the page: its path waits in the form.
EditLog(p, l) ==
  /\ form[p] # Unloaded
  /\ Fresh(l)
  /\ form' = [form EXCEPT ![p].log = l]
  /\ UNCHANGED <<row, shown, loading, formPost, treePost, send, past, save>>

\* Nodes are edited, or the tree is replaced by that of an uploaded message.
EditTree(p, c) ==
  /\ Opened(p)
  /\ Fresh(c)
  /\ shown' = [shown EXCEPT ![p] = c]
  /\ UNCHANGED <<row, form, loading, formPost, treePost, send, past, save>>

Answered(p) == formPost[p] = {} /\ treePost[p] = {}

\* The button posts form and tree, loaded or not, and whatever is on the way
\* already; mesFormat is the value of the form's select box, its first option
\* before anything is loaded.
Submit(p, f) ==
  /\ Opened(p)
  /\ saves < MaxSaves
  /\ saves' = saves + 1
  /\ form[p] # Unloaded => f = form[p].format
  /\ formPost' = [formPost EXCEPT ![p] = @ \cup {[no |-> saves', form |-> form[p]]}]
  /\ treePost' = [treePost EXCEPT ![p] =
       @ \cup {[no |-> saves', tree |-> Converted(shown[p], f)]}]
  /\ save' = [save EXCEPT ![p] =
       IF Answered(p) /\ form[p] # Unloaded /\ Present /\ form[p].result = row.result
       THEN [row |-> [form[p] EXCEPT !.tree = Converted(shown[p], f)], treeLast |-> FALSE]
       ELSE None]
  /\ UNCHANGED <<row, edits, form, shown, loading, send, past>>

\* A form that was not loaded has no id, and no row has such an id.
HasId(x) == x.form # Unloaded

\* Every column is written as the form has it.
FormColumnsWithInputs(x) == [x.form EXCEPT !.result = NoResult]
FormColumns(x) == x.form

ServeForm(p, x) ==
  /\ x \in formPost[p]
  /\ IF HasId(x)
     THEN UpdateRow(FormColumns(x)) /\ save' = Crossed(Pages \ {p}) /\ send' = Startled
     ELSE UNCHANGED <<row, past, save, send>>
  /\ formPost' = [formPost EXCEPT ![p] = @ \ {x}]
  /\ loading' = [loading EXCEPT ![p].form = @ + 1]
  /\ UNCHANGED <<edits, saves, form, shown, treePost>>

\* The converted tree is written, and nothing else.
TreeColumnsSparseCase(x) == [row EXCEPT !.tree = x.tree, !.result = NoResult]
TreeColumns(x) == [row EXCEPT !.tree = x.tree]

\* On the answer the page clears its tree and loads it anew.
ServeTree(p, x) ==
  /\ x \in treePost[p]
  /\ Convertible(x.tree)
  /\ UpdateRow(TreeColumns(x))
  /\ save' = [Crossed(Pages \ {p}) EXCEPT ![p] =
       IF @ = None THEN None ELSE [@ EXCEPT !.treeLast = formPost[p] = {}]]
  /\ send' = Startled
  /\ treePost' = [treePost EXCEPT ![p] = @ \ {x}]
  /\ shown' = [shown EXCEPT ![p] = Empty]
  /\ loading' = [loading EXCEPT ![p].tree = @ + 1]
  /\ UNCHANGED <<edits, saves, form, formPost>>

\* The conversion to SOP throws: nothing is written, the page is told nothing.
ServeTreeFails(p, x) ==
  /\ x \in treePost[p]
  /\ x.tree.format \in SopFormats
  /\ treePost' = [treePost EXCEPT ![p] = @ \ {x}]
  /\ UNCHANGED <<row, edits, saves, form, shown, loading, formPost, send, past, save>>

-----------------------------------------------------------------------------
(* Sending, from the list of cases.  The format comes with the request: it *)
(* is that of the row when the list was loaded.                            *)

ListedFormats == {r.format : r \in past}

\* With the tree of the list (a mutant of SelectCase).
SelectCaseListed(s, f) ==
  /\ send[s].st = "idle"
  /\ f \in ListedFormats
  /\ \E o \in past :
       send' = [send EXCEPT ![s] =
         IF Present
         THEN [@ EXCEPT !.st = "read", !.tree = o.tree, !.as = f, !.calm = TRUE]
         ELSE [@ EXCEPT !.st = "answered", !.result = NoReply]]
  /\ UNCHANGED <<row, edits, saves, form, shown, loading, formPost, treePost, past, save>>

\* sendSop2Server reads the case; of a case that is gone nothing is sent.
SelectCase(s, f) ==
  /\ send[s].st = "idle"
  /\ f \in ListedFormats
  /\ send' = [send EXCEPT ![s] =
       IF Present
       THEN [@ EXCEPT !.st = "read", !.tree = row.tree, !.as = f, !.calm = TRUE]
       ELSE [@ EXCEPT !.st = "answered", !.result = NoReply]]
  /\ UNCHANGED <<row, edits, saves, form, shown, loading, formPost, treePost, past, save>>

\* The agent answers, or it does not.
RepliesTo(s) == {[tree |-> send[s].tree, as |-> send[s].as]}

SendData(s) ==
  /\ send[s].st = "read"
  /\ \E x \in {NoReply} \cup RepliesTo(s) :
       send' = [send EXCEPT ![s].st = "answered", ![s].result = x]
  /\ UNCHANGED <<row, edits, saves, form, shown, loading, formPost, treePost, past, save>>

\* The tree does not serialise in that format, or the configuration the case
\* names has been deleted: nothing is stored.
SendFails(s) ==
  /\ send[s].st = "read"
  /\ send' = [send EXCEPT ![s].st = "done"]
  /\ UNCHANGED <<row, edits, saves, form, shown, loading, formPost, treePost, past, save>>

ModifyResult(s) ==
  /\ send[s].st = "answered"
  /\ send' = [send EXCEPT ![s].st = "done"]
  /\ UpdateRow([row EXCEPT !.result = send[s].result])
  /\ save' = Crossed(Pages)
  /\ UNCHANGED <<edits, saves, form, shown, loading, formPost, treePost>>

-----------------------------------------------------------------------------
PageStep(p) ==
  \/ Open(p) \/ LoadForm(p) \/ LoadTree(p)
  \/ \E c \in Contents, f \in Formats : EditFields(p, c, f)
  \/ \E c \in Contents : EditLog(p, c) \/ EditTree(p, c)
  \/ \E f \in Formats : Submit(p, f)
  \/ \E x \in formPost[p] : ServeForm(p, x)
  \/ \E x \in treePost[p] : ServeTree(p, x) \/ ServeTreeFails(p, x)

SendStep(s) ==
  \/ \E f \in Formats : SelectCase(s, f)
  \/ SendData(s) \/ SendFails(s) \/ ModifyResult(s)

Next ==
  \/ \E f \in Formats, c \in Contents, t \in Contents \cup {Empty} : AddCase(f, c, t)
  \/ RemoveCase
  \/ \E l \in Contents : ModifyMessageLogUrl(l)
  \/ \E p \in Pages : PageStep(p)
  \/ \E s \in Sends : SendStep(s)

Spec == Init /\ [][Next]_vars

-----------------------------------------------------------------------------
(* Properties.                                                             *)

\* Every variable has its type.
TypeOK ==
  /\ row \in Rows \cup {NotYet, Gone}
  /\ edits \in 0..MaxEdits /\ saves \in 0..MaxSaves
  /\ form \in [Pages -> Rows \cup {Unloaded}]
  /\ shown \in [Pages -> Contents \cup {Empty, None}]
  /\ loading \in [Pages -> [form : Nat, tree : Nat]]
  /\ formPost \in [Pages -> SUBSET FormPosts]
  /\ treePost \in [Pages -> SUBSET TreePosts]
  /\ send \in [Sends -> SendStates]
  /\ past \subseteq [tree : Trees, result : Results, format : Formats]
  /\ save \in [Pages -> [row : Rows, treeLast : BOOLEAN] \cup {None}]

\* What the row goes through is what CaseStore allows: stale forms, crossing
\* posts and results that arrive late never mix columns of different rows by
\* more than CaseStore says, never store a result of a tree the case has not
\* held, and never bring a removed case back.
ImplementsStore == Store!Spec

\* modifyCaseByCaseId and modifyTreeOfCaseByCaseId together save what the page
\* has posted, and leave the result as it was: when nobody else has written
\* the row meanwhile, earlier saves of the page had been answered, the form had
\* the result of the row, and the tree was stored after the form.
UncontestedSaveKept ==
  \A p \in Pages :
    save[p] # None /\ Answered(p) /\ save[p].treeLast => row = save[p].row

\* When sendSop2Server and modifyResultByCaseId are not separated by a change
\* of the case, the result stored answers the tree stored beside it.
CalmSendFits ==
  [][\A s \in Sends :
       /\ send[s].st = "answered" /\ send'[s].st = "done"
       /\ send[s].calm /\ Present /\ send[s].result # NoReply
       => row'.result.tree = row'.tree]_vars

\* The page says "修改成功" (modified) when it has loaded its form after the form
\* post.  Then, nothing being on the way and nobody else having written the
\* row, the tree posted would have to be the tree stored.
SuccessIsTrue ==
  \A p \in Pages :
    save[p] # None /\ Answered(p) /\ loading[p].form = 0
    => row.tree = save[p].row.tree
=============================================================================
