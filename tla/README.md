# A verification project for AutomatedTestTools

AutomatedTestTools is a Spring Boot web application for testing banking transactions.
Its users arrange test cases in a tree, edit the message of a case as a tree of fields,
send it through an intermediate agent to the system under test, and look at what comes
back. Messages are SOP (a binary format with fixed heads and length-prefixed business
data), XML or JSON. Its pages are built with Webix and a sidebar component; the static
assets also hold Bootstrap's documentation site with its customizer.

This directory holds TLA+ models of the parts of the program in which the order of steps
or the arithmetic of lengths decides whether it is right, TLC runs that check them on
small instances, and TLAPS proofs that hold for all instances. `PROJECT.json` lists
runs, mutants, hazards, findings and theorems, and maps each definition to the lines it
models. Paths below are relative to `src/src/com/nantian/att/main/` unless they begin
with `src/`.

    tlc -workers 2 -config MCHierarchy.cfg MCHierarchy     # a run
    tlapm HierarchyProofs.tla                              # the proofs of a module

## 1. Inventory

| Component | State it keeps | Operations | Hard behaviour | What makes it correct |
|---|---|---|---|---|
| Test tree: `web/service/{BusinessCollection,Business,CaseCollection,Case}Service`, their mappers and controllers | four H2 tables, linked by parent columns without foreign keys | add, modify, remove; removal cascades through services | statements of concurrent requests interleave; rows read and then used; locks taken in different orders; nested calls whose answer is dropped | a removal takes its subtree and nothing else, answers are true, nothing deleted comes back, every request ends |
| Agent client: `web/client/ATTClient` | channel, selector, fields `head`, `bodylen` | connect, write, selector loop, `read` | TCP delivers in pieces; buffer of 1024 bytes; refused, closed, reset connections | what is delivered are frames of the reply, none skipped, failures end the exchange |
| SOP messages: `web/message/impl/SopFormat`, `web/util/SopUtil`, `HexUtils` | none between calls | parse a message to a tree, serialise a tree, patch deal lengths | recursive reader with nine parameters; offsets computed from lengths; boundary values | a tree and its message say the same; lengths land in their fields |
| Tree assembly: `web/util/MakeTreeData2List`, `web/entity/Data` | none | list to tree by parent id, tree to list | nodes whose parent is missing are dropped silently | no node lost, order kept |
| Case editing and sending: `web/service/CaseService`, `web/controller/CaseController`, pages `getSelectedItem`, `sendOperation`, `addTab` | the row of a case: form fields, tree, result, log path | save form, save tree, add, send, store result, store log path | a page saves by two posts that race; the form post writes every column as the page last saw it; sending stores its result in a second transaction | no edit is lost, a stored result belongs to the case that was sent |
| XML messages: `XmlFormat`, `XmlUtil` | a **static** list in `XmlUtil` shared by all requests | parse, serialise | two parses at once | a parse returns the nodes of its own document |
| JSON messages: `JsonFormat`, `JsonUtil` | none | parse, serialise | arrays and objects flattened by parent id | serialising gives back what was parsed |
| Communication configurations and dictionary: their services and mappers | two tables; cases name configurations by id, menus name dictionary rows by name | add, modify, remove, look up | a named row may be gone; names are not unique | a lookup finds one row |
| Netty server and client beans: `netty/*` | channel and event loop groups | start, stop | stop before or after a failed start | stop releases what start took |
| Main page: `src/view/templates/{main,busOperation,addTab}.html` | the forms that are open and what their ids name, requests out, the item clicked last | open a tab, add, modify, delete a group or a business | the scripts of an answer look at the page as it is when the answer comes; two windows share their ids; others change the server's tree meanwhile | tree, tabs and what is on the screen stay in step |
| Sidebar: `components-master/sidebar/sidebar.js`, over Webix's tree store, renderer and selection | tree, open branches, selection, marks, popup | open, close, select, collapse; popup title and list | tree, title and list keep selections of their own; only what is taken to be touched is repainted | one branch open, marks and popup say what the tree says |
| Tab view: `codebase/webix.js` | options of the bar, registry of views, the view on the screen | add, choose and close a tab | the three are told one after the other | the bar names the view that is shown |
| Uploader: `codebase/webix.js`, on `getSelectedItem` and `replaceDataView` | files of a window, one callback, requests out | choose a file, submit, close | answers in any order, also after the window was closed; lost connections | no callback waits for nothing |
| Bootstrap customizer: `assets/js/src/customizer.js` | boxes and variables of a form, gists, button, downloads | click, toggle, import, save, build | gist, file and browser check answer late; a build may fail | dependencies closed, one build at a time, the download fits its configuration |
| Documentation pages: `assets/js/src/application.js`, `ie-emulation-modes-warning.js` | a stylesheet per tab, one stored preference | toggle the theme, open, load anew and close a page | several tabs share the preference and do not listen | a page that is loaded looks like the one toggled last |
| Routing, entities, utilities, other vendored code | none of their own | forwarding, display | none | not modelled |

How they interact: a page posts to a controller; each service method is one
READ_COMMITTED transaction (`@Transactional` on the services), and the services of the
tree call each other inside it. `CaseService` calls `SopFormat` when a tree is saved
(serialise, then parse again) and when it is sent; `sendSop2Server` reads the
configuration of the case, puts the agent's header in front and calls `ATTClient` in the
same request thread. Nothing runs in the background of the server: its concurrency comes
from request threads over the database and over static state. In the browser it comes
from requests, whose answers are scripts to evaluate or callbacks to run, in the order
in which they come. The main page asks for a script on each selection (`addTab.html`)
and for each menu item (`busOperation.html`); the windows of a case are opened by the
tab's page. The customizer and the scripts of the documentation are shipped with the
assets; no page of the tool refers to them.

The hazards, each at its line, are in `PROJECT.json` under "hazards", with the
properties that cover them or the reason why none does.

## 2. Plan

| Order | Module | Models | Status |
|---|---|---|---|
| 1 | `Catalog`, `Hierarchy`, `HierarchyProofs` | abstract tree store; the four services statement by statement | done |
| 2 | `AttClient`, `AttClientProofs` | one exchange with the agent | done |
| 3 | `SopUnits`, `SopUnitsProofs` | business data: reader, tree, writer | done |
| 4 | `SopMessage`, `SopMessageProofs` | deals: lengths, patch, cutting apart | done |
| 5 | `CaseStore`, `CaseEdit`, `CaseEditProofs` | what the row of a case can become; pages that save by two posts, sending and storing the result, against each other | done |
| 6 | `XmlShared`, `XmlSharedProofs` | parses over the static list, appends in their steps | done |
| 7 | `TreeStore`, `TreeView`, `Sidebar` | the store of the tree, what is painted of it, the sidebar over both | done |
| 8 | `TabView`, `MainPage`, `PageProofs` | the tab view; the page with its server | done |
| 9 | `Uploader`, `PageProofs` | uploads in the windows of a case | done |
| 10 | `Customizer`, `DocsPage`, `BootstrapDocs`, `BootstrapDocsProofs` | the customizer, the documentation pages, both in several tabs | done |

`Hierarchy` implements `Catalog` and `CaseEdit` implements `CaseStore` (refinement by
instance, checked and proved). `MainPage` extends `Sidebar` (over `TreeView` and
`TreeStore`) and `TabView`; `BootstrapDocs` extends `Customizer` and `DocsPage`.
Every safety property and every action property of the passing runs is also a theorem;
the liveness properties are model-checked (section 5).

## 3. The models

### Hierarchy and Catalog

`db` is the committed parent column of every row, `wr[w]` the uncommitted writes of
request thread `w`. `View` is what a READ_COMMITTED statement sees, `Free` is that no
other transaction holds the row. `pc[w]` names the next SQL statement of the service
method; each statement is one action: `SelectBuses`, `DeleteColl`, `NextBus` (the loop
of `removeBusCollById`), `SelectGroups`, `DeleteBus`, `DeleteGroups`, `DeleteCases`
(`removeBusniessByBusId`), `DeleteCases`, `DeleteRow` (`removeCaseColl`, `removeCase`),
`Insert`, `ConversionFails`, `SelectBus`, `Update`. `LockTimeout` is the exception H2
raises when a row stays locked; Spring rolls back. `Commit` publishes the writes.
`BeginAdd`, `BeginModify` and `BeginRemove` take any id a page may still hold (`known`),
so requests for rows that are gone are included; a fresh row has an unused id (a random
UUID). The variables `todo`, `cur` and `groups` are the local lists of the cascades;
`seen` is history for the properties.

`Catalog` is what clients rely on: every commit adds one fresh row, rewrites one present
row, or removes present rows together with a target.

External, known only from how it is used: H2 (statements are atomic, READ_COMMITTED, row
locks with a timeout). Rows have only a key and a parent; the columns of a case belong
to `CaseEdit`, which sees the cascades as `RemoveCase`.

### AttClient

One call of `sendData`. The reply is a byte stream; bytes are known by their position, a
reply is the set of positions at which its frames start. `Start`, `FinishConnect`,
`LinkFails`, `Read` are the steps of the selector loop; `TakeHead`, `TakeBody`,
`SkipBodiless`, `ReadDone` the branches of the loop of `read` over its buffer from `at`
to `lim`. `bodylen` and `headAt` are the fields that survive a read, the buffer does
not. `LinkResolved`, `Arrive` and `Ends` are the agent and the network. Two bytes taken
anywhere else than at a frame start may mean any header up to `MaxHead`.

### SopUnits

`getBussinessData` calls itself once per unit and returns directly after, so one call is
one step and its parameters are the variables (`form` is `FormUnitId`, `record` is
`recordId`, `lines` is `formLine`, `left` is `formColumn2Sub`, `columns` is
`formColumn`, `over` is `dataOversizeId`, `obj` is `objId`). `ReadForm`, `ReadObject`,
`ReadCell` (a unit inside a form) and `ReadUnit` are the branches; `Finish` and `Throw`
the ends. An id is the index of a unit in the list, which stands for its UUID.
`Serialised` is the tree that `listBussinessData2TreeList` builds (`ChildOf`: the units
below one, in the order of the list), written by `forBussiDataChildren` (`WrittenBelow`:
a unit, then what is below it, then the next child; a function that recurses over the
list, which has every unit behind its parent, as `WellPlaced` says). Contents are bytes:
the conversion to and from GBK text is left out. The marks are constants (`FByte`,
`OByte`, `LongMark` = 255, `Chunk` = 250).

### SopMessage

A save of a tree: `AppendDeal` and `Appended` build the message and `packageDealLen`;
`Seek` is one turn of the inner loop, `Patch` writes one length; `Reread`, `ReadOut`,
`ReadDeal` and `NoHead` are `parseMessage2Tree` and `getBuss` over the result. Places
are those of the code, in hexadecimal digits without the total length. Business data is
a number of bytes; the lengths held by the tree before the save are arbitrary, and so is
what four digits that are no length field mean (`Garbage`). A violated range of
`substring` is the state `error`. Assumed: a deal's length fits four digits (`biz + 64 <
65536`); output messages have one piece of business data, as the reader makes them.

### CaseEdit and CaseStore

One case: `row` is its committed row, `NotYet` before `AddCase` and `Gone` after
`RemoveCase`. `form[p]` and `shown[p]` are what page `p` (getSelectedItem.html) holds,
`loading[p]` the loads it has asked for, `formPost[p]` and `treePost[p]` its posts on
the way, which are served in any order. `Submit` has no guard but that the window is
open: the button can be pressed again while earlier posts and loads are out. `ServeForm`
is `modifyCaseByCaseId`: every column is written as the form was loaded, tree and result
too, because `getValues` returns all that was loaded and `Case` and `CaseMapper` store
it. `ServeTree` and `ServeTreeFails` are `modifyTreeOfCaseByCaseId`, whose conversion
may throw. Sending is `SelectCase` (the read of `sendSop2Server`), `SendData` (the
exchange) or `SendFails`, and `ModifyResult` in a transaction of its own. Contents are
numbers drawn afresh, so an edit is never mistaken for another. `LoadTree` merges the
stored tree into the one the window shows by then, as `load` does: an empty answer
changes nothing, one that names all nodes shown takes their place, and any other leaves
a tree that nobody has made. `past` is history and stands for the lists a user may still
see; `save` is history: the last save of a page, until somebody else writes the row (and
none from the start, when the form held another result than the row or an earlier save
of the page was still on its way).

Simplifications: a load is one step (its answer is shown when it is read), a window is
opened once, name, description and the other fields of the form are one content. The
wait of the button for the upload of a chosen file is left out, because it is never
entered (`Uploader`, `SubmitNeverWaits`): the posts go out at once.

`CaseStore` is what can be promised of the row: it is added once and never comes back; a
form is stored over the tree and result of *one* earlier row; every other write touches
one column; a result answers a tree the case has held.

### XmlShared

One upload of an XML message is one parse `q`; `pc[q]` is where it is in
`parseMessage2Tree`, `lists[data]` the list in the static field of `XmlUtil`,
`resList[q]` the list it has taken, `kids` the children hung below each element.
`AddRead`, `AddPublish` and `AddStore` are the steps of an unlocked `ArrayList.add`
(reading the size, publishing the new one, storing the element); an append crossed by
another to the same list may miss it or throw (`AddAstray`). `Attach` is one turn of the
loop that hangs elements below their parents, with the inner loop in it; `Attached` its
end; `AttachFails` what `for` over an ArrayList throws when the list was changed, or the
null that a lost element leaves. `Remove` takes one child out of the list; `SetData`
resets the field; an exception skips it (`Fails`), and a message that is no XML does
not, because its exception is caught. `Answer` writes the tree out.

Simplifications: a parse reads the static field as it is (no stale reads); one removal,
one turn of the loop and the writing of the answer are atomic; names, texts and
attributes are left out. A document is the places of the parents of its elements, in
document order. `dirty` and `alone` are history for the properties.

### TreeStore, TreeView and Sidebar

A store has the items of `pull`, the `parent` and the `branch` (the children) of each,
`count` (`$count`) and `open`. `Added`, `Removed` and `Merged` are `add`, `remove` and
the loading of data into a store that already has some; `Merged` gives known items the
parent the answer names and repairs branches and counts apart, as the code does. The
tree has two levels, groups and businesses, under `Root`.

`painted` maps each item to what its node looks like. `RenderUpdate`, `RenderBranch`,
`RenderDelete` are what the renderer does for one item; `Render` paints everything.
`RenderRemoved` is the one case in which another item than the named one is painted too:
the parent that lost its last child.

`Sidebar` has the handlers of the component: `Toggle`, `ClickItem`, `MouseMove`,
`ClickTitle`, `ClickListItem`, `HidePopup`; `select` runs `onBeforeSelect` and
`onAfterSelect`; `MarksAfterSelect`, `updateTitle`, `updateList` carry the names of the
code. `RemoveItem`, `MoveItem` and `LoadTree` are what the scripts of the page do to the
tree. `popup.current` is history: no request has changed the store since the popup was
filled.

Simplifications: the order of entries in a branch is left out, since nothing goes by it;
`position` and `multipleOpen`, which the page does not use, too.

### TabView and MainPage

`options` and `value` are those of the bar, `views` is the registry of views, `active`
the one on the screen. `AddView` is `addView` of the tab view and `show`; `ClickTab` and
`CloseTab` are what a user does, `CloseShown` what the callback of a delete does.
Removing an option tells bar, registry and multiview in that order (`RemoveOption`,
`Destruct`).

`MainPage` composes sidebar and tabs with the server's tree (`place`, `groups`). A
request is a record in the bag `calls`: it is executed by `ServerExecutes` (`Serve` says
what the server does and answers), and answered by `Answered` or ended without a
callback by `Fails`, in any order. The scripts asked for are bags too (`tabCalls`,
`menuCalls`), since nothing keeps the user from asking twice: `TabAnswered` evaluates
`addTab.html`, `MenuAnswered` evaluates `busOperation.html`. All look at the selection,
the form and the tree as they are by then, as the scripts do. `OthersChange` is another
user, who may do whatever `Serve` does. A new item has an id the server has not given
before.

`windows` are the forms on the screen, one over the other, and `ids` the form that each
id names. Two answers to menu items open two windows with the same ids, of which the
later has them; closing it leaves them without a form. Then `CloseForm` closes nothing:
the window left behind, which is modal, stays.

`astray` are the items a step has put out of order: those for which a reload names
another parent than the tree has (`Displaced`), and what the callback of a modification
puts under a group that is not there, or a group it puts under another. The step is
taken as the code takes it (`Merged`, `MoveItem`) and the properties say what holds
after it; the page is not followed further. From there on one item is in a branch that
its own parent does not name, and what later steps of the library make of that is left
out.

Simplification: a reload is a request like any other.

### Uploader

`files[w]` are the statuses of the files of window `w`, `fs[w]` its one callback,
`onTheWay` the requests that may still be answered. `send` sends all files that are
still at the client and replaces the callback, or runs it at once if there are none.
`FileAnswered` is the answer to an upload, which runs the callback when all files are at
the server; `ConnectionLost` is no answer, which the code does not look after.
`AddFile`, `SubmitEdit`, `SubmitNew`, `OpenWindow`, `CloseWindow` are the user's;
`PostAnswered` loads the stored tree again. The windows "edit" and "add" are
`getSelectedItem.html` and `replaceDataView.html`; only "add" looks whether the message
could be parsed.

Simplifications: windows are opened one after the other; the loads of a window's tree
are one step with what asks for them, because `clearAll` and `parse` drop earlier ones;
message trees are known by window and file.

### Customizer, DocsPage and BootstrapDocs

`css`, `js` and `vars` are the form. `ClickBox` is the pair of handlers of a box, which
check what it needs and uncheck what needs it one level deep; toggles, imports and gists
set boxes without them. `Compile` reads the configuration and posts it (`saving`),
`GistAnswered` stores it and builds from the form as it is *then*, `zip` being the
result with the configuration it was posted with. `gists` is the service, `urlId` the
gist in the address, `loading` the one fetched, `readers` the files being read. Less
sources are the files they are glued from (`generateLESS`), found by following `@import`
lines (`Imports`), with the user's variables after the defaults. The loops of
`includedLessFilenames`, `generateLESS` and `generateJS` are functions of the number of
turns made. `ImportAssumption` says of the Less files what holds of those in
`raw-files.min.js`: no file imports itself, directly or not; no line of a file names one
that an earlier line has brought (the code tests what an import brings against the list,
but not the import itself, and would put it in twice); all boxes are files of Bootstrap.

`DocsPage` has the stylesheet link of each tab (`theme`) and the preference in
localStorage, and the comparison of versions behind the warning of emulation modes:
`browser` is the one the pages are open in, `warned` the tabs whose page warned when it
was loaded. `LoadDocs` opens a tab or loads it anew, `CloseTab` closes it. `chosen` and
`recent` are history: whether the last click on a toggle gave its tab the theme, and the
tabs loaded since, with that one. `BootstrapDocs` opens the customizer in one of the
tabs: loading it runs the load handlers of both scripts, closing it drops what was under
way.

Simplifications: the build is part of `GistAnswered`, since it is computed before
control returns to the page (the timer that saves the finished zip touches nothing
else); a configuration that the service refuses is built all the same (the second branch
of `GistAnswered`); a configuration file was written by this page.

## 4. Runs

| Run | Checks | Shows |
|---|---|---|
| `hierarchy` | `AnswersAreTrue`, `RemovesOnlyBelowTarget`, `NoResurrection`, `ImplementsCatalog`, `QuietRemoveTakesSubtree`, `OrphansWereRaced`, `RequestsEnd` | the cascades under every interleaving of two threads and three requests; every request ends, although `removeCaseColl` and `removeBusniessByBusId` lock in opposite orders |
| `att_client` | `AlignedDelivery`, `NoFrameSkipped`, `FailedLinkReturns`, `ReplyInOneReadReturns`, `BodyInNextReadReturns` | the reader is right as long as no read leaves bytes behind, over all replies and deliveries; a failed link, a reply in one piece and a body in the read after its header end the exchange |
| `att_client_split` | `DeliveredAreSent` (violated) | a frame cut between two reads makes the client deliver bytes that are no frame |
| `sop_units` | `WellPlaced`, `SerialisedInOrder`, `FormIsGrid` | the units read form a tree, writing it gives back the bytes, forms are filled as grids |
| `sop_message` | `UpToTwoDealsPatched`, `SavingKeepsDeals` | one deal and two survive a save |
| `sop_third_deal` | `PatchesHitLengthFields` (violated) | the third length is written elsewhere |
| `case_edit` | `UncontestedSaveKept`, `ImplementsStore`, `CalmSendFits` | a page that saves twice, its posts and loads overlapping, against a send, uploads and removal in every order: `CaseStore` holds, an uncrossed save is kept, an undisturbed result fits |
| `case_edit_success` | `SuccessIsTrue` (violated) | a page alone loses the tree it has posted and says that the case is modified |
| `xml_shared` | `AloneIsRight`, `Healed` | after any race, a parse that ends without an exception leaves a clean list, and one that runs alone returns the tree of its own document |
| `main_page` | `OneBranchOpen`, `SelectionMarked`, `PopupInStep`, `PaintedInStep`, `BarShowsView`, `TreeConsistent`, `VanishesOnly` | what a user does on the main page against answers in any order, failing requests and another user: store, painted tree, selection, popup, bar and views stay in step, up to and with the step by which an item goes astray; a business the user can find is lost in the ways named only |
| `uploader` | `WaitsForSomething`, `SubmitNeverWaits`, `UploadEnds` | uploads answered in any order or lost, across windows: no callback waits for answers that have all been there; and, as a record of what the code does, the button's wait for an upload is dead |
| `bootstrap_docs` | `DepsClosed`, `OneBuildAtATime`, `LessInOrder`, `LastClickDecides`, `WarnsOfEmulation`, `DownloadMatchesConfig`, `DeadButtonExplained`, `SavedComesBack` | the customizer against late gists, files and browser check; the theme in two tabs that are opened and closed; the warning in five browsers |

The type invariants are proved and not run where a module of proofs exists: a run would
ask no more. The modules of the main page state none of their own: the types of their
variables are part of the invariant of `PageProofs`.

Bounds, and why they are enough:

* `hierarchy`: keys c1; b1, b2; g1, g2; k1, k2, of which one business and its chain to a
  case, and a sibling business, exist at the start. Each cascade loops over at most two
  children per level, which is what is needed for a child to move from a list already
  read to one not yet read; three requests, two at once, allow a racing pair and a
  request before, between or after. Two cascades over common rows are the deadlock of
  `RequestsEnd`. There is no symmetry, because a liveness property is checked.
* `att_client`: replies of up to eight bytes in every framing hold up to four frames; a
  buffer of five bytes is smaller than some frames, cuts others and holds two small ones
  at once.
* `sop_units`: all messages of up to five bytes over six byte values that include the
  marks, zero, one, the chunk length and an ordinary byte; forms of zero, one and two
  lines and columns with up to six more bytes, enough to fill a 2 x 2 grid partly and
  one of fewer cells past its end. `SerialisedInOrder` excludes the mark byte because
  the code writes a continued unit with its length 250 and not 255.
* `sop_message`: up to three deals (the patch is right for two and wrong for the third)
  with no, little and more business data, held lengths on both sides of the reader's
  bound of 64.
* `case_edit`: two edits distinguish the stored from the edited content; two saves have
  both orders of their posts and overlap, a send can overtake them or be overtaken; one
  format that can fail to convert and one that cannot. More pages, sends, edits
  and saves are left to the proofs: all three properties are proved for any number.
* `xml_shared`: three uploads on two threads: two that race and one after them, or one
  that overlaps each of the others in turn. Overlapping parses have two elements
  (`SmallRaces`), a root and a child, which is what it takes to append, hang and remove;
  a parse on its own has any document of up to four elements, in which a child may
  follow a grandchild.
* `main_page`: two groups and two businesses in every placement, some not there yet;
  five acts are a selection, a menu item and the submission of its form, and two more
  while answers are out: another selection, closing the form, a second window; two
  requests at a time overtake each other; one operation by others or one request that
  fails. These are a million and a half states; for more of everything the properties
  are proved. Groups and businesses are symmetric.
* `uploader`: two windows with two files each: an answer that lands in the next window,
  and a file that waits for another.
* `bootstrap_docs`: two components of which one needs the other, three plugins in a
  chain of needs, a variable with a good and a broken value, two files to import and one
  that is none, two gists, two tabs, five acts: a form is changed, posted, changed again
  while the post is out, and opened from the stored gist; a toggle is clicked, the tab
  closed, and the other loaded or toggled. The browsers are the oldest
  and the newest IE as they are and in an older mode, and an Opera that pretends to be
  one; `WarnsOfEmulation` is proved of all.

Deadlock is switched off where the system ends (a save, a parse, an exchange) or where
the bound on requests or acts ends the run, or the page has gone astray.

Fairness: `Hierarchy` has weak fairness for the steps of each request thread, which the
server schedules; a lock wait ends by timeout, so no fairness is needed for the order in
which locks are granted. New requests are never owed. `AttClient` has weak fairness for
the client's own steps only; the agent owes nothing, so an agent that stays silent keeps
the client waiting (its select has no timeout). `Uploader` has weak fairness for each
request that is out: the browser ends it by an answer or by a lost connection. Users owe
nothing.

## 5. Proofs

Each module of proofs has one inductive invariant, called `IInv` where nothing else is
said, which is wider than the properties it is there for; further invariants rest on it.

`HierarchyProofs` (any set of threads, keys, starting tables, any number of requests):
`TypeCorrect`, `RowLocksHold`, `AnswersHold`, `Refinement` (`Spec => Cat!Spec`) and
`NeverResurrected`. The inductive invariant says what a transaction may have written
(`Overlay`: an addition its own row, a removal only deletions of present rows), that two
open additions never share a key, that the target of a request is untouched before its
own statement and gone after it (`Target`), and that what a negative answer relies on
has been seen. Without `Overlay` and the row locks a commit could not be shown to be a
single step of `Catalog`.

The cascades have an invariant of their own on top, `CInv`, one clause per question
about a removal on its way: the lists it walks over hold rows of the right table
(`Levels`), and rows that hung below the target at some moment since it began, as does
everything it has deleted (`Gathered`); the target itself goes by its own statement
(`Own`); a child of the row about to go that nobody has moved or added meanwhile has
been selected (`Selected`); and no such child of a deleted row is forgotten: it is
deleted or still in one of the lists (`Covered`). From it follow `RemovesOnlyBelow`,
`OrphansAreRaced` (a row whose parent was removed under it was added or moved by another
request meanwhile) and `QuietRemoveIsExact` (an undisturbed removal takes the subtree
of its target). `Gathered` needs the parents a row has had since the request began and
not only the present one, because a row may be moved after it was selected. Assumption:
`TableAssumption` (the four key sets are disjoint, markers are no keys).

`AttClientProofs` (any replies, buffer and request length): `TypeCorrect`,
`AlignedDeliveryHolds`, `NoFrameSkippedHolds`. The invariant ties
`bodylen`, `headAt` and `at` together: while nothing was lost, `at` is a frame start or
`bodylen` bytes in front of the end of the frame at `headAt`. Assumption:
`ClientAssumption` (replies are cut into frames that hold at least their header).

`SopUnitsProofs` (any messages, marks and chunk length): `TypeCorrect`,
`WellPlacedHolds`, `FormIsGridHolds`. The invariant adds `Carried`: the ids handed from
call to call are those of units of the right kind, a continued unit really has the
greatest length, and no lines are left without a form. Without it a unit could be hung
anywhere. For the grid `GridInv` says of the form being filled that the countdowns are
what is missing (`Filling`: the cells of the record and the columns left make up a
record, the records and the lines left make up the form, and the record being filled is
the last), and of every other that it is full or was cut off by a form or an object
(`Behind`), so that what comes later cannot be data that should have gone into it. TLC
has checked `GridInv` on the instance of the run. Assumption: `UnitAssumption`.

`SerialisedInOrderHolds` says that what the tree of the units read writes is the message
read so far. The list is not in the order in which the tree is written: the unit that
continues the last cell of a record stands behind the record opened in between. What
makes it work is `ChainInv`: the object, form, record and continued unit the reader
holds each lie at the end of a path from the root of which nothing is written behind
(`Trailing`), save records that are still empty (`Quiet`), so that a unit hung below one
of them is written last. The invariant is `WrittenInv`: there are bytes that the tree
writes (`Writes`), and they are those read if no byte is the mark. The steps are: the
equation of `WrittenBelow` has exactly one solution for a list whose parents come first;
a unit appended at the end of a chain appends its bytes to what is written. Induction
over data, which the library's theorems cannot give here, is taken from the order of the
finite sets: a set of natural numbers that is not empty has a least member
(`LeastIndex`). TLC has checked `ChainInv` and `IInv` on the instance of the run.

`SopMessageProofs` (any trees): `TypeCorrect`, `UpToTwoDealsPatchedHolds`,
`SavingKeepsDealsHolds`. The invariant relates the computed lengths to the places at
which the first two deals begin, and the running sum to them. That a save keeps one deal
or two needs in addition (`KInv`) that the message ends behind its last deal, that every
length written is that of its deal, and that the reader stands in front of a deal having
read those before it: then each length it reads is the one just written. Assumption:
`MessageAssumption`.

`CaseEditProofs` (any pages, sends, formats, edits and saves): `TypeCorrect`,
`UncontestedSaveKeptHolds`, `CalmSendFitsHolds` and `Refinement` (`Spec => Store!Spec`).
The invariant: the tree and result of every form, loaded or posted, are those of one
committed row (`Outlined`); what a request has read was a tree of the case, and is still
that of the row if nothing was written since (`Sent`); and an uncrossed save is split
between the posts on the way, which are its own, and the row (`SaveOK`), without which
the orders of the posts could not be told apart. Assumption: `CaseAssumption` (the
markers are no rows, trees or results; the SOP formats are formats).

`XmlSharedProofs` (any uploads, documents and request threads): `TypeCorrect`,
`HealedHolds`, `AloneIsRightHolds`. The invariant bounds the place of every append by
the array of its list (`Walking`), so that storing stays in it whatever is appended or
removed between its steps, and says that the field holds a fresh list as soon as nobody
is left who will reset it (`Mended`). A parse that runs alone (`AInv`) finds what it
expects in every phase: the list begins with the elements it has read (`WalksAlone`),
below each hang its children among those it has passed and all but the root are to be
removed (`AttachesAlone`), and what stands behind the root is what is still to be
removed (`RemovesAlone`). That other parses do not disturb it rests on none being active
and on earlier ones having left nothing in the list, which is `Mended`. Assumption:
`XmlAssumption` (a document is a sequence of places of earlier elements, the first of
which is the root; the markers are neither documents, lists nor places).

`PageProofs` has the proofs of both parts of the pages, which share no variable.

The main page (any groups, businesses, requests and acts): `TreeStaysConsistent`,
`OneBranchIsOpen`, `SelectionIsMarked`, `PageIsPainted`, `PopupSaysTree`,
`BarAndScreenAgree` and `VanishesOnlyHolds`, that is, every property of the run. The
parts of the invariant are those a step disturbs together. The tree, the selection and
the popup have two (`SidePart`): `SideInv` while the page is followed, which is
inductive, and `StrayInv`, which is what the step that leads an item astray leaves.

* `TreeInv`: `pull`, parents, branches and counts agree (`Good`), on two levels, because
  a removal looks one level down; at most one branch is open, it is there and it has
  children (`OpenOK`), since an item that lost its last child is closed without being
  asked for; what is painted is what the tree says.
* `SelectInv`, `PopupInv`: the group of the selected item is marked (`GroupMarked`); a
  popup that is shown and current is that of a group that is there, which is what makes
  its list that of the group after each change.
* `BarInv`: the bar has no id twice and keeps its hidden option, without which closing a
  tab could name the wrong one.
* `ServerInv`: a deletion that was answered with success is of an item that never comes
  back (`DeletedForGood`), because what is added gets an id not given before; so a late
  answer does not remove an item that others have added since. What a reload brings has
  no business in two groups (`Disjoint`).
* `WindowInv`: a form with a select of the groups names one; an id names a form that has
  it, and the id of the windows the one on top, so that closing by the id takes the form
  the user sees.

The actions follow from lemmas about the operations of the store (`Added`, `Removed`,
`Merged`) and about what is painted, for any good store. `VanishesOnly` goes through the
kinds of answers: a delete takes a group with what the tree has below it
(`DeleteVanishesWell`, with `DeletedForGood` for what the server still has), a
modification takes what is selected (`ModifyVanishesWell`), a reload takes nothing
(`ListedGrows`), and no other step touches the tree. Assumptions: `ItemAssumption`
and `TabAssumption` (groups, businesses and markers differ), `TabsAreItems`,
`AnswerAssumption` (no answer yet is not an answer).

The uploads (any number of windows and files): `UploaderTypeCorrect`,
`WaitsForSomethingHolds`, `SubmitNeverWaitsHolds`. The invariant adds that a window not
yet opened has no callback (`FreshWindows`), without which a new window could start with
one that waits for nothing. Assumption: `WindowAssumption`.

`BootstrapDocsProofs` (any boxes with any dependencies, variables, files, gists, tabs
and acts): `TypeCorrect`, `DepsClosedHolds`, `OneBuildAtATimeHolds`,
`LastClickDecidesHolds`, `WarnsOfEmulationHolds` (for every browser that
`BrowserAssumption` allows), `DeadButtonExplainedHolds`, `SavedComesBackHolds`. The
invariant says that posted and stored configurations are closed too (`NetInv`), since a
gist that is fetched becomes the form, and that nothing is built before the browser
check has answered (`ButtonInv`), since its answer enables the button. That the last
click decides rests on the stored preference being what it chose (`PreferenceKept`),
also when the tab it was made in has been closed. That one level of
the handlers is enough rests on the lists being transitive, which `DependencyAssumption`
states of the page's data attributes; the other assumptions are those of the boxes,
files, tabs and browsers. `SavedComesBack` rests on `Addressed`: a gist that is being
fetched is one the address names, so that no other step than its answer ends the fetch
with the address unchanged.

`LessInOrderHolds` and `DownloadMatchesConfigHolds` (for any Less files that
`ImportAssumption` allows) are about what the folds over lists of files give. The proof
goes from the inside out: a fold over a list has a result and its partial results
(`FoldExists`); `WithNew` gives all of both lists and keeps their order; the equation of
`includedLessFilenames`, which calls itself, has a solution, found file by file along
the imports (`OneMoreKnown`, `AllKnown`); what it returns for a file are the files below
it (`IncludedSet`), none twice and each behind its imports (`IncludedOrdered`), by
induction over the files (`EveryFile`, from there being no cycle) and over the lines of
each (`EveryIndex`). Then `Generated`: the source keeps that order whichever boxes are
checked, has the user's lines right behind the defaults, and of the files with boxes
holds those of the checked ones. A download is made in one step from the form as it is
in that step, so both properties follow for the state; only the second needs the
invariant, for the form's being a form.

Model-checked only:

* `RequestsEnd`, `FailedLinkReturns`, `ReplyInOneReadReturns`, `BodyInNextReadReturns`,
  `UploadEnds`: liveness under fairness is out of the prover's reach.

## 6. Findings

* `ATTClient.java:133`: bytes of an incomplete frame are lost with the buffer of `read`,
  although the comments in it say that they are left for the next read.
* `SopFormat.java:52`: the place of the third and every later deal length is wrong.
* `getSelectedItem.html:130`: the form post, served after the tree post, puts the old
  tree back, and the page says that the case is modified.

Met while modelling and excluded by the conditions of the properties: saving an output
message writes a deal length over 出错交易序号 (`SopFormat.java:55`), which
`PatchesHitLengthFields` shows with `Outs = {TRUE}`; and a computed length of exactly
64, of a deal without business data, is taken for no length (`SopUtil.java:256`), so
that the next deal is read as its data: `SavingKeepsDeals` without its condition on the
first deal.

Met while modelling, in what the models do, and shown by no run:

* `XmlUtil.java:15`: a well-formed upload that is parsed together with another may throw
  over the static list, and the page says that format and content may not match.
* `busOperation.html:166`: the answer to a modification moves the item that is selected
  when it comes, whatever was modified, and loses it from the tree if no form is open by
  then, if the form names a group that the tree has not, or if the item is a group (the
  second way of `VanishesOnly`). `busOperation.html:88`: the answer to a delete closes
  the tab that is shown, whichever that is.
* `main.html:66`: a menu item clicked twice opens two windows with the same ids. When
  one is closed the id of the windows names nothing, and the other, which is modal,
  cannot be closed.
* A reload (`webix.js:632`) that names another parent for a known item than the tree has
  leaves it in the branch of the old one (`TreeConsistent` states that it stays in one
  branch, and that the rest agrees). A reload
  executed before a removal and answered after it brings the removed item back. On the
  server, a business moved into a group that is being removed becomes an orphan, which
  `OrphansWereRaced` states.
* The header of a tab is that of what is selected when the answer comes (`addTab.html`);
  a tab asked for twice leaves a second view behind; closing a tab leaves its item
  selected, so that clicking it again opens nothing.
* Marks of groups stay after `unselectAll`, and the title of the popup stays selected
  for a group that was selected while it was empty (`SelectionMarked` and `PopupInStep`
  state what does hold).
* `getSelectedItem.html:116`: the button never waits for an upload (`SubmitNeverWaits`
  records it), because a chosen file is sent at once; a refused file keeps later
  callbacks of its window from running; the answer "false" is shown as a node; a late
  answer lands in the window that is open by then.
* `customizer.js:473`: a failed build leaves the button dead (`DeadButtonExplained` says
  that the user is told why); an empty form throws without a message.

## 7. Not modelled

* JSON messages: one tree to a text and back by a library, without state of its own.
* Communication configurations and the dictionary: services of one or two statements on
  one row each; no line says what a reader of a missing or doubled row may expect.
* The Netty beans: nothing in the repository starts them.
* The text conversions of SOP values (GBK, padding, numbers too large for their field).
* Writing a tree as XML; it keeps no shared state.
* Uploads to and downloads from the file system: one file with a fresh name per request,
  no shared state.
* Read-only queries for pages and menus, entities, page layout; the data views and
  tables inside a tab; the maintenance page.
* Vendored code except what the pages stand on: of `webix.js` the tree store, the
  renderer, the selection, bar, multiview and uploader.
* Of the documentation pages, the copy button, scroll spy, demos, and the workarounds
  for IE 8 and IE 10, which keep no state.
* The intermediate agent, H2 and the servlet container: environment.
