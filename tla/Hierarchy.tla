----------------------------- MODULE Hierarchy -----------------------------
(***************************************************************************)
(* The services that keep the tree business collection / business / case   *)
(* collection / case in four tables (web/service, web/mapper).             *)
(*                                                                         *)
(* Each HTTP request runs in a thread of its own and its service method is *)
(* one READ_COMMITTED transaction made of several SQL statements.  A       *)
(* statement is one atomic step; between two statements of one request the *)
(* other requests run.  The tables have no foreign keys, so the services   *)
(* themselves delete the children of what they delete.                     *)
(*                                                                         *)
(* The database is H2 (MVStore), known here only by how the services use   *)
(* it: a statement sees committed rows and its own transaction's writes,   *)
(* it waits for a row another transaction has written and not committed,   *)
(* and a wait that lasts too long ends in an exception, on which Spring    *)
(* rolls the transaction back (rollbackFor = Exception.class).             *)
(*                                                                         *)
(* Of a row only its primary key and its parent column are kept.           *)
(***************************************************************************)
EXTENDS Naturals, FiniteSets

CONSTANTS Workers,                          \* request threads
          Colls, Buses, CaseColls, Cases,   \* the keys each table can hold
          Root, Absent, Clean, None,        \* markers, none of them a key
          Start,                            \* the tables when the server starts
          MaxRequests                       \* bound on the requests of a run

Ids == Colls \cup Buses \cup CaseColls \cup Cases

\* The parent column of a row of each table.
ParentsOf(i) ==
  IF i \in Colls THEN {Root}
  ELSE IF i \in Buses THEN Colls
  ELSE IF i \in CaseColls THEN Buses
  ELSE CaseColls

Tables == {f \in [Ids -> Ids \cup {Root, Absent}] :
             \A i \in Ids : f[i] \in ParentsOf(i) \cup {Absent}}

ASSUME TableAssumption ==
  /\ Colls \cap Buses = {} /\ Colls \cap CaseColls = {} /\ Colls \cap Cases = {}
  /\ Buses \cap CaseColls = {} /\ Buses \cap Cases = {} /\ CaseColls \cap Cases = {}
  /\ {Root, Absent, Clean, None} \cap Ids = {}
  /\ Root # Absent /\ Root # Clean /\ Absent # Clean
  /\ None \notin {Root, Absent, Clean}
  /\ Start \in Tables
  /\ MaxRequests \in Nat

VARIABLES
  db,       \* committed: the parent of each row, or Absent
  known,    \* the ids some client may hold: every id ever committed
  wr,       \* uncommitted writes of each worker's transaction; a row is
            \*   locked by the worker that has written it
  pc,       \* the statement each worker is about to execute
  req,      \* the request each worker serves
  todo,     \* removeBusCollById: selected businesses not yet removed
  cur,      \* removeBusniessByBusId: the business being removed
  groups,   \* selected case collections whose cases are still to be deleted
  answer,   \* what the request answers
  seen,     \* history only: the committed parents each row has had since
            \*   the worker's request began
  begun     \* requests begun so far

vars == <<db, known, wr, pc, req, todo, cur, groups, answer, seen, begun>>

Statements == {"insert", "select_bus", "update", "select_buses", "delete_coll",
               "next_bus", "select_groups", "delete_bus", "delete_groups",
               "delete_cases", "delete_row"}

Requests == [verb : {"add", "modify", "remove"}, id : Ids, parent : Ids \cup {Root}]

NoWrites == [i \in Ids |-> Clean]

Present(f) == {i \in Ids : f[i] # Absent}

Busy(w) == pc[w] # "idle"

Init ==
  /\ db = Start
  /\ known = Present(Start)
  /\ wr = [w \in Workers |-> NoWrites]
  /\ pc = [w \in Workers |-> "idle"]
  /\ req = [w \in Workers |-> None]
  /\ todo = [w \in Workers |-> {}]
  /\ cur = [w \in Workers |-> None]
  /\ groups = [w \in Workers |-> {}]
  /\ answer = [w \in Workers |-> "none"]
  /\ seen = [w \in Workers |-> [i \in Ids |-> {}]]
  /\ begun = 0

-----------------------------------------------------------------------------
(* The database as the statements of worker w meet it.                     *)

View(w, i) == IF wr[w][i] = Clean THEN db[i] ELSE wr[w][i]

RowOf(w, i) == {j \in {i} : View(w, j) # Absent}

ChildrenOf(w, p) == {i \in Ids : View(w, i) = p}

\* No other transaction holds a row of S.
Free(w, S) == \A v \in Workers \ {w}, i \in S : wr[v][i] = Clean

\* The rows S of worker w's transaction get the value x.
Write(w, S, x) ==
  wr' = [wr EXCEPT ![w] = [i \in Ids |-> IF i \in S THEN x ELSE wr[w][i]]]

-----------------------------------------------------------------------------
(* A request arrives.  Its ids come from pages that were loaded earlier,   *)
(* so they may be of rows that are gone by now; a new row has a fresh UUID.*)

Begin(w, r, first) ==
  /\ pc[w] = "idle"
  /\ begun < MaxRequests
  /\ begun' = begun + 1
  /\ req' = [req EXCEPT ![w] = r]
  /\ pc' = [pc EXCEPT ![w] = first]
  /\ answer' = [answer EXCEPT ![w] = "none"]
  /\ seen' = [seen EXCEPT ![w] = [i \in Ids |-> {db[i]}]]
  /\ UNCHANGED <<db, known, wr, todo>>

BeginAddUnderFormId(w, i, p) ==
  /\ p \in ParentsOf(i) \cap (known \cup {Root})
  /\ Begin(w, [verb |-> "add", id |-> i, parent |-> p], "insert")
  /\ UNCHANGED <<cur, groups>>
BeginAdd(w, i, p) ==
  /\ i \notin known
  /\ \A v \in Workers : Busy(v) => ~(req[v].verb = "add" /\ req[v].id = i)
  /\ p \in ParentsOf(i) \cap (known \cup {Root})
  /\ Begin(w, [verb |-> "add", id |-> i, parent |-> p], "insert")
  /\ UNCHANGED <<cur, groups>>

\* The forms of a business and of a case collection carry the parent, the
\* updates of a collection and of a case leave it alone.
Movable(i) == i \in Buses \cup CaseColls

BeginModify(w, i, p) ==
  /\ i \in known
  /\ IF Movable(i) THEN p \in ParentsOf(i) \cap known ELSE p = Root
  /\ Begin(w, [verb |-> "modify", id |-> i, parent |-> p],
           IF i \in Buses THEN "select_bus" ELSE "update")
  /\ UNCHANGED <<cur, groups>>

FirstOfRemoveNoCases(i) ==
  IF i \in Colls THEN "select_buses"
  ELSE IF i \in Buses THEN "select_groups"
  ELSE "delete_row"
FirstOfRemove(i) ==
  IF i \in Colls THEN "select_buses"
  ELSE IF i \in Buses THEN "select_groups"
  ELSE IF i \in CaseColls THEN "delete_cases"
  ELSE "delete_row"

BeginRemove(w, i) ==
  /\ i \in known
  /\ Begin(w, [verb |-> "remove", id |-> i, parent |-> Root], FirstOfRemove(i))
  /\ cur' = [cur EXCEPT ![w] = IF i \in Buses THEN i ELSE None]
  /\ groups' = [groups EXCEPT ![w] = IF i \in CaseColls THEN {i} ELSE {}]

-----------------------------------------------------------------------------
(* The end of a request.                                                   *)

\* The service method has returned a: its transaction is about to commit.
Return(w, a) ==
  /\ pc' = [pc EXCEPT ![w] = "commit"]
  /\ answer' = [answer EXCEPT ![w] = a]

Committed(w) == [i \in Ids |-> View(w, i)]

Forget(w) ==
  /\ wr' = [wr EXCEPT ![w] = NoWrites]
  /\ pc' = [pc EXCEPT ![w] = "idle"]
  /\ todo' = [todo EXCEPT ![w] = {}]
  /\ cur' = [cur EXCEPT ![w] = None]
  /\ groups' = [groups EXCEPT ![w] = {}]

Commit(w) ==
  /\ pc[w] = "commit"
  /\ db' = Committed(w)
  /\ known' = known \cup Present(Committed(w))
  /\ Forget(w)
  /\ seen' = [v \in Workers |->
                [i \in Ids |-> IF v = w \/ ~Busy(v) THEN {}
                               ELSE seen[v][i] \cup {Committed(w)[i]}]]
  /\ UNCHANGED <<req, answer, begun>>

\* An exception leaves the service method.
Rollback(w) ==
  /\ Forget(w)
  /\ answer' = [answer EXCEPT ![w] = "error"]
  /\ seen' = [seen EXCEPT ![w] = [i \in Ids |-> {}]]
  /\ UNCHANGED <<db, known, req, begun>>

-----------------------------------------------------------------------------
(* The statements of the additions and modifications.                      *)

\* addBusColl, addBus, addCaseColl, addCase: a fresh key conflicts with nothing.
Insert(w) ==
  /\ pc[w] = "insert"
  /\ Write(w, {req[w].id}, req[w].parent)
  /\ Return(w, "true")
  /\ UNCHANGED <<db, known, req, todo, cur, groups, seen, begun>>

\* addCase: the tree of the new case cannot be converted.
ConversionFails(w) ==
  /\ pc[w] = "insert" /\ req[w].id \in Cases
  /\ Return(w, "false")
  /\ UNCHANGED <<db, known, wr, req, todo, cur, groups, seen, begun>>

\* modifyBus reads the row for its creation time; a missing row is a null
\* pointer exception.
SelectBus(w) ==
  /\ pc[w] = "select_bus"
  /\ \/ /\ RowOf(w, req[w].id) # {}
        /\ pc' = [pc EXCEPT ![w] = "update"]
        /\ UNCHANGED <<db, known, wr, req, todo, cur, groups, answer, seen, begun>>
     \/ RowOf(w, req[w].id) = {} /\ Rollback(w)

UpdatedRowUpsert(w, i) == {i}
UpdatedRow(w, i) == RowOf(w, i)

\* UPDATE ... WHERE ID = #{id}: it may find no row.
Update(w) ==
  LET i == req[w].id
      rows == UpdatedRow(w, i)
  IN /\ pc[w] = "update"
     /\ Free(w, rows)
     /\ Write(w, rows, IF Movable(i) THEN req[w].parent ELSE View(w, i))
     /\ Return(w, IF rows # {} THEN "true" ELSE "false")
     /\ UNCHANGED <<db, known, req, todo, cur, groups, seen, begun>>

-----------------------------------------------------------------------------
(* removeBusCollById                                                       *)

SelectBuses(w) ==
  /\ pc[w] = "select_buses"
  /\ todo' = [todo EXCEPT ![w] = ChildrenOf(w, req[w].id)]
  /\ pc' = [pc EXCEPT ![w] = "delete_coll"]
  /\ UNCHANGED <<db, known, wr, req, cur, groups, answer, seen, begun>>

\* A collection that was not there ends the request; the businesses selected
\* under it stay.
DeleteColl(w) ==
  LET rows == RowOf(w, req[w].id)
  IN /\ pc[w] = "delete_coll"
     /\ Free(w, rows)
     /\ Write(w, rows, Absent)
     /\ IF rows # {}
        THEN pc' = [pc EXCEPT ![w] = "next_bus"] /\ UNCHANGED answer
        ELSE Return(w, "false")
     /\ UNCHANGED <<db, known, req, todo, cur, groups, seen, begun>>

\* The loop over the selected businesses, in the order the database gave them.
NextBusRepeats(w) ==
  /\ pc[w] = "next_bus"
  /\ \/ \E b \in todo[w] :
          /\ cur' = [cur EXCEPT ![w] = b]
          /\ pc' = [pc EXCEPT ![w] = "select_groups"]
          /\ UNCHANGED <<todo, answer>>
     \/ /\ todo[w] = {}
        /\ Return(w, "true")
        /\ UNCHANGED <<todo, cur>>
  /\ UNCHANGED <<db, known, wr, req, groups, seen, begun>>
NextBus(w) ==
  /\ pc[w] = "next_bus"
  /\ \/ \E b \in todo[w] :
          /\ cur' = [cur EXCEPT ![w] = b]
          /\ todo' = [todo EXCEPT ![w] = @ \ {b}]
          /\ pc' = [pc EXCEPT ![w] = "select_groups"]
          /\ UNCHANGED answer
     \/ /\ todo[w] = {}
        /\ Return(w, "true")
        /\ UNCHANGED <<todo, cur>>
  /\ UNCHANGED <<db, known, wr, req, groups, seen, begun>>

-----------------------------------------------------------------------------
(* removeBusniessByBusId, on its own or joined to the transaction of       *)
(* removeBusCollById, which ignores what it returns.                       *)

ReturnFromBus(w, a) ==
  IF req[w].id \in Colls
  THEN pc' = [pc EXCEPT ![w] = "next_bus"] /\ UNCHANGED answer
  ELSE Return(w, a)

SelectGroups(w) ==
  /\ pc[w] = "select_groups"
  /\ groups' = [groups EXCEPT ![w] = ChildrenOf(w, cur[w])]
  /\ pc' = [pc EXCEPT ![w] = "delete_bus"]
  /\ UNCHANGED <<db, known, wr, req, todo, cur, answer, seen, begun>>

DeleteBusOnly(w) ==
  LET rows == RowOf(w, cur[w])
  IN /\ pc[w] = "delete_bus"
     /\ Free(w, rows)
     /\ Write(w, rows, Absent)
     /\ ReturnFromBus(w, IF rows # {} THEN "true" ELSE "false")
     /\ UNCHANGED <<db, known, req, todo, cur, groups, seen, begun>>
DeleteBus(w) ==
  LET rows == RowOf(w, cur[w])
  IN /\ pc[w] = "delete_bus"
     /\ Free(w, rows)
     /\ Write(w, rows, Absent)
     /\ IF rows # {}
        THEN pc' = [pc EXCEPT ![w] = "delete_groups"] /\ UNCHANGED answer
        ELSE ReturnFromBus(w, "false")
     /\ UNCHANGED <<db, known, req, todo, cur, groups, seen, begun>>

\* DELETE ... WHERE CASECOLL_BUSSINESSID = #{busId} looks for the rows again:
\* they need not be the ones selected before.
DeleteGroupsAnywhere(w) ==
  LET rows == {g \in CaseColls : View(w, g) # Absent}
  IN /\ pc[w] = "delete_groups"
     /\ Free(w, rows)
     /\ Write(w, rows, Absent)
     /\ pc' = [pc EXCEPT ![w] = "delete_cases"]
     /\ UNCHANGED <<db, known, req, todo, cur, groups, answer, seen, begun>>
DeleteGroups(w) ==
  LET rows == ChildrenOf(w, cur[w])
  IN /\ pc[w] = "delete_groups"
     /\ Free(w, rows)
     /\ Write(w, rows, Absent)
     /\ pc' = [pc EXCEPT ![w] = "delete_cases"]
     /\ UNCHANGED <<db, known, req, todo, cur, groups, answer, seen, begun>>

\* DELETE FROM TOOL_CASE for one case collection after the other; of
\* removeCaseColl this is the first statement.
DeleteCases(w) ==
  /\ pc[w] = "delete_cases"
  /\ \/ \E g \in groups[w] :
          /\ Free(w, ChildrenOf(w, g))
          /\ Write(w, ChildrenOf(w, g), Absent)
          /\ groups' = [groups EXCEPT ![w] = @ \ {g}]
          /\ UNCHANGED <<pc, answer>>
     \/ /\ groups[w] = {}
        /\ IF req[w].id \in CaseColls
           THEN pc' = [pc EXCEPT ![w] = "delete_row"] /\ UNCHANGED answer
           ELSE ReturnFromBus(w, "true")
        /\ UNCHANGED <<wr, groups>>
  /\ UNCHANGED <<db, known, req, todo, cur, seen, begun>>

\* The last statement of removeCaseColl, the only one of removeCase.
DeleteRow(w) ==
  LET rows == RowOf(w, req[w].id)
  IN /\ pc[w] = "delete_row"
     /\ Free(w, rows)
     /\ Write(w, rows, Absent)
     /\ Return(w, IF rows # {} THEN "true" ELSE "false")
     /\ UNCHANGED <<db, known, req, todo, cur, groups, seen, begun>>

-----------------------------------------------------------------------------
(* The rows the next statement of w needs to lock, per choice it has.      *)

Wants(w) ==
  CASE pc[w] \in {"update", "delete_coll", "delete_row"} -> {RowOf(w, req[w].id)}
    [] pc[w] = "delete_bus" -> {RowOf(w, cur[w])}
    [] pc[w] = "delete_groups" -> {ChildrenOf(w, cur[w])}
    [] pc[w] = "delete_cases" -> {ChildrenOf(w, g) : g \in groups[w]}
    [] OTHER -> {}

\* The statement has waited for another transaction's row until H2's lock
\* timeout.
TimesOut(w) == \E S \in Wants(w) : ~Free(w, S)

LockTimeout(w) == TimesOut(w) /\ Rollback(w)

Statement(w) ==
  \/ Insert(w) \/ ConversionFails(w) \/ SelectBus(w) \/ Update(w)
  \/ SelectBuses(w) \/ DeleteColl(w) \/ NextBus(w)
  \/ SelectGroups(w) \/ DeleteBus(w) \/ DeleteGroups(w) \/ DeleteCases(w)
  \/ DeleteRow(w)

Progress(w) == Statement(w) \/ LockTimeout(w) \/ Commit(w)

Next ==
  \E w \in Workers :
    \/ \E i \in Ids, p \in Ids \cup {Root} : BeginAdd(w, i, p) \/ BeginModify(w, i, p)
    \/ \E i \in Ids : BeginRemove(w, i)
    \/ Progress(w)

Spec == Init /\ [][Next]_vars

\* The server keeps running every request thread; the database bounds waits.
FairSpec == Spec /\ \A w \in Workers : WF_vars(Progress(w))

-----------------------------------------------------------------------------
(* Properties                                                              *)

\* Types of the tables and of each request's local state; an idle worker has
\* no transaction open.
TypeOK ==
  /\ db \in Tables
  /\ known \in SUBSET Ids
  /\ wr \in [Workers -> [Ids -> Ids \cup {Root, Absent, Clean}]]
  /\ pc \in [Workers -> Statements \cup {"idle", "commit"}]
  /\ req \in [Workers -> Requests \cup {None}]
  /\ todo \in [Workers -> SUBSET Ids]
  /\ cur \in [Workers -> Ids \cup {None}]
  /\ groups \in [Workers -> SUBSET Ids]
  /\ answer \in [Workers -> {"true", "false", "error", "none"}]
  /\ seen \in [Workers -> [Ids -> SUBSET (Ids \cup {Root, Absent})]]
  /\ begun \in 0..MaxRequests

\* No two open transactions have written the same row, whatever the order of
\* their cascades.
RowLocks ==
  \A v, w \in Workers, i \in Ids :
    v # w /\ wr[v][i] # Clean => wr[w][i] = Clean

\* A row that has been deleted never comes back: a late modification, of a
\* page loaded before, does not restore what somebody removed.
NoResurrection ==
  [][\A i \in known : db[i] = Absent => db'[i] = Absent]_vars

\* Every commit is one addition of a fresh row, one rewrite of a present row
\* or one removal of present rows: the services implement Catalog.
Cat == INSTANCE Catalog
ImplementsCatalog == Cat!Spec

\* The answers are true: a removal answered "true" has left its target gone for
\* good, and "false" says that the target was missing at some moment of the
\* request (or that a case could not be converted), never that a lock was busy.
AnswersAreTrue ==
  \A w \in Workers :
    /\ ~Busy(w) /\ answer[w] = "true" /\ req[w].verb = "remove"
         => db[req[w].id] = Absent
    /\ Busy(w) /\ answer[w] = "false"
         => Absent \in seen[w][req[w].id]

\* The rows that have a parent in S, when the parents of row i are the set up[i].
Under(up, S) == {i \in Ids : up[i] \cap S # {}}

\* The rows from t downwards; the tree has four levels.
Below(up, t) ==
  LET one == Under(up, {t})
      two == Under(up, one)
  IN {t} \cup one \cup two \cup Under(up, two)

\* A cascade deletes nothing but rows that, link by link, hung below the
\* request's target at some moment of the request, however the others move and
\* add rows meanwhile.
RemovesOnlyBelowTarget ==
  \A w \in Workers : Busy(w) =>
    \A i \in Ids : wr[w][i] = Absent => i \in Below(seen[w], req[w].id)

Removing(w) == pc[w] = "commit" /\ req[w].verb = "remove" /\ answer[w] = "true"

\* A removal during which nobody committed a change removes the whole subtree
\* of its target and nothing else.
QuietRemoveTakesSubtree ==
  [][\A w \in Workers :
       /\ Removing(w) /\ pc'[w] = "idle"
       /\ \A i \in Ids : seen[w][i] = {db[i]}
       => Present(db') = Present(db) \ Below([i \in Ids |-> {db[i]}], req[w].id)]_vars

\* A removal leaves a child of a row it deletes behind only if the child or
\* that row was changed by another request meanwhile.
OrphansWereRaced ==
  [][\A w \in Workers : Removing(w) /\ pc'[w] = "idle" =>
       \A i, p \in Ids :
         db[p] # Absent /\ db'[p] = Absent /\ db'[i] = p
         => seen[w][i] # {db[i]} \/ seen[w][p] # {db[p]}]_vars

\* Every request ends, also when two cascades lock the same rows in opposite
\* orders (removeCaseColl: cases first; removeBusniessByBusId: cases last).
RequestsEnd == \A w \in Workers : Busy(w) ~> ~Busy(w)
=============================================================================
