-------------------------- MODULE HierarchyProofs --------------------------
(* Theorems about Hierarchy, for any number of request threads and any     *)
(* tables.                                                                 *)
EXTENDS Hierarchy, TLAPS

-----------------------------------------------------------------------------
(* The inductive invariant.                                                *)

\* The statements of the removal of i up to and including the one that deletes
\* row i itself, and those after it.
BeforeOwn(i) ==
  IF i \in Colls THEN {"select_buses", "delete_coll"}
  ELSE IF i \in Buses THEN {"select_groups", "delete_bus"}
  ELSE IF i \in CaseColls THEN {"delete_cases", "delete_row"}
  ELSE {"delete_row"}

AfterOwn(i) ==
  IF i \in Colls
  THEN {"next_bus", "select_groups", "delete_bus", "delete_groups", "delete_cases", "commit"}
  ELSE IF i \in Buses THEN {"delete_groups", "delete_cases", "commit"}
  ELSE {"commit"}

\* What a request is while it runs, and where it can be.
AddOK(w) ==
  req[w].verb = "add" =>
    /\ pc[w] \in {"insert", "commit"}
    /\ req[w].id \notin known
    /\ req[w].parent \in ParentsOf(req[w].id)

ModifyOK(w) ==
  req[w].verb = "modify" =>
    /\ pc[w] \in {"select_bus", "update", "commit"}
    /\ req[w].id \in known
    /\ Movable(req[w].id) => req[w].parent \in ParentsOf(req[w].id)

RemoveOK(w) ==
  req[w].verb = "remove" =>
    /\ pc[w] \in BeforeOwn(req[w].id) \cup AfterOwn(req[w].id)
    /\ req[w].id \in known
    /\ pc[w] \in {"select_groups", "delete_bus", "delete_groups"} =>
         /\ cur[w] \in Ids
         /\ req[w].id \in Buses => cur[w] = req[w].id
    /\ req[w].id \in CaseColls => groups[w] \subseteq {req[w].id}

RequestOK ==
  \A w \in Workers : Busy(w) =>
    /\ req[w] \in Requests
    /\ AddOK(w) /\ ModifyOK(w) /\ RemoveOK(w)
    /\ pc[w] # "commit" => answer[w] = "none"

\* Two additions under way never share a key.
FreshKeys ==
  \A v, w \in Workers :
    v # w /\ Busy(v) /\ Busy(w) /\ req[v].verb = "add" /\ req[w].verb = "add"
    => req[v].id # req[w].id

\* What a transaction may have written: a row of its own, or deletions of rows
\* that are there.
Overlay ==
  \A w \in Workers, i \in Ids : wr[w][i] # Clean =>
    /\ Busy(w)
    /\ req[w].verb = "add" => i = req[w].id /\ wr[w][i] = req[w].parent
    /\ req[w].verb = "modify" =>
         i = req[w].id /\ wr[w][i] \in ParentsOf(i) /\ db[i] # Absent
    /\ req[w].verb = "remove" => wr[w][i] = Absent /\ db[i] # Absent

\* The target of a request is untouched until its statement and, of a
\* removal, gone from then on.
Target ==
  \A w \in Workers : Busy(w) =>
    /\ req[w].verb \in {"add", "modify"} /\ pc[w] # "commit" => wr[w][req[w].id] = Clean
    /\ req[w].verb = "remove" =>
         IF pc[w] \in AfterOwn(req[w].id)
         THEN View(w, req[w].id) = Absent
         ELSE wr[w][req[w].id] = Clean

PresentKnown == Present(db) \subseteq known

Witnessed ==
  \A w \in Workers : Busy(w) =>
    /\ \A i \in Ids : db[i] \in seen[w][i]
    /\ answer[w] = "false" => Absent \in seen[w][req[w].id]

Answered ==
  \A w \in Workers : ~Busy(w) /\ answer[w] = "true" =>
    /\ req[w] \in Requests
    /\ req[w].verb = "remove" => req[w].id \in known /\ db[req[w].id] = Absent

IInv ==
  /\ TypeOK /\ RequestOK /\ FreshKeys /\ Overlay /\ RowLocks
  /\ Target /\ PresentKnown /\ Witnessed /\ Answered
-----------------------------------------------------------------------------
(* Facts about the tables.                                                 *)

\* A parent is another row or the root, never a marker and never the row itself.
LEMMA ParentFacts ==
  ASSUME NEW i \in Ids
  PROVE  /\ ParentsOf(i) \subseteq Ids \cup {Root}
         /\ Absent \notin ParentsOf(i) /\ Clean \notin ParentsOf(i)
         /\ i \notin ParentsOf(i)
  BY TableAssumption DEF ParentsOf, Ids

\* The markers are no keys and differ from each other.
LEMMA MarkerFacts ==
  /\ Root \notin Ids /\ Absent \notin Ids /\ Clean \notin Ids /\ None \notin Ids
  /\ Root # Absent /\ Root # Clean /\ Absent # Clean
  /\ None # Absent /\ None # Clean /\ None # Root
  /\ Start \in Tables /\ MaxRequests \in Nat
  BY TableAssumption

\* A request record is not the marker of an idle thread without one.
LEMMA RequestFields ==
  ASSUME NEW r \in Requests
  PROVE  /\ r.verb \in {"add", "modify", "remove"}
         /\ r.id \in Ids /\ r.parent \in Ids \cup {Root}
  BY DEF Requests

\* What a transaction sees of a row is a parent of the right table, or nothing.
LEMMA ViewType ==
  ASSUME TypeOK, RequestOK, Overlay, NEW w \in Workers, NEW i \in Ids
  PROVE  /\ View(w, i) \in ParentsOf(i) \cup {Absent}
         /\ db[i] \in ParentsOf(i) \cup {Absent}
         /\ wr[w][i] = Clean \/ wr[w][i] \in ParentsOf(i) \cup {Absent}
  <1>1. db[i] \in ParentsOf(i) \cup {Absent}
    BY DEF TypeOK, Tables
  <1>2. wr[w][i] # Clean => wr[w][i] \in ParentsOf(i) \cup {Absent}
    BY RequestFields DEF Overlay, RequestOK, AddOK
  <1>3. QED
    BY <1>1, <1>2 DEF View

-----------------------------------------------------------------------------
(* The invariant holds initially.                                          *)

LEMMA InitIInv == Init => IInv
  <1> SUFFICES ASSUME Init PROVE IInv
    OBVIOUS
  <1> USE MarkerFacts
  <1>1. TypeOK
    BY DEF Init, TypeOK, NoWrites, Tables, Present, Statements
  <1>2. RequestOK /\ FreshKeys /\ Target /\ Witnessed /\ Answered
    BY DEF Init, RequestOK, FreshKeys, Target, Witnessed, Answered, Busy
  <1>3. Overlay /\ RowLocks
    BY DEF Init, Overlay, RowLocks, NoWrites
  <1>4. PresentKnown
    BY DEF Init, PresentKnown
  <1>5. QED
    BY <1>1, <1>2, <1>3, <1>4 DEF IInv

-----------------------------------------------------------------------------
(* The steps.                                                              *)

\* The effect of a statement that writes.
LEMMA WriteFacts ==
  ASSUME TypeOK, NEW w \in Workers, NEW S, NEW x \in Ids \cup {Root, Absent, Clean},
         Write(w, S, x)
  PROVE  /\ wr' \in [Workers -> [Ids -> Ids \cup {Root, Absent, Clean}]]
         /\ \A v \in Workers \ {w} : wr'[v] = wr[v]
         /\ \A i \in Ids : wr'[w][i] = IF i \in S THEN x ELSE wr[w][i]
  BY DEF TypeOK, Write

\* A statement that waits for its rows keeps the row locks exclusive.
LEMMA LockedWrite ==
  ASSUME TypeOK, RowLocks, NEW w \in Workers, NEW S,
         NEW x \in Ids \cup {Root, Absent, Clean}, Write(w, S, x), Free(w, S)
  PROVE  RowLocks'
  BY WriteFacts DEF RowLocks, Free

LEMMA InsertStep ==
  ASSUME IInv, NEW w \in Workers, Insert(w)
  PROVE  IInv'
  <1> USE MarkerFacts, RequestFields DEF IInv
  <1>a. /\ Busy(w) /\ pc[w] = "insert" /\ req[w] \in Requests /\ req[w].verb = "add"
        /\ pc' = [pc EXCEPT ![w] = "commit"] /\ answer' = [answer EXCEPT ![w] = "true"]
        /\ UNCHANGED <<db, known, req, todo, cur, groups, seen, begun>>
        /\ Write(w, {req[w].id}, req[w].parent)
        /\ req[w].id \notin known /\ req[w].parent \in ParentsOf(req[w].id)
        /\ req[w].id \in Ids /\ req[w].parent \in Ids \cup {Root}
    BY DEF Insert, Return, Busy, RequestOK, AddOK, ModifyOK, RemoveOK, BeforeOwn, AfterOwn
  <1>b. /\ wr' \in [Workers -> [Ids -> Ids \cup {Root, Absent, Clean}]]
        /\ \A v \in Workers \ {w} : wr'[v] = wr[v]
        /\ \A i \in Ids : wr'[w][i] = IF i = req[w].id THEN req[w].parent ELSE wr[w][i]
    BY <1>a, WriteFacts
  <1>1. TypeOK'
    BY <1>a, <1>b DEF TypeOK
  <1>2. RequestOK' /\ FreshKeys'
    BY <1>a DEF RequestOK, AddOK, ModifyOK, RemoveOK, FreshKeys, Busy, TypeOK
  <1>3. Overlay'
    BY <1>a, <1>b DEF Overlay, Busy, TypeOK
  <1>4. RowLocks'
    BY <1>a, <1>b DEF Overlay, RowLocks, FreshKeys, PresentKnown, Present, RequestOK, AddOK, ModifyOK, Busy
  <1>5. Target'
    BY <1>a, <1>b DEF Target, View, Busy, TypeOK, AfterOwn
  <1>6. PresentKnown' /\ Witnessed' /\ Answered'
    BY <1>a DEF PresentKnown, Present, Witnessed, Answered, Busy, TypeOK
  <1>7. QED
    BY <1>1, <1>2, <1>3, <1>4, <1>5, <1>6




LEMMA ConversionFailsStep ==
  ASSUME IInv, NEW w \in Workers, ConversionFails(w)
  PROVE  IInv'
  <1> USE MarkerFacts, RequestFields DEF IInv
  <1>a. /\ Busy(w) /\ pc[w] = "insert" /\ req[w] \in Requests /\ req[w].verb = "add"
        /\ req[w].id \notin known
        /\ pc' = [pc EXCEPT ![w] = "commit"] /\ answer' = [answer EXCEPT ![w] = "false"]
        /\ UNCHANGED <<db, known, wr, req, todo, cur, groups, seen, begun>>
    BY DEF ConversionFails, Return, Busy, RequestOK, AddOK, ModifyOK, RemoveOK, BeforeOwn, AfterOwn
  <1>b. db[req[w].id] = Absent
    BY <1>a DEF PresentKnown, Present
  <1>c. Absent \in seen[w][req[w].id]
    BY <1>a, <1>b DEF Witnessed
  <1>1. TypeOK'
    BY <1>a DEF TypeOK, Statements
  <1>2. RequestOK' /\ FreshKeys'
    BY <1>a DEF RequestOK, AddOK, ModifyOK, RemoveOK, BeforeOwn, AfterOwn, FreshKeys, Busy, TypeOK
  <1>3. Overlay' /\ RowLocks'
    BY <1>a DEF Overlay, RowLocks, Busy, TypeOK
  <1>4. Target'
    BY <1>a DEF Target, View, Busy, TypeOK, BeforeOwn, AfterOwn
  <1>5. PresentKnown' /\ Witnessed' /\ Answered'
    BY <1>a, <1>c DEF PresentKnown, Present, Witnessed, Answered, Busy, TypeOK
  <1>6. QED
    BY <1>1, <1>2, <1>3, <1>4, <1>5

LEMMA SelectBusesStep ==
  ASSUME IInv, NEW w \in Workers, SelectBuses(w)
  PROVE  IInv'
  <1> USE MarkerFacts, RequestFields DEF IInv
  <1>a. /\ Busy(w) /\ pc[w] = "select_buses" /\ req[w] \in Requests /\ req[w].verb = "remove"
        /\ req[w].id \in Colls
        /\ pc' = [pc EXCEPT ![w] = "delete_coll"]
        /\ todo' = [todo EXCEPT ![w] = ChildrenOf(w, req[w].id)]
        /\ ChildrenOf(w, req[w].id) \subseteq Ids
        /\ UNCHANGED <<db, known, wr, req, cur, groups, answer, seen, begun>>
    BY TableAssumption DEF SelectBuses, Busy, ChildrenOf, RequestOK, AddOK, ModifyOK, RemoveOK, BeforeOwn, AfterOwn
  <1>1. TypeOK'
    BY <1>a, TableAssumption DEF TypeOK, Statements
  <1>2. RequestOK' /\ FreshKeys'
    BY <1>a, TableAssumption DEF RequestOK, AddOK, ModifyOK, RemoveOK, BeforeOwn, AfterOwn, FreshKeys, Busy, TypeOK
  <1>3. Overlay' /\ RowLocks'
    BY <1>a DEF Overlay, RowLocks, Busy, TypeOK
  <1>4. Target'
    BY <1>a, TableAssumption DEF Target, View, Busy, TypeOK, BeforeOwn, AfterOwn
  <1>5. PresentKnown' /\ Witnessed' /\ Answered'
    BY <1>a DEF PresentKnown, Present, Witnessed, Answered, Busy, TypeOK
  <1>6. QED
    BY <1>1, <1>2, <1>3, <1>4, <1>5

LEMMA NextBusStep ==
  ASSUME IInv, NEW w \in Workers, NextBus(w)
  PROVE  IInv'
  <1> USE MarkerFacts, RequestFields DEF IInv
  <1>a. /\ Busy(w) /\ pc[w] = "next_bus" /\ req[w] \in Requests /\ req[w].verb = "remove"
        /\ req[w].id \in Colls /\ req[w].id \notin Buses \cup CaseColls
        /\ UNCHANGED <<db, known, wr, req, groups, seen, begun>>
    BY TableAssumption DEF NextBus, Busy, RequestOK, AddOK, ModifyOK, RemoveOK, BeforeOwn, AfterOwn
  <1>b. \/ \E b \in todo[w] : /\ cur' = [cur EXCEPT ![w] = b]
                              /\ todo' = [todo EXCEPT ![w] = @ \ {b}]
                              /\ pc' = [pc EXCEPT ![w] = "select_groups"]
                              /\ answer' = answer
        \/ /\ pc' = [pc EXCEPT ![w] = "commit"] /\ answer' = [answer EXCEPT ![w] = "true"]
           /\ UNCHANGED <<todo, cur>>
    BY DEF NextBus, Return
  <1>c. /\ \A v \in Workers \ {w} : pc'[v] = pc[v] /\ cur'[v] = cur[v] /\ answer'[v] = answer[v]
        /\ \/ pc'[w] = "select_groups" /\ answer'[w] = answer[w] /\ cur'[w] \in Ids
           \/ pc'[w] = "commit" /\ answer'[w] = "true"
    BY <1>b DEF TypeOK
  <1>d. /\ pc' \in [Workers -> Statements \cup {"idle", "commit"}]
        /\ cur' \in [Workers -> Ids \cup {None}]
        /\ todo' \in [Workers -> SUBSET Ids]
        /\ answer' \in [Workers -> {"true", "false", "error", "none"}]
    <2>1. CASE \E b \in todo[w] : /\ cur' = [cur EXCEPT ![w] = b]
                                  /\ todo' = [todo EXCEPT ![w] = @ \ {b}]
                                  /\ pc' = [pc EXCEPT ![w] = "select_groups"]
                                  /\ answer' = answer
      <3>1. PICK b \in todo[w] : /\ cur' = [cur EXCEPT ![w] = b]
                                 /\ todo' = [todo EXCEPT ![w] = @ \ {b}]
                                 /\ pc' = [pc EXCEPT ![w] = "select_groups"]
                                 /\ answer' = answer
        BY <2>1
      <3>2. b \in Ids /\ todo[w] \ {b} \in SUBSET Ids
        BY DEF TypeOK
      <3>3. QED
        BY <3>1, <3>2 DEF TypeOK, Statements
    <2>2. CASE /\ pc' = [pc EXCEPT ![w] = "commit"]
               /\ answer' = [answer EXCEPT ![w] = "true"]
               /\ UNCHANGED <<todo, cur>>
      BY <2>2 DEF TypeOK, Statements
    <2>3. QED
      BY <1>b, <2>1, <2>2
  <1>1. TypeOK'
    BY <1>a, <1>d DEF TypeOK
  <1>2. RequestOK' /\ FreshKeys'
    BY <1>a, <1>c DEF RequestOK, AddOK, ModifyOK, RemoveOK, BeforeOwn, AfterOwn, FreshKeys, Busy
  <1>3. Overlay' /\ RowLocks'
    BY <1>a, <1>c DEF Overlay, RowLocks, Busy
  <1>4. Target'
    BY <1>a, <1>c DEF Target, View, Busy, BeforeOwn, AfterOwn
  <1>5. PresentKnown' /\ Witnessed' /\ Answered'
    BY <1>a, <1>c DEF PresentKnown, Present, Witnessed, Answered, Busy
  <1>6. QED
    BY <1>1, <1>2, <1>3, <1>4, <1>5

LEMMA SelectGroupsStep ==
  ASSUME IInv, NEW w \in Workers, SelectGroups(w)
  PROVE  IInv'
  <1> USE MarkerFacts, RequestFields DEF IInv
  <1>a. /\ Busy(w) /\ pc[w] = "select_groups" /\ req[w] \in Requests /\ req[w].verb = "remove"
        /\ req[w].id \in Colls \cup Buses
        /\ pc' = [pc EXCEPT ![w] = "delete_bus"]
        /\ groups' = [groups EXCEPT ![w] = ChildrenOf(w, cur[w])]
        /\ ChildrenOf(w, cur[w]) \subseteq Ids
        /\ UNCHANGED <<db, known, wr, req, todo, cur, answer, seen, begun>>
    BY TableAssumption DEF SelectGroups, Busy, ChildrenOf, RequestOK, AddOK, ModifyOK, RemoveOK, BeforeOwn, AfterOwn
  <1>1. TypeOK'
    BY <1>a, TableAssumption DEF TypeOK, Statements
  <1>2. RequestOK' /\ FreshKeys'
    BY <1>a, TableAssumption DEF RequestOK, AddOK, ModifyOK, RemoveOK, BeforeOwn, AfterOwn, FreshKeys, Busy, TypeOK
  <1>3. Overlay' /\ RowLocks'
    BY <1>a DEF Overlay, RowLocks, Busy, TypeOK
  <1>4. Target'
    BY <1>a, TableAssumption DEF Target, View, Busy, TypeOK, BeforeOwn, AfterOwn
  <1>5. PresentKnown' /\ Witnessed' /\ Answered'
    BY <1>a DEF PresentKnown, Present, Witnessed, Answered, Busy, TypeOK
  <1>6. QED
    BY <1>1, <1>2, <1>3, <1>4, <1>5

\* An exception: the transaction is rolled back.
LEMMA RollbackStep ==
  ASSUME IInv, NEW w \in Workers, Busy(w), Rollback(w)
  PROVE  IInv'
  <1> USE MarkerFacts, RequestFields DEF IInv
  <1>a. /\ wr' = [wr EXCEPT ![w] = NoWrites]
        /\ pc' = [pc EXCEPT ![w] = "idle"] /\ answer' = [answer EXCEPT ![w] = "error"]
        /\ todo' = [todo EXCEPT ![w] = {}] /\ groups' = [groups EXCEPT ![w] = {}]
        /\ cur' = [cur EXCEPT ![w] = None]
        /\ seen' = [seen EXCEPT ![w] = [i \in Ids |-> {}]]
        /\ UNCHANGED <<db, known, req, begun>>
    BY DEF Rollback, Forget
  <1>1. TypeOK'
    BY <1>a DEF TypeOK, NoWrites
  <1>2. RequestOK' /\ FreshKeys'
    BY <1>a DEF RequestOK, AddOK, ModifyOK, RemoveOK, FreshKeys, Busy, TypeOK
  <1>3. Overlay' /\ RowLocks'
    BY <1>a DEF Overlay, RowLocks, Busy, TypeOK, NoWrites
  <1>4. Target'
    BY <1>a DEF Target, View, Busy, TypeOK
  <1>5. PresentKnown' /\ Witnessed' /\ Answered'
    BY <1>a DEF PresentKnown, Present, Witnessed, Answered, Busy, TypeOK
  <1>6. QED
    BY <1>1, <1>2, <1>3, <1>4, <1>5

LEMMA SelectBusStep ==
  ASSUME IInv, NEW w \in Workers, SelectBus(w)
  PROVE  IInv'
  <1> USE MarkerFacts, RequestFields DEF IInv
  <1>1. CASE Rollback(w)
    BY <1>1, RollbackStep DEF SelectBus, Busy
  <1>2. CASE ~Rollback(w)
    <2>a. /\ Busy(w) /\ pc[w] = "select_bus" /\ req[w] \in Requests /\ req[w].verb = "modify"
          /\ pc' = [pc EXCEPT ![w] = "update"]
          /\ UNCHANGED <<db, known, wr, req, todo, cur, groups, answer, seen, begun>>
      BY <1>2 DEF SelectBus, Busy, RequestOK, AddOK, ModifyOK, RemoveOK, BeforeOwn, AfterOwn
    <2>1. TypeOK'
      BY <2>a DEF TypeOK, Statements
    <2>2. RequestOK' /\ FreshKeys'
      BY <2>a DEF RequestOK, AddOK, ModifyOK, RemoveOK, FreshKeys, Busy, TypeOK
    <2>3. Overlay' /\ RowLocks'
      BY <2>a DEF Overlay, RowLocks, Busy, TypeOK
    <2>4. Target'
      BY <2>a DEF Target, View, Busy, TypeOK
    <2>5. PresentKnown' /\ Witnessed' /\ Answered'
      BY <2>a DEF PresentKnown, Present, Witnessed, Answered, Busy, TypeOK
    <2>6. QED
      BY <2>1, <2>2, <2>3, <2>4, <2>5
  <1>3. QED
    BY <1>1, <1>2

LEMMA UpdateStep ==
  ASSUME IInv, NEW w \in Workers, Update(w)
  PROVE  IInv'
  <1> DEFINE rows == RowOf(w, req[w].id)
             x == IF Movable(req[w].id) THEN req[w].parent ELSE View(w, req[w].id)
  <1> USE MarkerFacts, RequestFields DEF IInv
  <1>a. /\ Busy(w) /\ pc[w] = "update" /\ req[w] \in Requests /\ req[w].verb = "modify"
        /\ req[w].id \in Ids /\ wr[w][req[w].id] = Clean
        /\ pc' = [pc EXCEPT ![w] = "commit"]
        /\ answer' = [answer EXCEPT ![w] = IF rows # {} THEN "true" ELSE "false"]
        /\ UNCHANGED <<db, known, req, todo, cur, groups, seen, begun>>
        /\ Free(w, rows) /\ Write(w, rows, x)
    BY DEF Update, UpdatedRow, Return, Busy, RequestOK, AddOK, ModifyOK, RemoveOK, BeforeOwn,
           AfterOwn, Target
  <1>b. rows = IF db[req[w].id] # Absent THEN {req[w].id} ELSE {}
    BY <1>a DEF RowOf, View
  <1>c. rows # {} => x \in ParentsOf(req[w].id)
    BY <1>a, <1>b, ViewType DEF RequestOK, ModifyOK, RowOf
  <1>d. x \in Ids \cup {Root, Absent}
    BY <1>a, ViewType, ParentFacts
  <1>e. /\ wr' \in [Workers -> [Ids -> Ids \cup {Root, Absent, Clean}]]
        /\ \A v \in Workers \ {w} : wr'[v] = wr[v]
        /\ \A i \in Ids : wr'[w][i] = IF i \in rows THEN x ELSE wr[w][i]
    BY <1>a, <1>d, WriteFacts
  <1>1. TypeOK'
    BY <1>a, <1>e DEF TypeOK
  <1>2. RequestOK' /\ FreshKeys'
    BY <1>a DEF RequestOK, AddOK, ModifyOK, RemoveOK, FreshKeys, Busy, TypeOK
  <1>3. Overlay'
    BY <1>a, <1>b, <1>c, <1>e DEF Overlay, Busy, TypeOK
  <1>4. RowLocks'
    BY <1>a, <1>d, LockedWrite
  <1>5. Target'
    BY <1>a, <1>e DEF Target, View, Busy, TypeOK, AfterOwn
  <1>6. rows = {} => Absent \in seen[w][req[w].id]
    BY <1>a, <1>b DEF Witnessed
  <1>7. PresentKnown' /\ Witnessed' /\ Answered'
    BY <1>a, <1>6 DEF PresentKnown, Present, Witnessed, Answered, Busy, TypeOK
  <1>8. QED
    BY <1>1, <1>2, <1>3, <1>4, <1>5, <1>7

\* The part all deletions share.
LEMMA DeleteFacts ==
  ASSUME IInv, NEW w \in Workers, Busy(w), req[w].verb = "remove",
         NEW S \in SUBSET {i \in Ids : View(w, i) # Absent},
         Free(w, S), Write(w, S, Absent),
         UNCHANGED <<db, known, req, begun>>,
         \A v \in Workers \ {w} : pc'[v] = pc[v], pc'[w] # "idle"
  PROVE  /\ wr' \in [Workers -> [Ids -> Ids \cup {Root, Absent, Clean}]]
         /\ \A v \in Workers \ {w} : wr'[v] = wr[v]
         /\ \A i \in Ids : wr'[w][i] = IF i \in S THEN Absent ELSE wr[w][i]
         /\ Overlay' /\ RowLocks' /\ FreshKeys' /\ PresentKnown'
  <1> USE MarkerFacts DEF IInv
  <1>1. /\ wr' \in [Workers -> [Ids -> Ids \cup {Root, Absent, Clean}]]
        /\ \A v \in Workers \ {w} : wr'[v] = wr[v]
        /\ \A i \in Ids : wr'[w][i] = IF i \in S THEN Absent ELSE wr[w][i]
    BY WriteFacts
  <1>2. \A i \in S : i \in Ids /\ wr[w][i] = Clean /\ db[i] # Absent
    BY DEF Overlay, View
  <1>3. Overlay'
    BY <1>1, <1>2 DEF Overlay, Busy
  <1>4. RowLocks'
    BY LockedWrite
  <1>5. FreshKeys' /\ PresentKnown'
    BY DEF FreshKeys, PresentKnown, Present, Busy
  <1>6. QED
    BY <1>1, <1>3, <1>4, <1>5

LEMMA RowOfFacts ==
  ASSUME NEW w, NEW i \in Ids
  PROVE  /\ RowOf(w, i) \in SUBSET {j \in Ids : View(w, j) # Absent}
         /\ RowOf(w, i) = IF View(w, i) # Absent THEN {i} ELSE {}
  BY DEF RowOf

LEMMA ChildrenFacts ==
  ASSUME NEW w, NEW p \in Ids
  PROVE  ChildrenOf(w, p) \in SUBSET {j \in Ids : View(w, j) # Absent}
  BY MarkerFacts DEF ChildrenOf

LEMMA DeleteCollStep ==
  ASSUME IInv, NEW w \in Workers, DeleteColl(w)
  PROVE  IInv'
  <1> DEFINE S == RowOf(w, req[w].id)
             i == req[w].id
  <1> USE MarkerFacts, RequestFields DEF IInv
  <1>a. /\ Busy(w) /\ pc[w] = "delete_coll" /\ req[w] \in Requests /\ req[w].verb = "remove"
        /\ i \in Colls /\ i \notin Buses \cup CaseColls /\ i \in Ids /\ answer[w] = "none"
        /\ wr[w][i] = Clean
        /\ Free(w, S) /\ Write(w, S, Absent)
        /\ UNCHANGED <<db, known, req, todo, cur, groups, seen, begun>>
    BY TableAssumption DEF DeleteColl, Busy, RequestOK, AddOK, ModifyOK, RemoveOK, BeforeOwn, AfterOwn, Target
  <1>b. /\ S \in SUBSET {j \in Ids : View(w, j) # Absent}
        /\ S = IF db[i] # Absent THEN {i} ELSE {}
    BY <1>a, RowOfFacts DEF View
  <1>c. \/ /\ S # {} /\ pc' = [pc EXCEPT ![w] = "next_bus"] /\ answer' = answer
        \/ /\ S = {} /\ pc' = [pc EXCEPT ![w] = "commit"]
           /\ answer' = [answer EXCEPT ![w] = "false"]
    BY DEF DeleteColl, Return
  <1>d. /\ pc' \in [Workers -> Statements \cup {"idle", "commit"}]
        /\ answer' \in [Workers -> {"true", "false", "error", "none"}]
        /\ \A v \in Workers \ {w} : pc'[v] = pc[v] /\ answer'[v] = answer[v]
        /\ \/ S # {} /\ pc'[w] = "next_bus" /\ answer'[w] = "none"
           \/ S = {} /\ pc'[w] = "commit" /\ answer'[w] = "false"
    BY <1>a, <1>c DEF TypeOK, Statements
  <1>e. /\ wr' \in [Workers -> [Ids -> Ids \cup {Root, Absent, Clean}]]
        /\ \A v \in Workers \ {w} : wr'[v] = wr[v]
        /\ \A j \in Ids : wr'[w][j] = IF j \in S THEN Absent ELSE wr[w][j]
        /\ Overlay' /\ RowLocks' /\ FreshKeys' /\ PresentKnown'
    BY <1>a, <1>b, <1>d, DeleteFacts
  <1>1. TypeOK'
    BY <1>a, <1>d, <1>e DEF TypeOK
  <1>2. RequestOK'
    BY <1>a, <1>d DEF RequestOK, AddOK, ModifyOK, RemoveOK, BeforeOwn, AfterOwn, Busy
  <1>3. Target'
    BY <1>a, <1>b, <1>d, <1>e DEF Target, View, Busy, BeforeOwn, AfterOwn
  <1>4. S = {} => Absent \in seen[w][i]
    BY <1>a, <1>b DEF Witnessed
  <1>5. Witnessed' /\ Answered'
    BY <1>a, <1>4, <1>d DEF Witnessed, Answered, Busy
  <1>6. QED
    BY <1>1, <1>2, <1>3, <1>5, <1>e

LEMMA DeleteBusStep ==
  ASSUME IInv, NEW w \in Workers, DeleteBus(w)
  PROVE  IInv'
  <1> DEFINE S == RowOf(w, cur[w])
             i == req[w].id
  <1> USE MarkerFacts, RequestFields DEF IInv
  <1>a. /\ Busy(w) /\ pc[w] = "delete_bus" /\ req[w] \in Requests /\ req[w].verb = "remove"
        /\ i \in Ids /\ answer[w] = "none" /\ cur[w] \in Ids
        /\ i \in Colls \/ i \in Buses
        /\ i \in Colls => i \notin Buses
        /\ i \notin CaseColls
        /\ i \in Buses => cur[w] = i /\ wr[w][i] = Clean
        /\ i \in Colls => View(w, i) = Absent
        /\ Free(w, S) /\ Write(w, S, Absent)
        /\ UNCHANGED <<db, known, req, todo, cur, groups, seen, begun>>
    BY TableAssumption DEF DeleteBus, Busy, RequestOK, AddOK, ModifyOK, RemoveOK, BeforeOwn, AfterOwn, Target
  <1>b. /\ S \in SUBSET {j \in Ids : View(w, j) # Absent}
        /\ S = IF View(w, cur[w]) # Absent THEN {cur[w]} ELSE {}
    BY <1>a, RowOfFacts
  <1>c. \/ /\ S # {} /\ pc' = [pc EXCEPT ![w] = "delete_groups"] /\ answer' = answer
        \/ /\ S = {} /\ i \in Colls
           /\ pc' = [pc EXCEPT ![w] = "next_bus"] /\ answer' = answer
        \/ /\ S = {} /\ i \notin Colls
           /\ pc' = [pc EXCEPT ![w] = "commit"] /\ answer' = [answer EXCEPT ![w] = "false"]
    BY DEF DeleteBus, ReturnFromBus, Return
  <1>d. /\ pc' \in [Workers -> Statements \cup {"idle", "commit"}]
        /\ answer' \in [Workers -> {"true", "false", "error", "none"}]
        /\ \A v \in Workers \ {w} : pc'[v] = pc[v] /\ answer'[v] = answer[v]
        /\ \/ S # {} /\ pc'[w] = "delete_groups" /\ answer'[w] = "none"
           \/ S = {} /\ i \in Colls /\ pc'[w] = "next_bus" /\ answer'[w] = "none"
           \/ S = {} /\ i \notin Colls /\ pc'[w] = "commit" /\ answer'[w] = "false"
    BY <1>a, <1>c DEF TypeOK, Statements
  <1>e. /\ wr' \in [Workers -> [Ids -> Ids \cup {Root, Absent, Clean}]]
        /\ \A v \in Workers \ {w} : wr'[v] = wr[v]
        /\ \A j \in Ids : wr'[w][j] = IF j \in S THEN Absent ELSE wr[w][j]
        /\ Overlay' /\ RowLocks' /\ FreshKeys' /\ PresentKnown'
    BY <1>a, <1>b, <1>d, DeleteFacts
  <1>1. TypeOK'
    BY <1>a, <1>d, <1>e DEF TypeOK
  <1>2. RequestOK'
    BY <1>a, <1>d DEF RequestOK, AddOK, ModifyOK, RemoveOK, BeforeOwn, AfterOwn, Busy
  <1>3. Target'
    BY <1>a, <1>b, <1>d, <1>e DEF Target, View, Busy, BeforeOwn, AfterOwn
  <1>4. S = {} /\ i \notin Colls => Absent \in seen[w][i]
    BY <1>a, <1>b DEF Witnessed, View
  <1>5. Witnessed' /\ Answered'
    BY <1>a, <1>4, <1>d DEF Witnessed, Answered, Busy
  <1>6. QED
    BY <1>1, <1>2, <1>3, <1>5, <1>e

LEMMA DeleteGroupsStep ==
  ASSUME IInv, NEW w \in Workers, DeleteGroups(w)
  PROVE  IInv'
  <1> DEFINE S == ChildrenOf(w, cur[w])
             i == req[w].id
  <1> USE MarkerFacts, RequestFields DEF IInv
  <1>a. /\ Busy(w) /\ pc[w] = "delete_groups" /\ req[w] \in Requests /\ req[w].verb = "remove"
        /\ i \in Ids /\ answer[w] = "none" /\ cur[w] \in Ids
        /\ i \in Colls \/ i \in Buses
        /\ i \in Colls => i \notin Buses
        /\ i \notin CaseColls
        /\ View(w, i) = Absent
        /\ Free(w, S) /\ Write(w, S, Absent)
        /\ pc' = [pc EXCEPT ![w] = "delete_cases"]
        /\ UNCHANGED <<db, known, req, todo, cur, groups, answer, seen, begun>>
    BY TableAssumption DEF DeleteGroups, Busy, RequestOK, AddOK, ModifyOK, RemoveOK, BeforeOwn, AfterOwn, Target
  <1>b. S \in SUBSET {j \in Ids : View(w, j) # Absent}
    BY <1>a, ChildrenFacts
  <1>e. /\ wr' \in [Workers -> [Ids -> Ids \cup {Root, Absent, Clean}]]
        /\ \A v \in Workers \ {w} : wr'[v] = wr[v]
        /\ \A j \in Ids : wr'[w][j] = IF j \in S THEN Absent ELSE wr[w][j]
        /\ Overlay' /\ RowLocks' /\ FreshKeys' /\ PresentKnown'
    BY <1>a, <1>b, DeleteFacts DEF TypeOK
  <1>1. TypeOK'
    BY <1>a, <1>e DEF TypeOK, Statements
  <1>2. RequestOK'
    BY <1>a DEF RequestOK, AddOK, ModifyOK, RemoveOK, BeforeOwn, AfterOwn, Busy, TypeOK
  <1>3. Target'
    BY <1>a, <1>b, <1>e DEF Target, View, Busy, BeforeOwn, AfterOwn, TypeOK
  <1>4. Witnessed' /\ Answered'
    BY <1>a DEF Witnessed, Answered, Busy, TypeOK
  <1>5. QED
    BY <1>1, <1>2, <1>3, <1>4, <1>e

LEMMA DeleteCasesStep ==
  ASSUME IInv, NEW w \in Workers, DeleteCases(w)
  PROVE  IInv'
  <1> DEFINE i == req[w].id
  <1> USE MarkerFacts, RequestFields DEF IInv
  <1>a. /\ Busy(w) /\ pc[w] = "delete_cases" /\ req[w] \in Requests /\ req[w].verb = "remove"
        /\ i \in Ids /\ answer[w] = "none"
        /\ i \in Colls \/ i \in Buses \/ i \in CaseColls
        /\ i \in Colls => i \notin Buses \cup CaseColls
        /\ i \in Buses => i \notin CaseColls
        /\ i \in CaseColls => groups[w] \subseteq {i} /\ wr[w][i] = Clean
        /\ i \notin CaseColls => View(w, i) = Absent
        /\ UNCHANGED <<db, known, req, todo, cur, seen, begun>>
    BY TableAssumption DEF DeleteCases, Busy, RequestOK, AddOK, ModifyOK, RemoveOK, BeforeOwn,
                           AfterOwn, Target
  <1>1. ASSUME NEW g \in groups[w],
               Free(w, ChildrenOf(w, g)), Write(w, ChildrenOf(w, g), Absent),
               groups' = [groups EXCEPT ![w] = @ \ {g}], UNCHANGED <<pc, answer>>
        PROVE  IInv'
    <2> DEFINE S == ChildrenOf(w, g)
    <2>1. g \in Ids /\ groups' \in [Workers -> SUBSET Ids]
          /\ \A v \in Workers : groups'[v] \subseteq groups[v]
      BY <1>1 DEF TypeOK
    <2>2. S \in SUBSET {j \in Ids : View(w, j) # Absent}
      BY <2>1, ChildrenFacts
    <2>3. /\ wr' \in [Workers -> [Ids -> Ids \cup {Root, Absent, Clean}]]
          /\ \A v \in Workers \ {w} : wr'[v] = wr[v]
          /\ \A j \in Ids : wr'[w][j] = IF j \in S THEN Absent ELSE wr[w][j]
          /\ Overlay' /\ RowLocks' /\ FreshKeys' /\ PresentKnown'
      BY <1>a, <1>1, <2>2, DeleteFacts DEF Busy
    <2>4. i \in CaseColls => i \notin S
      <3>1. i \in CaseColls => g = i
        BY <1>a, <1>1
      <3>2. View(w, i) \in ParentsOf(i) \cup {Absent}
        BY <1>a, ViewType
      <3>3. QED
        BY <1>a, <3>1, <3>2, ParentFacts DEF ChildrenOf
    <2>5. TypeOK'
      BY <1>a, <1>1, <2>1, <2>3 DEF TypeOK
    <2>6. RequestOK'
      BY <1>a, <1>1, <2>1 DEF RequestOK, AddOK, ModifyOK, RemoveOK, BeforeOwn, AfterOwn, Busy
    <2>7. Target'
      BY <1>a, <1>1, <2>3, <2>4 DEF Target, View, Busy, BeforeOwn, AfterOwn
    <2>8. Witnessed' /\ Answered'
      BY <1>a, <1>1 DEF Witnessed, Answered, Busy
    <2>9. QED
      BY <2>3, <2>5, <2>6, <2>7, <2>8
  <1>2. ASSUME UNCHANGED <<wr, groups>>,
               \/ /\ i \in CaseColls
                  /\ pc' = [pc EXCEPT ![w] = "delete_row"] /\ answer' = answer
               \/ /\ i \in Colls
                  /\ pc' = [pc EXCEPT ![w] = "next_bus"] /\ answer' = answer
               \/ /\ i \notin Colls \cup CaseColls
                  /\ pc' = [pc EXCEPT ![w] = "commit"]
                  /\ answer' = [answer EXCEPT ![w] = "true"]
        PROVE  IInv'
    <2>1. /\ pc' \in [Workers -> Statements \cup {"idle", "commit"}]
          /\ answer' \in [Workers -> {"true", "false", "error", "none"}]
          /\ \A v \in Workers \ {w} : pc'[v] = pc[v] /\ answer'[v] = answer[v]
          /\ \/ i \in CaseColls /\ pc'[w] = "delete_row" /\ answer'[w] = "none"
             \/ i \in Colls /\ pc'[w] = "next_bus" /\ answer'[w] = "none"
             \/ i \in Buses /\ pc'[w] = "commit" /\ answer'[w] = "true"
      BY <1>a, <1>2 DEF TypeOK, Statements
    <2>2. TypeOK'
      BY <1>a, <1>2, <2>1 DEF TypeOK
    <2>3. RequestOK' /\ FreshKeys'
      BY <1>a, <1>2, <2>1 DEF RequestOK, AddOK, ModifyOK, RemoveOK, BeforeOwn, AfterOwn, FreshKeys, Busy
    <2>4. Overlay' /\ RowLocks'
      BY <1>a, <1>2, <2>1 DEF Overlay, RowLocks, Busy
    <2>5. Target'
      BY <1>a, <1>2, <2>1 DEF Target, View, Busy, BeforeOwn, AfterOwn
    <2>6. PresentKnown' /\ Witnessed' /\ Answered'
      BY <1>a, <2>1 DEF PresentKnown, Present, Witnessed, Answered, Busy
    <2>7. QED
      BY <2>2, <2>3, <2>4, <2>5, <2>6
  <1>3. QED
    BY <1>1, <1>2, <1>a DEF DeleteCases, ReturnFromBus, Return

LEMMA DeleteRowStep ==
  ASSUME IInv, NEW w \in Workers, DeleteRow(w)
  PROVE  IInv'
  <1> DEFINE i == req[w].id
             S == RowOf(w, i)
  <1> USE MarkerFacts, RequestFields DEF IInv
  <1>a. /\ Busy(w) /\ pc[w] = "delete_row" /\ req[w] \in Requests /\ req[w].verb = "remove"
        /\ i \in Ids /\ i \notin Colls \cup Buses
        /\ wr[w][i] = Clean
        /\ Free(w, S) /\ Write(w, S, Absent)
        /\ pc' = [pc EXCEPT ![w] = "commit"]
        /\ answer' = [answer EXCEPT ![w] = IF S # {} THEN "true" ELSE "false"]
        /\ UNCHANGED <<db, known, req, todo, cur, groups, seen, begun>>
    BY TableAssumption DEF DeleteRow, Return, Busy, RequestOK, AddOK, ModifyOK, RemoveOK, BeforeOwn,
                           AfterOwn, Target
  <1>b. /\ S \in SUBSET {j \in Ids : View(w, j) # Absent}
        /\ S = IF db[i] # Absent THEN {i} ELSE {}
    BY <1>a, RowOfFacts DEF View
  <1>c. /\ pc' \in [Workers -> Statements \cup {"idle", "commit"}]
        /\ answer' \in [Workers -> {"true", "false", "error", "none"}]
        /\ \A v \in Workers \ {w} : pc'[v] = pc[v] /\ answer'[v] = answer[v]
        /\ pc'[w] = "commit" /\ answer'[w] = IF S # {} THEN "true" ELSE "false"
    BY <1>a DEF TypeOK, Statements
  <1>d. /\ wr' \in [Workers -> [Ids -> Ids \cup {Root, Absent, Clean}]]
        /\ \A v \in Workers \ {w} : wr'[v] = wr[v]
        /\ \A j \in Ids : wr'[w][j] = IF j \in S THEN Absent ELSE wr[w][j]
        /\ Overlay' /\ RowLocks' /\ FreshKeys' /\ PresentKnown'
    BY <1>a, <1>b, <1>c, DeleteFacts
  <1>1. TypeOK'
    BY <1>a, <1>c, <1>d DEF TypeOK
  <1>2. RequestOK'
    BY <1>a, <1>c DEF RequestOK, AddOK, ModifyOK, RemoveOK, BeforeOwn, AfterOwn, Busy
  <1>3. Target'
    BY <1>a, <1>b, <1>c, <1>d DEF Target, View, Busy, BeforeOwn, AfterOwn
  <1>4. S = {} => Absent \in seen[w][i]
    BY <1>a, <1>b DEF Witnessed
  <1>5. Witnessed' /\ Answered'
    BY <1>a, <1>4, <1>c DEF Witnessed, Answered, Busy
  <1>6. QED
    BY <1>1, <1>2, <1>3, <1>5, <1>d

\* The part all beginnings share: r is the request, first its first statement.
LEMMA BeginStep ==
  ASSUME IInv, NEW w \in Workers, NEW r \in Requests, NEW first \in Statements,
         Begin(w, r, first),
         cur' \in [Workers -> Ids \cup {None}], groups' \in [Workers -> SUBSET Ids],
         \A v \in Workers \ {w} : cur'[v] = cur[v] /\ groups'[v] = groups[v],
         AddOK(w)', ModifyOK(w)', RemoveOK(w)',
         r.verb = "add" =>
           \A v \in Workers : Busy(v) => ~(req[v].verb = "add" /\ req[v].id = r.id),
         r.verb = "remove" => first \notin AfterOwn(r.id)
  PROVE  IInv'
  <1> USE MarkerFacts, RequestFields DEF IInv
  <1>a. /\ ~Busy(w) /\ begun' \in 0..MaxRequests
        /\ req' = [req EXCEPT ![w] = r] /\ pc' = [pc EXCEPT ![w] = first]
        /\ answer' = [answer EXCEPT ![w] = "none"]
        /\ seen' = [seen EXCEPT ![w] = [i \in Ids |-> {db[i]}]]
        /\ UNCHANGED <<db, known, wr, todo>>
    BY DEF Begin, Busy, TypeOK
  <1>b. /\ pc' \in [Workers -> Statements \cup {"idle", "commit"}]
        /\ req' \in [Workers -> Requests \cup {None}]
        /\ answer' \in [Workers -> {"true", "false", "error", "none"}]
        /\ seen' \in [Workers -> [Ids -> SUBSET (Ids \cup {Root, Absent})]]
    <2>1. [i \in Ids |-> {db[i]}] \in [Ids -> SUBSET (Ids \cup {Root, Absent})]
      BY DEF TypeOK, Tables
    <2>2. QED
      BY <1>a, <2>1 DEF TypeOK
  <1>c. /\ pc'[w] = first /\ first # "idle" /\ first # "commit"
        /\ req'[w] = r /\ answer'[w] = "none"
        /\ \A i \in Ids : seen'[w][i] = {db[i]} /\ wr[w][i] = Clean
        /\ \A v \in Workers \ {w} : /\ pc'[v] = pc[v] /\ req'[v] = req[v]
                                    /\ answer'[v] = answer[v] /\ seen'[v] = seen[v]
    BY <1>a DEF TypeOK, Statements, Overlay
  <1>1. TypeOK'
    BY <1>a, <1>b DEF TypeOK
  <1>2. RequestOK'
    BY <1>a, <1>c DEF RequestOK, AddOK, ModifyOK, RemoveOK, Busy
  <1>3. FreshKeys'
    BY <1>a, <1>c DEF FreshKeys, Busy
  <1>4. Overlay' /\ RowLocks'
    BY <1>a, <1>c DEF Overlay, RowLocks, Busy
  <1>5. Target'
    BY <1>a, <1>c DEF Target, View, Busy
  <1>6. PresentKnown' /\ Witnessed' /\ Answered'
    BY <1>a, <1>c DEF PresentKnown, Present, Witnessed, Answered, Busy
  <1>7. QED
    BY <1>1, <1>2, <1>3, <1>4, <1>5, <1>6

LEMMA BeginAddStep ==
  ASSUME IInv, NEW w \in Workers, NEW i \in Ids, NEW p \in Ids \cup {Root}, BeginAdd(w, i, p)
  PROVE  IInv'
  <1> DEFINE r == [verb |-> "add", id |-> i, parent |-> p]
  <1>1. r \in Requests /\ r.verb = "add" /\ r.id = i
    BY DEF Requests
  <1>2. /\ Begin(w, r, "insert") /\ "insert" \in Statements
        /\ cur' = cur /\ groups' = groups
        /\ i \notin known /\ p \in ParentsOf(i)
        /\ \A v \in Workers : Busy(v) => ~(req[v].verb = "add" /\ req[v].id = i)
    BY DEF BeginAdd, Statements
  <1>3. req'[w] = r /\ pc'[w] = "insert" /\ known' = known
    BY <1>2 DEF Begin, IInv, TypeOK
  <1>4. AddOK(w)' /\ ModifyOK(w)' /\ RemoveOK(w)'
    BY <1>1, <1>2, <1>3 DEF AddOK, ModifyOK, RemoveOK
  <1>5. cur' \in [Workers -> Ids \cup {None}] /\ groups' \in [Workers -> SUBSET Ids]
    BY <1>2 DEF IInv, TypeOK
  <1>6. QED
    BY <1>1, <1>2, <1>4, <1>5, BeginStep

LEMMA BeginModifyStep ==
  ASSUME IInv, NEW w \in Workers, NEW i \in Ids, NEW p \in Ids \cup {Root}, BeginModify(w, i, p)
  PROVE  IInv'
  <1> DEFINE r == [verb |-> "modify", id |-> i, parent |-> p]
             first == IF i \in Buses THEN "select_bus" ELSE "update"
  <1>1. r \in Requests /\ r.verb = "modify" /\ r.id = i
    BY DEF Requests
  <1>2. /\ Begin(w, r, first) /\ first \in Statements
        /\ cur' = cur /\ groups' = groups
        /\ i \in known
        /\ Movable(i) => p \in ParentsOf(i)
    BY DEF BeginModify, Statements
  <1>3. req'[w] = r /\ pc'[w] = first /\ known' = known
    BY <1>2 DEF Begin, IInv, TypeOK
  <1>4. AddOK(w)' /\ ModifyOK(w)' /\ RemoveOK(w)'
    BY <1>1, <1>2, <1>3 DEF AddOK, ModifyOK, RemoveOK
  <1>5. cur' \in [Workers -> Ids \cup {None}] /\ groups' \in [Workers -> SUBSET Ids]
    BY <1>2 DEF IInv, TypeOK
  <1>6. QED
    BY <1>1, <1>2, <1>4, <1>5, BeginStep

LEMMA BeginRemoveStep ==
  ASSUME IInv, NEW w \in Workers, NEW i \in Ids, BeginRemove(w, i)
  PROVE  IInv'
  <1> DEFINE r == [verb |-> "remove", id |-> i, parent |-> Root]
             first == FirstOfRemove(i)
  <1>1. r \in Requests /\ r.verb = "remove" /\ r.id = i
    BY DEF Requests
  <1>2. /\ Begin(w, r, first) /\ first \in Statements /\ first \in BeforeOwn(i)
        /\ first \notin AfterOwn(i)
        /\ cur' = [cur EXCEPT ![w] = IF i \in Buses THEN i ELSE None]
        /\ groups' = [groups EXCEPT ![w] = IF i \in CaseColls THEN {i} ELSE {}]
        /\ i \in known
    BY DEF BeginRemove, Statements, FirstOfRemove, BeforeOwn, AfterOwn
  <1>3. req'[w] = r /\ pc'[w] = first /\ known' = known
    BY <1>2 DEF Begin, IInv, TypeOK
  <1>4. /\ cur' \in [Workers -> Ids \cup {None}] /\ groups' \in [Workers -> SUBSET Ids]
        /\ cur'[w] = IF i \in Buses THEN i ELSE None
        /\ groups'[w] = IF i \in CaseColls THEN {i} ELSE {}
        /\ \A v \in Workers \ {w} : cur'[v] = cur[v] /\ groups'[v] = groups[v]
    BY <1>2 DEF IInv, TypeOK
  <1>5. first \in {"select_groups", "delete_bus", "delete_groups"} => i \in Buses
    BY DEF FirstOfRemove
  <1>6. RemoveOK(w)'
    BY <1>1, <1>2, <1>3, <1>4, <1>5 DEF RemoveOK
  <1>7. AddOK(w)' /\ ModifyOK(w)'
    BY <1>1, <1>3 DEF AddOK, ModifyOK
  <1>8. QED
    BY <1>1, <1>2, <1>4, <1>6, <1>7, BeginStep

\* The rows a committing transaction changes, row by row.
LEMMA CommitRows ==
  ASSUME IInv, NEW w \in Workers, Commit(w)
  PROVE  /\ db' \in Tables
         /\ known' = known \cup Present(db') /\ known' \subseteq Ids
         /\ \A i \in Ids : db'[i] = View(w, i)
         /\ \A i \in Ids : wr[w][i] = Clean => db'[i] = db[i]
         /\ \A i \in known : db[i] = Absent => db'[i] = Absent
         /\ \A v \in Workers \ {w} : \A i \in Ids : wr[v][i] # Clean => db'[i] = db[i]
         /\ req[w] \in Requests /\ Busy(w)
  <1> USE MarkerFacts, RequestFields DEF IInv
  <1>1. db' = [i \in Ids |-> View(w, i)] /\ known' = known \cup Present(db')
    BY DEF Commit, Committed
  <1>2. \A i \in Ids : View(w, i) \in ParentsOf(i) \cup {Absent}
    BY ViewType
  <1>3. db' \in Tables
    BY <1>1, <1>2, ParentFacts DEF Tables
  <1>4. known' \subseteq Ids
    BY <1>1 DEF Present, TypeOK
  <1>5. req[w] \in Requests /\ Busy(w) /\ pc[w] = "commit"
    BY DEF Commit, RequestOK, Busy
  <1>6. \A i \in known : db[i] = Absent => wr[w][i] \in {Clean, Absent}
    BY <1>5 DEF Overlay, RequestOK, AddOK, TypeOK
  <1>7. \A i \in Ids : wr[w][i] = Clean => db'[i] = db[i]
    BY <1>1 DEF View
  <1>8. \A i \in known : db[i] = Absent => db'[i] = Absent
    BY <1>1, <1>6 DEF View, TypeOK
  <1>9. \A v \in Workers \ {w} : \A i \in Ids : wr[v][i] # Clean => db'[i] = db[i]
    BY <1>7 DEF RowLocks
  <1>10. QED
    BY <1>1, <1>3, <1>4, <1>5, <1>7, <1>8, <1>9

\* A commit makes known the key of an addition at most.
LEMMA CommitKnown ==
  ASSUME IInv, NEW w \in Workers, Commit(w)
  PROVE  \A i \in known' \ known : req[w].verb = "add" /\ i = req[w].id
  <1> SUFFICES ASSUME NEW i \in known' \ known
               PROVE  req[w].verb = "add" /\ i = req[w].id
    OBVIOUS
  <1>1. i \in Ids /\ db'[i] # Absent /\ db[i] = Absent /\ wr[w][i] # Clean
    BY CommitRows DEF Present, PresentKnown, IInv
  <1>2. QED
    BY <1>1, CommitRows, RequestFields DEF IInv, Overlay, View

LEMMA CommitStep ==
  ASSUME IInv, NEW w \in Workers, Commit(w)
  PROVE  IInv'
  <1> USE MarkerFacts, RequestFields DEF IInv
  <1>a. /\ wr' = [wr EXCEPT ![w] = NoWrites] /\ pc' = [pc EXCEPT ![w] = "idle"]
        /\ todo' = [todo EXCEPT ![w] = {}] /\ groups' = [groups EXCEPT ![w] = {}]
        /\ cur' = [cur EXCEPT ![w] = None] /\ pc[w] = "commit"
        /\ UNCHANGED <<req, answer, begun>>
    BY DEF Commit, Forget
  <1>b. /\ wr'[w] = NoWrites /\ pc'[w] = "idle"
        /\ \A v \in Workers \ {w} :
             /\ wr'[v] = wr[v] /\ pc'[v] = pc[v] /\ cur'[v] = cur[v] /\ groups'[v] = groups[v]
    BY <1>a DEF TypeOK
  <1>c. /\ seen' \in [Workers -> [Ids -> SUBSET (Ids \cup {Root, Absent})]]
        /\ \A v \in Workers \ {w} : Busy(v) =>
             \A i \in Ids : seen'[v][i] = seen[v][i] \cup {db'[i]}
    <2>1. seen' = [v \in Workers |-> [i \in Ids |->
                     IF v = w \/ ~Busy(v) THEN {} ELSE seen[v][i] \cup {db'[i]}]]
      BY DEF Commit
    <2>2. \A i \in Ids : db'[i] \in Ids \cup {Root, Absent}
      BY CommitRows DEF Tables
    <2>3. QED
      BY <2>1, <2>2 DEF TypeOK
  <1>1. TypeOK'
    BY <1>a, <1>c, CommitRows DEF TypeOK, NoWrites
  <1>2. RequestOK'
    <2>1. ASSUME NEW v \in Workers, v # w, Busy(v), req[v].verb = "add"
          PROVE  req[v].id \notin known'
      BY <2>1, CommitKnown, CommitRows DEF FreshKeys, RequestOK, AddOK
    <2>2. known \subseteq known'
      BY CommitRows
    <2>3. QED
      BY <1>a, <1>b, <2>1, <2>2 DEF RequestOK, AddOK, ModifyOK, RemoveOK, Busy
  <1>3. FreshKeys'
    BY <1>a, <1>b DEF FreshKeys, Busy
  <1>4. Overlay'
    BY <1>a, <1>b, CommitRows DEF Overlay, Busy, NoWrites
  <1>5. RowLocks'
    BY <1>b DEF RowLocks, NoWrites
  <1>6. Target'
    <2>1. ASSUME NEW v \in Workers, v # w, Busy(v), req[v].verb = "remove", View(v, req[v].id) = Absent
          PROVE  View(v, req[v].id)' = Absent
      <3>1. req[v].id \in known /\ req[v].id \in Ids
        BY <2>1 DEF RequestOK, RemoveOK
      <3>2. QED
        BY <1>a, <1>b, <2>1, <3>1, CommitRows DEF View
    <2>2. QED
      BY <1>a, <1>b, <2>1 DEF Target, Busy
  <1>7. PresentKnown'
    BY CommitRows DEF PresentKnown, Present
  <1>8. Witnessed'
    BY <1>a, <1>b, <1>c DEF Witnessed, Busy, RequestOK
  <1>9. Answered'
    <2>1. ASSUME NEW v \in Workers, v # w, ~Busy(v), answer[v] = "true", req[v].verb = "remove"
          PROVE  req[v].id \in known' /\ db'[req[v].id] = Absent
      BY <2>1, CommitRows DEF Answered
    <2>2. ASSUME req[w].verb = "remove"
          PROVE  req[w].id \in known' /\ db'[req[w].id] = Absent
      BY <2>2, <1>a, CommitRows DEF RequestOK, RemoveOK, Target, AfterOwn
    <2>3. QED
      BY <1>a, <1>b, <2>1, <2>2, CommitRows DEF Answered, Busy
  <1>10. QED
    BY <1>1, <1>2, <1>3, <1>4, <1>5, <1>6, <1>7, <1>8, <1>9

LEMMA NextIInv == IInv /\ [Next]_vars => IInv'
  <1> SUFFICES ASSUME IInv, [Next]_vars PROVE IInv'
    OBVIOUS
  <1>1. CASE UNCHANGED vars
    BY <1>1 DEF vars, IInv, TypeOK, RequestOK, AddOK, ModifyOK, RemoveOK, FreshKeys, Overlay,
                RowLocks, Target, View, PresentKnown, Present, Witnessed, Answered, Busy
  <1>2. ASSUME NEW w \in Workers, NEW i \in Ids, NEW p \in Ids \cup {Root},
               BeginAdd(w, i, p) \/ BeginModify(w, i, p)
        PROVE  IInv'
    BY <1>2, BeginAddStep, BeginModifyStep
  <1>3. ASSUME NEW w \in Workers, NEW i \in Ids, BeginRemove(w, i) PROVE IInv'
    BY <1>3, BeginRemoveStep
  <1>4. ASSUME NEW w \in Workers, Statement(w) PROVE IInv'
    BY <1>4, InsertStep, ConversionFailsStep, SelectBusStep, UpdateStep, SelectBusesStep,
       DeleteCollStep, NextBusStep, SelectGroupsStep, DeleteBusStep, DeleteGroupsStep,
       DeleteCasesStep, DeleteRowStep DEF Statement
  <1>5. ASSUME NEW w \in Workers, LockTimeout(w) PROVE IInv'
    <2>1. Busy(w)
      BY <1>5 DEF LockTimeout, TimesOut, Wants, Busy
    <2>2. QED
      BY <1>5, <2>1, RollbackStep DEF LockTimeout
  <1>6. ASSUME NEW w \in Workers, Commit(w) PROVE IInv'
    BY <1>6, CommitStep
  <1>7. QED
    BY <1>1, <1>2, <1>3, <1>4, <1>5, <1>6 DEF Next, Progress

\* The inductive invariant holds in every reachable state.
THEOREM Invariance == Spec => []IInv
  BY InitIInv, NextIInv, PTL DEF Spec

-----------------------------------------------------------------------------
(* The safety properties.                                                  *)

\* Type correctness of the service transactions.
THEOREM TypeCorrect == Spec => []TypeOK
  <1>1. IInv => TypeOK
    BY DEF IInv
  <1>2. QED
    BY <1>1, Invariance, PTL

\* Waiting for uncommitted rows keeps every row with one writer at a time.
THEOREM RowLocksHold == Spec => []RowLocks
  <1>1. IInv => RowLocks
    BY DEF IInv
  <1>2. QED
    BY <1>1, Invariance, PTL

\* What the requests answer is true, for every interleaving of their statements.
THEOREM AnswersHold == Spec => []AnswersAreTrue
  <1>1. IInv => AnswersAreTrue
    BY DEF IInv, Answered, Witnessed, AnswersAreTrue
  <1>2. QED
    BY <1>1, Invariance, PTL

-----------------------------------------------------------------------------
(* The services implement Catalog.                                         *)

\* Only a commit changes the committed tables.
LEMMA OnlyCommitsChange ==
  ASSUME [Next]_vars
  PROVE  UNCHANGED <<db, known>> \/ \E w \in Workers : Commit(w)
  <1>1. ASSUME NEW w \in Workers, Statement(w) PROVE UNCHANGED <<db, known>>
    <2>1. Insert(w) \/ ConversionFails(w) \/ Update(w) => UNCHANGED <<db, known>>
      BY DEF Insert, ConversionFails, Update
    <2>2. SelectBus(w) => UNCHANGED <<db, known>>
      BY DEF SelectBus, Rollback
    <2>3. SelectBuses(w) \/ DeleteColl(w) \/ NextBus(w) => UNCHANGED <<db, known>>
      BY DEF SelectBuses, DeleteColl, NextBus
    <2>4. SelectGroups(w) \/ DeleteBus(w) \/ DeleteGroups(w) => UNCHANGED <<db, known>>
      BY DEF SelectGroups, DeleteBus, DeleteGroups
    <2>5. DeleteCases(w) \/ DeleteRow(w) => UNCHANGED <<db, known>>
      BY DEF DeleteCases, DeleteRow
    <2>6. QED
      BY <1>1, <2>1, <2>2, <2>3, <2>4, <2>5 DEF Statement
  <1>2. ASSUME NEW w \in Workers, LockTimeout(w) PROVE UNCHANGED <<db, known>>
    BY <1>2 DEF LockTimeout, Rollback
  <1>3. ASSUME NEW w \in Workers, NEW i \in Ids, NEW p \in Ids \cup {Root},
               BeginAdd(w, i, p) \/ BeginModify(w, i, p) \/ BeginRemove(w, i)
        PROVE  UNCHANGED <<db, known>>
    BY <1>3 DEF BeginAdd, BeginModify, BeginRemove, Begin
  <1>4. CASE UNCHANGED vars
    BY <1>4 DEF vars
  <1>5. QED
    BY <1>1, <1>2, <1>3, <1>4 DEF Next, Progress

\* A commit of each kind of request is one step of Catalog, or changes nothing.
LEMMA CommitRefines ==
  ASSUME IInv, NEW w \in Workers, Commit(w)
  PROVE  Cat!Next \/ UNCHANGED <<db, known>>
  <1> DEFINE i == req[w].id
             p == req[w].parent
             S == {j \in Ids : wr[w][j] # Clean}
  <1> USE MarkerFacts, RequestFields DEF IInv
  <1>a. /\ db' \in Tables /\ db \in Tables /\ known' = known \cup Present(db')
        /\ \A j \in Ids : db'[j] = View(w, j)
        /\ req[w] \in Requests /\ Busy(w) /\ pc[w] = "commit" /\ i \in Ids
    BY CommitRows DEF TypeOK, Commit
  <1>b. db' = [j \in Ids |-> View(w, j)] /\ db = [j \in Ids |-> db[j]]
    BY <1>a DEF Tables
  <1>c. Present(db) \subseteq known
    BY DEF PresentKnown
  <1>1. CASE S = {}
    <2>1. db' = db
      BY <1>b, <1>1 DEF View
    <2>2. known' = known
      BY <2>1, <1>a, <1>c
    <2>3. QED
      BY <2>1, <2>2
  <1>2. CASE S # {} /\ req[w].verb = "add"
    <2>1. /\ i \notin known /\ p \in Ids \cup {Root} /\ p # Absent
          /\ wr[w][i] = p /\ p # Clean
          /\ \A j \in Ids : j # i => wr[w][j] = Clean
      BY <1>2, <1>a, ParentFacts DEF Overlay, RequestOK, AddOK
    <2>2. db' = [db EXCEPT ![i] = p]
      BY <2>1, <1>b, <1>a DEF View
    <2>3. Present(db') = Present(db) \cup {i}
      BY <2>2, <2>1, <1>a DEF Present, Tables
    <2>4. known' = known \cup {i}
      BY <2>3, <1>a, <1>c
    <2>5. Cat!AddRow(i, p)
      BY <2>1, <2>2, <2>4 DEF Cat!AddRow
    <2>6. QED
      BY <2>1, <2>5, <1>a DEF Cat!Next
  <1>3. CASE S # {} /\ req[w].verb = "modify"
    <2> DEFINE x == wr[w][i]
    <2>1. /\ x \in ParentsOf(i) /\ x # Clean /\ x # Absent /\ x \in Ids \cup {Root}
          /\ db[i] # Absent
          /\ \A j \in Ids : j # i => wr[w][j] = Clean
      BY <1>3, <1>a, ParentFacts DEF Overlay
    <2>2. db' = [db EXCEPT ![i] = x]
      BY <2>1, <1>b, <1>a DEF View
    <2>3. Present(db') = Present(db)
      BY <2>2, <2>1, <1>a DEF Present, Tables
    <2>4. known' = known
      BY <2>3, <1>a, <1>c
    <2>5. Cat!RewriteRow(i, x)
      BY <2>1, <2>2, <2>4 DEF Cat!RewriteRow
    <2>6. QED
      BY <2>1, <2>5, <1>a DEF Cat!Next
  <1>4. CASE S # {} /\ req[w].verb = "remove"
    <2>1. \A j \in S : wr[w][j] = Absent /\ db[j] # Absent
      BY <1>4, <1>a DEF Overlay
    <2>2. db' = [j \in Ids |-> IF j \in S THEN Absent ELSE db[j]]
      BY <1>b, <2>1 DEF View
    <2>3. known' = known
      BY <2>2, <1>a, <1>c DEF Present
    <2>4. i \in known /\ View(w, i) = Absent
      BY <1>4, <1>a DEF RequestOK, RemoveOK, Target, AfterOwn
    <2>5. db[i] = Absent \/ i \in S
      BY <2>4, <1>a DEF View
    <2>6. S \in SUBSET Ids /\ S \subseteq {j \in Ids : db[j] # Absent}
      BY <2>1
    <2>7. Cat!RemoveRows(i, S)
      BY <2>2, <2>3, <2>4, <2>5, <2>6 DEF Cat!RemoveRows, Cat!Present
    <2>8. QED
      BY <2>6, <2>7, <1>a DEF Cat!Next
  <1>5. QED
    BY <1>1, <1>2, <1>3, <1>4, <1>a

\* The transactions of the services, with their cascades and waits, implement
\* the one-change-per-request catalogue.
THEOREM Refinement == Spec => ImplementsCatalog
  <1>1. Init => Cat!Init
    BY DEF Init, Cat!Init, Present, Cat!Present
  <1>2. IInv /\ [Next]_vars => [Cat!Next]_(Cat!cvars)
    BY OnlyCommitsChange, CommitRefines DEF Cat!cvars
  <1>3. QED
    BY <1>1, <1>2, Invariance, PTL DEF Spec, ImplementsCatalog, Cat!Spec

\* A late modification or a second removal never brings a deleted row back.
THEOREM NeverResurrected == Spec => NoResurrection
  <1>1. IInv /\ [Next]_vars => [\A i \in known : db[i] = Absent => db'[i] = Absent]_vars
    BY OnlyCommitsChange, CommitRows
  <1>2. QED
    BY <1>1, Invariance, PTL DEF Spec, NoResurrection

-----------------------------------------------------------------------------
(* What a cascade has selected and deleted so far.                         *)

Active(w) == Busy(w) /\ req[w].verb = "remove"

Deleted(w, i) == wr[w][i] = Absent

\* No other request has changed row i since the request of w began.
Calm(w, i) == seen[w][i] = {db[i]}

\* The rows one and two links below the target.
One(w) == Under(seen[w], {req[w].id})
Two(w) == Under(seen[w], One(w))

\* The businesses and case collections a cascade walks over are such.
Levels(w) ==
  /\ req[w].id \in Colls /\ pc[w] # "select_buses" => todo[w] \subseteq Buses
  /\ pc[w] \in {"select_groups", "delete_bus", "delete_groups"} => cur[w] \in Buses
  /\ groups[w] \subseteq CaseColls

\* What was selected or deleted hung below the target at some moment.
Gathered(w) ==
  /\ req[w].id \in Colls /\ pc[w] # "select_buses" => todo[w] \subseteq One(w)
  /\ pc[w] \in {"select_groups", "delete_bus", "delete_groups"} =>
       cur[w] \in (IF req[w].id \in Colls THEN One(w) ELSE {req[w].id})
  /\ groups[w] \subseteq (IF req[w].id \in Colls THEN Two(w)
                          ELSE IF req[w].id \in Buses THEN One(w)
                          ELSE {req[w].id})
  /\ \A i \in Ids : Deleted(w, i) => i \in Below(seen[w], req[w].id)

\* The target is deleted by its own statement.
Own(w) ==
  pc[w] \in AfterOwn(req[w].id) /\ (pc[w] = "commit" => answer[w] = "true")
  => Deleted(w, req[w].id)

\* A calm child of the row about to be deleted has been selected for its own
\* deletion, or is deleted already.
Selected(w) ==
  /\ pc[w] = "delete_coll" =>
       \A i \in Ids : db[i] = req[w].id /\ Calm(w, i) => i \in todo[w] \/ Deleted(w, i)
  /\ pc[w] \in {"delete_bus", "delete_groups"} =>
       \A i \in Ids : db[i] = cur[w] /\ Calm(w, i) => i \in groups[w] \/ Deleted(w, i)
  /\ req[w].id \in CaseColls /\ pc[w] \in {"delete_cases", "delete_row"} =>
       \A i \in Ids : db[i] = req[w].id /\ Calm(w, i) =>
         Deleted(w, i) \/ (pc[w] = "delete_cases" /\ req[w].id \in groups[w])

\* Row i, a child of the deleted row p, is still to be deleted.
Pending(w, i, p) ==
  \/ req[w].id \in Colls /\ i \in todo[w] /\ pc[w] \notin {"select_buses", "delete_coll", "commit"}
  \/ i = cur[w] /\ pc[w] \in {"select_groups", "delete_bus"}
  \/ p = cur[w] /\ pc[w] = "delete_groups"
  \/ p \in groups[w] /\ pc[w] \in {"delete_groups", "delete_cases"}

\* No calm child of a calm deleted row is forgotten.
Covered(w) ==
  \A i, p \in Ids :
    Deleted(w, p) /\ db[i] = p /\ Calm(w, i) /\ Calm(w, p)
    => Deleted(w, i) \/ Pending(w, i, p)

CascadeOK(w) == Levels(w) /\ Gathered(w) /\ Own(w) /\ Selected(w) /\ Covered(w)

CInv == \A w \in Workers : Active(w) => CascadeOK(w)

\* More recorded parents and more targets put more rows below them.
LEMMA UnderGrows ==
  ASSUME NEW up, NEW more, NEW S, NEW R, S \subseteq R,
         \A i \in Ids : up[i] \subseteq more[i]
  PROVE  Under(up, S) \subseteq Under(more, R)
  BY DEF Under

\* So do more recorded parents put more rows below one target.
LEMMA BelowGrows ==
  ASSUME NEW up, NEW more, NEW t, \A i \in Ids : up[i] \subseteq more[i]
  PROVE  Below(up, t) \subseteq Below(more, t)
  <1> DEFINE one(u) == Under(u, {t})
             two(u) == Under(u, one(u))
  <1>1. one(up) \subseteq one(more)
    BY UnderGrows
  <1>2. two(up) \subseteq two(more)
    BY <1>1, UnderGrows
  <1>3. Under(up, two(up)) \subseteq Under(more, two(more))
    BY <1>2, UnderGrows
  <1>4. QED
    BY <1>1, <1>2, <1>3 DEF Below

\* What a removal sees of a row: what is committed, unless it has deleted it.
LEMMA RemovalView ==
  ASSUME IInv, NEW w \in Workers, Active(w), NEW i \in Ids
  PROVE  /\ \/ wr[w][i] = Clean /\ View(w, i) = db[i] /\ ~Deleted(w, i)
            \/ Deleted(w, i) /\ View(w, i) = Absent /\ db[i] # Absent
         /\ View(w, i) \in Ids => View(w, i) \in seen[w][i]
         /\ db[i] \in Ids => View(w, i) = db[i] \/ Deleted(w, i)
  <1>1. \/ wr[w][i] = Clean /\ View(w, i) = db[i] /\ ~Deleted(w, i)
        \/ Deleted(w, i) /\ View(w, i) = Absent /\ db[i] # Absent
    BY MarkerFacts DEF IInv, Overlay, Active, Deleted, View
  <1>2. db[i] \in seen[w][i]
    BY DEF IInv, Witnessed, Active
  <1>3. QED
    BY <1>1, <1>2, MarkerFacts

\* What a removal is and where it is.
LEMMA ActiveFacts ==
  ASSUME IInv, NEW w \in Workers, Active(w)
  PROVE  /\ req[w] \in Requests /\ req[w].id \in Ids
         /\ pc[w] \in BeforeOwn(req[w].id) \cup AfterOwn(req[w].id)
         /\ req[w].id \in Buses /\ pc[w] \in {"select_groups", "delete_bus", "delete_groups"}
              => cur[w] = req[w].id
         /\ req[w].id \in CaseColls => groups[w] \subseteq {req[w].id}
         /\ pc[w] # "commit" => answer[w] = "none"
  BY RequestFields DEF IInv, RequestOK, RemoveOK, Active

\* A step that leaves the tables and all of a removal's own state alone.
LEMMA CascadeFrame ==
  ASSUME NEW w \in Workers, CascadeOK(w), db' = db, wr'[w] = wr[w], pc'[w] = pc[w],
         req'[w] = req[w], todo'[w] = todo[w], cur'[w] = cur[w], groups'[w] = groups[w],
         answer'[w] = answer[w], seen'[w] = seen[w]
  PROVE  CascadeOK(w)'
  <1>1. Levels(w)' /\ Own(w)'
    BY DEF CascadeOK, Levels, Own, Deleted
  <1>2. Gathered(w)'
    <2>1. One(w)' = One(w)
      BY DEF One
    <2>2. Two(w)' = Two(w)
      BY <2>1 DEF Two
    <2>3. QED
      BY <2>1, <2>2 DEF CascadeOK, Gathered, Deleted
  <1>3. \A i \in Ids : Calm(w, i)' = Calm(w, i) /\ Deleted(w, i)' = Deleted(w, i)
    BY DEF Calm, Deleted
  <1>4. Selected(w)'
    BY <1>3 DEF CascadeOK, Selected
  <1>5. Covered(w)'
    BY <1>3 DEF CascadeOK, Covered, Pending
  <1>6. QED
    BY <1>1, <1>2, <1>4, <1>5 DEF CascadeOK

\* A commit of another request: the recorded parents grow, and a row that is
\* calm after it was calm before and has not changed.
LEMMA CascadeCommitElsewhere ==
  ASSUME IInv, NEW w \in Workers, NEW v \in Workers, v # w, Commit(v), Active(w), CascadeOK(w)
  PROVE  CascadeOK(w)'
  <1>a. /\ wr'[w] = wr[w] /\ pc'[w] = pc[w] /\ req'[w] = req[w] /\ todo'[w] = todo[w]
        /\ cur'[w] = cur[w] /\ groups'[w] = groups[w] /\ answer'[w] = answer[w]
    BY DEF Commit, Forget, IInv, TypeOK
  <1>b. \A i \in Ids : seen'[w][i] = seen[w][i] \cup {db'[i]}
    BY CommitRows DEF Commit, Active, Committed
  <1>c. \A i \in Ids : seen[w][i] \subseteq seen'[w][i]
    BY <1>b
  <1>d. \A i \in Ids : Calm(w, i)' => Calm(w, i) /\ db'[i] = db[i]
    <2>1. \A i \in Ids : db[i] \in seen[w][i]
      BY DEF IInv, Witnessed, Active
    <2>2. QED
      BY <1>b, <2>1 DEF Calm
  <1>1. Levels(w)' /\ Own(w)'
    BY <1>a DEF CascadeOK, Levels, Own, Deleted
  <1>2. Gathered(w)'
    <2>1. One(w) \subseteq One(w)'
      <3>1. Under(seen[w], {req[w].id}) \subseteq Under(seen'[w], {req[w].id})
        BY <1>c, UnderGrows
      <3>2. QED
        BY <3>1, <1>a DEF One
    <2>2. Two(w) \subseteq Two(w)'
      <3>1. Under(seen[w], One(w)) \subseteq Under(seen'[w], One(w)')
        BY <1>c, <2>1, UnderGrows
      <3>2. QED
        BY <3>1 DEF Two
    <2>3. Below(seen[w], req[w].id) \subseteq Below(seen'[w], req[w].id)
      BY <1>c, BelowGrows
    <2>4. QED
      BY <1>a, <2>1, <2>2, <2>3 DEF CascadeOK, Gathered, Deleted
  <1>3. Selected(w)'
    BY <1>a, <1>d DEF CascadeOK, Selected, Deleted
  <1>4. Covered(w)'
    BY <1>a, <1>d DEF CascadeOK, Covered, Pending, Deleted
  <1>5. QED
    BY <1>1, <1>2, <1>3, <1>4 DEF CascadeOK

\* What a removal's own statements leave alone.
LEMMA SameHistory ==
  ASSUME NEW w \in Workers, db' = db, req' = req, seen' = seen
  PROVE  /\ One(w)' = One(w) /\ Two(w)' = Two(w)
         /\ Below(seen[w], req[w].id)' = Below(seen[w], req[w].id)
         /\ \A i \in Ids : Calm(w, i)' = Calm(w, i)
  <1>1. One(w)' = One(w)
    BY DEF One
  <1>2. Two(w)' = Two(w)
    BY <1>1 DEF Two
  <1>3. QED
    BY <1>1, <1>2 DEF Below, Under, Calm

\* A statement that deletes rows deletes them and nothing else.
LEMMA DeletedRows ==
  ASSUME TypeOK, NEW w \in Workers, NEW S, Write(w, S, Absent)
  PROVE  \A i \in Ids : Deleted(w, i)' <=> i \in S \/ Deleted(w, i)
  BY WriteFacts, MarkerFacts DEF Deleted

\* The rows a removal sees below p hung below p.
LEMMA SeenChildren ==
  ASSUME IInv, NEW w \in Workers, Active(w), NEW p \in Ids, NEW S, p \in S
  PROVE  /\ ChildrenOf(w, p) \subseteq Under(seen[w], S)
         /\ \A i \in Ids : db[i] = p => i \in ChildrenOf(w, p) \/ Deleted(w, i)
         /\ \A i \in ChildrenOf(w, p) : db[i] = p /\ ~Deleted(w, i)
  <1>1. ASSUME NEW i \in Ids, View(w, i) = p PROVE p \in seen[w][i] /\ db[i] = p /\ ~Deleted(w, i)
    BY <1>1, RemovalView, MarkerFacts
  <1>2. QED
    BY <1>1, RemovalView DEF ChildrenOf, Under

\* The tables of the children of a row.
LEMMA ChildLevels ==
  ASSUME IInv, NEW i \in Ids, NEW p \in Ids, db[i] = p
  PROVE  /\ p \in Colls <=> i \in Buses
         /\ p \in Buses <=> i \in CaseColls
         /\ p \in CaseColls <=> i \in Cases
         /\ p \notin Cases
  <1>1. p \in ParentsOf(i)
    BY MarkerFacts DEF IInv, TypeOK, Tables
  <1>2. QED
    BY <1>1, TableAssumption DEF ParentsOf, Ids

\* Which targets lead to which statements.
LEMMA CascadePlaces ==
  ASSUME IInv, NEW w \in Workers, Active(w)
  PROVE  /\ pc[w] \in {"select_buses", "delete_coll", "next_bus"} => req[w].id \in Colls
         /\ pc[w] \in {"select_groups", "delete_bus", "delete_groups"}
              => req[w].id \in Colls \cup Buses
         /\ pc[w] = "delete_cases" => req[w].id \notin Cases
         /\ pc[w] = "delete_row" => req[w].id \in CaseColls \cup Cases
         /\ pc[w] \notin {"insert", "select_bus", "update"}
  BY ActiveFacts, TableAssumption DEF BeforeOwn, AfterOwn, Ids

\* The businesses selected are the children the collection has now.
LEMMA CascadeSelectBuses ==
  ASSUME IInv, NEW w \in Workers, Active(w), CascadeOK(w), SelectBuses(w)
  PROVE  CascadeOK(w)'
  <1> DEFINE t == req[w].id
  <1>a. /\ pc[w] = "select_buses" /\ pc'[w] = "delete_coll" /\ t \in Colls /\ t \in Ids
        /\ t \notin Buses /\ t \notin CaseColls
        /\ todo'[w] = ChildrenOf(w, t)
        /\ UNCHANGED <<db, known, wr, req, cur, groups, answer, seen, begun>>
    BY CascadePlaces, ActiveFacts, TableAssumption DEF SelectBuses, IInv, TypeOK
  <1>b. /\ ChildrenOf(w, t) \subseteq One(w) /\ ChildrenOf(w, t) \subseteq Buses
        /\ \A i \in Ids : db[i] = t => i \in ChildrenOf(w, t) \/ Deleted(w, i)
    <2>1. t \in {t}
      OBVIOUS
    <2>2. ChildrenOf(w, t) \subseteq Under(seen[w], {t})
      BY <2>1, <1>a, SeenChildren
    <2>3. \A i \in Ids : db[i] = t => i \in ChildrenOf(w, t) \/ Deleted(w, i)
      BY <2>1, <1>a, SeenChildren
    <2>4. \A i \in ChildrenOf(w, t) : i \in Ids /\ db[i] = t
      BY <2>1, <1>a, SeenChildren DEF ChildrenOf
    <2>5. QED
      BY <2>2, <2>3, <2>4, <1>a, ChildLevels DEF One
  <1>c. \A i \in Ids : Deleted(w, i)' = Deleted(w, i)
    BY <1>a DEF Deleted
  <1>1. Levels(w)'
    BY <1>a, <1>b DEF CascadeOK, Levels
  <1>2. Gathered(w)'
    BY <1>a, <1>b, <1>c, SameHistory DEF CascadeOK, Gathered
  <1>3. Own(w)' /\ Selected(w)'
    BY <1>a, <1>b, <1>c, SameHistory DEF CascadeOK, Own, Selected, AfterOwn
  <1>4. Covered(w)'
    BY <1>a, <1>c, SameHistory DEF CascadeOK, Covered, Pending
  <1>5. QED
    BY <1>1, <1>2, <1>3, <1>4 DEF CascadeOK

\* Deleting the collection leaves its selected businesses pending.
LEMMA CascadeDeleteColl ==
  ASSUME IInv, NEW w \in Workers, Active(w), CascadeOK(w), DeleteColl(w)
  PROVE  CascadeOK(w)'
  <1> DEFINE t == req[w].id
             rows == RowOf(w, t)
  <1>a. /\ pc[w] = "delete_coll" /\ t \in Colls /\ t \in Ids
        /\ t \notin Buses /\ t \notin CaseColls
        /\ Write(w, rows, Absent)
        /\ \/ rows # {} /\ pc'[w] = "next_bus" /\ answer'[w] = answer[w]
           \/ rows = {} /\ pc'[w] = "commit" /\ answer'[w] = "false"
        /\ UNCHANGED <<db, known, req, todo, cur, groups, seen, begun>>
    BY CascadePlaces, ActiveFacts, TableAssumption DEF DeleteColl, Return, IInv, TypeOK
  <1>b. /\ rows = {} \/ rows = {t}
        /\ \A i \in Ids : Deleted(w, i)' <=> i \in rows \/ Deleted(w, i)
    BY <1>a, DeletedRows DEF RowOf, IInv
  <1>c. t \in Below(seen[w], t)
    BY DEF Below
  <1>1. Levels(w)'
    BY <1>a DEF CascadeOK, Levels
  <1>2. Gathered(w)'
    BY <1>a, <1>b, <1>c, SameHistory DEF CascadeOK, Gathered
  <1>3. Own(w)' /\ Selected(w)'
    BY <1>a, <1>b, SameHistory DEF CascadeOK, Own, Selected
  <1>4. Covered(w)'
    BY <1>a, <1>b, SameHistory DEF CascadeOK, Covered, Pending, Selected
  <1>5. QED
    BY <1>1, <1>2, <1>3, <1>4 DEF CascadeOK

\* A business leaves the list when its own removal begins.
LEMMA CascadeNextBus ==
  ASSUME IInv, NEW w \in Workers, Active(w), CascadeOK(w), NextBus(w)
  PROVE  CascadeOK(w)'
  <1> DEFINE t == req[w].id
  <1>a. /\ pc[w] = "next_bus" /\ t \in Colls /\ t \in Ids
        /\ t \notin Buses /\ t \notin CaseColls
        /\ \/ \E b \in todo[w] : /\ cur'[w] = b /\ todo'[w] = todo[w] \ {b}
                                 /\ pc'[w] = "select_groups" /\ answer'[w] = answer[w]
           \/ /\ todo[w] = {} /\ pc'[w] = "commit" /\ answer'[w] = "true"
              /\ todo' = todo /\ cur' = cur
        /\ UNCHANGED <<db, known, wr, req, groups, seen, begun>>
    BY CascadePlaces, ActiveFacts, TableAssumption DEF NextBus, Return, IInv, TypeOK
  <1>c. \A i \in Ids : Deleted(w, i)' = Deleted(w, i)
    BY <1>a DEF Deleted
  <1>1. Levels(w)'
    BY <1>a DEF CascadeOK, Levels
  <1>2. Gathered(w)'
    BY <1>a, <1>c, SameHistory DEF CascadeOK, Gathered, Levels
  <1>3. Own(w)' /\ Selected(w)'
    BY <1>a, <1>c, SameHistory, ActiveFacts DEF CascadeOK, Own, Selected, AfterOwn
  <1>4. Covered(w)'
    BY <1>a, <1>c, SameHistory DEF CascadeOK, Covered, Pending
  <1>5. QED
    BY <1>1, <1>2, <1>3, <1>4 DEF CascadeOK

\* The case collections selected are the children the business has now.
LEMMA CascadeSelectGroups ==
  ASSUME IInv, NEW w \in Workers, Active(w), CascadeOK(w), SelectGroups(w)
  PROVE  CascadeOK(w)'
  <1> DEFINE t == req[w].id
             b == cur[w]
  <1>0. /\ pc[w] = "select_groups" /\ t \in Colls \cup Buses /\ t \in Ids /\ b \in Buses
        /\ UNCHANGED <<db, known, wr, req, todo, cur, answer, seen, begun>>
    BY CascadePlaces, ActiveFacts DEF SelectGroups, CascadeOK, Levels
  <1>a. /\ t \notin CaseColls /\ (t \in Colls => t \notin Buses) /\ b \in Ids
        /\ pc'[w] = "delete_bus" /\ groups'[w] = ChildrenOf(w, b)
    <2>1. b \in Ids
      BY <1>0 DEF Ids
    <2>2. t \notin CaseColls /\ (t \in Colls => t \notin Buses)
      BY <1>0, TableAssumption
    <2>3. pc'[w] = "delete_bus" /\ groups'[w] = ChildrenOf(w, b)
      BY DEF SelectGroups, IInv, TypeOK
    <2>4. QED
      BY <2>1, <2>2, <2>3
  <1>b. /\ ChildrenOf(w, b) \subseteq (IF t \in Colls THEN Two(w) ELSE One(w))
        /\ ChildrenOf(w, b) \subseteq CaseColls
        /\ \A i \in Ids : db[i] = b => i \in ChildrenOf(w, b) \/ Deleted(w, i)
    <2>1. t \in Colls => b \in One(w)
      BY <1>0, <1>a DEF CascadeOK, Gathered
    <2>2. t \notin Colls => b = t
      BY <1>0, <1>a, ActiveFacts
    <2>3. t \in Colls => ChildrenOf(w, b) \subseteq Under(seen[w], One(w))
      BY <2>1, <1>0, <1>a, SeenChildren
    <2>4. t \notin Colls => ChildrenOf(w, b) \subseteq Under(seen[w], {t})
      BY <2>2, <1>0, <1>a, SeenChildren
    <2>5. b \in {b}
      OBVIOUS
    <2>6. /\ \A i \in Ids : db[i] = b => i \in ChildrenOf(w, b) \/ Deleted(w, i)
          /\ \A i \in ChildrenOf(w, b) : i \in Ids /\ db[i] = b
      BY <2>5, <1>0, <1>a, SeenChildren DEF ChildrenOf
    <2>7. QED
      BY <2>3, <2>4, <2>6, <1>0, <1>a, ChildLevels DEF One, Two
  <1>c. \A i \in Ids : Deleted(w, i)' = Deleted(w, i)
    BY <1>0, <1>a DEF Deleted
  <1>1. Levels(w)'
    BY <1>0, <1>a, <1>b DEF CascadeOK, Levels
  <1>2. Gathered(w)'
    BY <1>0, <1>a, <1>b, <1>c, SameHistory DEF CascadeOK, Gathered
  <1>3. Own(w)' /\ Selected(w)'
    BY <1>0, <1>a, <1>b, <1>c, SameHistory DEF CascadeOK, Own, Selected, AfterOwn
  <1>4. Covered(w)'
    BY <1>0, <1>a, <1>c, SameHistory DEF CascadeOK, Covered, Pending
  <1>5. QED
    BY <1>1, <1>2, <1>3, <1>4 DEF CascadeOK

\* Deleting the business leaves its case collections pending.
LEMMA CascadeDeleteBus ==
  ASSUME IInv, NEW w \in Workers, Active(w), CascadeOK(w), DeleteBus(w)
  PROVE  CascadeOK(w)'
  <1> DEFINE t == req[w].id
             b == cur[w]
             rows == RowOf(w, b)
  <1>0. /\ pc[w] = "delete_bus" /\ t \in Colls \cup Buses /\ t \in Ids /\ b \in Buses
        /\ t \in Buses => b = t
        /\ Write(w, rows, Absent)
        /\ UNCHANGED <<db, known, req, todo, cur, groups, seen, begun>>
    BY CascadePlaces, ActiveFacts DEF DeleteBus, CascadeOK, Levels
  <1>a. t \notin CaseColls /\ (t \in Colls => t \notin Buses) /\ b \in Ids
    BY <1>0, TableAssumption DEF Ids
  <1>b. \/ rows # {} /\ pc'[w] = "delete_groups" /\ answer'[w] = answer[w]
        \/ rows = {} /\ t \in Colls /\ pc'[w] = "next_bus" /\ answer'[w] = answer[w]
        \/ rows = {} /\ t \in Buses /\ pc'[w] = "commit" /\ answer'[w] = "false"
    BY <1>0 DEF DeleteBus, ReturnFromBus, Return, IInv, TypeOK
  <1>c. /\ rows = {} \/ rows = {b}
        /\ rows = {} => \A p \in Ids : db[b] = p => Deleted(w, b)
        /\ \A i \in Ids : Deleted(w, i)' <=> i \in rows \/ Deleted(w, i)
    <2>1. rows = {} \/ rows = {b}
      BY DEF RowOf
    <2>2. rows = {} => View(w, b) = Absent
      BY DEF RowOf
    <2>3. rows = {} => \A p \in Ids : db[b] = p => Deleted(w, b)
      BY <2>2, <1>a, RemovalView, MarkerFacts
    <2>4. \A i \in Ids : Deleted(w, i)' <=> i \in rows \/ Deleted(w, i)
      BY <1>0, DeletedRows DEF IInv
    <2>5. QED
      BY <2>1, <2>3, <2>4
  <1>d. b \in Below(seen[w], t)
    BY <1>0, <1>a DEF CascadeOK, Gathered, Below, One
  <1>1. Levels(w)'
    BY <1>0, <1>a, <1>b DEF CascadeOK, Levels
  <1>2. Gathered(w)'
    BY <1>0, <1>a, <1>b, <1>c, <1>d, SameHistory DEF CascadeOK, Gathered
  <1>3. Own(w)'
    BY <1>0, <1>a, <1>b, <1>c DEF CascadeOK, Own, AfterOwn
  <1>4. Selected(w)'
    BY <1>0, <1>a, <1>b, <1>c, SameHistory DEF CascadeOK, Selected
  <1>5. Covered(w)'
    BY <1>0, <1>a, <1>b, <1>c, SameHistory DEF CascadeOK, Covered, Pending
  <1>6. QED
    BY <1>1, <1>2, <1>3, <1>4, <1>5 DEF CascadeOK

\* The second search for the case collections finds every child; the calm ones
\* among them were selected before, so that their cases are still pending.
LEMMA CascadeDeleteGroups ==
  ASSUME IInv, NEW w \in Workers, Active(w), CascadeOK(w), DeleteGroups(w)
  PROVE  CascadeOK(w)'
  <1> DEFINE t == req[w].id
             b == cur[w]
             rows == ChildrenOf(w, b)
  <1>0. /\ pc[w] = "delete_groups" /\ t \in Colls \cup Buses /\ t \in Ids /\ b \in Buses
        /\ t \in Buses => b = t
        /\ Write(w, rows, Absent)
        /\ UNCHANGED <<db, known, req, todo, cur, groups, answer, seen, begun>>
    BY CascadePlaces, ActiveFacts DEF DeleteGroups, CascadeOK, Levels
  <1>a. t \notin CaseColls /\ (t \in Colls => t \notin Buses) /\ b \in Ids /\ pc'[w] = "delete_cases"
    BY <1>0, TableAssumption DEF Ids, DeleteGroups, IInv, TypeOK
  <1>b. \A i \in Ids : Deleted(w, i)' <=> i \in rows \/ Deleted(w, i)
    BY <1>0, DeletedRows DEF IInv
  <1>c. /\ \A i \in Ids : db[i] = b => i \in rows \/ Deleted(w, i)
        /\ \A i \in rows : i \in Ids /\ db[i] = b /\ ~Deleted(w, i)
    <2>1. b \in {b}
      OBVIOUS
    <2>2. QED
      BY <2>1, <1>a, SeenChildren DEF ChildrenOf
  <1>d. rows \subseteq Below(seen[w], t)
    <2>1. CASE t \in Colls
      <3>1. b \in One(w)
        BY <1>0, <2>1 DEF CascadeOK, Gathered
      <3>2. rows \subseteq Under(seen[w], One(w))
        BY <3>1, <1>a, SeenChildren
      <3>3. QED
        BY <3>2 DEF One, Below
    <2>2. CASE t \in Buses
      <3>1. b \in {t}
        BY <1>0, <2>2
      <3>2. rows \subseteq Under(seen[w], {t})
        BY <3>1, <1>a, SeenChildren
      <3>3. QED
        BY <3>2 DEF Below
    <2>3. QED
      BY <1>0, <2>1, <2>2
  <1>1. Levels(w)'
    BY <1>0, <1>a DEF CascadeOK, Levels
  <1>2. Gathered(w)'
    BY <1>0, <1>a, <1>b, <1>d, SameHistory DEF CascadeOK, Gathered
  <1>3. Own(w)'
    BY <1>0, <1>a, <1>b DEF CascadeOK, Own, AfterOwn
  <1>4. Selected(w)'
    BY <1>0, <1>a DEF CascadeOK, Selected
  <1>5. Covered(w)'
    <2> SUFFICES ASSUME NEW i \in Ids, NEW p \in Ids, Deleted(w, p)', db[i] = p,
                        Calm(w, i), Calm(w, p)
                 PROVE  Deleted(w, i)' \/ Pending(w, i, p)'
      BY <1>0, SameHistory DEF Covered
    <2>1. CASE Deleted(w, p)
      <3>1. Deleted(w, i) \/ Pending(w, i, p)
        BY <2>1 DEF CascadeOK, Covered
      <3>2. QED
        BY <3>1, <1>0, <1>a, <1>b, <1>c DEF Pending
    <2>2. CASE p \in rows
      <3>1. p \in groups[w]
        BY <2>2, <1>0, <1>c DEF CascadeOK, Selected
      <3>2. QED
        BY <3>1, <1>0, <1>a DEF Pending
    <2>3. QED
      BY <2>1, <2>2, <1>b
  <1>6. QED
    BY <1>1, <1>2, <1>3, <1>4, <1>5 DEF CascadeOK

\* The cases of one selected case collection after the other are deleted.
LEMMA CascadeDeleteCases ==
  ASSUME IInv, NEW w \in Workers, Active(w), CascadeOK(w), DeleteCases(w)
  PROVE  CascadeOK(w)'
  <1> DEFINE t == req[w].id
  <1>0. /\ pc[w] = "delete_cases" /\ t \in Ids /\ t \notin Cases
        /\ groups[w] \subseteq CaseColls
        /\ t \in CaseColls => groups[w] \subseteq {t}
        /\ UNCHANGED <<db, known, req, todo, cur, seen, begun>>
    BY CascadePlaces, ActiveFacts DEF DeleteCases, CascadeOK, Levels
  <1>a. /\ t \in Colls \cup Buses \cup CaseColls
        /\ t \in Colls => t \notin Buses \cup CaseColls
        /\ t \in Buses => t \notin CaseColls
    BY <1>0, TableAssumption DEF Ids
  <1>1. CASE \E g \in groups[w] :
               /\ Write(w, ChildrenOf(w, g), Absent)
               /\ groups' = [groups EXCEPT ![w] = @ \ {g}]
               /\ UNCHANGED <<pc, answer>>
    <2>1. PICK g \in groups[w] : /\ Write(w, ChildrenOf(w, g), Absent)
                                 /\ groups' = [groups EXCEPT ![w] = @ \ {g}]
                                 /\ UNCHANGED <<pc, answer>>
      BY <1>1
    <2> DEFINE rows == ChildrenOf(w, g)
    <2>2. groups'[w] = groups[w] \ {g} /\ g \in CaseColls /\ g \in Ids
      BY <2>1, <1>0 DEF IInv, TypeOK
    <2>3. \A i \in Ids : Deleted(w, i)' <=> i \in rows \/ Deleted(w, i)
      BY <2>1, DeletedRows DEF IInv
    <2>4. /\ \A i \in Ids : db[i] = g => i \in rows \/ Deleted(w, i)
          /\ \A i \in rows : i \in Ids /\ db[i] = g
      <3>1. g \in {g}
        OBVIOUS
      <3>2. QED
        BY <3>1, <2>2, SeenChildren DEF ChildrenOf
    <2>5. rows \subseteq Below(seen[w], t)
      <3>1. CASE t \in Colls
        <4>1. rows \subseteq Under(seen[w], Two(w))
          BY <2>2, <3>1, SeenChildren DEF CascadeOK, Gathered
        <4>2. QED
          BY <4>1 DEF One, Two, Below
      <3>2. CASE t \in Buses
        <4>1. rows \subseteq Under(seen[w], One(w))
          BY <2>2, <3>2, <1>a, SeenChildren DEF CascadeOK, Gathered
        <4>2. QED
          BY <4>1 DEF One, Below
      <3>3. CASE t \in CaseColls
        <4>1. rows \subseteq Under(seen[w], {t})
          BY <2>2, <3>3, <1>0, SeenChildren
        <4>2. QED
          BY <4>1 DEF Below
      <3>4. QED
        BY <1>a, <3>1, <3>2, <3>3
    <2>6. Levels(w)' /\ Own(w)'
      BY <1>0, <2>1, <2>2, <2>3 DEF CascadeOK, Levels, Own
    <2>7. Gathered(w)'
      BY <1>0, <2>1, <2>2, <2>3, <2>5, SameHistory DEF CascadeOK, Gathered
    <2>8. Selected(w)'
      BY <1>0, <2>1, <2>2, <2>3, <2>4, SameHistory DEF CascadeOK, Selected
    <2>9. Covered(w)'
      <3> SUFFICES ASSUME NEW i \in Ids, NEW p \in Ids, Deleted(w, p)', db[i] = p,
                          Calm(w, i), Calm(w, p)
                   PROVE  Deleted(w, i)' \/ Pending(w, i, p)'
        BY <1>0, SameHistory DEF Covered
      <3>1. CASE Deleted(w, p)
        <4>1. Deleted(w, i) \/ Pending(w, i, p)
          BY <3>1 DEF CascadeOK, Covered
        <4>2. QED
          BY <4>1, <1>0, <2>1, <2>2, <2>3, <2>4 DEF Pending
      <3>2. CASE p \in rows
        <4>1. db[p] = g
          BY <3>2, <2>4
        <4>2. p \in Cases
          BY <4>1, <2>2, ChildLevels
        <4>3. QED
          BY <4>2, ChildLevels
      <3>3. QED
        BY <3>1, <3>2, <2>3
    <2>10. QED
      BY <2>6, <2>7, <2>8, <2>9 DEF CascadeOK
  <1>2. CASE /\ groups[w] = {}
             /\ IF t \in CaseColls
                THEN pc' = [pc EXCEPT ![w] = "delete_row"] /\ UNCHANGED answer
                ELSE ReturnFromBus(w, "true")
             /\ UNCHANGED <<wr, groups>>
    <2>1. \/ t \in CaseColls /\ pc'[w] = "delete_row" /\ answer'[w] = answer[w]
          \/ t \in Colls /\ pc'[w] = "next_bus" /\ answer'[w] = answer[w]
          \/ t \in Buses /\ pc'[w] = "commit" /\ answer'[w] = "true"
      BY <1>0, <1>2, <1>a DEF ReturnFromBus, Return, IInv, TypeOK
    <2>2. \A i \in Ids : Deleted(w, i)' = Deleted(w, i)
      BY <1>2 DEF Deleted
    <2>3. Levels(w)'
      BY <1>0, <1>2, <1>a, <2>1 DEF CascadeOK, Levels
    <2>4. Own(w)'
      BY <1>0, <1>2, <1>a, <2>1, <2>2 DEF CascadeOK, Own, AfterOwn
    <2>5. Gathered(w)'
      BY <1>0, <1>2, <1>a, <2>1, <2>2, SameHistory DEF CascadeOK, Gathered
    <2>6. Selected(w)'
      BY <1>0, <1>2, <1>a, <2>1, <2>2, SameHistory DEF CascadeOK, Selected
    <2>7. Covered(w)'
      BY <1>0, <1>2, <1>a, <2>1, <2>2, SameHistory DEF CascadeOK, Covered, Pending
    <2>8. QED
      BY <2>3, <2>4, <2>5, <2>6, <2>7 DEF CascadeOK
  <1>3. QED
    BY <1>1, <1>2 DEF DeleteCases

\* The case collection goes after its cases, a case has no children.
LEMMA CascadeDeleteRow ==
  ASSUME IInv, NEW w \in Workers, Active(w), CascadeOK(w), DeleteRow(w)
  PROVE  CascadeOK(w)'
  <1> DEFINE t == req[w].id
             rows == RowOf(w, t)
  <1>0. /\ pc[w] = "delete_row" /\ t \in CaseColls \cup Cases /\ t \in Ids
        /\ Write(w, rows, Absent)
        /\ UNCHANGED <<db, known, req, todo, cur, groups, seen, begun>>
    BY CascadePlaces, ActiveFacts DEF DeleteRow
  <1>a. /\ t \notin Colls /\ t \notin Buses /\ pc'[w] = "commit"
        /\ rows = {} => answer'[w] = "false"
    BY <1>0, TableAssumption DEF DeleteRow, Return, IInv, TypeOK
  <1>b. /\ rows = {} \/ rows = {t}
        /\ \A i \in Ids : Deleted(w, i)' <=> i \in rows \/ Deleted(w, i)
    BY <1>0, DeletedRows DEF RowOf, IInv
  <1>c. t \in Below(seen[w], t)
    BY DEF Below
  <1>1. Levels(w)'
    BY <1>0, <1>a DEF CascadeOK, Levels
  <1>2. Gathered(w)'
    BY <1>0, <1>a, <1>b, <1>c, SameHistory DEF CascadeOK, Gathered
  <1>3. Own(w)' /\ Selected(w)'
    BY <1>0, <1>a, <1>b, SameHistory DEF CascadeOK, Own, Selected
  <1>4. Covered(w)'
    <2> SUFFICES ASSUME NEW i \in Ids, NEW p \in Ids, Deleted(w, p)', db[i] = p,
                        Calm(w, i), Calm(w, p)
                 PROVE  Deleted(w, i)'
      BY <1>0, SameHistory DEF Covered
    <2>1. CASE Deleted(w, p)
      <3>1. Deleted(w, i) \/ Pending(w, i, p)
        BY <2>1 DEF CascadeOK, Covered
      <3>2. QED
        BY <3>1, <1>0, <1>a, <1>b DEF Pending
    <2>2. CASE p = t
      <3>1. t \in CaseColls
        BY <2>2, <1>0, ChildLevels
      <3>2. QED
        BY <3>1, <2>2, <1>0, <1>b DEF CascadeOK, Selected
    <2>3. QED
      BY <2>1, <2>2, <1>b
  <1>5. QED
    BY <1>1, <1>2, <1>3, <1>4 DEF CascadeOK

\* A removal begins with nothing deleted.
LEMMA CascadeBegins ==
  ASSUME IInv, NEW w \in Workers, NEW i \in Ids, BeginRemove(w, i)
  PROVE  CascadeOK(w)'
  <1> DEFINE t == req'[w].id
  <1>1. /\ t = i /\ pc'[w] = FirstOfRemove(i)
        /\ cur'[w] = (IF i \in Buses THEN i ELSE None)
        /\ groups'[w] = (IF i \in CaseColls THEN {i} ELSE {})
        /\ wr' = wr /\ db' = db /\ ~Busy(w)
    BY DEF BeginRemove, Begin, IInv, TypeOK, Busy
  <1>2. \A j \in Ids : ~Deleted(w, j)'
    BY <1>1, MarkerFacts DEF IInv, Overlay, Deleted
  <1>3. /\ i \in Colls => i \notin Buses \cup CaseColls
        /\ i \in Buses => i \notin CaseColls
    BY TableAssumption
  <1>4. /\ i \in Colls => pc'[w] = "select_buses" /\ groups'[w] = {}
        /\ i \in Buses => pc'[w] = "select_groups" /\ groups'[w] = {} /\ cur'[w] = i
        /\ i \in CaseColls => pc'[w] = "delete_cases" /\ groups'[w] = {i}
        /\ i \notin Colls \cup Buses \cup CaseColls => pc'[w] = "delete_row" /\ groups'[w] = {}
    BY <1>1, <1>3 DEF FirstOfRemove
  <1>5. Levels(w)'
    BY <1>1, <1>3, <1>4 DEF Levels
  <1>6. Gathered(w)'
    BY <1>1, <1>2, <1>3, <1>4 DEF Gathered
  <1>7. Own(w)'
    BY <1>1, <1>3, <1>4 DEF Own, AfterOwn
  <1>8. Selected(w)'
    BY <1>1, <1>3, <1>4 DEF Selected
  <1>9. Covered(w)'
    BY <1>2 DEF Covered
  <1>10. QED
    BY <1>5, <1>6, <1>7, <1>8, <1>9 DEF CascadeOK

\* A step of one request other than a commit leaves the state of the others alone.
LEMMA OthersRest ==
  ASSUME TypeOK, NEW v \in Workers, NEW w \in Workers, v # w,
         \/ \E i \in Ids, p \in Ids \cup {Root} : BeginAdd(v, i, p) \/ BeginModify(v, i, p)
         \/ \E i \in Ids : BeginRemove(v, i)
         \/ Statement(v) \/ LockTimeout(v)
  PROVE  /\ db' = db
         /\ wr'[w] = wr[w] /\ pc'[w] = pc[w] /\ req'[w] = req[w] /\ todo'[w] = todo[w]
         /\ cur'[w] = cur[w] /\ groups'[w] = groups[w] /\ answer'[w] = answer[w]
         /\ seen'[w] = seen[w]
  <1> DEFINE Rest == /\ db' = db
                     /\ wr'[w] = wr[w] /\ pc'[w] = pc[w] /\ req'[w] = req[w]
                     /\ todo'[w] = todo[w] /\ cur'[w] = cur[w] /\ groups'[w] = groups[w]
                     /\ answer'[w] = answer[w] /\ seen'[w] = seen[w]
  <1>1. ASSUME NEW i \in Ids, NEW p \in Ids \cup {Root}, BeginAdd(v, i, p) \/ BeginModify(v, i, p)
        PROVE  Rest
    BY <1>1 DEF BeginAdd, BeginModify, Begin, TypeOK
  <1>2. ASSUME NEW i \in Ids, BeginRemove(v, i) PROVE Rest
    BY <1>2 DEF BeginRemove, Begin, TypeOK
  <1>3. ASSUME Rollback(v) PROVE Rest
    BY <1>3 DEF Rollback, Forget, TypeOK
  <1>4. ASSUME Insert(v) \/ ConversionFails(v) \/ SelectBus(v) \/ Update(v) PROVE Rest
    BY <1>3, <1>4 DEF Insert, ConversionFails, SelectBus, Update, Write, Return, TypeOK
  <1>5. ASSUME SelectBuses(v) \/ DeleteColl(v) \/ NextBus(v) PROVE Rest
    BY <1>5 DEF SelectBuses, DeleteColl, NextBus, Write, Return, TypeOK
  <1>6. ASSUME SelectGroups(v) \/ DeleteBus(v) \/ DeleteGroups(v) PROVE Rest
    BY <1>6 DEF SelectGroups, DeleteBus, DeleteGroups, Write, Return, ReturnFromBus, TypeOK
  <1>7. ASSUME DeleteCases(v) \/ DeleteRow(v) PROVE Rest
    BY <1>7 DEF DeleteCases, DeleteRow, Write, Return, ReturnFromBus, TypeOK
  <1>8. ASSUME LockTimeout(v) PROVE Rest
    BY <1>3, <1>8 DEF LockTimeout
  <1>9. QED
    BY <1>1, <1>2, <1>4, <1>5, <1>6, <1>7, <1>8 DEF Statement

\* No removal is under way when the server starts.
LEMMA InitCInv == Init => CInv
  BY DEF Init, CInv, Active, Busy

\* A step of w itself.
LEMMA CascadeOwnStep ==
  ASSUME IInv, NEW w \in Workers, Active(w) => CascadeOK(w), Active(w)',
         \/ \E i \in Ids, p \in Ids \cup {Root} : BeginAdd(w, i, p) \/ BeginModify(w, i, p)
         \/ \E i \in Ids : BeginRemove(w, i)
         \/ Progress(w)
  PROVE  CascadeOK(w)'
  <1>1. ASSUME NEW i \in Ids, NEW p \in Ids \cup {Root}, BeginAdd(w, i, p) \/ BeginModify(w, i, p)
        PROVE  FALSE
    BY <1>1 DEF BeginAdd, BeginModify, Begin, IInv, TypeOK, Active
  <1>2. ASSUME NEW i \in Ids, BeginRemove(w, i) PROVE CascadeOK(w)'
    BY <1>2, CascadeBegins
  <1>3. Rollback(w) \/ Commit(w) => ~Busy(w)'
    BY DEF Rollback, Commit, Forget, Busy, IInv, TypeOK
  <1>4. ~Commit(w) /\ ~LockTimeout(w)
    BY <1>3 DEF LockTimeout, Active
  <1>5. ASSUME Statement(w) PROVE CascadeOK(w)'
    <2>1. ~Rollback(w)
      BY <1>3 DEF Active
    <2>2. req' = req /\ Busy(w)
      <3>1. req' = req
        BY <1>5, <2>1 DEF Statement, Insert, ConversionFails, SelectBus, Update, SelectBuses,
                          DeleteColl, NextBus, SelectGroups, DeleteBus, DeleteGroups,
                          DeleteCases, DeleteRow
      <3>2. Busy(w)
        BY <1>5 DEF Statement, Insert, ConversionFails, SelectBus, Update, SelectBuses,
                    DeleteColl, NextBus, SelectGroups, DeleteBus, DeleteGroups,
                    DeleteCases, DeleteRow, Busy
      <3>3. QED
        BY <3>1, <3>2
    <2>3. Active(w) /\ CascadeOK(w)
      BY <2>2 DEF Active
    <2>4. ~Insert(w) /\ ~ConversionFails(w) /\ ~SelectBus(w) /\ ~Update(w)
      BY <2>3, CascadePlaces DEF Insert, ConversionFails, SelectBus, Update
    <2>5. QED
      BY <1>5, <2>3, <2>4, CascadeSelectBuses, CascadeDeleteColl, CascadeNextBus,
         CascadeSelectGroups, CascadeDeleteBus, CascadeDeleteGroups, CascadeDeleteCases,
         CascadeDeleteRow DEF Statement
  <1>6. QED
    BY <1>1, <1>2, <1>4, <1>5 DEF Progress

\* Every step of any request keeps the invariant of all cascades.
LEMMA NextCInv == IInv /\ CInv /\ [Next]_vars => CInv'
  <1> SUFFICES ASSUME IInv, CInv, [Next]_vars, NEW w \in Workers, Active(w)'
               PROVE  CascadeOK(w)'
    BY DEF CInv
  <1>1. CASE UNCHANGED vars
    BY <1>1, CascadeFrame DEF vars, CInv, Active, Busy
  <1>2. ASSUME NEW v \in Workers, v # w, Commit(v) PROVE CascadeOK(w)'
    <2>1. Active(w)
      BY <1>2 DEF Active, Busy, Commit, Forget, IInv, TypeOK
    <2>2. QED
      BY <1>2, <2>1, CascadeCommitElsewhere DEF CInv
  <1>3. ASSUME NEW v \in Workers, v # w,
               \/ \E i \in Ids, p \in Ids \cup {Root} : BeginAdd(v, i, p) \/ BeginModify(v, i, p)
               \/ \E i \in Ids : BeginRemove(v, i)
               \/ Statement(v) \/ LockTimeout(v)
        PROVE  CascadeOK(w)'
    <2>1. /\ db' = db
          /\ wr'[w] = wr[w] /\ pc'[w] = pc[w] /\ req'[w] = req[w] /\ todo'[w] = todo[w]
          /\ cur'[w] = cur[w] /\ groups'[w] = groups[w] /\ answer'[w] = answer[w]
          /\ seen'[w] = seen[w]
      BY <1>3, OthersRest DEF IInv
    <2>2. Active(w)
      BY <2>1 DEF Active, Busy
    <2>3. QED
      BY <2>1, <2>2, CascadeFrame DEF CInv
  <1>4. ASSUME \/ \E i \in Ids, p \in Ids \cup {Root} : BeginAdd(w, i, p) \/ BeginModify(w, i, p)
               \/ \E i \in Ids : BeginRemove(w, i)
               \/ Progress(w)
        PROVE  CascadeOK(w)'
    BY <1>4, CascadeOwnStep DEF CInv
  <1>5. QED
    BY <1>1, <1>2, <1>3, <1>4 DEF Next, Progress

\* The invariant of the cascades holds in every reachable state.
THEOREM CascadeInvariance == Spec => []CInv
  BY Invariance, InitCInv, NextCInv, PTL DEF Spec

-----------------------------------------------------------------------------
(* What the cascades delete and what they leave.                           *)

\* Additions and modifications delete nothing; a cascade deletes only rows that
\* hung, link by link, below its target while it ran.
THEOREM RemovesOnlyBelow == Spec => []RemovesOnlyBelowTarget
  <1>1. IInv /\ CInv => RemovesOnlyBelowTarget
    <2> SUFFICES ASSUME IInv, CInv, NEW w \in Workers, Busy(w), NEW i \in Ids, Deleted(w, i)
                 PROVE  i \in Below(seen[w], req[w].id)
      BY DEF RemovesOnlyBelowTarget, Deleted
    <2>1. req[w].verb = "remove"
      BY MarkerFacts, ParentFacts, RequestFields
         DEF IInv, Overlay, RequestOK, AddOK, Deleted
    <2>2. QED
      BY <2>1 DEF CInv, Active, CascadeOK, Gathered
  <1>2. QED
    BY <1>1, Invariance, CascadeInvariance, PTL

\* A request about to commit ends by its own commit.
LEMMA EndsByCommit ==
  ASSUME IInv, [Next]_vars, NEW w \in Workers, pc[w] = "commit", pc'[w] = "idle"
  PROVE  Commit(w)
  <1>1. ~UNCHANGED vars
    BY DEF vars
  <1>2. ASSUME NEW v \in Workers, v # w,
               \/ \E i \in Ids, p \in Ids \cup {Root} : BeginAdd(v, i, p) \/ BeginModify(v, i, p)
               \/ \E i \in Ids : BeginRemove(v, i)
               \/ Statement(v) \/ LockTimeout(v)
        PROVE  FALSE
    BY <1>2, OthersRest DEF IInv
  <1>3. ASSUME NEW v \in Workers, v # w, Commit(v) PROVE FALSE
    BY <1>3 DEF Commit, Forget, IInv, TypeOK
  <1>4. ~Statement(w)
    BY DEF Statement, Insert, ConversionFails, SelectBus, Update, SelectBuses,
           DeleteColl, NextBus, SelectGroups, DeleteBus, DeleteGroups, DeleteCases, DeleteRow
  <1>5. ~LockTimeout(w)
    BY DEF LockTimeout, TimesOut, Wants
  <1>6. ASSUME NEW i \in Ids, NEW p \in Ids \cup {Root},
               BeginAdd(w, i, p) \/ BeginModify(w, i, p) \/ BeginRemove(w, i)
        PROVE  FALSE
    BY <1>6 DEF BeginAdd, BeginModify, BeginRemove, Begin
  <1>7. QED
    BY <1>1, <1>2, <1>3, <1>4, <1>5, <1>6 DEF Next, Progress

\* A removal that commits has deleted its target and every calm child of a calm
\* row it has deleted.
LEMMA RemovalDone ==
  ASSUME IInv, CInv, NEW w \in Workers, Removing(w)
  PROVE  /\ Active(w) /\ Deleted(w, req[w].id)
         /\ \A i, p \in Ids : Deleted(w, p) /\ db[i] = p /\ Calm(w, i) /\ Calm(w, p)
                                => Deleted(w, i)
  <1>1. Active(w)
    BY DEF Removing, Active, Busy
  <1>2. CascadeOK(w)
    BY <1>1 DEF CInv
  <1>3. pc[w] = "commit" /\ pc[w] \in AfterOwn(req[w].id)
    BY DEF Removing, AfterOwn
  <1>4. QED
    BY <1>1, <1>2, <1>3 DEF CascadeOK, Own, Covered, Pending, Removing

\* A child survives the deletion of its parent only if one of the two was
\* changed by another request.
THEOREM OrphansAreRaced == Spec => OrphansWereRaced
  <1>1. ASSUME IInv, CInv, [Next]_vars, NEW w \in Workers, Removing(w), pc'[w] = "idle",
               NEW i \in Ids, NEW p \in Ids, db[p] # Absent, db'[p] = Absent, db'[i] = p
        PROVE  seen[w][i] # {db[i]} \/ seen[w][p] # {db[p]}
    <2>1. Commit(w)
      BY <1>1, EndsByCommit DEF Removing
    <2>2. db'[p] = View(w, p) /\ db'[i] = View(w, i)
      BY <1>1, <2>1, CommitRows
    <2>3. Active(w)
      BY <1>1, RemovalDone
    <2>4. Deleted(w, p)
      BY <1>1, <2>2, <2>3, RemovalView
    <2>5. ~Deleted(w, i) /\ db[i] = p
      BY <1>1, <2>2, <2>3, RemovalView, MarkerFacts
    <2>6. QED
      BY <1>1, <2>4, <2>5, RemovalDone DEF Calm
  <1>2. IInv /\ CInv /\ [Next]_vars =>
          [\A w \in Workers : Removing(w) /\ pc'[w] = "idle" =>
             \A i, p \in Ids :
               db[p] # Absent /\ db'[p] = Absent /\ db'[i] = p
               => seen[w][i] # {db[i]} \/ seen[w][p] # {db[p]}]_vars
    BY <1>1
  <1>3. QED
    BY <1>2, Invariance, CascadeInvariance, PTL DEF Spec, OrphansWereRaced

\* A removal nobody races removes exactly the subtree of its target.
THEOREM QuietRemoveIsExact == Spec => QuietRemoveTakesSubtree
  <1>1. ASSUME IInv, CInv, [Next]_vars, NEW w \in Workers, Removing(w), pc'[w] = "idle",
               \A i \in Ids : seen[w][i] = {db[i]}
        PROVE  Present(db') = Present(db) \ Below([i \in Ids |-> {db[i]}], req[w].id)
    <2> DEFINE t == req[w].id
               up == [i \in Ids |-> {db[i]}]
               one == Under(up, {t})
               two == Under(up, one)
    <2>1. /\ Active(w) /\ Deleted(w, t) /\ t \in Ids
          /\ \A i, p \in Ids : Deleted(w, p) /\ db[i] = p => Deleted(w, i)
      BY <1>1, RemovalDone, ActiveFacts DEF Calm
    <2>2. \A i \in Ids : db'[i] = View(w, i)
      BY <1>1, EndsByCommit, CommitRows DEF Removing
    <2>3. \A i \in Ids : up[i] = {db[i]}
      OBVIOUS
    <2>4. \A i \in Below(up, t) : i \in Ids /\ Deleted(w, i)
      <3>1. \A S : (\A p \in S : p \in Ids /\ Deleted(w, p))
                   => \A i \in Under(up, S) : i \in Ids /\ Deleted(w, i)
        BY <2>1, <2>3 DEF Under
      <3>2. \A i \in one : i \in Ids /\ Deleted(w, i)
        BY <2>1, <3>1
      <3>3. \A i \in two : i \in Ids /\ Deleted(w, i)
        BY <3>1, <3>2
      <3>4. \A i \in Under(up, two) : i \in Ids /\ Deleted(w, i)
        BY <3>1, <3>3
      <3>5. QED
        BY <2>1, <3>2, <3>3, <3>4 DEF Below
    <2>5. \A i \in Ids : Deleted(w, i) => i \in Below(up, t)
      <3>1. \A i \in Ids : seen[w][i] \subseteq up[i]
        BY <1>1, <2>3
      <3>2. Below(seen[w], t) \subseteq Below(up, t)
        BY <3>1, BelowGrows
      <3>3. QED
        BY <1>1, <2>1, <3>2 DEF CInv, CascadeOK, Gathered
    <2>6. \A i \in Ids : db'[i] # Absent <=> db[i] # Absent /\ ~Deleted(w, i)
      BY <1>1, <2>1, <2>2, RemovalView
    <2>7. QED
      BY <2>4, <2>5, <2>6 DEF Present
  <1>2. IInv /\ CInv /\ [Next]_vars =>
          [\A w \in Workers :
             /\ Removing(w) /\ pc'[w] = "idle"
             /\ \A i \in Ids : seen[w][i] = {db[i]}
             => Present(db') = Present(db) \ Below([i \in Ids |-> {db[i]}], req[w].id)]_vars
    BY <1>1
  <1>3. QED
    BY <1>2, Invariance, CascadeInvariance, PTL DEF Spec, QuietRemoveTakesSubtree
=============================================================================
