----------------------------- MODULE XmlShared -----------------------------
(***************************************************************************)
(* Parsing XML messages (XmlFormat.parseMessage2Tree) over the list that   *)
(* XmlUtil keeps in a static field for all requests.                       *)
(*                                                                         *)
(* A parse walks its document and appends each element to the list that    *)
(* the field holds at that moment, takes the list the field holds at the   *)
(* end, hangs each element below its parent, removes it from the list, and *)
(* puts a new list into the field.  An exception skips the last step.      *)
(*                                                                         *)
(* The list is an ArrayList used without a lock.  Appending reads the      *)
(* size, publishes the new size and stores the element; when another parse *)
(* appends in between, the array may have been replaced, and the element   *)
(* is lost or out of bounds.  An iterator throws when the list has been    *)
(* changed since it was made.  Reads of the field are not stale here.      *)
(*                                                                         *)
(* A document is its elements in document order, each with the place of    *)
(* its parent; names, texts and attributes are left out.                   *)
(***************************************************************************)
EXTENDS Naturals, Sequences, FiniteSets

CONSTANTS Parses,      \* uploads of XML messages, one parse each
          Documents,   \* sequences of places of parents, 0 for the root
          MaxLen,      \* bound on the elements of a document
          MaxActive,   \* request threads
          Malformed,   \* a message that is no XML
          Null, None

ASSUME XmlAssumption ==
  /\ MaxLen \in Nat /\ MaxActive \in Nat
  /\ \A d \in Documents :
       /\ d \in Seq(Nat) /\ Len(d) \in 1..MaxLen
       /\ d[1] = 0 /\ \A i \in 2..Len(d) : d[i] \in 1..(i - 1)
  /\ Malformed \notin Documents /\ None \notin Documents \cup Nat
  /\ None \notin [list : Nat, index : Nat, published : BOOLEAN]
  /\ Null \notin Parses \X Nat

Nodes == Parses \X (1..MaxLen)

VARIABLES
  lists,    \* every ArrayList made so far
  data,     \* the one in the static field
  kids,     \* the children hung below each element
  pc,       \* where each parse is
  doc,      \* what it parses
  at,       \* the next element it appends
  slot,     \* the append it is in
  resList,  \* the list it has taken
  cursor,   \* elements its iterator has passed
  removeIds,
  answer,   \* the tree the request answers with
  stale,    \* parses whose iterator will find its list changed
  crossed,  \* parses whose append has been crossed by another to the list
  dirty,    \* history: a parse has failed since the field was last set
  alone     \* history: no other parse has run beside it, nor failed before it

vars == <<lists, data, kids, pc, doc, at, slot, resList, cursor, removeIds, answer,
          stale, crossed, dirty, alone>>

\* An ArrayList: its array, as far as it was ever filled, and its size.
Fresh == [elems |-> <<>>, size |-> 0]

Init ==
  /\ lists = <<Fresh>> /\ data = 1
  /\ kids = [n \in Nodes |-> <<>>]
  /\ pc = [q \in Parses |-> "idle"]
  /\ doc = [q \in Parses |-> None]
  /\ at = [q \in Parses |-> 1]
  /\ slot = [q \in Parses |-> None]
  /\ resList = [q \in Parses |-> None]
  /\ cursor = [q \in Parses |-> 0]
  /\ removeIds = [q \in Parses |-> <<>>]
  /\ answer = [q \in Parses |-> None]
  /\ stale = {} /\ crossed = {}
  /\ dirty = FALSE
  /\ alone = [q \in Parses |-> FALSE]

Active == {q \in Parses : pc[q] \notin {"idle", "done", "failed"}}

-----------------------------------------------------------------------------
\* A request comes in; a message that is no XML throws in parseText, which is caught.
Start(q, d) ==
  /\ pc[q] = "idle"
  /\ Cardinality(Active) < MaxActive
  /\ doc' = [doc EXCEPT ![q] = d]
  /\ pc' = [pc EXCEPT ![q] = IF d = Malformed THEN "remove" ELSE "walk"]
  /\ alone' = [r \in Parses |-> IF r = q THEN Active = {} /\ ~dirty
                                ELSE alone[r] /\ r \notin Active]
  /\ UNCHANGED <<lists, data, kids, at, slot, resList, cursor, removeIds, answer,
                 stale, crossed, dirty>>

\* An exception leaves the list where it is; upload answers "false".
Fails(q) ==
  /\ pc' = [pc EXCEPT ![q] = "failed"]
  /\ dirty' = TRUE

Iterating(l) == {q \in Parses : pc[q] = "attach" /\ resList[q] = l}
Appending(l) == {q \in Parses : slot[q] # None /\ slot[q].list = l}

AddRead(q) ==
  /\ pc[q] = "walk" /\ slot[q] = None /\ at[q] <= Len(doc[q])
  /\ slot' = [slot EXCEPT ![q] =
       [list |-> data, index |-> lists[data].size + 1, published |-> FALSE]]
  /\ stale' = stale \cup Iterating(data)
  /\ crossed' = crossed \cup Appending(data)
  /\ UNCHANGED <<lists, data, kids, pc, doc, at, resList, cursor, removeIds, answer,
                 dirty, alone>>

Sized(l, n) == [elems |-> IF n > Len(l.elems) THEN Append(l.elems, Null) ELSE l.elems,
                size |-> n]

AddPublish(q) ==
  /\ slot[q] # None /\ ~slot[q].published
  /\ lists' = [lists EXCEPT ![slot[q].list] = Sized(@, slot[q].index)]
  /\ slot' = [slot EXCEPT ![q].published = TRUE]
  /\ UNCHANGED <<data, kids, pc, doc, at, resList, cursor, removeIds, answer,
                 stale, crossed, dirty, alone>>

Added(q) ==
  /\ slot[q] # None /\ slot[q].published
  /\ slot' = [slot EXCEPT ![q] = None]
  /\ at' = [at EXCEPT ![q] = @ + 1]
  /\ crossed' = crossed \ {q}
  /\ UNCHANGED <<data, kids, doc, resList, cursor, removeIds, answer, stale, alone>>

AddStore(q) ==
  /\ Added(q)
  /\ lists' = [lists EXCEPT ![slot[q].list].elems[slot[q].index] = <<q, at[q]>>]
  /\ UNCHANGED <<pc, dirty>>

\* The array is no longer that of the list, or it is too short.
AddAstray(q) ==
  /\ q \in crossed
  /\ Added(q)
  /\ UNCHANGED lists
  /\ UNCHANGED <<pc, dirty>> \/ Fails(q)

\* The walk is over: the list now in the field is taken and iterated.
Walked(q) ==
  /\ pc[q] = "walk" /\ slot[q] = None /\ at[q] > Len(doc[q])
  /\ resList' = [resList EXCEPT ![q] = data]
  /\ pc' = [pc EXCEPT ![q] = "attach"]
  /\ UNCHANGED <<lists, data, kids, doc, at, slot, cursor, removeIds, answer,
                 stale, crossed, dirty, alone>>

List(q) == lists[resList[q]]
Elements(l) == SubSeq(l.elems, 1, l.size)

Holds(l, n) == \E i \in 1..l.size : l.elems[i] = n

Parent(n) == <<n[1], doc[n[1]][n[2]]>>
IsRoot(n) == doc[n[1]][n[2]] = 0

\* The iterator finds the list unchanged, and there is no null to dereference.
Intact(q) ==
  /\ q \notin stale /\ cursor[q] < List(q).size
  /\ LET n == List(q).elems[cursor[q] + 1] IN
       n # Null /\ (IsRoot(n) \/ ~Holds(List(q), Null))

AttachFails(q) ==
  /\ pc[q] = "attach" /\ cursor[q] # List(q).size
  /\ ~Intact(q)
  /\ Fails(q)
  /\ UNCHANGED <<lists, data, kids, doc, at, slot, resList, cursor, removeIds, answer,
                 stale, crossed, alone>>

\* A child is hung below its parent, if the list has it.
HungFirst(n) == [kids EXCEPT ![Parent(n)] = <<n>> \o @]
Hung(n) == [kids EXCEPT ![Parent(n)] = Append(@, n)]

\* The iterator passes the next element.
Attach(q) ==
  LET n == List(q).elems[cursor[q] + 1] IN
  /\ pc[q] = "attach" /\ cursor[q] # List(q).size
  /\ Intact(q)
  /\ cursor' = [cursor EXCEPT ![q] = @ + 1]
  /\ IF IsRoot(n)
     THEN UNCHANGED <<kids, removeIds>>
     ELSE /\ removeIds' = [removeIds EXCEPT ![q] = Append(@, n)]
          /\ kids' = IF Holds(List(q), Parent(n)) THEN Hung(n) ELSE kids
  /\ UNCHANGED <<lists, data, pc, doc, at, slot, resList, answer, stale, crossed,
                 dirty, alone>>

Attached(q) ==
  /\ pc[q] = "attach" /\ cursor[q] = List(q).size
  /\ pc' = [pc EXCEPT ![q] = "remove"]
  /\ stale' = stale \ {q}
  /\ UNCHANGED <<lists, data, kids, doc, at, slot, resList, cursor, removeIds, answer,
                 crossed, dirty, alone>>

Without(l, i) ==
  [elems |-> [j \in 1..Len(l.elems) |->
                CASE j < i \/ j > l.size -> l.elems[j]
                  [] j >= i /\ j < l.size -> l.elems[j + 1]
                  [] j = l.size -> Null],
   size |-> l.size - 1]

Remove(q) ==
  LET n == Head(removeIds[q])
      found == {i \in 1..List(q).size : List(q).elems[i] = n}
  IN
  /\ pc[q] = "remove" /\ removeIds[q] # <<>>
  /\ removeIds' = [removeIds EXCEPT ![q] = Tail(@)]
  /\ IF found = {}
     THEN UNCHANGED <<lists, stale>>
     ELSE /\ \E i \in found : /\ \A j \in found : i <= j
                              /\ lists' = [lists EXCEPT ![resList[q]] = Without(@, i)]
          /\ stale' = stale \cup Iterating(resList[q])
  /\ UNCHANGED <<data, kids, pc, doc, at, slot, resList, cursor, answer, crossed,
                 dirty, alone>>

\* XmlUtil.setData(new ArrayList)
NewDataIfTaken(q) ==
  IF data = resList[q] THEN lists' = Append(lists, Fresh) /\ data' = Len(lists) + 1
  ELSE UNCHANGED <<lists, data>>
NewData(q) == lists' = Append(lists, Fresh) /\ data' = Len(lists) + 1

SetData(q) ==
  /\ pc[q] = "remove" /\ removeIds[q] = <<>>
  /\ NewData(q)
  /\ dirty' = FALSE
  /\ pc' = [pc EXCEPT ![q] = "answer"]
  /\ UNCHANGED <<kids, doc, at, slot, resList, cursor, removeIds, answer, stale, crossed,
                 alone>>

\* The tree is written out; of a malformed message there is none.
Answer(q) ==
  /\ pc[q] = "answer"
  /\ pc' = [pc EXCEPT ![q] = "done"]
  /\ answer' = [answer EXCEPT ![q] =
       IF resList[q] = None THEN None ELSE [roots |-> Elements(List(q)), kids |-> kids]]
  /\ UNCHANGED <<lists, data, kids, doc, at, slot, resList, cursor, removeIds, stale,
                 crossed, dirty, alone>>

-----------------------------------------------------------------------------
Step(q) ==
  \/ \E d \in Documents \cup {Malformed} : Start(q, d)
  \/ AddRead(q) \/ AddPublish(q) \/ AddStore(q) \/ AddAstray(q) \/ Walked(q)
  \/ Attach(q) \/ AttachFails(q) \/ Attached(q)
  \/ Remove(q) \/ SetData(q) \/ Answer(q)

Next == \E q \in Parses : Step(q)

Spec == Init /\ [][Next]_vars

-----------------------------------------------------------------------------
(* Properties.                                                             *)

Trees == [roots : Seq(Nodes \cup {Null}), kids : [Nodes -> Seq(Nodes)]]
ArrayLists == [elems : Seq(Nodes \cup {Null}), size : Nat]

\* Every variable has its type, and every list its size within its array.
TypeOK ==
  /\ lists \in Seq(ArrayLists) /\ data \in 1..Len(lists)
  /\ \A l \in 1..Len(lists) : lists[l].size <= Len(lists[l].elems)
  /\ kids \in [Nodes -> Seq(Nodes)]
  /\ pc \in [Parses -> {"idle", "walk", "attach", "remove", "answer", "done", "failed"}]
  /\ doc \in [Parses -> Documents \cup {Malformed, None}]
  /\ at \in [Parses -> 1..(MaxLen + 1)]
  /\ slot \in [Parses -> [list : 1..Len(lists), index : Nat \ {0}, published : BOOLEAN]
                         \cup {None}]
  /\ resList \in [Parses -> 1..Len(lists) \cup {None}]
  /\ cursor \in [Parses -> Nat]
  /\ removeIds \in [Parses -> Seq(Nodes)]
  /\ answer \in [Parses -> Trees \cup {None}]
  /\ stale \subseteq Parses /\ crossed \subseteq Parses
  /\ dirty \in BOOLEAN /\ alone \in [Parses -> BOOLEAN]

\* The children of an element among the first n elements of the document d of q.
Children(q, d, i, n) == {<<q, j>> : j \in {k \in 1..n : d[k] = i}}

\* A list of elements has those of a set, each once, in document order.
InDocumentOrder(s, elements) ==
  /\ {s[k] : k \in 1..Len(s)} = elements
  /\ \A k, l \in 1..Len(s) : k < l => s[k][2] < s[l][2]

\* A parse that runs alone, the last before it having ended without an exception,
\* returns the tree of its own document and does not fail: parseMessage2Tree takes
\* the shared list empty and leaves it empty, also after parses that have raced.
AloneIsRight ==
  \A q \in Parses :
    alone[q] =>
      /\ pc[q] # "failed"
      /\ pc[q] = "done" /\ doc[q] # Malformed =>
           /\ answer[q].roots = << <<q, 1>> >>
           /\ \A i \in 1..Len(doc[q]) :
                InDocumentOrder(answer[q].kids[<<q, i>>],
                                Children(q, doc[q], i, Len(doc[q])))

\* When nobody parses and the last parse to end has not thrown, the list in the
\* field is empty, whatever has raced before: setData repairs what races have left.
Healed == Active = {} /\ ~dirty => lists[data] = Fresh
=============================================================================
