--------------------------- MODULE XmlSharedProofs ---------------------------
(* Theorems about XmlShared, for any number of parses and request threads  *)
(* and any documents.                                                      *)
EXTENDS XmlShared, SequenceTheorems, TLAPS

Elems == Nodes \cup {Null}

\* A list whose size lies within its array.
GoodLists == {l \in ArrayLists : l.size <= Len(l.elems)}

LEMMA FreshGood == Fresh \in GoodLists /\ Len(Fresh.elems) = 0
  BY EmptySeq DEF Fresh, GoodLists, ArrayLists

LEMMA SizedGood ==
  ASSUME NEW l \in GoodLists, NEW n \in Nat \ {0}, n <= Len(l.elems) + 1
  PROVE  /\ Sized(l, n) \in GoodLists
         /\ Len(Sized(l, n).elems) >= Len(l.elems)
         /\ n <= Len(Sized(l, n).elems)
  <1>1. l.elems \in Seq(Elems) /\ Len(l.elems) \in Nat
    BY LenProperties DEF GoodLists, ArrayLists, Elems
  <1>2. CASE n > Len(l.elems)
    <2>1. /\ Append(l.elems, Null) \in Seq(Elems)
          /\ Len(Append(l.elems, Null)) = Len(l.elems) + 1
      BY <1>1, AppendProperties DEF Elems
    <2>2. QED
      BY <1>1, <1>2, <2>1 DEF Sized, GoodLists, ArrayLists, Elems
  <1>3. CASE n <= Len(l.elems)
    BY <1>1, <1>3 DEF Sized, GoodLists, ArrayLists, Elems
  <1>4. QED
    BY <1>1, <1>2, <1>3

LEMMA StoredGood ==
  ASSUME NEW l \in GoodLists, NEW n \in Nat \ {0}, n <= Len(l.elems), NEW x \in Nodes
  PROVE  /\ [l EXCEPT !.elems[n] = x] \in GoodLists
         /\ Len([l EXCEPT !.elems[n] = x].elems) = Len(l.elems)
  <1>1. l.elems \in Seq(Elems) /\ Len(l.elems) \in Nat
    BY LenProperties DEF GoodLists, ArrayLists, Elems
  <1>2. [l.elems EXCEPT ![n] = x] \in Seq(Elems) /\ Len([l.elems EXCEPT ![n] = x]) = Len(l.elems)
    BY <1>1, ExceptSeq DEF Elems
  <1>3. [l EXCEPT !.elems[n] = x] = [elems |-> [l.elems EXCEPT ![n] = x], size |-> l.size]
    BY DEF GoodLists, ArrayLists
  <1>4. QED
    BY <1>1, <1>2, <1>3 DEF GoodLists, ArrayLists, Elems

LEMMA WithoutGood ==
  ASSUME NEW l \in GoodLists, NEW i \in 1..l.size
  PROVE  /\ Without(l, i) \in GoodLists
         /\ Len(Without(l, i).elems) = Len(l.elems)
  <1> DEFINE e == Without(l, i).elems
             n == Len(l.elems)
  <1>1. l.elems \in [1..n -> Elems] /\ n \in Nat /\ l.size \in 1..n
    BY LenProperties, SeqDef DEF GoodLists, ArrayLists, Elems
  <1>2. e = [j \in 1..n |->
               CASE j < i \/ j > l.size -> l.elems[j]
                 [] j >= i /\ j < l.size -> l.elems[j + 1]
                 [] j = l.size -> Null]
    BY DEF Without
  <1> HIDE DEF e
  <1>3. ASSUME NEW j \in 1..n PROVE e[j] \in Elems
    <2>1. CASE j < i \/ j > l.size
      BY <1>1, <1>2, <2>1
    <2>2. CASE j >= i /\ j < l.size
      <3>1. e[j] = l.elems[j + 1] /\ j + 1 \in 1..n
        BY <1>1, <1>2, <2>2
      <3>2. QED
        BY <1>1, <3>1
    <2>3. CASE j = l.size
      BY <1>1, <1>2, <2>3 DEF Elems
    <2>4. QED
      BY <1>1, <2>1, <2>2, <2>3
  <1>4. e \in [1..n -> Elems]
    BY <1>2, <1>3
  <1>5. e \in Seq(Elems) /\ Len(e) = n
    BY <1>1, <1>4, SeqDef, LenProperties
  <1>6. Without(l, i) = [elems |-> e, size |-> l.size - 1]
    BY DEF Without, e
  <1>7. QED
    BY <1>1, <1>5, <1>6 DEF GoodLists, ArrayLists, Elems

-----------------------------------------------------------------------------
(* The inductive invariant.                                                *)

\* A parse walks a document; while it appends, its place is next to the array's
\* last, and within the array once the size is published.
Walking(q) ==
  /\ pc[q] = "walk" => doc[q] \in Documents
  /\ slot[q] # None =>
       /\ pc[q] = "walk" /\ at[q] <= Len(doc[q])
       /\ slot[q].index <= Len(lists[slot[q].list].elems) + 1
       /\ slot[q].published => slot[q].index <= Len(lists[slot[q].list].elems)

\* Once it walks no more it has a list, unless its message was malformed.
Taken(q) ==
  /\ pc[q] = "attach" => resList[q] # None
  /\ pc[q] = "remove" /\ removeIds[q] # <<>> => resList[q] # None
  /\ pc[q] = "walk" => removeIds[q] = <<>>
  /\ pc[q] = "idle" => removeIds[q] = <<>>

\* Whoever can have left something in the list will put a new one into the field.
Using == {q \in Parses : pc[q] \in {"walk", "attach", "remove"}}
Mended == Using = {} /\ ~dirty => lists[data] = Fresh

IInv == TypeOK /\ (\A q \in Parses : Walking(q) /\ Taken(q)) /\ Mended

LEMMA NoneFacts ==
  ASSUME TypeOK, NEW q \in Parses, slot[q] # None
  PROVE  /\ slot[q] \in [list : 1..Len(lists), index : Nat \ {0}, published : BOOLEAN]
         /\ slot[q].list \in 1..Len(lists) /\ slot[q].index \in Nat \ {0}
  BY DEF TypeOK

LEMMA ListsGood ==
  ASSUME TypeOK
  PROVE  /\ Len(lists) \in Nat
         /\ \A l \in 1..Len(lists) : lists[l] \in GoodLists /\ Len(lists[l].elems) \in Nat
  <1>1. Len(lists) \in Nat /\ \A l \in 1..Len(lists) : lists[l] \in ArrayLists
    BY LenProperties DEF TypeOK
  <1>2. \A l \in 1..Len(lists) : lists[l] \in GoodLists
    BY <1>1 DEF TypeOK, GoodLists
  <1>3. QED
    BY <1>1, <1>2, LenProperties DEF ArrayLists

\* Changing one list for one with an array no shorter keeps the places of all
\* appends under way.
LEMMA OneListChanged ==
  ASSUME TypeOK, NEW l \in 1..Len(lists), NEW x \in GoodLists,
         Len(x.elems) >= Len(lists[l].elems), lists' = [lists EXCEPT ![l] = x]
  PROVE  /\ lists' \in Seq(ArrayLists) /\ Len(lists') = Len(lists)
         /\ \A k \in 1..Len(lists') :
              /\ lists'[k].size <= Len(lists'[k].elems)
              /\ Len(lists'[k].elems) \in Nat
              /\ Len(lists'[k].elems) >= Len(lists[k].elems)
              /\ k # l => lists'[k] = lists[k]
         /\ lists'[l] = x
  <1>1. lists \in Seq(ArrayLists) /\ x \in ArrayLists
    BY DEF TypeOK, GoodLists
  <1>2. /\ lists' \in Seq(ArrayLists) /\ Len(lists') = Len(lists)
        /\ \A k \in 1..Len(lists) : lists'[k] = IF k = l THEN x ELSE lists[k]
    BY <1>1, ExceptSeq
  <1>3. x.size <= Len(x.elems) /\ Len(x.elems) \in Nat
    BY LenProperties DEF GoodLists, ArrayLists
  <1>4. QED
    BY <1>2, <1>3, ListsGood DEF GoodLists

\* A parse that does not move keeps its place when no array gets shorter.
LEMMA WalkingKept ==
  ASSUME TypeOK, NEW r \in Parses, Walking(r),
         slot'[r] = slot[r], pc'[r] = pc[r], doc'[r] = doc[r], at'[r] = at[r],
         \A k \in 1..Len(lists) :
           Len(lists'[k].elems) \in Nat /\ Len(lists'[k].elems) >= Len(lists[k].elems)
  PROVE  Walking(r)'
  <1>1. CASE slot[r] = None
    BY <1>1 DEF Walking
  <1>2. CASE slot[r] # None
    <2> DEFINE k == slot[r].list
               i == slot[r].index
               m == Len(lists[k].elems)
               n == Len(lists'[k].elems)
    <2>1. k \in 1..Len(lists) /\ i \in Nat
      BY <1>2, NoneFacts
    <2>2. m \in Nat /\ n \in Nat /\ n >= m
      BY <2>1, ListsGood
    <2>3. /\ i <= m + 1
          /\ slot[r].published => i <= m
          /\ pc[r] = "walk" /\ at[r] <= Len(doc[r]) /\ doc[r] \in Documents
      BY <1>2 DEF Walking
    <2>4. /\ i <= n + 1
          /\ slot[r].published => i <= n
      <3> HIDE DEF i, m, n
      <3>1. i \in Nat /\ m \in Nat /\ n \in Nat /\ n >= m /\ i <= m + 1
        BY <2>1, <2>2, <2>3
      <3>2. i <= n + 1
        BY <3>1
      <3>3. i <= m => i <= n
        BY <3>1
      <3>4. QED
        BY <2>3, <3>2, <3>3
    <2>5. QED
      BY <2>3, <2>4 DEF Walking
  <1>3. QED
    BY <1>1, <1>2

LEMMA InitIInv == ASSUME Init PROVE IInv
  <1>1. Fresh \in ArrayLists /\ Fresh.size <= Len(Fresh.elems)
    BY FreshGood DEF GoodLists
  <1>2. lists \in Seq(ArrayLists) /\ Len(lists) = 1 /\ lists[1] = Fresh
    BY <1>1 DEF Init
  <1>3. TypeOK
    <2>1. /\ lists \in Seq(ArrayLists) /\ data \in 1..Len(lists)
          /\ \A l \in 1..Len(lists) : lists[l].size <= Len(lists[l].elems)
      BY <1>1, <1>2 DEF Init
    <2>2. kids \in [Nodes -> Seq(Nodes)] /\ removeIds \in [Parses -> Seq(Nodes)]
      BY EmptySeq DEF Init
    <2>3. at \in [Parses -> 1..(MaxLen + 1)] /\ cursor \in [Parses -> Nat]
      BY XmlAssumption DEF Init
    <2>4. QED
      BY <2>1, <2>2, <2>3 DEF Init, TypeOK
  <1>4. \A q \in Parses : Walking(q) /\ Taken(q)
    BY DEF Init, Walking, Taken
  <1>5. Mended
    BY <1>2 DEF Init, Mended
  <1>6. QED
    BY <1>3, <1>4, <1>5 DEF IInv

\* A document has no more elements than MaxLen, and a place in it is an element.
LEMMA InDocument ==
  ASSUME TypeOK, NEW q \in Parses, doc[q] \in Documents, at[q] <= Len(doc[q])
  PROVE  at[q] \in 1..MaxLen /\ at[q] + 1 \in 1..(MaxLen + 1) /\ <<q, at[q]>> \in Nodes
  BY XmlAssumption DEF TypeOK, Nodes

LEMMA StartStep ==
  ASSUME IInv, NEW q \in Parses, NEW d \in Documents \cup {Malformed}, Start(q, d)
  PROVE  IInv'
  <1> USE DEF IInv
  <1>1. TypeOK'
    BY DEF Start, TypeOK, Active
  <1>2. slot[q] = None
    BY DEF Start, Walking
  <1>3. \A r \in Parses : Walking(r)' /\ Taken(r)'
    BY <1>2, XmlAssumption DEF Start, Walking, Taken, TypeOK
  <1>4. Mended'
    BY DEF Start, Mended, Using, TypeOK
  <1>5. QED
    BY <1>1, <1>3, <1>4

LEMMA AddReadStep ==
  ASSUME IInv, NEW q \in Parses, AddRead(q)
  PROVE  IInv'
  <1> USE DEF IInv
  <1> DEFINE x == [list |-> data, index |-> lists[data].size + 1, published |-> FALSE]
  <1>1. /\ lists[data] \in GoodLists
        /\ lists[data].size \in Nat /\ lists[data].size <= Len(lists[data].elems)
        /\ Len(lists[data].elems) \in Nat
    BY ListsGood DEF TypeOK, GoodLists, ArrayLists
  <1>2. /\ x \in [list : 1..Len(lists), index : Nat \ {0}, published : BOOLEAN]
        /\ x.list = data /\ x.index <= Len(lists[data].elems) + 1 /\ ~x.published
    BY <1>1 DEF TypeOK
  <1>3. slot' = [slot EXCEPT ![q] = x]
    BY DEF AddRead
  <1> HIDE DEF x
  <1>4. TypeOK'
    BY <1>2, <1>3 DEF AddRead, TypeOK, Iterating, Appending
  <1>5. \A r \in Parses : Walking(r)' /\ Taken(r)'
    BY <1>2, <1>3 DEF AddRead, Walking, Taken, TypeOK
  <1>6. Mended'
    BY DEF AddRead, Mended, Using
  <1>7. QED
    BY <1>4, <1>5, <1>6

LEMMA AddPublishStep ==
  ASSUME IInv, NEW q \in Parses, AddPublish(q)
  PROVE  IInv'
  <1> USE DEF IInv
  <1> DEFINE l == slot[q].list
             x == Sized(lists[l], slot[q].index)
             y == [slot[q] EXCEPT !.published = TRUE]
  <1>1. /\ slot[q] \in [list : 1..Len(lists), index : Nat \ {0}, published : BOOLEAN]
        /\ l \in 1..Len(lists) /\ slot[q].index \in Nat \ {0}
        /\ slot[q].index <= Len(lists[l].elems) + 1
        /\ pc[q] = "walk" /\ at[q] <= Len(doc[q]) /\ slot[q] # None
    BY NoneFacts DEF AddPublish, Walking
  <1>2. /\ x \in GoodLists /\ Len(x.elems) >= Len(lists[l].elems)
        /\ slot[q].index <= Len(x.elems)
    BY <1>1, ListsGood, SizedGood
  <1>3. lists' = [lists EXCEPT ![l] = x] /\ slot' = [slot EXCEPT ![q] = y]
    BY DEF AddPublish, TypeOK
  <1>4. /\ y \in [list : 1..Len(lists), index : Nat \ {0}, published : BOOLEAN]
        /\ y.list = l /\ y.index = slot[q].index
    BY <1>1
  <1> HIDE DEF x, y
  <1>5. /\ lists' \in Seq(ArrayLists) /\ Len(lists') = Len(lists) /\ lists'[l] = x
        /\ \A k \in 1..Len(lists') :
             /\ lists'[k].size <= Len(lists'[k].elems)
             /\ Len(lists'[k].elems) >= Len(lists[k].elems)
             /\ Len(lists'[k].elems) \in Nat
    BY <1>1, <1>2, <1>3, OneListChanged
  <1>6. TypeOK'
    <2>1. UNCHANGED <<data, kids, pc, doc, at, resList, cursor, removeIds, answer,
                      stale, crossed, dirty, alone>>
      BY DEF AddPublish
    <2>2. /\ slot' \in [Parses -> [list : 1..Len(lists'), index : Nat \ {0}, published : BOOLEAN]
                                \cup {None}]
          /\ resList' \in [Parses -> 1..Len(lists') \cup {None}]
          /\ data' \in 1..Len(lists')
      BY <1>3, <1>4, <1>5, <2>1 DEF TypeOK
    <2>3. \A k \in 1..Len(lists') : lists'[k].size <= Len(lists'[k].elems)
      BY <1>5
    <2>4. QED
      BY <1>5, <2>1, <2>2, <2>3 DEF TypeOK
  <1>7. \A r \in Parses : Taken(r)'
    BY DEF AddPublish, Taken
  <1>8. ASSUME NEW r \in Parses PROVE Walking(r)'
    <2>1. CASE r = q
      <3>1. /\ slot'[q] = y /\ UNCHANGED <<pc, doc, at>> /\ Walking(q)
        BY <1>3 DEF AddPublish, TypeOK
      <3>2. /\ slot'[q].index <= Len(lists'[l].elems) /\ slot'[q].list = l
            /\ slot'[q].index \in Nat /\ Len(lists'[l].elems) \in Nat
        BY <1>1, <1>2, <1>4, <1>5, <3>1
      <3>3. slot'[q].index <= Len(lists'[l].elems) + 1
        BY <3>2
      <3>4. QED
        BY <1>1, <2>1, <3>1, <3>2, <3>3 DEF Walking
    <2>2. CASE r # q
      BY <1>3, <1>5, <2>2, WalkingKept DEF AddPublish, TypeOK
    <2>3. QED
      BY <2>1, <2>2
  <1>9. Mended'
    BY <1>1 DEF AddPublish, Mended, Using
  <1>10. QED
    BY <1>6, <1>7, <1>8, <1>9

\* The end of an append, whether the element gets stored or not.
LEMMA AddedFacts ==
  ASSUME IInv, NEW q \in Parses, Added(q)
  PROVE  /\ slot[q].list \in 1..Len(lists) /\ slot[q].index \in Nat \ {0}
         /\ slot[q].index <= Len(lists[slot[q].list].elems)
         /\ pc[q] = "walk" /\ <<q, at[q]>> \in Nodes
         /\ slot' = [slot EXCEPT ![q] = None]
         /\ at' \in [Parses -> 1..(MaxLen + 1)]
         /\ UNCHANGED <<data, kids, doc, resList, cursor, removeIds, answer, stale, alone>>
         /\ crossed' \subseteq Parses
  <1> USE DEF IInv
  <1>1. slot[q] # None /\ pc[q] = "walk" /\ at[q] <= Len(doc[q]) /\ doc[q] \in Documents
    BY DEF Added, Walking
  <1>2. slot[q].list \in 1..Len(lists) /\ slot[q].index \in Nat \ {0}
    BY <1>1, NoneFacts
  <1>3. <<q, at[q]>> \in Nodes /\ at[q] + 1 \in 1..(MaxLen + 1)
    BY <1>1, InDocument
  <1>4. slot[q].index <= Len(lists[slot[q].list].elems)
    BY <1>1 DEF Added, Walking
  <1>5. at' \in [Parses -> 1..(MaxLen + 1)]
    BY <1>3 DEF Added, TypeOK
  <1>6. QED
    BY <1>1, <1>2, <1>3, <1>4, <1>5 DEF Added, TypeOK

LEMMA AddedStep ==
  ASSUME IInv, NEW q \in Parses, Added(q),
         lists' \in Seq(ArrayLists), Len(lists') = Len(lists),
         \A k \in 1..Len(lists) :
           /\ lists'[k].size <= Len(lists'[k].elems)
           /\ Len(lists'[k].elems) \in Nat /\ Len(lists'[k].elems) >= Len(lists[k].elems),
         UNCHANGED <<pc, dirty>> \/ Fails(q)
  PROVE  IInv'
  <1> USE DEF IInv
  <1>1. /\ pc[q] = "walk" /\ slot' = [slot EXCEPT ![q] = None]
        /\ at' \in [Parses -> 1..(MaxLen + 1)]
        /\ UNCHANGED <<data, kids, doc, resList, cursor, removeIds, answer, stale, alone>>
        /\ crossed' \subseteq Parses
        /\ \A r \in Parses \ {q} : at'[r] = at[r]
    BY AddedFacts DEF Added, TypeOK
  <1>2. /\ pc' \in [Parses -> {"idle", "walk", "attach", "remove", "answer", "done", "failed"}]
        /\ pc'[q] \in {"walk", "failed"} /\ dirty' \in BOOLEAN
        /\ \A r \in Parses \ {q} : pc'[r] = pc[r]
        /\ pc'[q] = "failed" => dirty'
    BY <1>1 DEF Fails, TypeOK
  <1>3. TypeOK'
    <2>1. /\ slot' \in [Parses -> [list : 1..Len(lists'), index : Nat \ {0}, published : BOOLEAN]
                                \cup {None}]
          /\ resList' \in [Parses -> 1..Len(lists') \cup {None}]
          /\ data' \in 1..Len(lists')
      BY <1>1 DEF TypeOK
    <2>2. \A k \in 1..Len(lists') : lists'[k].size <= Len(lists'[k].elems)
      OBVIOUS
    <2>3. QED
      BY <1>1, <1>2, <2>1, <2>2 DEF TypeOK
  <1>4. ASSUME NEW r \in Parses PROVE Walking(r)' /\ Taken(r)'
    <2>1. CASE r = q
      BY <1>1, <1>2, <2>1 DEF Walking, Taken, TypeOK
    <2>2. CASE r # q
      <3>1. slot'[r] = slot[r] /\ pc'[r] = pc[r] /\ doc'[r] = doc[r] /\ at'[r] = at[r]
        BY <1>1, <1>2, <2>2 DEF TypeOK
      <3>2. Walking(r)'
        BY <3>1, WalkingKept
      <3>3. Taken(r)'
        BY <1>1, <3>1 DEF Taken
      <3>4. QED
        BY <3>2, <3>3
    <2>3. QED
      BY <2>1, <2>2
  <1>5. Mended'
    BY <1>2 DEF Mended, Using
  <1>6. QED
    BY <1>3, <1>4, <1>5

LEMMA AddStoreStep ==
  ASSUME IInv, NEW q \in Parses, AddStore(q)
  PROVE  IInv'
  <1> DEFINE l == slot[q].list
             x == [lists[l] EXCEPT !.elems[slot[q].index] = <<q, at[q]>>]
  <1>1. TypeOK /\ Added(q) /\ UNCHANGED <<pc, dirty>>
    BY DEF AddStore, IInv
  <1>2. /\ l \in 1..Len(lists) /\ slot[q].index \in Nat \ {0}
        /\ slot[q].index <= Len(lists[l].elems) /\ <<q, at[q]>> \in Nodes
    BY <1>1, AddedFacts
  <1>3. x \in GoodLists /\ Len(x.elems) = Len(lists[l].elems) /\ Len(lists[l].elems) \in Nat
    BY <1>1, <1>2, ListsGood, StoredGood
  <1>4. lists' = [lists EXCEPT ![l] = x]
    BY DEF AddStore
  <1> HIDE DEF x, l
  <1>5. Len(x.elems) >= Len(lists[l].elems)
    BY <1>3
  <1>6. /\ lists' \in Seq(ArrayLists) /\ Len(lists') = Len(lists)
        /\ \A k \in 1..Len(lists') :
             /\ lists'[k].size <= Len(lists'[k].elems)
             /\ Len(lists'[k].elems) \in Nat /\ Len(lists'[k].elems) >= Len(lists[k].elems)
    BY <1>1, <1>2, <1>3, <1>4, <1>5, OneListChanged
  <1>7. QED
    BY <1>1, <1>6, AddedStep

LEMMA AddAstrayStep ==
  ASSUME IInv, NEW q \in Parses, AddAstray(q)
  PROVE  IInv'
  <1>1. TypeOK /\ Added(q) /\ lists' = lists
    BY DEF AddAstray, IInv
  <1>2. \A k \in 1..Len(lists) :
          /\ lists'[k].size <= Len(lists'[k].elems)
          /\ Len(lists'[k].elems) \in Nat /\ Len(lists'[k].elems) >= Len(lists[k].elems)
    BY <1>1, ListsGood DEF TypeOK
  <1>3. lists' \in Seq(ArrayLists) /\ Len(lists') = Len(lists)
    BY <1>1 DEF TypeOK
  <1>4. QED
    BY <1>1, <1>2, <1>3, AddedStep DEF AddAstray

LEMMA WalkedStep ==
  ASSUME IInv, NEW q \in Parses, Walked(q)
  PROVE  IInv'
  <1> USE DEF IInv
  <1>1. TypeOK'
    BY DEF Walked, TypeOK
  <1>2. \A r \in Parses : Walking(r)' /\ Taken(r)'
    <2>1. /\ resList' = [resList EXCEPT ![q] = data] /\ data # None
          /\ pc' = [pc EXCEPT ![q] = "attach"] /\ slot[q] = None
          /\ UNCHANGED <<lists, doc, at, slot, removeIds>>
      <3>1. data # None
        BY XmlAssumption, ListsGood DEF TypeOK
      <3>2. QED
        BY <3>1 DEF Walked
    <2>2. QED
      BY <2>1 DEF Walking, Taken, TypeOK
  <1>3. Mended'
    BY DEF Walked, Mended, Using, TypeOK
  <1>4. QED
    BY <1>1, <1>2, <1>3

\* The element that the iterator of a parse passes.
LEMMA PassedElement ==
  ASSUME IInv, NEW q \in Parses, pc[q] = "attach", Intact(q)
  PROVE  List(q).elems[cursor[q] + 1] \in Nodes
  <1> DEFINE l == List(q)
  <1>1. TypeOK /\ resList[q] \in 1..Len(lists)
    BY DEF IInv, TypeOK, Taken
  <1>2. l \in GoodLists
    BY <1>1, ListsGood DEF List
  <1>3. l.elems \in Seq(Elems) /\ l.size \in Nat /\ l.size <= Len(l.elems) /\ Len(l.elems) \in Nat
    BY <1>2, LenProperties DEF GoodLists, ArrayLists, Elems
  <1>4. cursor[q] \in Nat /\ cursor[q] < l.size
    BY <1>1 DEF Intact, TypeOK
  <1>5. cursor[q] + 1 \in 1..Len(l.elems)
    <2> DEFINE n == l.size
               m == Len(l.elems)
    <2>1. n \in Nat /\ m \in Nat /\ n <= m /\ cursor[q] \in Nat /\ cursor[q] < n
      BY <1>3, <1>4
    <2> HIDE DEF m, n
    <2>2. cursor[q] + 1 \in 1..m
      BY <2>1
    <2>3. QED
      BY <2>2 DEF m
  <1>6. l.elems[cursor[q] + 1] \in Elems
    BY <1>3, <1>5, ElementOfSeq
  <1>7. QED
    BY <1>6 DEF Intact, Elems

LEMMA AttachStep ==
  ASSUME IInv, NEW q \in Parses, Attach(q)
  PROVE  IInv'
  <1> USE DEF IInv
  <1> DEFINE n == List(q).elems[cursor[q] + 1]
  <1>1. /\ pc[q] = "attach" /\ n \in Nodes
        /\ UNCHANGED <<lists, data, pc, doc, at, slot, resList, answer, stale, crossed,
                       dirty, alone>>
    BY PassedElement DEF Attach
  <1>2. removeIds' \in [Parses -> Seq(Nodes)] /\ \A r \in Parses \ {q} : removeIds'[r] = removeIds[r]
    <2>1. removeIds[q] \in Seq(Nodes)
      BY DEF TypeOK
    <2>2. Append(removeIds[q], n) \in Seq(Nodes)
      BY <1>1, <2>1, AppendProperties
    <2>3. removeIds' = removeIds \/ removeIds' = [removeIds EXCEPT ![q] = Append(removeIds[q], n)]
      BY DEF Attach, TypeOK
    <2> HIDE DEF n
    <2>4. QED
      BY <2>2, <2>3 DEF TypeOK
  <1>3. kids' \in [Nodes -> Seq(Nodes)]
    <2>1. kids' = kids \/ kids' = Hung(n)
      BY DEF Attach
    <2>2. \A p \in Nodes : Append(kids[p], n) \in Seq(Nodes)
      BY <1>1, AppendProperties DEF TypeOK
    <2> HIDE DEF n
    <2>3. Hung(n) \in [Nodes -> Seq(Nodes)]
      BY <2>2 DEF Hung, TypeOK
    <2>4. QED
      BY <2>1, <2>3 DEF TypeOK
  <1>4. cursor' \in [Parses -> Nat]
    BY DEF Attach, TypeOK
  <1>5. TypeOK'
    BY <1>1, <1>2, <1>3, <1>4 DEF TypeOK
  <1>6. \A r \in Parses : Walking(r)' /\ Taken(r)'
    BY <1>1, <1>2 DEF Walking, Taken
  <1>7. Mended'
    BY <1>1 DEF Mended, Using
  <1>8. QED
    BY <1>5, <1>6, <1>7

LEMMA AttachFailsStep ==
  ASSUME IInv, NEW q \in Parses, AttachFails(q)
  PROVE  IInv'
  <1> USE DEF IInv
  <1>1. TypeOK'
    BY DEF AttachFails, Fails, TypeOK
  <1>2. slot[q] = None
    BY DEF AttachFails, Walking
  <1>3. \A r \in Parses : Walking(r)' /\ Taken(r)'
    BY <1>2 DEF AttachFails, Fails, Walking, Taken, TypeOK
  <1>4. Mended'
    BY DEF AttachFails, Fails, Mended
  <1>5. QED
    BY <1>1, <1>3, <1>4

LEMMA AttachedStep ==
  ASSUME IInv, NEW q \in Parses, Attached(q)
  PROVE  IInv'
  <1> USE DEF IInv
  <1>1. TypeOK'
    BY DEF Attached, TypeOK
  <1>2. slot[q] = None /\ resList[q] # None
    BY DEF Attached, Walking, Taken
  <1>3. \A r \in Parses : Walking(r)' /\ Taken(r)'
    BY <1>2 DEF Attached, Walking, Taken, TypeOK
  <1>4. Mended'
    BY DEF Attached, Mended, Using, TypeOK
  <1>5. QED
    BY <1>1, <1>3, <1>4

\* A removal takes an element out of the list of the parse, if it is there.
LEMMA RemoveStep ==
  ASSUME IInv, NEW q \in Parses, Remove(q)
  PROVE  IInv'
  <1> USE DEF IInv
  <1>1. /\ pc[q] = "remove" /\ removeIds[q] # <<>>
        /\ resList[q] \in 1..Len(lists)
        /\ UNCHANGED <<data, kids, pc, doc, at, slot, resList, cursor, answer, crossed,
                       dirty, alone>>
    BY DEF Remove, Taken, TypeOK
  <1>2. /\ removeIds' \in [Parses -> Seq(Nodes)]
        /\ \A r \in Parses \ {q} : removeIds'[r] = removeIds[r]
    <2>1. removeIds[q] \in Seq(Nodes)
      BY DEF TypeOK
    <2>2. Tail(removeIds[q]) \in Seq(Nodes)
      BY <1>1, <2>1, HeadTailProperties
    <2>3. removeIds' = [removeIds EXCEPT ![q] = Tail(removeIds[q])]
      BY DEF Remove, TypeOK
    <2>4. QED
      BY <2>2, <2>3 DEF TypeOK
  <1>3. stale' \subseteq Parses
    BY DEF Remove, Iterating, TypeOK
  <1>4. /\ lists' \in Seq(ArrayLists) /\ Len(lists') = Len(lists)
        /\ \A k \in 1..Len(lists) :
             /\ lists'[k].size <= Len(lists'[k].elems)
             /\ Len(lists'[k].elems) \in Nat /\ Len(lists'[k].elems) >= Len(lists[k].elems)
    <2>1. CASE lists' = lists
      <3>1. \A k \in 1..Len(lists) :
              /\ lists[k].size <= Len(lists[k].elems)
              /\ Len(lists[k].elems) \in Nat /\ Len(lists[k].elems) >= Len(lists[k].elems)
        BY ListsGood DEF TypeOK
      <3>2. QED
        BY <2>1, <3>1 DEF TypeOK
    <2>2. ASSUME NEW i \in 1..List(q).size,
                 lists' = [lists EXCEPT ![resList[q]] = Without(lists[resList[q]], i)]
          PROVE  <1>4!:
      <3> DEFINE x == Without(lists[resList[q]], i)
      <3>1. x \in GoodLists /\ Len(x.elems) = Len(lists[resList[q]].elems)
        BY <1>1, ListsGood, WithoutGood DEF List
      <3>2. lists' = [lists EXCEPT ![resList[q]] = x]
        BY <2>2
      <3>3. Len(lists[resList[q]].elems) \in Nat
        BY <1>1, ListsGood
      <3> HIDE DEF x
      <3>4. Len(x.elems) >= Len(lists[resList[q]].elems)
        BY <3>1, <3>3
      <3>5. QED
        BY <1>1, <3>1, <3>2, <3>4, OneListChanged
    <2>3. QED
      BY <2>1, <2>2 DEF Remove
  <1>5. TypeOK'
    <2>1. /\ slot' \in [Parses -> [list : 1..Len(lists'), index : Nat \ {0}, published : BOOLEAN]
                                \cup {None}]
          /\ resList' \in [Parses -> 1..Len(lists') \cup {None}]
          /\ data' \in 1..Len(lists')
      BY <1>1, <1>4 DEF TypeOK
    <2>2. \A k \in 1..Len(lists') : lists'[k].size <= Len(lists'[k].elems)
      BY <1>4
    <2>3. QED
      BY <1>1, <1>2, <1>3, <1>4, <2>1, <2>2 DEF TypeOK
  <1>6. ASSUME NEW r \in Parses PROVE Walking(r)' /\ Taken(r)'
    <2>1. Walking(r)'
      BY <1>1, <1>4, WalkingKept
    <2>2. Taken(r)'
      <3>1. CASE r = q
        BY <1>1, <3>1 DEF Taken
      <3>2. CASE r # q
        BY <1>1, <1>2, <3>2 DEF Taken
      <3>3. QED
        BY <3>1, <3>2
    <2>3. QED
      BY <2>1, <2>2
  <1>7. Mended'
    BY <1>1 DEF Mended, Using
  <1>8. QED
    BY <1>5, <1>6, <1>7

LEMMA SetDataStep ==
  ASSUME IInv, NEW q \in Parses, SetData(q)
  PROVE  IInv'
  <1> USE DEF IInv
  <1>1. /\ pc[q] = "remove" /\ removeIds[q] = <<>>
        /\ lists' = Append(lists, Fresh) /\ data' = Len(lists) + 1
        /\ pc' = [pc EXCEPT ![q] = "answer"] /\ dirty' = FALSE
        /\ UNCHANGED <<kids, doc, at, slot, resList, cursor, removeIds, answer, stale,
                       crossed, alone>>
    BY DEF SetData, NewData
  <1>2. /\ lists' \in Seq(ArrayLists) /\ Len(lists') = Len(lists) + 1
        /\ \A k \in 1..Len(lists) : lists'[k] = lists[k]
        /\ lists'[Len(lists) + 1] = Fresh
    <2>1. Fresh \in ArrayLists /\ lists \in Seq(ArrayLists)
      BY FreshGood DEF GoodLists, TypeOK
    <2>2. QED
      BY <1>1, <2>1, AppendProperties
  <1>3. Len(lists) \in Nat /\ 1..Len(lists) \subseteq 1..Len(lists')
    BY <1>2, ListsGood
  <1>4. \A k \in 1..Len(lists') : lists'[k].size <= Len(lists'[k].elems)
    <2>1. Fresh.size <= Len(Fresh.elems)
      BY FreshGood DEF GoodLists
    <2>2. \A k \in 1..Len(lists') : k \in 1..Len(lists) \/ k = Len(lists) + 1
      BY <1>2, <1>3
    <2>3. QED
      BY <1>2, <2>1, <2>2 DEF TypeOK
  <1>5. TypeOK'
    <2>1. data' \in 1..Len(lists')
      BY <1>1, <1>2, <1>3
    <2>2. slot' \in [Parses -> [list : 1..Len(lists'), index : Nat \ {0}, published : BOOLEAN]
                               \cup {None}]
      <3>1. [list : 1..Len(lists), index : Nat \ {0}, published : BOOLEAN]
              \subseteq [list : 1..Len(lists'), index : Nat \ {0}, published : BOOLEAN]
        BY <1>3
      <3>2. QED
        BY <1>1, <3>1 DEF TypeOK
    <2>3. resList' \in [Parses -> 1..Len(lists') \cup {None}]
      BY <1>1, <1>3 DEF TypeOK
    <2>4. pc' \in [Parses -> {"idle", "walk", "attach", "remove", "answer", "done", "failed"}]
      BY <1>1 DEF TypeOK
    <2>5. QED
      BY <1>1, <1>2, <1>4, <2>1, <2>2, <2>3, <2>4 DEF TypeOK
  <1>6. ASSUME NEW r \in Parses PROVE Walking(r)' /\ Taken(r)'
    <2>1. \A k \in 1..Len(lists) :
            Len(lists'[k].elems) \in Nat /\ Len(lists'[k].elems) >= Len(lists[k].elems)
      BY <1>2, ListsGood
    <2>2. CASE r = q
      BY <1>1, <2>2 DEF Walking, Taken, TypeOK
    <2>3. CASE r # q
      <3>1. pc'[r] = pc[r]
        BY <1>1, <2>3 DEF TypeOK
      <3>2. Walking(r)'
        BY <1>1, <2>1, <3>1, WalkingKept
      <3>3. QED
        BY <1>1, <3>1, <3>2 DEF Taken
    <2>4. QED
      BY <2>2, <2>3
  <1>7. Mended'
    BY <1>1, <1>2 DEF Mended
  <1>8. QED
    BY <1>5, <1>6, <1>7

LEMMA AnswerStep ==
  ASSUME IInv, NEW q \in Parses, Answer(q)
  PROVE  IInv'
  <1> USE DEF IInv
  <1> DEFINE x == IF resList[q] = None THEN None
                  ELSE [roots |-> Elements(List(q)), kids |-> kids]
  <1>1. /\ pc[q] = "answer" /\ pc' = [pc EXCEPT ![q] = "done"]
        /\ answer' = [answer EXCEPT ![q] = x]
        /\ UNCHANGED <<lists, data, kids, doc, at, slot, resList, cursor, removeIds,
                       stale, crossed, dirty, alone>>
    BY DEF Answer
  <1>2. x \in Trees \cup {None}
    <2>1. CASE resList[q] = None
      BY <2>1
    <2>2. CASE resList[q] # None
      <3> DEFINE l == List(q)
      <3>1. l \in GoodLists
        BY <2>2, ListsGood DEF List, TypeOK
      <3>2. /\ l.elems \in Seq(Elems) /\ l.size \in Nat /\ l.size <= Len(l.elems)
            /\ Len(l.elems) \in Nat
        BY <3>1, LenProperties DEF GoodLists, ArrayLists, Elems
      <3>3. \A i \in 1..l.size : l.elems[i] \in Elems
        <4> DEFINE n == l.size
                   m == Len(l.elems)
        <4>1. n \in Nat /\ m \in Nat /\ n <= m
          BY <3>2
        <4> HIDE DEF m, n
        <4>2. 1..n \subseteq 1..m
          BY <4>1
        <4>3. 1..l.size \subseteq 1..Len(l.elems)
          BY <4>2 DEF m, n
        <4>4. QED
          BY <3>2, <4>3, ElementOfSeq
      <3>4. l.size \in Int /\ 1 \in Int
        BY <3>2
      <3> HIDE DEF l
      <3>5. SubSeq(l.elems, 1, l.size) \in Seq(Elems)
        BY <3>3, <3>4, SubSeqProperties
      <3>6. Elements(List(q)) \in Seq(Elems)
        BY <3>5 DEF Elements, l
      <3>7. QED
        BY <2>2, <3>6 DEF Trees, Elems, TypeOK
    <2>3. QED
      BY <2>1, <2>2
  <1> HIDE DEF x
  <1>3. TypeOK'
    BY <1>1, <1>2 DEF TypeOK
  <1>4. slot[q] = None
    BY <1>1 DEF Walking
  <1>5. \A r \in Parses : Walking(r)' /\ Taken(r)'
    BY <1>1, <1>4 DEF Walking, Taken, TypeOK
  <1>6. Mended'
    BY <1>1 DEF Mended, Using, TypeOK
  <1>7. QED
    BY <1>3, <1>5, <1>6

-----------------------------------------------------------------------------
LEMMA NextIInv == ASSUME IInv, [Next]_vars PROVE IInv'
  <1>1. ASSUME NEW q \in Parses, Step(q) PROVE IInv'
    <2>1. ASSUME NEW d \in Documents \cup {Malformed}, Start(q, d) PROVE IInv'
      BY <2>1, StartStep
    <2>2. CASE AddRead(q) \/ AddPublish(q) \/ AddStore(q) \/ AddAstray(q)
      BY <2>2, AddReadStep, AddPublishStep, AddStoreStep, AddAstrayStep
    <2>3. CASE Walked(q) \/ Attach(q) \/ AttachFails(q) \/ Attached(q)
      BY <2>3, WalkedStep, AttachStep, AttachFailsStep, AttachedStep
    <2>4. CASE Remove(q) \/ SetData(q) \/ Answer(q)
      BY <2>4, RemoveStep, SetDataStep, AnswerStep
    <2>5. QED
      BY <1>1, <2>1, <2>2, <2>3, <2>4 DEF Step
  <1>2. ASSUME UNCHANGED vars PROVE IInv'
    BY <1>2 DEF vars, IInv, TypeOK, Walking, Taken, Mended, Using
  <1>3. QED
    BY <1>1, <1>2 DEF Next

THEOREM Inductive == Spec => []IInv
  <1>1. Init => IInv
    BY InitIInv
  <1>2. IInv /\ [Next]_vars => IInv'
    BY NextIInv
  <1>3. QED
    BY <1>1, <1>2, PTL DEF Spec

\* Every variable keeps its type, and no list its size beyond its array, whatever
\* appends and removals interleave.
THEOREM TypeCorrect == Spec => []TypeOK
  <1>1. IInv => TypeOK
    BY DEF IInv
  <1>2. QED
    BY <1>1, Inductive, PTL

\* XmlUtil.setData repairs the shared list: once all parses are over and the last
\* has not thrown, the next one finds it empty, whatever has raced before.
THEOREM HealedHolds == Spec => []Healed
  <1>1. IInv => Healed
    BY DEF IInv, Mended, Using, Healed, Active
  <1>2. QED
    BY <1>1, Inductive, PTL

-----------------------------------------------------------------------------
(* A parse that runs alone.                                                *)

\* Elements in a list belong to parses that have begun.
Begun(l, phase) ==
  \A i \in 1..Len(l.elems) : l.elems[i] # Null => phase[l.elems[i][1]] # "idle"
AllBegun == \A l \in 1..Len(lists) : Begun(lists[l], pc)

\* A parse that has not begun has left no trace.
Untouched(q) ==
  pc[q] = "idle" =>
    /\ ~alone[q] /\ q \notin stale /\ q \notin crossed
    /\ at[q] = 1 /\ slot[q] = None /\ resList[q] = None /\ cursor[q] = 0
    /\ removeIds[q] = <<>>
    /\ \A i \in 1..MaxLen : kids[<<q, i>>] = <<>>

\* The list begins with the first n elements of the document of q.
HasFirst(l, q, n) == l.size >= n /\ \A i \in 1..n : l.elems[i] = <<q, i>>

\* Below each element of the document d of q hang its children among the first n.
HungUpTo(k, q, d, n) ==
  \A i \in 1..Len(d) : InDocumentOrder(k[<<q, i>>], Children(q, d, i, n))

\* It has appended the elements before at[q], and may be about to append the next.
WalksAlone(q) ==
  /\ doc[q] \in Documents /\ at[q] <= Len(doc[q]) + 1
  /\ HasFirst(lists[data], q, at[q] - 1)
  /\ removeIds[q] = <<>> /\ cursor[q] = 0 /\ HungUpTo(kids, q, doc[q], 0)
  /\ slot[q] # None => slot[q].list = data /\ slot[q].index = at[q]
  /\ lists[data].size = IF slot[q] # None /\ slot[q].published THEN at[q] ELSE at[q] - 1

\* It has passed cursor[q] elements, all of which but the root are to be removed.
AttachesAlone(q) ==
  /\ doc[q] \in Documents /\ resList[q] = data
  /\ lists[data].size = Len(doc[q]) /\ HasFirst(lists[data], q, Len(doc[q]))
  /\ cursor[q] \in 0..Len(doc[q])
  /\ Len(removeIds[q]) = IF cursor[q] = 0 THEN 0 ELSE cursor[q] - 1
  /\ \A i \in 1..Len(removeIds[q]) : removeIds[q][i] = <<q, i + 1>>
  /\ HungUpTo(kids, q, doc[q], cursor[q])

\* Behind the root stand those that are still to be removed, the last of the document.
RemovesAlone(q) ==
  /\ doc[q] \in Documents /\ resList[q] # None
  /\ Len(removeIds[q]) < Len(doc[q])
  /\ List(q).size = Len(removeIds[q]) + 1 /\ List(q).elems[1] = <<q, 1>>
  /\ \A i \in 1..Len(removeIds[q]) :
       /\ removeIds[q][i] = <<q, Len(doc[q]) - Len(removeIds[q]) + i>>
       /\ List(q).elems[i + 1] = removeIds[q][i]
  /\ HungUpTo(kids, q, doc[q], Len(doc[q]))

\* Only the root is left.
AnswersAlone(q) ==
  /\ doc[q] \in Documents /\ resList[q] # None
  /\ List(q).size = 1 /\ List(q).elems[1] = <<q, 1>>
  /\ HungUpTo(kids, q, doc[q], Len(doc[q]))

\* No other parse acts beside it, its iterator finds the list as it was, and nothing
\* crosses its appends.
Undisturbed(q) == q \in Active => Active = {q} /\ q \notin stale /\ q \notin crossed

Answered(q) ==
  /\ answer[q].roots = << <<q, 1>> >>
  /\ HungUpTo(answer[q].kids, q, doc[q], Len(doc[q]))

Solo(q) ==
  alone[q] =>
    /\ pc[q] # "failed" /\ Undisturbed(q)
    /\ pc[q] = "walk" => WalksAlone(q)
    /\ pc[q] = "attach" => AttachesAlone(q)
    /\ pc[q] \in {"remove", "answer", "done"} /\ doc[q] = Malformed =>
         resList[q] = None /\ removeIds[q] = <<>>
    /\ pc[q] = "remove" /\ doc[q] # Malformed => RemovesAlone(q)
    /\ pc[q] = "answer" /\ doc[q] # Malformed => AnswersAlone(q)
    /\ pc[q] = "done" /\ doc[q] # Malformed => Answered(q)

AInv == AllBegun /\ \A q \in Parses : Untouched(q) /\ Solo(q)

-----------------------------------------------------------------------------
(* What the changes of a list do to its elements.                          *)

\* No element is one that was not there.
NoneNew(x, l) ==
  \A i \in 1..Len(x.elems) :
    x.elems[i] # Null => \E k \in 1..Len(l.elems) : x.elems[i] = l.elems[k]

LEMMA SizedElements ==
  ASSUME NEW l \in GoodLists, NEW n \in Nat \ {0}
  PROVE  /\ Sized(l, n).size = n /\ NoneNew(Sized(l, n), l)
         /\ \A i \in 1..Len(l.elems) : Sized(l, n).elems[i] = l.elems[i]
  <1>1. l.elems \in Seq(Elems) /\ Len(l.elems) \in Nat
    BY LenProperties DEF GoodLists, ArrayLists, Elems
  <1>2. CASE n > Len(l.elems)
    <2> DEFINE e == Append(l.elems, Null)
    <2>1. /\ Len(e) = Len(l.elems) + 1 /\ e[Len(l.elems) + 1] = Null
          /\ \A i \in 1..Len(l.elems) : e[i] = l.elems[i]
      BY <1>1, AppendProperties DEF Elems
    <2>2. Sized(l, n) = [elems |-> e, size |-> n]
      BY <1>2 DEF Sized
    <2> HIDE DEF e
    <2>3. NoneNew(Sized(l, n), l)
      <3>1. SUFFICES ASSUME NEW i \in 1..Len(e), e[i] # Null
                     PROVE  \E k \in 1..Len(l.elems) : e[i] = l.elems[k]
        BY <2>2 DEF NoneNew
      <3>2. i \in 1..Len(l.elems)
        BY <1>1, <2>1, <3>1
      <3>3. QED
        BY <2>1, <3>2
    <2>4. QED
      BY <2>1, <2>2, <2>3
  <1>3. CASE ~(n > Len(l.elems))
    BY <1>3 DEF Sized, NoneNew
  <1>4. QED
    BY <1>2, <1>3

LEMMA StoredElements ==
  ASSUME NEW l \in GoodLists, NEW n \in Nat \ {0}, n <= Len(l.elems), NEW x \in Nodes
  PROVE  /\ [l EXCEPT !.elems[n] = x].size = l.size
         /\ \A i \in 1..Len(l.elems) :
              [l EXCEPT !.elems[n] = x].elems[i] = IF i = n THEN x ELSE l.elems[i]
  <1>1. l.elems \in Seq(Elems) /\ Len(l.elems) \in Nat
    BY LenProperties DEF GoodLists, ArrayLists, Elems
  <1>2. \A i \in 1..Len(l.elems) :
          [l.elems EXCEPT ![n] = x][i] = IF i = n THEN x ELSE l.elems[i]
    BY <1>1, ExceptSeq DEF Elems
  <1>3. [l EXCEPT !.elems[n] = x] = [elems |-> [l.elems EXCEPT ![n] = x], size |-> l.size]
    BY DEF GoodLists, ArrayLists
  <1>4. QED
    BY <1>2, <1>3

LEMMA WithoutElements ==
  ASSUME NEW l \in GoodLists, NEW i \in 1..l.size
  PROVE  /\ Without(l, i).size = l.size - 1 /\ NoneNew(Without(l, i), l)
         /\ \A j \in 1..(l.size - 1) :
              Without(l, i).elems[j] = IF j < i THEN l.elems[j] ELSE l.elems[j + 1]
  <1> DEFINE e == Without(l, i).elems
             n == Len(l.elems)
  <1>1. n \in Nat /\ l.size \in 1..n /\ l.size \in Nat
    BY LenProperties DEF GoodLists, ArrayLists, Elems
  <1>2. e = [j \in 1..n |->
               CASE j < i \/ j > l.size -> l.elems[j]
                 [] j >= i /\ j < l.size -> l.elems[j + 1]
                 [] j = l.size -> Null]
        /\ Len(e) = n
    BY WithoutGood DEF Without
  <1> HIDE DEF e
  <1>3. ASSUME NEW j \in 1..(l.size - 1)
        PROVE  e[j] = IF j < i THEN l.elems[j] ELSE l.elems[j + 1]
    <2>1. j \in 1..n /\ ~(j > l.size) /\ j < l.size /\ j # l.size
      BY <1>1
    <2>2. CASE j < i
      BY <1>2, <2>1, <2>2
    <2>3. CASE ~(j < i)
      BY <1>2, <2>1, <2>3
    <2>4. QED
      BY <2>2, <2>3
  <1>4. NoneNew(Without(l, i), l)
    <2>1. SUFFICES ASSUME NEW j \in 1..n, e[j] # Null
                   PROVE  \E k \in 1..n : e[j] = l.elems[k]
      BY <1>2 DEF NoneNew, e
    <2>2. CASE j < i \/ j > l.size
      <3>1. ~(j >= i /\ j < l.size) /\ j # l.size
        BY <1>1, <2>2
      <3>2. e[j] = l.elems[j]
        BY <1>2, <2>2, <3>1
      <3>3. QED
        BY <3>2
    <2>3. CASE j >= i /\ j < l.size
      <3>1. e[j] = l.elems[j + 1] /\ j + 1 \in 1..n
        BY <1>1, <1>2, <2>3
      <3>2. QED
        BY <3>1
    <2>4. CASE j = l.size
      BY <1>1, <1>2, <2>1, <2>4
    <2>5. QED
      BY <1>1, <2>2, <2>3, <2>4
  <1>5. Without(l, i).size = l.size - 1
    BY DEF Without
  <1>6. QED
    BY <1>3, <1>4, <1>5 DEF e

LEMMA ElementsAre ==
  ASSUME NEW l \in GoodLists, NEW i \in 1..Len(l.elems), l.elems[i] # Null
  PROVE  l.elems[i] \in Nodes /\ l.elems[i][1] \in Parses
  <1>1. l.elems \in Seq(Elems)
    BY DEF GoodLists, ArrayLists, Elems
  <1>2. l.elems[i] \in Elems
    BY <1>1, ElementOfSeq
  <1>3. QED
    BY <1>2 DEF Elems, Nodes

LEMMA BegunKept ==
  ASSUME NEW l \in GoodLists, NEW x, NEW p, NEW r, NoneNew(x, l), Begun(l, p),
         \A q \in Parses : p[q] # "idle" => r[q] # "idle"
  PROVE  Begun(x, r)
  BY ElementsAre DEF Begun, NoneNew

\* No parse is idle again.
LEMMA NotIdleAgain ==
  ASSUME IInv, NEW q \in Parses, Step(q)
  PROVE  /\ pc' \in [Parses -> {"idle", "walk", "attach", "remove", "answer", "done", "failed"}]
         /\ \A r \in Parses : pc[r] # "idle" => pc'[r] # "idle"
         /\ \A r \in Parses \ {q} : pc'[r] = pc[r]
         /\ pc'[q] # "idle"
  <1>1. TypeOK /\ (slot[q] # None => pc[q] = "walk")
    BY DEF IInv, Walking
  <1>2. /\ pc \in [Parses -> {"idle", "walk", "attach", "remove", "answer", "done", "failed"}]
        /\ (slot[q] # None => pc[q] = "walk")
    BY <1>1 DEF TypeOK
  <1>3. \/ pc' = pc /\ pc[q] # "idle"
        \/ \E s \in {"walk", "attach", "remove", "answer", "done", "failed"} :
             pc' = [pc EXCEPT ![q] = s]
    <2>1. ASSUME NEW d \in Documents \cup {Malformed}, Start(q, d) PROVE <1>3
      BY <2>1 DEF Start
    <2>2. CASE AddRead(q) \/ AddPublish(q) \/ AddStore(q)
      BY <1>2, <2>2 DEF AddRead, AddPublish, AddStore, Added
    <2>3. CASE AddAstray(q)
      BY <1>2, <2>3 DEF AddAstray, Added, Fails
    <2>4. CASE Walked(q)
      BY <2>4 DEF Walked
    <2>5. CASE Attach(q)
      BY <2>5 DEF Attach
    <2>6. CASE AttachFails(q)
      BY <2>6 DEF AttachFails, Fails
    <2>7. CASE Attached(q)
      BY <2>7 DEF Attached
    <2>8. CASE Remove(q)
      BY <2>8 DEF Remove
    <2>9. CASE SetData(q)
      BY <2>9 DEF SetData
    <2>10. CASE Answer(q)
      BY <2>10 DEF Answer
    <2>11. QED
      BY <2>1, <2>2, <2>3, <2>4, <2>5, <2>6, <2>7, <2>8, <2>9, <2>10 DEF Step
  <1>4. QED
    BY <1>2, <1>3

LEMMA BegunWhenChanged ==
  ASSUME IInv, AllBegun, NEW l \in 1..Len(lists), NEW x \in GoodLists,
         Len(x.elems) >= Len(lists[l].elems), lists' = [lists EXCEPT ![l] = x],
         Begun(x, pc'), \A r \in Parses : pc[r] # "idle" => pc'[r] # "idle"
  PROVE  AllBegun'
  <1>1. TypeOK
    BY DEF IInv
  <1>2. /\ Len(lists') = Len(lists) /\ lists'[l] = x
        /\ \A k \in 1..Len(lists') : k # l => lists'[k] = lists[k]
    BY <1>1, OneListChanged
  <1>3. ASSUME NEW k \in 1..Len(lists') PROVE Begun(lists'[k], pc')
    <2>1. CASE k = l
      BY <1>2, <2>1
    <2>2. CASE k # l
      <3>1. lists'[k] = lists[k] /\ k \in 1..Len(lists)
        BY <1>2, <2>2
      <3>2. lists[k] \in GoodLists /\ Begun(lists[k], pc)
        BY <1>1, <3>1, ListsGood DEF AllBegun
      <3>3. NoneNew(lists[k], lists[k])
        BY DEF NoneNew
      <3>4. QED
        BY <3>1, <3>2, <3>3, BegunKept
    <2>3. QED
      BY <2>1, <2>2
  <1>4. QED
    BY <1>3 DEF AllBegun

LEMMA BegunWhenSame ==
  ASSUME IInv, AllBegun, lists' = lists,
         \A r \in Parses : pc[r] # "idle" => pc'[r] # "idle"
  PROVE  AllBegun'
  <1>1. TypeOK
    BY DEF IInv
  <1>2. ASSUME NEW k \in 1..Len(lists) PROVE Begun(lists[k], pc')
    <2>1. lists[k] \in GoodLists /\ Begun(lists[k], pc)
      BY <1>1, ListsGood DEF AllBegun
    <2>2. NoneNew(lists[k], lists[k])
      BY DEF NoneNew
    <2>3. QED
      BY <2>1, <2>2, BegunKept
  <1>3. QED
    BY <1>2 DEF AllBegun

LEMMA BegunStep ==
  ASSUME IInv, AllBegun, NEW q \in Parses, Step(q)
  PROVE  AllBegun'
  <1>1. TypeOK /\ \A r \in Parses : pc[r] # "idle" => pc'[r] # "idle"
    BY NotIdleAgain DEF IInv
  <1>2. ASSUME lists' = lists PROVE AllBegun'
    BY <1>1, <1>2, BegunWhenSame
  <1>3. CASE AddPublish(q)
    <2> DEFINE l == slot[q].list
               n == slot[q].index
               x == Sized(lists[l], n)
    <2>1. l \in 1..Len(lists) /\ n \in Nat \ {0} /\ n <= Len(lists[l].elems) + 1
      BY <1>1, <1>3, NoneFacts DEF AddPublish, IInv, Walking
    <2>2. lists[l] \in GoodLists /\ Begun(lists[l], pc)
      BY <1>1, <2>1, ListsGood DEF AllBegun
    <2>3. lists' = [lists EXCEPT ![l] = x]
      BY <1>3 DEF AddPublish
    <2> HIDE DEF l, n
    <2>4. x \in GoodLists /\ Len(x.elems) >= Len(lists[l].elems) /\ NoneNew(x, lists[l])
      BY <2>1, <2>2, SizedGood, SizedElements
    <2> HIDE DEF x
    <2>5. Begun(x, pc')
      BY <1>1, <2>2, <2>4, BegunKept
    <2>6. QED
      BY <1>1, <2>1, <2>3, <2>4, <2>5, BegunWhenChanged
  <1>4. CASE AddStore(q)
    <2> DEFINE l == slot[q].list
               n == slot[q].index
               x == [lists[l] EXCEPT !.elems[n] = <<q, at[q]>>]
    <2>1. l \in 1..Len(lists) /\ n \in Nat \ {0} /\ n <= Len(lists[l].elems)
          /\ <<q, at[q]>> \in Nodes
      BY <1>4, AddedFacts DEF AddStore
    <2>2. lists[l] \in GoodLists /\ Begun(lists[l], pc) /\ Len(lists[l].elems) \in Nat
      BY <1>1, <2>1, ListsGood DEF AllBegun
    <2>3. lists' = [lists EXCEPT ![l] = x]
      BY <1>4 DEF AddStore
    <2> HIDE DEF l, n
    <2>4. /\ x \in GoodLists /\ Len(x.elems) = Len(lists[l].elems)
          /\ \A i \in 1..Len(lists[l].elems) :
               x.elems[i] = IF i = n THEN <<q, at[q]>> ELSE lists[l].elems[i]
      BY <2>1, <2>2, StoredGood, StoredElements
    <2> HIDE DEF x
    <2>5. Begun(x, pc')
      <3>1. SUFFICES ASSUME NEW i \in 1..Len(x.elems), x.elems[i] # Null
                     PROVE  pc'[x.elems[i][1]] # "idle"
        BY DEF Begun
      <3>2. CASE i = n
        BY <2>4, <3>2, NotIdleAgain
      <3>3. CASE i # n
        <4>1. x.elems[i] = lists[l].elems[i] /\ i \in 1..Len(lists[l].elems)
          BY <2>4, <3>3
        <4>2. lists[l].elems[i][1] \in Parses /\ pc[lists[l].elems[i][1]] # "idle"
          BY <2>2, <3>1, <4>1, ElementsAre DEF Begun
        <4>3. QED
          BY <1>1, <4>1, <4>2
      <3>4. QED
        BY <3>2, <3>3
    <2>6. Len(x.elems) >= Len(lists[l].elems)
      BY <2>2, <2>4
    <2>7. QED
      BY <1>1, <2>1, <2>3, <2>4, <2>5, <2>6, BegunWhenChanged
  <1>5. CASE Remove(q)
    <2>1. CASE lists' = lists
      BY <1>2, <2>1
    <2>2. ASSUME NEW i \in 1..List(q).size,
                 lists' = [lists EXCEPT ![resList[q]] = Without(lists[resList[q]], i)]
          PROVE  AllBegun'
      <3> DEFINE l == resList[q]
                 x == Without(lists[l], i)
      <3>1. l \in 1..Len(lists)
        BY <1>1, <1>5 DEF Remove, IInv, Taken, TypeOK
      <3>2. lists[l] \in GoodLists /\ Begun(lists[l], pc) /\ Len(lists[l].elems) \in Nat
        BY <1>1, <3>1, ListsGood DEF AllBegun
      <3>3. i \in 1..lists[l].size /\ lists' = [lists EXCEPT ![l] = x]
        BY <2>2 DEF List
      <3> HIDE DEF l
      <3>4. x \in GoodLists /\ Len(x.elems) = Len(lists[l].elems) /\ NoneNew(x, lists[l])
        BY <3>2, <3>3, WithoutGood, WithoutElements
      <3> HIDE DEF x
      <3>5. Begun(x, pc') /\ Len(x.elems) >= Len(lists[l].elems)
        BY <1>1, <3>2, <3>4, BegunKept
      <3>6. QED
        BY <1>1, <3>1, <3>3, <3>4, <3>5, BegunWhenChanged
    <2>3. QED
      BY <1>5, <2>1, <2>2 DEF Remove
  <1>6. CASE SetData(q)
    <2>1. /\ Len(lists') = Len(lists) + 1
          /\ \A k \in 1..Len(lists) : lists'[k] = lists[k]
          /\ lists'[Len(lists) + 1] = Fresh
      <3>1. Fresh \in ArrayLists /\ lists \in Seq(ArrayLists)
        BY <1>1, FreshGood DEF GoodLists, TypeOK
      <3>2. QED
        BY <1>6, <3>1, AppendProperties DEF SetData, NewData
    <2>2. ASSUME NEW k \in 1..Len(lists') PROVE Begun(lists'[k], pc')
      <3>1. CASE k = Len(lists) + 1
        BY <2>1, <3>1, FreshGood DEF Begun
      <3>2. CASE k # Len(lists) + 1
        <4>1. k \in 1..Len(lists)
          BY <1>1, <2>1, <3>2, ListsGood
        <4>2. lists[k] \in GoodLists /\ Begun(lists[k], pc) /\ lists'[k] = lists[k]
          BY <1>1, <2>1, <4>1, ListsGood DEF AllBegun
        <4>3. NoneNew(lists[k], lists[k])
          BY DEF NoneNew
        <4>4. QED
          BY <1>1, <4>2, <4>3, BegunKept
      <3>3. QED
        BY <3>1, <3>2
    <2>3. QED
      BY <2>2 DEF AllBegun
  <1>7. ASSUME NEW d \in Documents \cup {Malformed}, Start(q, d) PROVE lists' = lists
    BY <1>7 DEF Start
  <1>8. AddRead(q) \/ AddAstray(q) \/ Walked(q) \/ Attach(q) \/ AttachFails(q) \/ Attached(q)
        \/ Answer(q) => lists' = lists
    BY DEF AddRead, AddAstray, Walked, Attach, AttachFails, Attached, Answer
  <1>9. QED
    BY <1>2, <1>3, <1>4, <1>5, <1>6, <1>7, <1>8 DEF Step

-----------------------------------------------------------------------------
(* The parses that do not move.                                            *)

\* What a step of q does to another parse.
Bystander(r, q) ==
  /\ pc'[r] = pc[r] /\ doc'[r] = doc[r] /\ at'[r] = at[r] /\ slot'[r] = slot[r]
  /\ resList'[r] = resList[r] /\ cursor'[r] = cursor[r] /\ answer'[r] = answer[r]
  /\ removeIds'[r] = removeIds[r]
  /\ r \in stale' => r \in stale \/ pc[r] = "attach"
  /\ r \in crossed' => r \in crossed \/ slot[r] # None
  /\ alone'[r] => alone[r] /\ (r \in Active => q \in Active)

LEMMA OthersKept ==
  ASSUME IInv, NEW q \in Parses, Step(q), NEW r \in Parses \ {q}
  PROVE  Bystander(r, q)
  <1>1. pc'[r] = pc[r] /\ TypeOK /\ (slot[q] # None => pc[q] = "walk")
    BY NotIdleAgain DEF IInv, Walking
  <1>2. ASSUME NEW d \in Documents \cup {Malformed}, Start(q, d)
        PROVE  Bystander(r, q)
    BY <1>1, <1>2 DEF Bystander, Start, TypeOK
  <1>3. CASE AddRead(q)
    BY <1>1, <1>3 DEF Bystander, AddRead, TypeOK, Active, Iterating, Appending
  <1>4. CASE AddPublish(q)
    BY <1>1, <1>4 DEF Bystander, AddPublish, TypeOK, Active
  <1>5. CASE AddStore(q) \/ AddAstray(q)
    BY <1>1, <1>5 DEF Bystander, AddStore, AddAstray, Added, TypeOK, Active
  <1>6. CASE Walked(q)
    BY <1>1, <1>6 DEF Bystander, Walked, TypeOK, Active
  <1>7. CASE Attach(q) \/ AttachFails(q)
    BY <1>1, <1>7 DEF Bystander, Attach, AttachFails, TypeOK, Active
  <1>8. CASE Attached(q)
    BY <1>1, <1>8 DEF Bystander, Attached, TypeOK, Active
  <1>9. CASE Remove(q)
    BY <1>1, <1>9 DEF Bystander, Remove, TypeOK, Active, Iterating
  <1>10. CASE SetData(q)
    BY <1>1, <1>10 DEF Bystander, SetData, TypeOK, Active
  <1>11. CASE Answer(q)
    BY <1>1, <1>11 DEF Bystander, Answer, TypeOK, Active
  <1>12. QED
    BY <1>2, <1>3, <1>4, <1>5, <1>6, <1>7, <1>8, <1>9, <1>10, <1>11 DEF Step

\* The element that is hung belongs to a parse that has begun.
LEMMA ParentBegun ==
  ASSUME IInv, AllBegun, NEW q \in Parses, pc[q] = "attach", Intact(q)
  PROVE  LET n == List(q).elems[cursor[q] + 1]
         IN  n \in Nodes /\ pc[n[1]] # "idle"
  <1> DEFINE l == List(q)
             n == l.elems[cursor[q] + 1]
  <1>1. n \in Nodes
    BY PassedElement
  <1>2. TypeOK /\ resList[q] \in 1..Len(lists)
    BY DEF IInv, TypeOK, Taken
  <1>3. l \in GoodLists /\ Begun(l, pc)
    BY <1>2, ListsGood DEF List, AllBegun
  <1>4. /\ l.size \in Nat /\ l.size <= Len(l.elems) /\ Len(l.elems) \in Nat
        /\ cursor[q] \in Nat /\ cursor[q] < l.size /\ n # Null
    BY <1>2, <1>3, LenProperties DEF Intact, TypeOK, GoodLists, ArrayLists
  <1>5. cursor[q] + 1 \in 1..Len(l.elems)
    <2> DEFINE s == l.size
               m == Len(l.elems)
    <2>1. s \in Nat /\ m \in Nat /\ s <= m /\ cursor[q] \in Nat /\ cursor[q] < s
      BY <1>4
    <2> HIDE DEF m, s
    <2>2. cursor[q] + 1 \in 1..m
      BY <2>1
    <2>3. QED
      BY <2>2 DEF m
  <1>6. pc[n[1]] # "idle"
    BY <1>3, <1>4, <1>5 DEF Begun
  <1>7. QED
    BY <1>1, <1>6

LEMMA IdleKidsKept ==
  ASSUME IInv, AllBegun, NEW q \in Parses, Step(q), NEW r \in Parses, pc[r] = "idle",
         NEW i \in 1..MaxLen
  PROVE  kids'[<<r, i>>] = kids[<<r, i>>]
  <1>1. CASE Attach(q)
    <2> DEFINE n == List(q).elems[cursor[q] + 1]
    <2>1. n \in Nodes /\ pc[n[1]] # "idle"
      BY <1>1, ParentBegun DEF Attach
    <2>2. Parent(n) # <<r, i>>
      BY <2>1 DEF Parent
    <2>3. kids' = kids \/ kids' = Hung(n)
      BY <1>1 DEF Attach
    <2> HIDE DEF n
    <2>4. <<r, i>> \in Nodes /\ kids \in [Nodes -> Seq(Nodes)]
      BY DEF Nodes, IInv, TypeOK
    <2>5. Hung(n)[<<r, i>>] = kids[<<r, i>>]
      BY <2>2, <2>4 DEF Hung
    <2>6. QED
      BY <2>3, <2>5
  <1>2. ASSUME NEW d \in Documents \cup {Malformed}, Start(q, d) PROVE kids' = kids
    BY <1>2 DEF Start
  <1>3. AddRead(q) \/ AddPublish(q) \/ AddStore(q) \/ AddAstray(q) \/ Walked(q)
        \/ AttachFails(q) \/ Attached(q) \/ Remove(q) \/ SetData(q) \/ Answer(q) => kids' = kids
    BY DEF AddRead, AddPublish, AddStore, AddAstray, Added, Walked, AttachFails, Attached,
           Remove, SetData, Answer
  <1>4. QED
    BY <1>1, <1>2, <1>3 DEF Step

LEMMA UntouchedStep ==
  ASSUME IInv, AInv, NEW q \in Parses, Step(q), NEW r \in Parses
  PROVE  Untouched(r)'
  <1>1. CASE r = q
    BY <1>1, NotIdleAgain DEF Untouched
  <1>2. CASE r # q
    <2>1. SUFFICES ASSUME pc'[r] = "idle" PROVE Untouched(r)'
      BY DEF Untouched
    <2>2. pc[r] = "idle" /\ Untouched(r) /\ AllBegun
      BY <1>2, <2>1, OthersKept DEF AInv, Bystander
    <2>3. \A i \in 1..MaxLen : kids'[<<r, i>>] = <<>>
      BY <2>2, IdleKidsKept DEF Untouched
    <2>4. QED
      BY <1>2, <2>2, <2>3, OthersKept DEF Untouched, Bystander
  <1>3. QED
    BY <1>1, <1>2

\* A parse beside which another moves is alone no more, or has ended.
LEMMA OthersSolo ==
  ASSUME IInv, AInv, NEW q \in Parses, Step(q), NEW r \in Parses \ {q}
  PROVE  Solo(r)'
  <1>1. SUFFICES ASSUME alone'[r] PROVE Solo(r)'
    BY DEF Solo
  <1>2. alone[r] /\ Solo(r) /\ Untouched(r)
    BY <1>1, OthersKept DEF AInv, Bystander
  <1>3. r \notin Active
    <2>1. SUFFICES ASSUME r \in Active PROVE FALSE
      OBVIOUS
    <2>2. Active = {r}
      BY <1>2, <2>1 DEF Solo, Undisturbed
    <2>3. q \in Active
      BY <1>1, <2>1, OthersKept DEF Bystander
    <2>4. QED
      BY <2>2, <2>3
  <1>4. /\ pc[r] \in {"done", "failed"}
        /\ pc'[r] = pc[r] /\ doc'[r] = doc[r] /\ answer'[r] = answer[r]
        /\ resList'[r] = resList[r] /\ removeIds'[r] = removeIds[r]
    BY <1>2, <1>3, OthersKept DEF Bystander, Active, Untouched
  <1>5. r \notin Active'
    BY <1>4 DEF Active
  <1>6. pc[r] = "done" /\ doc[r] # Malformed => Answered(r)'
    <2>1. SUFFICES ASSUME pc[r] = "done", doc[r] # Malformed PROVE Answered(r)'
      OBVIOUS
    <2>2. Answered(r)
      BY <1>2, <2>1 DEF Solo
    <2>3. QED
      BY <1>4, <2>2 DEF Answered
  <1>7. QED
    BY <1>2, <1>4, <1>5, <1>6 DEF Solo, Undisturbed

-----------------------------------------------------------------------------
(* The steps of the parse that runs alone.                                 *)

LEMMA DocumentFacts ==
  ASSUME NEW d \in Documents, NEW q \in Parses
  PROVE  /\ d \in Seq(Nat) /\ Len(d) \in Nat /\ Len(d) >= 1 /\ Len(d) <= MaxLen /\ MaxLen \in Nat
         /\ d[1] = 0 /\ \A i \in 2..Len(d) : d[i] \in 1..(i - 1)
         /\ \A i \in 1..Len(d) : <<q, i>> \in Nodes /\ <<q, i>> # Null
  <1>1. /\ d \in Seq(Nat) /\ Len(d) \in 1..MaxLen /\ MaxLen \in Nat
        /\ d[1] = 0 /\ \A i \in 2..Len(d) : d[i] \in 1..(i - 1)
    BY XmlAssumption
  <1>2. ASSUME NEW i \in 1..Len(d) PROVE <<q, i>> \in Nodes /\ <<q, i>> # Null
    <2>1. i \in 1..MaxLen /\ i \in Nat
      BY <1>1
    <2>2. <<q, i>> \in Parses \X Nat
      BY <2>1
    <2>3. QED
      BY <2>1, <2>2, XmlAssumption DEF Nodes
  <1>3. QED
    BY <1>1, <1>2

LEMMA NothingHung ==
  ASSUME NEW k, NEW q, NEW d, \A i \in 1..Len(d) : k[<<q, i>>] = <<>>
  PROVE  HungUpTo(k, q, d, 0)
  <1>1. \A i : Children(q, d, i, 0) = {}
    BY DEF Children
  <1>2. InDocumentOrder(<<>>, {})
    <2>1. Len(<<>>) = 0
      BY EmptySeq
    <2>2. QED
      BY <2>1 DEF InDocumentOrder
  <1>3. QED
    BY <1>1, <1>2 DEF HungUpTo

\* The next element of a document is a child of its parent only.
LEMMA ChildrenGrow ==
  ASSUME NEW q, NEW d, NEW i, NEW n \in Nat
  PROVE  /\ d[n + 1] = i =>
              Children(q, d, i, n + 1) = Children(q, d, i, n) \cup {<<q, n + 1>>}
         /\ d[n + 1] # i => Children(q, d, i, n + 1) = Children(q, d, i, n)
  <1>1. 1..(n + 1) = (1..n) \cup {n + 1}
    OBVIOUS
  <1>2. {k \in 1..(n + 1) : d[k] = i} =
          IF d[n + 1] = i THEN {k \in 1..n : d[k] = i} \cup {n + 1} ELSE {k \in 1..n : d[k] = i}
    BY <1>1
  <1>3. QED
    BY <1>2 DEF Children

LEMMA ChildAppended ==
  ASSUME NEW q \in Parses, NEW d, NEW i, NEW n \in Nat, NEW s \in Seq(Nodes),
         InDocumentOrder(s, Children(q, d, i, n)), d[n + 1] = i, <<q, n + 1>> \in Nodes
  PROVE  InDocumentOrder(Append(s, <<q, n + 1>>), Children(q, d, i, n + 1))
  <1> DEFINE x == <<q, n + 1>>
             t == Append(s, x)
             m == Len(s)
  <1>1. /\ m \in Nat /\ Len(t) = m + 1 /\ t[m + 1] = x
        /\ \A k \in 1..m : t[k] = s[k]
    BY LenProperties, AppendProperties
  <1>2. x[2] = n + 1
    OBVIOUS
  <1>3. ASSUME NEW k \in 1..m PROVE s[k][2] \in 1..n
    <2>1. s[k] \in Children(q, d, i, n)
      BY DEF InDocumentOrder
    <2>2. PICK j \in 1..n : s[k] = <<q, j>>
      BY <2>1 DEF Children
    <2>3. QED
      BY <2>2
  <1> HIDE DEF t, m, x
  <1>4. ASSUME NEW k \in 1..Len(t), NEW l \in 1..Len(t), k < l
        PROVE  t[k][2] < t[l][2]
    <2>1. k \in 1..m /\ (l \in 1..m \/ l = m + 1)
      BY <1>1, <1>4
    <2>2. CASE l \in 1..m
      <3>1. s[k][2] < s[l][2]
        BY <1>4, <2>1, <2>2 DEF InDocumentOrder, m
      <3>2. QED
        BY <1>1, <2>1, <2>2, <3>1
    <2>3. CASE l = m + 1
      BY <1>1, <1>2, <1>3, <2>1, <2>3
    <2>4. QED
      BY <2>1, <2>2, <2>3
  <1>5. {t[k] : k \in 1..Len(t)} = Children(q, d, i, n) \cup {x}
    <2>1. {s[k] : k \in 1..m} = Children(q, d, i, n)
      BY DEF InDocumentOrder, m
    <2>2. 1..Len(t) = (1..m) \cup {m + 1}
      BY <1>1
    <2>3. QED
      BY <1>1, <2>1, <2>2
  <1>6. Children(q, d, i, n + 1) = Children(q, d, i, n) \cup {x}
    BY ChildrenGrow DEF x
  <1>7. QED
    BY <1>4, <1>5, <1>6 DEF InDocumentOrder, t, x

\* A list that holds the first elements of a document holds them when it grows.
LEMMA AppendedNext ==
  ASSUME NEW l \in GoodLists, NEW q, NEW n \in Nat, HasFirst(l, q, n), l.size = n
  PROVE  HasFirst(Sized(l, n + 1), q, n) /\ Sized(l, n + 1).size = n + 1
  <1>1. n <= Len(l.elems) /\ Len(l.elems) \in Nat
    BY LenProperties DEF GoodLists, ArrayLists
  <1>2. n + 1 \in Nat \ {0} /\ 1..n \subseteq 1..Len(l.elems)
    BY <1>1
  <1>3. QED
    BY <1>2, SizedElements DEF HasFirst

LEMMA StoredNext ==
  ASSUME NEW l \in GoodLists, NEW q, NEW n \in Nat, HasFirst(l, q, n), l.size = n + 1,
         <<q, n + 1>> \in Nodes
  PROVE  LET x == [l EXCEPT !.elems[n + 1] = <<q, n + 1>>]
         IN  HasFirst(x, q, n + 1) /\ x.size = n + 1
  <1> DEFINE x == [l EXCEPT !.elems[n + 1] = <<q, n + 1>>]
  <1>1. n + 1 <= Len(l.elems) /\ Len(l.elems) \in Nat /\ n + 1 \in Nat \ {0}
    BY LenProperties DEF GoodLists, ArrayLists
  <1>2. /\ x.size = l.size
        /\ \A i \in 1..Len(l.elems) :
             x.elems[i] = IF i = n + 1 THEN <<q, n + 1>> ELSE l.elems[i]
    BY <1>1, StoredElements
  <1> HIDE DEF x
  <1>3. ASSUME NEW i \in 1..(n + 1) PROVE x.elems[i] = <<q, i>>
    <2>1. i \in 1..Len(l.elems)
      BY <1>1
    <2>2. CASE i = n + 1
      BY <1>2, <2>1, <2>2
    <2>3. CASE i # n + 1
      <3>1. i \in 1..n
        BY <2>3
      <3>2. QED
        BY <1>2, <2>1, <2>3, <3>1 DEF HasFirst
    <2>4. QED
      BY <2>2, <2>3
  <1>4. x.size >= n + 1
    BY <1>2
  <1>5. QED
    BY <1>2, <1>3, <1>4 DEF HasFirst, x

\* What stays true of a parse that moves alone.
LEMMA OwnUndisturbed ==
  ASSUME IInv, AInv, NEW q \in Parses, Step(q), pc[q] # "idle", alone'[q]
  PROVE  /\ alone[q] /\ Solo(q) /\ q \notin stale /\ q \notin crossed
         /\ Undisturbed(q)' /\ doc'[q] = doc[q]
  <1>1. /\ TypeOK /\ (slot[q] # None => pc[q] = "walk") /\ Solo(q)
        /\ \A r \in Parses \ {q} : pc'[r] = pc[r]
    BY NotIdleAgain DEF IInv, AInv, Walking
  <1>2. ~ \E d \in Documents \cup {Malformed} : Start(q, d)
    BY DEF Start
  <1>3. alone' = alone /\ doc' = doc /\ q \in Active
    BY <1>1, <1>2 DEF Step, AddRead, AddPublish, AddStore, AddAstray, Added, Walked, Attach,
                      AttachFails, Attached, Remove, SetData, Answer, Active
  <1>4. alone[q] /\ Active = {q} /\ q \notin stale /\ q \notin crossed
    BY <1>1, <1>3 DEF Solo, Undisturbed
  <1>5. Active' \subseteq {q}
    BY <1>1, <1>4 DEF Active
  <1>6. q \notin stale'
    <2>1. CASE AddRead(q)
      BY <1>4, <2>1 DEF AddRead, Iterating
    <2>2. CASE Remove(q)
      BY <1>4, <2>2 DEF Remove, Iterating
    <2>3. CASE Attached(q)
      BY <1>4, <2>3 DEF Attached
    <2>4. AddPublish(q) \/ AddStore(q) \/ AddAstray(q) \/ Walked(q) \/ Attach(q)
          \/ AttachFails(q) \/ SetData(q) \/ Answer(q) => stale' = stale
      BY DEF AddPublish, AddStore, AddAstray, Added, Walked, Attach, AttachFails, SetData, Answer
    <2>5. QED
      BY <1>2, <1>4, <2>1, <2>2, <2>3, <2>4 DEF Step
  <1>7. q \notin crossed'
    <2>1. CASE AddRead(q)
      BY <1>4, <2>1 DEF AddRead, Appending
    <2>2. CASE AddStore(q) \/ AddAstray(q)
      BY <1>4, <2>2 DEF AddStore, AddAstray, Added
    <2>3. AddPublish(q) \/ Walked(q) \/ Attach(q) \/ AttachFails(q) \/ Attached(q)
          \/ Remove(q) \/ SetData(q) \/ Answer(q) => crossed' = crossed
      BY DEF AddPublish, Walked, Attach, AttachFails, Attached, Remove, SetData, Answer
    <2>4. QED
      BY <1>2, <1>4, <2>1, <2>2, <2>3 DEF Step
  <1>8. Undisturbed(q)'
    BY <1>5, <1>6, <1>7 DEF Undisturbed
  <1>9. QED
    BY <1>1, <1>3, <1>4, <1>8

LEMMA StartSolo ==
  ASSUME IInv, AInv, NEW q \in Parses, NEW d \in Documents \cup {Malformed}, Start(q, d)
  PROVE  Solo(q)'
  <1>1. SUFFICES ASSUME alone'[q] PROVE Solo(q)'
    BY DEF Solo
  <1>2. TypeOK /\ Mended /\ Untouched(q) /\ pc[q] = "idle"
    BY DEF IInv, AInv, Start
  <1>3. /\ Active = {} /\ ~dirty
        /\ pc' = [pc EXCEPT ![q] = IF d = Malformed THEN "remove" ELSE "walk"]
        /\ doc' = [doc EXCEPT ![q] = d]
        /\ UNCHANGED <<lists, data, kids, at, slot, resList, cursor, removeIds, answer,
                       stale, crossed, dirty>>
    BY <1>1 DEF Start
  <1>4. lists[data] = Fresh
    BY <1>2, <1>3 DEF Mended, Using, Active
  <1>5. /\ pc'[q] = (IF d = Malformed THEN "remove" ELSE "walk") /\ doc'[q] = d
        /\ \A r \in Parses \ {q} : pc'[r] = pc[r]
    BY <1>2, <1>3 DEF TypeOK
  <1>6. Undisturbed(q)'
    BY <1>2, <1>3, <1>5 DEF Undisturbed, Active, Untouched
  <1>7. CASE d = Malformed
    BY <1>2, <1>3, <1>5, <1>6, <1>7 DEF Solo, Untouched
  <1>8. CASE d # Malformed
    <2>1. d \in Documents /\ pc'[q] = "walk" /\ Len(d) \in Nat /\ Len(d) >= 1
          /\ 1..Len(d) \subseteq 1..MaxLen
      BY <1>5, <1>8, DocumentFacts
    <2>2. HungUpTo(kids', q, d, 0)
      BY <1>2, <1>3, <2>1, NothingHung DEF Untouched
    <2>3. HasFirst(Fresh, q, 0) /\ Fresh.size = 0
      BY DEF HasFirst, Fresh
    <2>4. WalksAlone(q)'
      BY <1>2, <1>3, <1>4, <1>5, <2>1, <2>2, <2>3 DEF WalksAlone, Untouched
    <2>5. QED
      BY <1>6, <2>1, <2>4 DEF Solo
  <1>9. QED
    BY <1>7, <1>8

LEMMA AddReadSolo ==
  ASSUME IInv, AInv, NEW q \in Parses, AddRead(q)
  PROVE  Solo(q)'
  <1>1. SUFFICES ASSUME alone'[q] PROVE Solo(q)'
    BY DEF Solo
  <1>2. /\ pc[q] = "walk" /\ slot[q] = None /\ at[q] <= Len(doc[q])
        /\ UNCHANGED <<lists, data, kids, pc, doc, at, resList, cursor, removeIds>>
        /\ TypeOK
    BY DEF AddRead, IInv
  <1>3. Solo(q) /\ alone[q] /\ Undisturbed(q)'
    BY <1>1, <1>2, OwnUndisturbed DEF Step
  <1>4. WalksAlone(q)
    BY <1>2, <1>3 DEF Solo
  <1>5. at[q] \in Nat /\ lists[data].size = at[q] - 1
    BY <1>2, <1>4 DEF WalksAlone, TypeOK
  <1>6. slot'[q].list = data /\ slot'[q].index = at[q] /\ ~slot'[q].published
    BY <1>2, <1>5 DEF AddRead, TypeOK
  <1>7. WalksAlone(q)'
    BY <1>2, <1>4, <1>5, <1>6 DEF WalksAlone
  <1>8. QED
    BY <1>2, <1>3, <1>7 DEF Solo

LEMMA AddPublishSolo ==
  ASSUME IInv, AInv, NEW q \in Parses, AddPublish(q)
  PROVE  Solo(q)'
  <1>1. SUFFICES ASSUME alone'[q] PROVE Solo(q)'
    BY DEF Solo
  <1>2. /\ slot[q] # None /\ ~slot[q].published /\ pc[q] = "walk" /\ TypeOK
        /\ UNCHANGED <<data, kids, pc, doc, at, resList, cursor, removeIds>>
    BY DEF AddPublish, IInv, Walking
  <1>3. Solo(q) /\ alone[q] /\ Undisturbed(q)'
    BY <1>1, <1>2, OwnUndisturbed DEF Step
  <1>4. WalksAlone(q)
    BY <1>2, <1>3 DEF Solo
  <1> DEFINE n == at[q] - 1
  <1>5. /\ n \in Nat /\ at[q] = n + 1 /\ slot[q].list = data /\ slot[q].index = n + 1
        /\ HasFirst(lists[data], q, n) /\ lists[data].size = n
    BY <1>2, <1>4 DEF WalksAlone, TypeOK
  <1>6. lists[data] \in GoodLists /\ data \in 1..Len(lists) /\ lists \in Seq(ArrayLists)
    BY <1>2, ListsGood DEF TypeOK
  <1> DEFINE x == Sized(lists[data], n + 1)
  <1> HIDE DEF n
  <1>7. HasFirst(x, q, n) /\ x.size = n + 1
    BY <1>5, <1>6, AppendedNext
  <1>8. lists'[data'] = x
    <2>1. lists' = [lists EXCEPT ![data] = x]
      BY <1>2, <1>5 DEF AddPublish
    <2> HIDE DEF x
    <2>2. QED
      BY <1>2, <1>6, <2>1
  <1>9. slot'[q].list = data /\ slot'[q].index = n + 1 /\ slot'[q].published /\ slot'[q] # None
    <2>1. slot[q] \in [list : 1..Len(lists), index : Nat \ {0}, published : BOOLEAN]
      BY <1>2 DEF TypeOK
    <2>2. slot'[q] = [slot[q] EXCEPT !.published = TRUE]
      BY <1>2 DEF AddPublish, TypeOK
    <2>3. slot'[q].list = data /\ slot'[q].index = n + 1 /\ slot'[q].published
      BY <1>5, <2>1, <2>2
    <2>5. slot'[q] # None
      <3>1. slot'[q] \in [list : Nat, index : Nat, published : BOOLEAN]
        <4>1. 1..Len(lists) \subseteq Nat
          BY <1>6
        <4>2. QED
          BY <2>1, <2>2, <4>1
      <3>2. QED
        BY <3>1, XmlAssumption
    <2>6. QED
      BY <2>3, <2>5
  <1> HIDE DEF x
  <1>10. WalksAlone(q)'
    BY <1>2, <1>4, <1>5, <1>7, <1>8, <1>9 DEF WalksAlone, n
  <1>11. QED
    BY <1>2, <1>3, <1>10 DEF Solo

LEMMA AddStoreSolo ==
  ASSUME IInv, AInv, NEW q \in Parses, AddStore(q)
  PROVE  Solo(q)'
  <1>1. SUFFICES ASSUME alone'[q] PROVE Solo(q)'
    BY DEF Solo
  <1>2. /\ slot[q] # None /\ slot[q].published /\ pc[q] = "walk" /\ TypeOK
        /\ at[q] <= Len(doc[q]) /\ <<q, at[q]>> \in Nodes
        /\ UNCHANGED <<data, kids, pc, doc, resList, cursor, removeIds>>
        /\ at'[q] = at[q] + 1 /\ slot'[q] = None
    BY AddedFacts DEF AddStore, Added, IInv, Walking, TypeOK
  <1>3. Solo(q) /\ alone[q] /\ Undisturbed(q)'
    BY <1>1, <1>2, OwnUndisturbed DEF Step
  <1>4. WalksAlone(q)
    BY <1>2, <1>3 DEF Solo
  <1> DEFINE n == at[q] - 1
  <1>5. /\ n \in Nat /\ at[q] = n + 1 /\ slot[q].list = data /\ slot[q].index = n + 1
        /\ HasFirst(lists[data], q, n) /\ lists[data].size = n + 1
    BY <1>2, <1>4 DEF WalksAlone, TypeOK
  <1>6. lists[data] \in GoodLists /\ data \in 1..Len(lists) /\ lists \in Seq(ArrayLists)
    BY <1>2, ListsGood DEF TypeOK
  <1> DEFINE x == [lists[data] EXCEPT !.elems[n + 1] = <<q, n + 1>>]
  <1> HIDE DEF n
  <1>7. HasFirst(x, q, n + 1) /\ x.size = n + 1
    BY <1>2, <1>5, <1>6, StoredNext
  <1>8. lists'[data'] = x
    <2>1. lists' = [lists EXCEPT ![data] = x]
      BY <1>2, <1>5 DEF AddStore
    <2> HIDE DEF x
    <2>2. QED
      BY <1>2, <1>6, <2>1
  <1> HIDE DEF x
  <1>9. /\ doc'[q] \in Documents /\ at'[q] = n + 2 /\ at'[q] - 1 = n + 1
        /\ at'[q] <= Len(doc'[q]) + 1
    <2>1. Len(doc[q]) \in Nat
      BY <1>4, DocumentFacts DEF WalksAlone
    <2>2. QED
      BY <1>2, <1>4, <1>5, <2>1 DEF WalksAlone
  <1>10. WalksAlone(q)'
    BY <1>2, <1>4, <1>7, <1>8, <1>9 DEF WalksAlone
  <1>11. QED
    BY <1>2, <1>3, <1>10 DEF Solo

LEMMA AddAstraySolo ==
  ASSUME IInv, AInv, NEW q \in Parses, AddAstray(q)
  PROVE  Solo(q)'
  <1>1. SUFFICES ASSUME alone'[q] PROVE FALSE
    BY DEF Solo
  <1>2. q \in crossed /\ pc[q] = "walk"
    BY AddedFacts DEF AddAstray
  <1>3. QED
    BY <1>1, <1>2, OwnUndisturbed DEF Step

LEMMA WalkedSolo ==
  ASSUME IInv, AInv, NEW q \in Parses, Walked(q)
  PROVE  Solo(q)'
  <1>1. SUFFICES ASSUME alone'[q] PROVE Solo(q)'
    BY DEF Solo
  <1>2. /\ pc[q] = "walk" /\ slot[q] = None /\ at[q] > Len(doc[q]) /\ TypeOK
        /\ pc'[q] = "attach" /\ resList'[q] = data
        /\ UNCHANGED <<lists, data, kids, doc, cursor, removeIds>>
    BY DEF Walked, IInv, TypeOK
  <1>3. Solo(q) /\ alone[q] /\ Undisturbed(q)'
    BY <1>1, <1>2, OwnUndisturbed DEF Step
  <1>4. WalksAlone(q)
    BY <1>2, <1>3 DEF Solo
  <1>5. Len(doc[q]) \in Nat /\ at[q] \in Nat /\ at[q] - 1 = Len(doc[q])
    <2>1. Len(doc[q]) \in Nat /\ at[q] \in Nat /\ at[q] <= Len(doc[q]) + 1
      BY <1>2, <1>4, DocumentFacts DEF WalksAlone, TypeOK
    <2>2. QED
      BY <1>2, <2>1
  <1>6. lists[data].size = Len(doc[q]) /\ HasFirst(lists[data], q, Len(doc[q]))
    BY <1>2, <1>4, <1>5 DEF WalksAlone
  <1>7. Len(<<>>) = 0
    BY EmptySeq
  <1>8. AttachesAlone(q)'
    BY <1>2, <1>4, <1>5, <1>6, <1>7 DEF WalksAlone, AttachesAlone
  <1>9. QED
    BY <1>2, <1>3, <1>8 DEF Solo

\* The element that the iterator passes, of a parse that runs alone.
LEMMA PassedAlone ==
  ASSUME TypeOK, NEW q \in Parses, AttachesAlone(q), cursor[q] # List(q).size
  PROVE  /\ cursor[q] \in Nat /\ cursor[q] < Len(doc[q]) /\ cursor[q] + 1 \in 1..Len(doc[q])
         /\ List(q).size = Len(doc[q]) /\ Len(doc[q]) \in Nat
         /\ List(q).elems[cursor[q] + 1] = <<q, cursor[q] + 1>>
         /\ \A i \in 1..Len(doc[q]) : List(q).elems[i] = <<q, i>>
         /\ ~Holds(List(q), Null)
  <1> DEFINE l == List(q)
             m == Len(doc[q])
  <1>1. /\ m \in Nat /\ l.size = m /\ cursor[q] \in 0..m /\ cursor[q] # m
        /\ \A i \in 1..m : l.elems[i] = <<q, i>>
    BY DocumentFacts DEF AttachesAlone, List, HasFirst
  <1>2. \A i \in 1..m : <<q, i>> # Null
    BY DocumentFacts DEF AttachesAlone
  <1> HIDE DEF l, m
  <1>3. cursor[q] \in Nat /\ cursor[q] < m /\ cursor[q] + 1 \in 1..m
    BY <1>1
  <1>4. ~Holds(l, Null)
    BY <1>1, <1>2 DEF Holds
  <1>5. l.elems[cursor[q] + 1] = <<q, cursor[q] + 1>>
    BY <1>1, <1>3
  <1>6. QED
    BY <1>1, <1>3, <1>4, <1>5 DEF l, m

LEMMA AttachFailsSolo ==
  ASSUME IInv, AInv, NEW q \in Parses, AttachFails(q)
  PROVE  Solo(q)'
  <1>1. SUFFICES ASSUME alone'[q] PROVE FALSE
    BY DEF Solo
  <1>2. pc[q] = "attach" /\ cursor[q] # List(q).size /\ ~Intact(q) /\ TypeOK
    BY DEF AttachFails, IInv
  <1>3. Solo(q) /\ alone[q] /\ q \notin stale
    BY <1>1, <1>2, OwnUndisturbed DEF Step
  <1>4. AttachesAlone(q)
    BY <1>2, <1>3 DEF Solo
  <1>5. /\ cursor[q] < List(q).size /\ ~Holds(List(q), Null)
        /\ List(q).elems[cursor[q] + 1] # Null
    BY <1>2, <1>4, PassedAlone, DocumentFacts DEF AttachesAlone
  <1>6. QED
    BY <1>2, <1>3, <1>5 DEF Intact

\* The root is passed first, and hangs below nothing.
LEMMA RootHung ==
  ASSUME NEW k, NEW q \in Parses, NEW d \in Documents, HungUpTo(k, q, d, 0)
  PROVE  HungUpTo(k, q, d, 1)
  <1>1. ASSUME NEW i \in 1..Len(d) PROVE Children(q, d, i, 1) = Children(q, d, i, 0)
    <2>1. d[1] # i
      BY DocumentFacts
    <2>2. {j \in 1..1 : d[j] = i} = {j \in 1..0 : d[j] = i}
      BY <2>1
    <2>3. QED
      BY <2>2 DEF Children
  <1>2. QED
    BY <1>1 DEF HungUpTo

\* Any other element is hung below its parent, behind the children it has.
LEMMA NextHung ==
  ASSUME NEW k \in [Nodes -> Seq(Nodes)], NEW q \in Parses, NEW d \in Documents,
         NEW n \in Nat, n + 1 \in 1..Len(d), HungUpTo(k, q, d, n),
         NEW h, h = [k EXCEPT ![<<q, d[n + 1]>>] = Append(@, <<q, n + 1>>)]
  PROVE  HungUpTo(h, q, d, n + 1)
  <1>1. ASSUME NEW i \in 1..Len(d)
        PROVE  InDocumentOrder(h[<<q, i>>], Children(q, d, i, n + 1))
    <2>1. <<q, i>> \in Nodes /\ <<q, n + 1>> \in Nodes
      BY DocumentFacts
    <2>2. InDocumentOrder(k[<<q, i>>], Children(q, d, i, n)) /\ k[<<q, i>>] \in Seq(Nodes)
      BY <2>1 DEF HungUpTo
    <2>3. CASE d[n + 1] = i
      <3>1. h[<<q, i>>] = Append(k[<<q, i>>], <<q, n + 1>>)
        BY <2>1, <2>3
      <3>2. QED
        BY <2>1, <2>2, <2>3, <3>1, ChildAppended
    <2>4. CASE d[n + 1] # i
      <3>1. h[<<q, i>>] = k[<<q, i>>]
        BY <2>1, <2>4
      <3>2. QED
        <4>1. Children(q, d, i, n + 1) = Children(q, d, i, n)
          BY <2>4, ChildrenGrow
        <4>2. QED
          BY <2>2, <3>1, <4>1
    <2>5. QED
      BY <2>3, <2>4
  <1>2. QED
    BY <1>1 DEF HungUpTo

LEMMA AttachSolo ==
  ASSUME IInv, AInv, NEW q \in Parses, Attach(q)
  PROVE  Solo(q)'
  <1>1. SUFFICES ASSUME alone'[q] PROVE Solo(q)'
    BY DEF Solo
  <1> DEFINE c == cursor[q]
             d == doc[q]
             n == List(q).elems[c + 1]
  <1>2. /\ pc[q] = "attach" /\ c # List(q).size /\ TypeOK
        /\ cursor'[q] = c + 1
        /\ UNCHANGED <<lists, data, doc, pc, resList>>
    BY DEF Attach, IInv, TypeOK
  <1>3. Solo(q) /\ alone[q] /\ Undisturbed(q)'
    BY <1>1, <1>2, OwnUndisturbed DEF Step
  <1>4. AttachesAlone(q)
    BY <1>2, <1>3 DEF Solo
  <1>5. /\ c \in Nat /\ c + 1 \in 1..Len(d) /\ n = <<q, c + 1>> /\ d \in Documents
        /\ Len(d) \in Nat /\ List(q).size = Len(d)
        /\ \A i \in 1..Len(d) : List(q).elems[i] = <<q, i>>
    BY <1>2, <1>4, PassedAlone DEF AttachesAlone
  <1>6. Parent(n) = <<q, d[c + 1]>> /\ (IsRoot(n) <=> d[c + 1] = 0)
    BY <1>5 DEF Parent, IsRoot
  <1>7. /\ removeIds[q] \in Seq(Nodes) /\ n \in Nodes /\ Len(removeIds[q]) \in Nat
        /\ kids \in [Nodes -> Seq(Nodes)]
    <2>1. removeIds[q] \in Seq(Nodes) /\ n \in Nodes /\ kids \in [Nodes -> Seq(Nodes)]
      BY <1>2, <1>5, DocumentFacts DEF TypeOK
    <2>2. QED
      BY <2>1, LenProperties
  <1>8. /\ HungUpTo(kids, q, d, c)
        /\ Len(removeIds[q]) = IF c = 0 THEN 0 ELSE c - 1
        /\ \A i \in 1..Len(removeIds[q]) : removeIds[q][i] = <<q, i + 1>>
    BY <1>4 DEF AttachesAlone
  <1>9. /\ HungUpTo(kids', q, d, c + 1)
        /\ Len(removeIds'[q]) = c
        /\ \A i \in 1..Len(removeIds'[q]) : removeIds'[q][i] = <<q, i + 1>>
    <2>1. CASE c = 0
      <3>1. IsRoot(n)
        BY <1>5, <1>6, <2>1, DocumentFacts
      <3>2. kids' = kids /\ removeIds' = removeIds
        BY <1>2, <3>1 DEF Attach
      <3>3. HungUpTo(kids, q, d, 1)
        BY <1>5, <1>8, <2>1, RootHung
      <3>4. QED
        BY <1>8, <2>1, <3>2, <3>3
    <2>2. CASE c # 0
      <3>1. c + 1 \in 2..Len(d)
        BY <1>5, <2>2
      <3>2. d[c + 1] \in 1..c
        <4> DEFINE e == doc[q]
                   b == cursor[q] + 1
        <4>1. e \in Documents /\ b \in 2..Len(e)
          BY <1>5, <3>1
        <4> HIDE DEF e, b
        <4>2. e[b] \in 1..(b - 1)
          BY <4>1, DocumentFacts
        <4>3. b - 1 = c
          <5>1. cursor[q] \in Nat /\ b = cursor[q] + 1
            BY <1>5 DEF b
          <5>2. QED
            BY <5>1
        <4>4. QED
          BY <4>2, <4>3 DEF e, b
      <3>3. ~IsRoot(n) /\ Holds(List(q), Parent(n))
        <4>1. d[c + 1] \in 1..Len(d) /\ d[c + 1] # 0
          BY <1>5, <3>2
        <4>2. QED
          BY <1>5, <1>6, <4>1 DEF Holds
      <3>4. kids' = [kids EXCEPT ![<<q, d[c + 1]>>] = Append(@, <<q, c + 1>>)]
        BY <1>2, <1>5, <1>6, <3>3 DEF Attach, Hung
      <3>5. removeIds'[q] = Append(removeIds[q], n)
        BY <1>2, <3>3 DEF Attach, TypeOK
      <3> HIDE DEF c, d
      <3>6. HungUpTo(kids', q, d, c + 1)
        BY <1>5, <1>7, <1>8, <3>4, NextHung
      <3> HIDE DEF n
      <3>7. /\ Len(removeIds'[q]) = c /\ removeIds'[q][c] = n
            /\ \A i \in 1..(c - 1) : removeIds'[q][i] = <<q, i + 1>>
        <4>1. /\ Len(removeIds'[q]) = Len(removeIds[q]) + 1
              /\ removeIds'[q][Len(removeIds[q]) + 1] = n
              /\ \A i \in 1..Len(removeIds[q]) : removeIds'[q][i] = removeIds[q][i]
          BY <1>7, <3>5, AppendProperties
        <4>2. Len(removeIds[q]) = c - 1
          BY <1>8, <2>2
        <4>3. Len(removeIds[q]) + 1 = c
          BY <1>5, <4>2
        <4>4. removeIds'[q][c] = n /\ Len(removeIds'[q]) = c
          BY <4>1, <4>3
        <4>5. ASSUME NEW i \in 1..(c - 1) PROVE removeIds'[q][i] = <<q, i + 1>>
          <5>1. i \in 1..Len(removeIds[q])
            BY <4>2
          <5>2. QED
            BY <1>8, <4>1, <5>1
        <4>6. QED
          BY <4>4, <4>5
      <3>8. \A i \in 1..c : removeIds'[q][i] = <<q, i + 1>>
        <4>1. ASSUME NEW i \in 1..c PROVE i = c \/ i \in 1..(c - 1)
          BY <1>5
        <4>2. QED
          BY <1>5, <3>7, <4>1
      <3>9. QED
        BY <3>6, <3>7, <3>8
    <2>3. QED
      BY <2>1, <2>2
  <1>10. AttachesAlone(q)'
    <2>1. /\ doc'[q] = d /\ d \in Documents /\ resList'[q] = data'
          /\ lists'[data'].size = Len(d) /\ HasFirst(lists'[data'], q, Len(d))
      BY <1>2, <1>4 DEF AttachesAlone
    <2>2. cursor'[q] \in 0..Len(d) /\ cursor'[q] # 0 /\ cursor'[q] - 1 = c
      BY <1>2, <1>5
    <2> HIDE DEF c, d
    <2>3. QED
      BY <1>2, <1>9, <2>1, <2>2 DEF AttachesAlone
  <1>11. QED
    BY <1>2, <1>3, <1>10 DEF Solo

LEMMA AttachedSolo ==
  ASSUME IInv, AInv, NEW q \in Parses, Attached(q)
  PROVE  Solo(q)'
  <1>1. SUFFICES ASSUME alone'[q] PROVE Solo(q)'
    BY DEF Solo
  <1> DEFINE m == Len(doc[q])
             s == Len(removeIds[q])
  <1>2. /\ pc[q] = "attach" /\ cursor[q] = List(q).size /\ TypeOK /\ pc'[q] = "remove"
        /\ UNCHANGED <<lists, data, kids, doc, resList, cursor, removeIds>>
    BY DEF Attached, IInv, TypeOK
  <1>3. Solo(q) /\ alone[q] /\ Undisturbed(q)'
    BY <1>1, <1>2, OwnUndisturbed DEF Step
  <1>4. AttachesAlone(q)
    BY <1>2, <1>3 DEF Solo
  <1>5. /\ m \in Nat /\ m >= 1 /\ cursor[q] = m /\ s = m - 1 /\ List(q).size = m
        /\ \A i \in 1..m : List(q).elems[i] = <<q, i>>
        /\ \A i \in 1..s : removeIds[q][i] = <<q, i + 1>>
    <2>1. m \in Nat /\ m >= 1
      BY <1>4, DocumentFacts DEF AttachesAlone
    <2>2. /\ List(q).size = m /\ cursor[q] = m
          /\ \A i \in 1..m : List(q).elems[i] = <<q, i>>
          /\ s = IF cursor[q] = 0 THEN 0 ELSE cursor[q] - 1
          /\ \A i \in 1..s : removeIds[q][i] = <<q, i + 1>>
      BY <1>2, <1>4 DEF AttachesAlone, List, HasFirst
    <2> HIDE DEF m, s
    <2>3. QED
      BY <2>1, <2>2
  <1>6. doc[q] \in Documents /\ doc[q] # Malformed /\ resList[q] = data /\ data # None
        /\ HungUpTo(kids, q, doc[q], m)
    <2>1. data # None
      BY <1>2, ListsGood, XmlAssumption DEF TypeOK
    <2>2. QED
      BY <1>4, <1>5, <2>1, XmlAssumption DEF AttachesAlone
  <1> HIDE DEF m, s
  <1>7. s < m /\ List(q).size = s + 1 /\ List(q).elems[1] = <<q, 1>>
    BY <1>5
  <1>8. ASSUME NEW i \in 1..s
        PROVE  removeIds[q][i] = <<q, m - s + i>> /\ List(q).elems[i + 1] = removeIds[q][i]
    <2>1. i + 1 \in 1..m /\ m - s + i = i + 1
      BY <1>5
    <2>2. QED
      BY <1>5, <2>1
  <1>9. RemovesAlone(q)
    BY <1>6, <1>7, <1>8 DEF RemovesAlone, m, s
  <1>10. RemovesAlone(q)'
    BY <1>2, <1>9 DEF RemovesAlone, List
  <1>11. QED
    BY <1>2, <1>3, <1>6, <1>10 DEF Solo

\* Behind the root stands the element that is to be removed next.
LEMMA RemovedNext ==
  ASSUME IInv, NEW q \in Parses, Remove(q), RemovesAlone(q)
  PROVE  /\ List(q) \in GoodLists /\ 2 \in 1..List(q).size
         /\ removeIds'[q] = Tail(removeIds[q])
         /\ lists' = [lists EXCEPT ![resList[q]] = Without(List(q), 2)]
  <1> DEFINE r == removeIds[q]
             s == Len(r)
             m == Len(doc[q])
             e == List(q).elems
             found == {i \in 1..List(q).size : e[i] = Head(r)}
  <1>1. /\ r # <<>> /\ r \in Seq(Nodes) /\ resList[q] \in 1..Len(lists) /\ TypeOK
        /\ removeIds'[q] = Tail(r)
    BY DEF IInv, TypeOK, Remove, Taken
  <1>2. List(q) \in GoodLists
    BY <1>1, ListsGood DEF List
  <1>3. s \in Nat /\ s >= 1 /\ Head(r) = r[1]
    BY <1>1, LenProperties, EmptySeq, HeadTailProperties
  <1>4. /\ m \in Nat /\ s < m /\ List(q).size = s + 1 /\ e[1] = <<q, 1>>
        /\ \A i \in 1..s : e[i + 1] = <<q, m - s + i>>
        /\ Head(r) = <<q, m - s + 1>>
    <2>1. m \in Nat
      BY DocumentFacts DEF RemovesAlone
    <2>2. /\ s < m /\ List(q).size = s + 1 /\ e[1] = <<q, 1>>
          /\ \A i \in 1..s : r[i] = <<q, m - s + i>> /\ e[i + 1] = r[i]
      BY DEF RemovesAlone
    <2> HIDE DEF s, m, e, r
    <2>3. 1 \in 1..s
      BY <1>3
    <2>4. QED
      BY <1>3, <2>1, <2>2, <2>3
  <1>5. found = {2}
    <2> HIDE DEF s, m, e, r
    <2>1. ASSUME NEW i \in 1..List(q).size PROVE e[i] = Head(r) <=> i = 2
      <3>1. CASE i = 1
        <4>1. m - s + 1 # 1
          BY <1>3, <1>4
        <4>2. QED
          BY <1>4, <3>1, <4>1
      <3>2. CASE i # 1
        <4> DEFINE k == i - 1
        <4>1. k \in 1..s /\ i = k + 1
          BY <1>3, <1>4, <3>2
        <4>2. e[i] = <<q, m - s + k>>
          BY <1>4, <4>1
        <4>3. m - s + k = m - s + 1 <=> k = 1
          BY <1>3, <1>4, <4>1
        <4>4. k = 1 <=> i = 2
          BY <4>1
        <4> HIDE DEF k
        <4>5. QED
          BY <1>4, <4>2, <4>3, <4>4
      <3>3. QED
        BY <3>1, <3>2
    <2>2. 2 \in 1..List(q).size
      BY <1>3, <1>4
    <2>3. QED
      BY <2>1, <2>2
  <1>6. 2 \in 1..List(q).size
    BY <1>3, <1>4
  <1>7. lists' = [lists EXCEPT ![resList[q]] = Without(List(q), 2)]
    <2>1. \E i \in found : /\ \A j \in found : i <= j
                           /\ lists' = [lists EXCEPT ![resList[q]] = Without(@, i)]
      BY <1>5 DEF Remove
    <2> HIDE DEF found
    <2>2. lists' = [lists EXCEPT ![resList[q]] = Without(lists[resList[q]], 2)]
      BY <1>5, <2>1
    <2>3. QED
      BY <2>2 DEF List
  <1>8. QED
    BY <1>1, <1>2, <1>6, <1>7

LEMMA RemoveSolo ==
  ASSUME IInv, AInv, NEW q \in Parses, Remove(q)
  PROVE  Solo(q)'
  <1>1. SUFFICES ASSUME alone'[q] PROVE Solo(q)'
    BY DEF Solo
  <1> DEFINE r == removeIds[q]
             t == removeIds'[q]
             s == Len(r)
             m == Len(doc[q])
             l == List(q)
             x == Without(l, 2)
  <1>2. /\ pc[q] = "remove" /\ r # <<>> /\ r \in Seq(Nodes) /\ TypeOK
        /\ resList[q] \in 1..Len(lists) /\ lists \in Seq(ArrayLists)
        /\ UNCHANGED <<kids, pc, doc, resList>>
    BY DEF Remove, IInv, Taken, TypeOK
  <1>3. Solo(q) /\ alone[q] /\ Undisturbed(q)'
    BY <1>1, <1>2, OwnUndisturbed DEF Step
  <1>4. RemovesAlone(q) /\ doc[q] # Malformed
    BY <1>2, <1>3 DEF Solo
  <1>5. l \in GoodLists /\ 2 \in 1..l.size /\ t = Tail(r)
        /\ lists' = [lists EXCEPT ![resList[q]] = x]
    BY <1>4, RemovedNext
  <1>6. s \in Nat /\ s >= 1 /\ Len(t) = s - 1 /\ \A i \in 1..(s - 1) : t[i] = r[i + 1]
    BY <1>2, <1>5, LenProperties, EmptySeq, HeadTailProperties
  <1>7. /\ m \in Nat /\ s < m /\ l.size = s + 1 /\ l.elems[1] = <<q, 1>>
        /\ \A i \in 1..s : r[i] = <<q, m - s + i>> /\ l.elems[i + 1] = r[i]
        /\ doc[q] \in Documents /\ resList[q] # None /\ HungUpTo(kids, q, doc[q], m)
    BY <1>4, DocumentFacts DEF RemovesAlone
  <1> HIDE DEF r, t, s, m, l
  <1>8. /\ x.size = l.size - 1
        /\ \A j \in 1..(l.size - 1) : x.elems[j] = IF j < 2 THEN l.elems[j] ELSE l.elems[j + 1]
    BY <1>5, WithoutElements
  <1>9. List(q)' = x
    <2> HIDE DEF x
    <2>1. QED
      BY <1>2, <1>5 DEF List
  <1> HIDE DEF x
  <1>10. Len(t) < m /\ x.size = Len(t) + 1 /\ x.elems[1] = <<q, 1>>
    <2>1. 1 \in 1..(l.size - 1) /\ l.size - 1 = s
      BY <1>6, <1>7
    <2>2. x.elems[1] = l.elems[1]
      BY <1>8, <2>1
    <2>3. QED
      BY <1>6, <1>7, <1>8, <2>1, <2>2
  <1>11. ASSUME NEW i \in 1..Len(t)
         PROVE  t[i] = <<q, m - Len(t) + i>> /\ x.elems[i + 1] = t[i]
    <2>1. /\ i \in 1..(s - 1) /\ i + 1 \in 1..s /\ i + 1 \in 1..(l.size - 1) /\ ~(i + 1 < 2)
          /\ m - Len(t) + i = m - s + (i + 1)
      BY <1>6, <1>7
    <2>2. t[i] = r[i + 1] /\ r[i + 1] = <<q, m - s + (i + 1)>>
      BY <1>6, <1>7, <2>1
    <2>3. x.elems[i + 1] = l.elems[(i + 1) + 1] /\ l.elems[(i + 1) + 1] = r[i + 1]
      BY <1>7, <1>8, <2>1
    <2>4. QED
      BY <2>1, <2>2, <2>3
  <1>12. RemovesAlone(q)'
    BY <1>2, <1>7, <1>9, <1>10, <1>11 DEF RemovesAlone, m, t
  <1>13. QED
    BY <1>2, <1>3, <1>4, <1>12 DEF Solo

LEMMA SetDataSolo ==
  ASSUME IInv, AInv, NEW q \in Parses, SetData(q)
  PROVE  Solo(q)'
  <1>1. SUFFICES ASSUME alone'[q] PROVE Solo(q)'
    BY DEF Solo
  <1>2. /\ pc[q] = "remove" /\ removeIds[q] = <<>> /\ TypeOK /\ pc'[q] = "answer"
        /\ lists' = Append(lists, Fresh)
        /\ UNCHANGED <<kids, doc, resList, removeIds>>
    BY DEF SetData, NewData, IInv, TypeOK
  <1>3. Solo(q) /\ alone[q] /\ Undisturbed(q)'
    BY <1>1, <1>2, OwnUndisturbed DEF Step
  <1>4. CASE doc[q] = Malformed
    BY <1>2, <1>3, <1>4 DEF Solo
  <1>5. CASE doc[q] # Malformed
    <2>1. RemovesAlone(q)
      BY <1>2, <1>3, <1>5 DEF Solo
    <2>2. resList[q] \in 1..Len(lists) /\ lists \in Seq(ArrayLists) /\ Fresh \in ArrayLists
      BY <1>2, <2>1, FreshGood DEF RemovesAlone, TypeOK, GoodLists
    <2>3. lists'[resList'[q]] = lists[resList[q]]
      BY <1>2, <2>2, AppendProperties
    <2>4. Len(removeIds[q]) = 0
      BY <1>2, EmptySeq
    <2>5. /\ List(q).size = 1 /\ List(q).elems[1] = <<q, 1>> /\ doc[q] \in Documents
          /\ resList[q] # None /\ HungUpTo(kids, q, doc[q], Len(doc[q]))
      BY <2>1, <2>4 DEF RemovesAlone
    <2>6. AnswersAlone(q)'
      BY <1>2, <2>3, <2>5 DEF AnswersAlone, List
    <2>7. QED
      BY <1>2, <1>3, <1>5, <2>6 DEF Solo
  <1>6. QED
    BY <1>4, <1>5

LEMMA AnswerSolo ==
  ASSUME IInv, AInv, NEW q \in Parses, Answer(q)
  PROVE  Solo(q)'
  <1>1. SUFFICES ASSUME alone'[q] PROVE Solo(q)'
    BY DEF Solo
  <1>2. /\ pc[q] = "answer" /\ TypeOK /\ pc'[q] = "done"
        /\ answer'[q] = IF resList[q] = None THEN None
                        ELSE [roots |-> Elements(List(q)), kids |-> kids]
        /\ UNCHANGED <<doc, resList, removeIds>>
    BY DEF Answer, IInv, TypeOK
  <1>3. Solo(q) /\ alone[q] /\ Undisturbed(q)'
    BY <1>1, <1>2, OwnUndisturbed DEF Step
  <1>4. CASE doc[q] = Malformed
    BY <1>2, <1>3, <1>4 DEF Solo
  <1>5. CASE doc[q] # Malformed
    <2>1. AnswersAlone(q)
      BY <1>2, <1>3, <1>5 DEF Solo
    <2> DEFINE l == List(q)
    <2>2. l \in GoodLists /\ l.size = 1 /\ l.elems[1] = <<q, 1>>
      BY <1>2, <2>1, ListsGood DEF AnswersAlone, List, TypeOK
    <2>3. l.elems \in Seq(Elems) /\ Len(l.elems) \in Nat /\ 1 <= Len(l.elems)
      BY <2>2, LenProperties DEF GoodLists, ArrayLists, Elems
    <2> HIDE DEF l
    <2>4. Elements(l) = << <<q, 1>> >>
      <3> DEFINE e == SubSeq(l.elems, 1, 1)
      <3>1. \A i \in 1..1 : l.elems[i] \in Elems
        BY <2>3, ElementOfSeq
      <3>2. e \in Seq(Elems) /\ Len(e) = 1 /\ e[1] = <<q, 1>>
        <4>1. /\ e \in Seq(Elems) /\ Len(e) = (IF 1 <= 1 THEN 1 - 1 + 1 ELSE 0)
              /\ \A i \in 1..(1 - 1 + 1) : e[i] = l.elems[1 + i - 1]
          BY <3>1, SubSeqProperties
        <4> HIDE DEF e
        <4>2. QED
          BY <2>2, <4>1
      <3> HIDE DEF e
      <3>3. e = << <<q, 1>> >>
        <4> DEFINE r == << <<q, 1>> >>
        <4>1. r \in Seq({<<q, 1>>}) /\ Len(r) = 1 /\ r[1] = <<q, 1>>
          OBVIOUS
        <4> HIDE DEF r
        <4>2. e \in [1..1 -> Elems]
          BY <3>2, SeqDef, LenProperties
        <4>3. r \in [1..1 -> {<<q, 1>>}]
          BY <4>1, SeqDef, LenProperties
        <4>4. e = [i \in 1..1 |-> e[i]] /\ r = [i \in 1..1 |-> r[i]]
          BY <4>2, <4>3
        <4>5. \A i \in 1..1 : e[i] = r[i]
          BY <3>2, <4>1
        <4>6. e = r
          BY <4>4, <4>5
        <4>7. QED
          BY <4>6 DEF r
      <3>4. QED
        BY <2>2, <3>3 DEF Elements, e
    <2>5. answer'[q] = [roots |-> << <<q, 1>> >>, kids |-> kids]
      BY <1>2, <2>1, <2>4 DEF AnswersAlone, l
    <2>6. Answered(q)'
      BY <1>2, <2>1, <2>5 DEF AnswersAlone, Answered
    <2>7. QED
      BY <1>2, <1>3, <1>5, <2>6 DEF Solo
  <1>6. QED
    BY <1>4, <1>5

-----------------------------------------------------------------------------
LEMMA InitAInv == ASSUME Init PROVE AInv
  <1>1. AllBegun
    <2>1. IInv /\ Len(lists) = 1
      BY InitIInv DEF Init
    <2>2. lists[1] = Fresh
      BY DEF Init
    <2>3. Begun(Fresh, pc)
      BY FreshGood DEF Begun
    <2>4. QED
      BY <2>1, <2>2, <2>3 DEF AllBegun
  <1>2. ASSUME NEW q \in Parses PROVE Untouched(q) /\ Solo(q)
    BY DEF Init, Untouched, Solo, Nodes
  <1>3. QED
    BY <1>1, <1>2 DEF AInv

LEMMA NextAInv == ASSUME IInv, AInv, [Next]_vars PROVE AInv'
  <1>1. ASSUME NEW q \in Parses, Step(q) PROVE AInv'
    <2>1. AllBegun'
      BY <1>1, BegunStep DEF AInv
    <2>2. Solo(q)'
      <3>1. ASSUME NEW d \in Documents \cup {Malformed}, Start(q, d) PROVE Solo(q)'
        BY <3>1, StartSolo
      <3>2. CASE AddRead(q) \/ AddPublish(q) \/ AddStore(q) \/ AddAstray(q)
        BY <3>2, AddReadSolo, AddPublishSolo, AddStoreSolo, AddAstraySolo
      <3>3. CASE Walked(q) \/ Attach(q) \/ AttachFails(q) \/ Attached(q)
        BY <3>3, WalkedSolo, AttachSolo, AttachFailsSolo, AttachedSolo
      <3>4. CASE Remove(q) \/ SetData(q) \/ Answer(q)
        BY <3>4, RemoveSolo, SetDataSolo, AnswerSolo
      <3>5. QED
        BY <1>1, <3>1, <3>2, <3>3, <3>4 DEF Step
    <2>3. ASSUME NEW r \in Parses PROVE Untouched(r)' /\ Solo(r)'
      BY <1>1, <2>2, UntouchedStep, OthersSolo
    <2>4. QED
      BY <2>1, <2>3 DEF AInv
  <1>2. ASSUME UNCHANGED vars PROVE AInv'
    <2>1. AllBegun' /\ UNCHANGED Active
      BY <1>2 DEF vars, AInv, AllBegun, Active
    <2>2. ASSUME NEW q \in Parses PROVE Untouched(q)' /\ Solo(q)'
      <3>1. Untouched(q) /\ Solo(q) /\ UNCHANGED vars
        BY <1>2 DEF AInv
      <3>2. Untouched(q)'
        BY <3>1 DEF vars, Untouched
      <3>3. /\ UNCHANGED Undisturbed(q) /\ UNCHANGED WalksAlone(q)
            /\ UNCHANGED AttachesAlone(q) /\ UNCHANGED Answered(q)
        BY <2>1, <3>1 DEF vars, Undisturbed, WalksAlone, AttachesAlone, Answered
      <3>4. UNCHANGED RemovesAlone(q) /\ UNCHANGED AnswersAlone(q)
        BY <3>1 DEF vars, RemovesAlone, AnswersAlone, List
      <3>5. QED
        BY <3>1, <3>2, <3>3, <3>4 DEF vars, Solo
    <2>3. QED
      BY <2>1, <2>2 DEF AInv
  <1>3. QED
    BY <1>1, <1>2 DEF Next

\* A parse beside which no other runs, and before which none has failed since the
\* list was last renewed, answers with the tree of its own document and does not
\* fail, whatever has raced before (XmlFormat.parseMessage2Tree, XmlUtil).
THEOREM AloneIsRightHolds == Spec => []AloneIsRight
  <1>1. AInv => AloneIsRight
    BY DEF AInv, Solo, Answered, HungUpTo, AloneIsRight
  <1>2. Init => AInv
    BY InitAInv
  <1>3. IInv /\ AInv /\ [Next]_vars => AInv'
    BY NextAInv
  <1>4. QED
    BY <1>1, <1>2, <1>3, Inductive, PTL DEF Spec
=============================================================================
