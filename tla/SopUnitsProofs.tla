-------------------------- MODULE SopUnitsProofs ---------------------------
(***************************************************************************)
(* Theorems about SopUnits, for every message and every choice of the      *)
(* marks and of the greatest length.                                       *)
(***************************************************************************)
EXTENDS SopUnits, SequenceTheorems, FiniteSetTheorems, TLAPS

UnitRecord == [kind : Kinds, val : Seq(Nat), parent : Nat]

\* The ids the reader carries along are those of units of the right kind, and
\* there is no form left when no line is.
Carried ==
  /\ form # 0 => units[form].kind = "form"
  /\ form = 0 => lines = 0
  /\ record # 0 => units[record].kind = "record"
  /\ obj # 0 => units[obj].kind = "object"
  /\ over # 0 => Oversize(over)

IInv == TypeOK /\ Carried /\ WellPlaced

(* WellPlaced for any list of units.                                       *)

KindIn(q, k) == IF k = 0 THEN "business data" ELSE q[k].kind

OversizeIn(q, k) == k > 0 /\ KindIn(q, k) = "data" /\ Len(q[k].val) = Chunk

HoldsData(q, p) ==
  KindIn(q, p) \in {"business data", "object", "record"} \/ OversizeIn(q, p)

\* The unit x may hang below the unit p of q.
MayHang(q, x, p) ==
  /\ x.kind \in {"line", "column", "record"} => KindIn(q, p) = "form"
  /\ x.kind = "object" => p = 0
  /\ x.kind = "form" => KindIn(q, p) \in {"business data", "object"}
  /\ x.kind = "data" => HoldsData(q, p)

AllPlaced(q) ==
  /\ q \in Seq(UnitRecord)
  /\ \A k \in 1..Len(q) : q[k].parent < k /\ MayHang(q, q[k], q[k].parent)

-----------------------------------------------------------------------------
(* The grid of a form.                                                     *)

RecordsIn(q, f) == {r \in 1..Len(q) : q[r].kind = "record" /\ q[r].parent = f}
CellsIn(q, r) == {k \in 1..Len(q) : q[k].parent = r}
FormsIn(q) == {k \in 1..Len(q) : q[k].kind = "form"}

LinesOf(q, f) == Largest(q[f + 1].val[1], 1)
ColumnsOf(q, f) == Largest(q[f + 2].val[1], 1)

Full(q, f) ==
  /\ Cardinality(RecordsIn(q, f)) = LinesOf(q, f)
  /\ \A r \in RecordsIn(q, f) : Cardinality(CellsIn(q, r)) = ColumnsOf(q, f)

\* What FormIsGrid says of one form.
Grid(q, f) ==
  /\ Cardinality(RecordsIn(q, f)) <= LinesOf(q, f)
  /\ \A r, s \in RecordsIn(q, f) : r < s => Cardinality(CellsIn(q, r)) = ColumnsOf(q, f)
  /\ \A k \in f + 3..Len(q) :
       /\ q[k].kind = "data" /\ q[k].parent \notin RecordsIn(q, f)
       /\ \A j \in f + 1..k : q[j].kind \notin {"form", "object"}
       => Full(q, f)

\* The form being filled: the countdowns are what is missing of the record and
\* of the grid, all data behind the form is in it, and every record but the one
\* being filled, the last, is complete.
Filling(q, f, rec, ln, lf, co) ==
  /\ co = q[f + 2].val[1]
  /\ \A k \in f + 3..Len(q) : q[k].kind = "data" => q[k].parent \in RecordsIn(q, f)
  /\ \A r \in RecordsIn(q, f) : r # rec => Cardinality(CellsIn(q, r)) = ColumnsOf(q, f)
  /\ rec = 0 =>
       lf = co /\ Cardinality(RecordsIn(q, f)) + Largest(ln, 1) = LinesOf(q, f)
  /\ rec # 0 =>
       /\ rec \in RecordsIn(q, f) /\ \A r \in RecordsIn(q, f) : r <= rec
       /\ Cardinality(CellsIn(q, rec)) + Largest(lf, 1) = ColumnsOf(q, f)
       /\ Cardinality(RecordsIn(q, f)) - 1 + Largest(ln, 1) = LinesOf(q, f)

\* A form behind which the reader is: it is full, or a form or an object came
\* before it was.
Behind(q, f) ==
  Full(q, f) \/ \E j \in f + 1..Len(q) : q[j].kind \in {"form", "object"}

NoneOversize(q) == \A k \in 1..Len(q) : ~OversizeIn(q, k)

GridsIn(q, fm, rec, ln, lf, co) ==
  \A f \in FormsIn(q) :
    /\ Grid(q, f)
    /\ f = fm => Filling(q, f, rec, ln, lf, co)
    /\ f # fm => Behind(q, f)

\* The numbers of a form follow it in the list; the record being filled is one
\* of the form being filled.
Shapes(q, fm, rec) ==
  /\ \A f \in FormsIn(q) : f + 2 <= Len(q) /\ q[f + 1].val[1] \in Nat /\ q[f + 2].val[1] \in Nat
  /\ rec # 0 => fm # 0 /\ rec \in RecordsIn(q, fm)

GridInv ==
  /\ Shapes(units, form, record)
  /\ NoneOversize(units) => GridsIn(units, form, record, lines, left, columns)

-----------------------------------------------------------------------------
(* Where in the tree the next unit is written: the list is not in the      *)
(* order in which the tree is written, because the continued last unit of  *)
(* a record opens the next record before its continuation is read.         *)

\* Nothing is written for s, nor below it.
Quiet(q, s) == q[s].kind = "record" /\ \A k \in 1..Len(q) : q[k].parent # s

\* Nothing is written behind c by the later children of its parent.
Trailing(q, c) ==
  \A s \in 1..Len(q) : c < s /\ q[s].parent = q[c].parent => Quiet(q, s)

\* C is the path from the root to p, and p is what is written last: a child of p
\* is written behind everything else.
Chain(q, C, p) ==
  /\ C \in SUBSET (0..p) /\ 0 \in C /\ p \in C /\ p <= Len(q)
  /\ \A c \in C \ {0} : q[c].parent \in C /\ Trailing(q, c)
  /\ \A c, d \in C \ {0} : q[c].parent = q[d].parent => c = d
  /\ \A c \in C \ {p} : \E d \in C \ {0} : q[d].parent = c

\* The object, the form, the record and the continued unit of the reader are
\* each at the end of what is written.
Chained(q, ob, fm, rec, ov) ==
  /\ Chain(q, {0, ob}, ob)
  /\ fm # 0 => q[fm].parent = ob /\ Chain(q, {0, ob, fm}, fm)
  /\ rec # 0 => fm # 0 /\ q[rec].parent = fm /\ Chain(q, {0, ob, fm, rec}, rec)
  /\ ov # 0 => \E C \in SUBSET (0..ov) : Chain(q, C, ov)

ChainInv == Chained(units, obj, form, record, over)

\* The equation of WrittenBelow.
IsBelow(q, F) ==
  F = [p \in 0..Len(q) |->
        [k \in 0..Len(q) |->
          IF k = 0 THEN <<>>
          ELSE IF ChildOf(q, p, k)
               THEN F[p][k - 1] \o Written(q[k]) \o F[k][Len(q)]
               ELSE F[p][k - 1]]]

\* The tree of q writes the bytes b.
Writes(q, b) ==
  \E F \in [0..Len(q) -> [0..Len(q) -> Seq(Nat)]] : IsBelow(q, F) /\ F[0][Len(q)] = b

\* What has been read is what the tree writes.
WrittenInv ==
  \E b \in Seq(Nat) :
    /\ Writes(units, b)
    /\ (\A k \in 1..Len(msg) : msg[k] # LongMark) => b = SubSeq(msg, 1, pos - 1)

-----------------------------------------------------------------------------
(* Lemmas                                                                  *)

\* What Append does to a list.
LEMMA AppendFacts ==
  ASSUME NEW R, NEW q \in Seq(R), NEW x \in R
  PROVE  /\ Append(q, x) \in Seq(R)
         /\ Len(Append(q, x)) = Len(q) + 1
         /\ Len(q) \in Nat
         /\ \A k \in 1..Len(q) : Append(q, x)[k] = q[k]
         /\ Append(q, x)[Len(q) + 1] = x
  OBVIOUS

\* The unit the reader looks at.
LEMMA UnitFacts ==
  ASSUME TypeOK, HasUnit, Fits
  PROVE  /\ Size \in Nat /\ Len(msg) \in Nat /\ pos \in Nat
         /\ Content \in Seq(Nat) /\ Len(Content) = Size
         /\ After \in 1..Len(msg) + 1
         /\ Size + 3 <= Rest =>
              After + 2 \in 1..Len(msg) + 1 /\ msg[After] \in Nat /\ msg[After + 1] \in Nat
  <1>1. msg \in Seq(Nat) /\ Len(msg) \in Nat /\ pos \in 1..Len(msg) + 1
    BY DEF TypeOK
  <1>2. pos \in 1..Len(msg)
    BY <1>1 DEF HasUnit, Rest
  <1>3. msg[pos] \in Nat
    BY <1>1, <1>2
  <1>4. Size \in Nat
    BY <1>3, UnitAssumption DEF Size
  <1>5. pos + Size <= Len(msg)
    BY <1>1, <1>2, <1>4 DEF Fits, Rest
  <1>6. Content \in Seq(Nat) /\ Len(Content) = Size
    <2>1. \A k \in pos + 1..pos + Size : k \in 1..Len(msg)
      BY <1>1, <1>2, <1>4, <1>5
    <2>2. CASE Size = 0
      BY <1>1, <1>2, <1>4, <2>2, SubSeqProperties DEF Content
    <2>3. CASE Size # 0
      BY <1>1, <1>2, <1>4, <1>5, <2>1, <2>3, SubSeqProperties DEF Content
    <2>4. QED
      BY <2>2, <2>3
  <1>7. After \in 1..Len(msg) + 1
    BY <1>1, <1>2, <1>4, <1>5 DEF After
  <1>8. ASSUME Size + 3 <= Rest
        PROVE  After + 2 \in 1..Len(msg) + 1 /\ msg[After] \in Nat /\ msg[After + 1] \in Nat
    <2>1. After \in 1..Len(msg) /\ After + 1 \in 1..Len(msg)
      BY <1>1, <1>2, <1>4, <1>8 DEF After, Rest
    <2>2. QED
      BY <1>1, <2>1
  <1>9. QED
    BY <1>1, <1>4, <1>6, <1>7, <1>8

\* WellPlaced says that all units of the list are placed.
LEMMA PlacedUnits ==
  ASSUME units \in Seq(UnitRecord)
  PROVE  WellPlaced <=> AllPlaced(units)
  BY DEF WellPlaced, AllPlaced, MayHang, HoldsData, KindIn, OversizeIn, KindOf, Oversize

\* Units that are placed are a list of units.
LEMMA PlacedList ==
  ASSUME NEW q, AllPlaced(q)
  PROVE  q \in Seq(UnitRecord) /\ Len(q) \in Nat
  BY DEF AllPlaced

\* PlacedUnits, of the next state.
LEMMA PlacedAfter ==
  ASSUME AllPlaced(units')
  PROVE  WellPlaced'
  BY DEF WellPlaced, AllPlaced, MayHang, HoldsData, KindIn, OversizeIn, KindOf, Oversize

\* A list with one more unit that hangs where a unit of its kind may; the units
\* before it stay what they were.
LEMMA AddUnit ==
  ASSUME NEW q, AllPlaced(q), NEW x \in UnitRecord,
         x.parent \in 0..Len(q), MayHang(q, x, x.parent)
  PROVE  /\ AllPlaced(Append(q, x))
         /\ Len(q) \in Nat /\ Len(Append(q, x)) = Len(q) + 1
         /\ Append(q, x)[Len(q) + 1] = x
         /\ \A k \in 1..Len(q) : Append(q, x)[k] = q[k]
  <1> DEFINE r == Append(q, x)
  <1>1. q \in Seq(UnitRecord) /\ Len(q) \in Nat
    BY DEF AllPlaced
  <1>2. /\ r \in Seq(UnitRecord) /\ Len(r) = Len(q) + 1
        /\ \A k \in 1..Len(q) : r[k] = q[k]
        /\ r[Len(q) + 1] = x
    BY <1>1, AppendFacts
  <1>3. \A p \in 0..Len(q) : KindIn(r, p) = KindIn(q, p) /\ (OversizeIn(r, p) <=> OversizeIn(q, p))
    <2>1. SUFFICES ASSUME NEW p \in 0..Len(q)
                   PROVE  KindIn(r, p) = KindIn(q, p) /\ (OversizeIn(r, p) <=> OversizeIn(q, p))
      OBVIOUS
    <2>2. CASE p = 0
      BY <2>2 DEF KindIn, OversizeIn
    <2>3. CASE p # 0
      <3>1. p \in 1..Len(q)
        BY <1>1, <2>1, <2>3
      <3>2. r[p] = q[p]
        BY <1>2, <3>1
      <3>3. QED
        BY <3>2 DEF KindIn, OversizeIn
    <2>4. QED
      BY <2>2, <2>3
  <1>4. ASSUME NEW k \in 1..Len(r)
        PROVE  r[k].parent < k /\ MayHang(r, r[k], r[k].parent)
    <2>1. CASE k = Len(q) + 1
      <3>1. r[k] = x /\ x.parent < k
        BY <1>1, <1>2, <2>1
      <3>2. MayHang(r, x, x.parent)
        BY <1>3 DEF MayHang, HoldsData
      <3>3. QED
        BY <3>1, <3>2
    <2>2. CASE k \in 1..Len(q)
      <3>1. r[k] = q[k] /\ q[k] \in UnitRecord
        BY <1>1, <1>2, <2>2
      <3>2. q[k].parent < k /\ MayHang(q, q[k], q[k].parent) /\ q[k].parent \in Nat
        BY <2>2, <3>1 DEF AllPlaced, UnitRecord
      <3>3. q[k].parent \in 0..Len(q)
        BY <1>1, <2>2, <3>2
      <3>4. QED
        BY <1>3, <3>1, <3>2, <3>3 DEF MayHang, HoldsData
    <2>3. QED
      BY <1>1, <1>2, <2>1, <2>2
  <1>5. QED
    BY <1>1, <1>2, <1>4 DEF AllPlaced

-----------------------------------------------------------------------------
(* The initial state and the steps.                                        *)

LEMMA InitStep == Init => IInv
  <1> SUFFICES ASSUME Init PROVE IInv
    OBVIOUS
  <1>1. msg \in Seq(Nat) /\ Len(msg) \in Nat
    BY UnitAssumption DEF Init
  <1>2. units = <<>> /\ Len(units) = 0 /\ units \in Seq(UnitRecord)
    BY DEF Init
  <1>3. TypeOK
    BY <1>1, <1>2 DEF Init, TypeOK, UnitRecord
  <1>4. Carried /\ WellPlaced
    BY <1>2 DEF Init, Carried, WellPlaced
  <1>5. QED
    BY <1>3, <1>4 DEF IInv

\* Steps that read no unit.
LEMMA StopStep ==
  ASSUME IInv, Finish \/ Throw
  PROVE  IInv'
  BY DEF IInv, TypeOK, Carried, WellPlaced, KindOf, Oversize, Finish, Throw, Plain

\* The fields of a unit.
LEMMA UnitFields ==
  ASSUME NEW k \in Kinds, NEW v \in Seq(Nat), NEW p \in Nat
  PROVE  /\ Unit(k, v, p) \in UnitRecord
         /\ Unit(k, v, p).kind = k /\ Unit(k, v, p).val = v /\ Unit(k, v, p).parent = p
  BY DEF Unit, UnitRecord

LEMMA ReadObjectStep ==
  ASSUME IInv, ReadObject
  PROVE  IInv'
  <1> DEFINE x == Unit("object", Content, 0)
  <1>1. units \in Seq(UnitRecord) /\ AllPlaced(units) /\ Len(units) \in Nat
    BY PlacedUnits DEF IInv, TypeOK, UnitRecord
  <1>2. Content \in Seq(Nat) /\ After \in 1..Len(msg) + 1
    BY UnitFacts DEF IInv, ReadObject
  <1>3. x \in UnitRecord /\ x.parent = 0 /\ x.kind = "object"
    BY <1>2, UnitFields DEF Kinds
  <1>4. units' = Append(units, x)
    BY DEF ReadObject
  <1> HIDE DEF x
  <1>5. MayHang(units, x, x.parent) /\ x.parent \in 0..Len(units)
    BY <1>1, <1>3 DEF MayHang
  <1>6. /\ AllPlaced(units') /\ Len(units') = Len(units) + 1
        /\ units'[Len(units) + 1] = x
    BY <1>1, <1>3, <1>4, <1>5, AddUnit
  <1>7. /\ obj' = Len(units) + 1 /\ over' = 0 /\ form' = 0 /\ record' = 0 /\ lines' = 0
        /\ left' = 0 /\ columns' = 0 /\ pos' = After /\ msg' = msg /\ pc' = pc
    BY DEF ReadObject, OutOfForm
  <1>8. units' \in Seq(UnitRecord)
    BY <1>6 DEF AllPlaced
  <1>9. TypeOK'
    BY <1>1, <1>2, <1>6, <1>7, <1>8 DEF IInv, TypeOK, UnitRecord
  <1>10. Carried'
    BY <1>3, <1>6, <1>7 DEF Carried
  <1>11. WellPlaced'
    BY <1>6, <1>8, PlacedAfter
  <1>12. QED
    BY <1>9, <1>10, <1>11 DEF IInv

LEMMA ReadFormStep ==
  ASSUME IInv, ReadForm
  PROVE  IInv'
  <1> DEFINE f == Len(units) + 1
             x1 == Unit("form", Content, obj)
             x2 == Unit("line", <<msg[After]>>, f)
             x3 == Unit("column", <<msg[After + 1]>>, f)
             q1 == Append(units, x1)
             q2 == Append(q1, x2)
             q3 == Append(q2, x3)
  <1>1. units \in Seq(UnitRecord) /\ AllPlaced(units) /\ Len(units) \in Nat
    BY PlacedUnits DEF IInv, TypeOK, UnitRecord
  <1>2. /\ Content \in Seq(Nat) /\ After + 2 \in 1..Len(msg) + 1
        /\ msg[After] \in Nat /\ msg[After + 1] \in Nat
    BY UnitFacts DEF IInv, ReadForm
  <1>3. obj \in Nat /\ obj \in 0..Len(units) /\ f \in Nat
    BY <1>1 DEF IInv, TypeOK
  <1>4. x1 \in UnitRecord /\ x1.kind = "form" /\ x1.parent = obj
    BY <1>2, <1>3, UnitFields DEF Kinds
  <1>5. x2 \in UnitRecord /\ x2.kind = "line" /\ x2.parent = f
    <2> DEFINE v == <<msg[After]>>
    <2>1. v \in Seq(Nat)
      BY <1>2
    <2> HIDE DEF v
    <2>2. /\ Unit("line", v, f) \in UnitRecord
          /\ Unit("line", v, f).kind = "line" /\ Unit("line", v, f).parent = f
      BY <1>3, <2>1, UnitFields DEF Kinds
    <2>3. QED
      BY <2>2 DEF v
  <1>6. x3 \in UnitRecord /\ x3.kind = "column" /\ x3.parent = f
    <2> DEFINE v == <<msg[After + 1]>>
    <2>1. v \in Seq(Nat)
      BY <1>2
    <2> HIDE DEF v
    <2>2. /\ Unit("column", v, f) \in UnitRecord
          /\ Unit("column", v, f).kind = "column" /\ Unit("column", v, f).parent = f
      BY <1>3, <2>1, UnitFields DEF Kinds
    <2>3. QED
      BY <2>2 DEF v
  <1>7. units' = q3
    BY DEF ReadForm
  <1>8. /\ obj' = obj /\ over' = 0 /\ form' = f /\ record' = 0 /\ lines' = msg[After]
        /\ left' = msg[After + 1] /\ columns' = msg[After + 1]
        /\ pos' = After + 2 /\ msg' = msg /\ pc' = pc
    BY DEF ReadForm
  <1> HIDE DEF x1, x2, x3
  <1>9. MayHang(units, x1, x1.parent)
    BY <1>4 DEF MayHang, KindIn, IInv, Carried
  <1>10. /\ AllPlaced(q1) /\ Len(q1) = f /\ q1[f] = x1
         /\ \A k \in 1..Len(units) : q1[k] = units[k]
    BY <1>1, <1>3, <1>4, <1>9, AddUnit
  <1> HIDE DEF q1
  <1>11. MayHang(q1, x2, x2.parent) /\ x2.parent \in 0..Len(q1)
    BY <1>1, <1>4, <1>5, <1>10 DEF MayHang, KindIn
  <1>12. /\ AllPlaced(q2) /\ Len(q2) = f + 1
         /\ \A k \in 1..f : q2[k] = q1[k]
    BY <1>5, <1>10, <1>11, AddUnit
  <1> HIDE DEF q2
  <1>13. MayHang(q2, x3, x3.parent) /\ x3.parent \in 0..Len(q2)
    BY <1>1, <1>4, <1>6, <1>10, <1>12 DEF MayHang, KindIn
  <1>14. /\ AllPlaced(q3) /\ Len(q3) = f + 2
         /\ \A k \in 1..f + 1 : q3[k] = q2[k]
    BY <1>6, <1>12, <1>13, AddUnit
  <1> HIDE DEF q3
  <1>15. /\ units' \in Seq(UnitRecord) /\ Len(units') = f + 2 /\ units'[f].kind = "form"
         /\ \A k \in 1..Len(units) : units'[k] = units[k]
    BY <1>1, <1>4, <1>7, <1>10, <1>12, <1>14 DEF AllPlaced
  <1> HIDE DEF f
  <1>16. f = Len(units) + 1
    BY DEF f
  <1>17. TypeOK'
    BY <1>1, <1>2, <1>3, <1>8, <1>15, <1>16 DEF IInv, TypeOK, UnitRecord
  <1>18. Carried'
    <2>1. obj # 0 => units'[obj] = units[obj]
      BY <1>1, <1>3, <1>15
    <2>2. QED
      BY <1>1, <1>8, <1>15, <1>16, <2>1 DEF Carried, IInv
  <1>19. WellPlaced'
    BY <1>7, <1>14, <1>15, PlacedAfter
  <1>20. QED
    BY <1>17, <1>18, <1>19 DEF IInv

\* The column countdown keeps the form and the record, or leaves them.
LEMMA CountFacts ==
  ASSUME NEW r, NextColumn(r), form # 0,
         lines \in Nat, left \in Nat, columns \in Nat
  PROVE  /\ lines' \in Nat /\ left' \in Nat /\ columns' \in Nat
         /\ form' = form \/ (form' = 0 /\ lines' = 0)
         /\ record' \in {0, r}
  BY DEF NextColumn, OutOfForm

\* A list with the data unit read behind it, hanging where such a unit may.
LEMMA AddDataUnit ==
  ASSUME NEW q, NEW p \in Nat, AllPlaced(q), p <= Len(q), Content \in Seq(Nat),
         HoldsData(q, p)
  PROVE  LET r == Append(q, Unit("data", Content, p))
         IN /\ AllPlaced(r) /\ Len(r) = Len(q) + 1
            /\ r[Len(q) + 1].kind = "data" /\ r[Len(q) + 1].val = Content
            /\ \A k \in 1..Len(q) : r[k] = q[k]
  <1> DEFINE x == Unit("data", Content, p)
  <1>1. q \in Seq(UnitRecord) /\ Len(q) \in Nat
    BY PlacedList
  <1>2. x \in UnitRecord /\ x.kind = "data" /\ x.parent = p /\ x.val = Content
    <2>1. "data" \in Kinds
      BY DEF Kinds
    <2>2. QED
      BY <2>1, UnitFields
  <1> HIDE DEF x
  <1>3. MayHang(q, x, x.parent) /\ x.parent \in 0..Len(q)
    BY <1>1, <1>2 DEF MayHang
  <1>4. /\ AllPlaced(Append(q, x)) /\ Len(Append(q, x)) = Len(q) + 1
        /\ Append(q, x)[Len(q) + 1] = x
        /\ \A k \in 1..Len(q) : Append(q, x)[k] = q[k]
    BY <1>2, <1>3, AddUnit
  <1>5. QED
    BY <1>2, <1>4 DEF x

\* The over of the next call is the unit just read, if it is continued.
LEMMA OverFacts ==
  ASSUME NEW n \in Nat, over' = NextOver(n + 1), Len(units') = n + 1,
         (units'[n + 1]).kind = "data", Len((units'[n + 1]).val) = Size
  PROVE  over' \in 0..Len(units') /\ (over' # 0 => Oversize(over)')
  BY DEF NextOver, Oversize, KindOf

\* Both, for the step of a call that reads data.
LEMMA AddData ==
  ASSUME NEW q, AllPlaced(q), NEW p \in 0..Len(q),
         HoldsData(q, p),
         TypeOK, HasUnit, Fits,
         units' = Append(q, Unit("data", Content, p)),
         over' = NextOver(Len(q) + 1)
  PROVE  /\ AllPlaced(units') /\ units' \in Seq(UnitRecord)
         /\ Len(q) \in Nat /\ Len(units') = Len(q) + 1
         /\ \A k \in 1..Len(q) : units'[k] = q[k]
         /\ over' \in 0..Len(units') /\ (over' # 0 => Oversize(over)')
  <1>1. Len(q) \in Nat /\ p \in Nat /\ p <= Len(q)
    BY PlacedList
  <1>2. Content \in Seq(Nat) /\ Len(Content) = Size
    BY UnitFacts
  <1>3. /\ AllPlaced(units') /\ Len(units') = Len(q) + 1
        /\ (units'[Len(q) + 1]).kind = "data" /\ (units'[Len(q) + 1]).val = Content
        /\ \A k \in 1..Len(q) : units'[k] = q[k]
    BY <1>2, AddDataUnit
  <1>4. over' \in 0..Len(units') /\ (over' # 0 => Oversize(over)')
    BY <1>1, <1>2, <1>3, OverFacts
  <1>5. QED
    BY <1>1, <1>3, <1>4, PlacedList

LEMMA ReadUnitStep ==
  ASSUME IInv, ReadUnit
  PROVE  IInv'
  <1> DEFINE p == IF over # 0 THEN over ELSE obj
  <1>1. units \in Seq(UnitRecord) /\ AllPlaced(units) /\ Len(units) \in Nat
    BY PlacedUnits DEF IInv, TypeOK, UnitRecord
  <1>2. After \in 1..Len(msg) + 1 /\ TypeOK /\ HasUnit /\ Fits
    BY UnitFacts DEF IInv, ReadUnit, IsData
  <1>3. p \in 0..Len(units) /\ obj \in 0..Len(units)
    BY DEF IInv, TypeOK
  <1>4. HoldsData(units, p)
    <2>1. over # 0 => OversizeIn(units, over)
      BY DEF IInv, Carried, Oversize, OversizeIn, KindOf, KindIn
    <2>2. KindIn(units, obj) \in {"business data", "object"}
      BY DEF IInv, Carried, KindIn
    <2>3. QED
      BY <2>1, <2>2 DEF HoldsData
  <1>5. units' = Append(units, Unit("data", Content, p)) /\ over' = NextOver(Len(units) + 1)
    BY DEF ReadUnit
  <1> HIDE DEF p
  <1>6. /\ AllPlaced(units') /\ units' \in Seq(UnitRecord) /\ Len(units') = Len(units) + 1
        /\ \A k \in 1..Len(units) : units'[k] = units[k]
        /\ over' \in 0..Len(units') /\ (over' # 0 => Oversize(over)')
    BY <1>1, <1>2, <1>3, <1>4, <1>5, AddData
  <1>7. /\ obj' = obj /\ form' = 0 /\ record' = 0 /\ lines' = 0
        /\ left' = 0 /\ columns' = 0 /\ pos' = After /\ msg' = msg /\ pc' = pc
    BY DEF ReadUnit, OutOfForm
  <1>8. TypeOK'
    BY <1>1, <1>2, <1>3, <1>6, <1>7 DEF TypeOK, UnitRecord
  <1>9. Carried'
    BY <1>1, <1>3, <1>6, <1>7 DEF Carried, IInv
  <1>10. WellPlaced'
    BY <1>6, PlacedAfter
  <1>11. QED
    BY <1>8, <1>9, <1>10 DEF IInv

\* The list with the record of the next cell opened, and that record.
Opened == IF record = 0 THEN Append(units, Unit("record", <<>>, form)) ELSE units
Current == IF record = 0 THEN Len(Opened) ELSE record

\* What opening a record appends, if anything.
LEMMA RecordUnit ==
  ASSUME NEW f \in Nat
  PROVE  /\ Unit("record", <<>>, f) \in UnitRecord
         /\ Unit("record", <<>>, f).kind = "record" /\ Unit("record", <<>>, f).parent = f
  <1> DEFINE v == <<>>
  <1>1. v \in Seq(Nat)
    OBVIOUS
  <1> HIDE DEF v
  <1>2. /\ Unit("record", v, f) \in UnitRecord
        /\ Unit("record", v, f).kind = "record" /\ Unit("record", v, f).parent = f
    BY <1>1, UnitFields DEF Kinds
  <1>3. QED
    BY <1>2 DEF v

\* The record of the next cell is placed.
LEMMA OpenedPlaced ==
  ASSUME IInv, form # 0
  PROVE  /\ AllPlaced(Opened) /\ Len(Opened) \in Nat /\ Len(units) <= Len(Opened)
         /\ \A k \in 1..Len(units) : Opened[k] = units[k]
         /\ Current \in 1..Len(Opened) /\ Opened[Current].kind = "record"
  <1> DEFINE y == Unit("record", <<>>, form)
  <1>1. units \in Seq(UnitRecord) /\ AllPlaced(units) /\ Len(units) \in Nat
    BY PlacedUnits DEF IInv, TypeOK, UnitRecord
  <1>2. form \in 1..Len(units) /\ record \in 0..Len(units) /\ units[form].kind = "form"
    BY DEF IInv, TypeOK, Carried
  <1>3. y \in UnitRecord /\ y.kind = "record" /\ y.parent = form
    BY <1>2, RecordUnit
  <1> HIDE DEF y
  <1>4. CASE record = 0
    <2>1. MayHang(units, y, y.parent) /\ y.parent \in 0..Len(units)
      BY <1>2, <1>3 DEF MayHang, KindIn
    <2>2. /\ AllPlaced(Append(units, y)) /\ Len(Append(units, y)) = Len(units) + 1
          /\ Append(units, y)[Len(units) + 1] = y
          /\ \A k \in 1..Len(units) : Append(units, y)[k] = units[k]
      BY <1>1, <1>3, <2>1, AddUnit
    <2>3. Opened = Append(units, y) /\ Current = Len(units) + 1
      BY <1>4, <2>2 DEF Opened, Current, y
    <2>4. QED
      BY <1>1, <1>3, <2>2, <2>3
  <1>5. CASE record # 0
    BY <1>1, <1>2, <1>5 DEF Opened, Current, IInv, Carried
  <1>6. QED
    BY <1>4, <1>5

\* A data unit of a form.
LEMMA CellFacts ==
  ASSUME IInv, ReadCell
  PROVE  /\ form # 0 /\ form \in 1..Len(units) /\ units[form].kind = "form"
         /\ units' = Append(Opened, Unit("data", Content, IF over # 0 THEN over ELSE Current))
         /\ over' = NextOver(Len(Opened) + 1) /\ NextColumn(Current)
         /\ obj' = obj /\ pos' = After /\ msg' = msg /\ pc' = pc
  BY DEF ReadCell, Opened, Current, IInv, TypeOK, Carried

LEMMA ReadCellStep ==
  ASSUME IInv, ReadCell
  PROVE  IInv'
  <1> DEFINE opened == Opened
             r == Current
             p == IF over # 0 THEN over ELSE r
  <1>1. units \in Seq(UnitRecord) /\ AllPlaced(units) /\ Len(units) \in Nat
    BY PlacedUnits DEF IInv, TypeOK, UnitRecord
  <1>2. After \in 1..Len(msg) + 1 /\ TypeOK /\ HasUnit /\ Fits
    BY UnitFacts DEF IInv, ReadCell, IsData
  <1>3. /\ form \in 0..Len(units) /\ record \in 0..Len(units)
        /\ over \in 0..Len(units) /\ obj \in 0..Len(units)
        /\ lines \in Nat /\ left \in Nat /\ columns \in Nat
    BY <1>2 DEF TypeOK
  <1>4. form # 0 /\ units[form].kind = "form"
    BY CellFacts
  <1>6. /\ units' = Append(opened, Unit("data", Content, p))
        /\ over' = NextOver(Len(opened) + 1) /\ NextColumn(r)
        /\ obj' = obj /\ pos' = After /\ msg' = msg /\ pc' = pc
    BY CellFacts
  <1>7. /\ AllPlaced(opened) /\ Len(opened) \in Nat /\ Len(units) <= Len(opened)
        /\ \A k \in 1..Len(units) : opened[k] = units[k]
        /\ r \in 1..Len(opened) /\ opened[r].kind = "record"
    BY <1>4, OpenedPlaced
  <1> HIDE DEF opened, r
  <1>8. p \in 0..Len(opened)
    BY <1>1, <1>3, <1>7
  <1>9. HoldsData(opened, p)
    <2>1. CASE over # 0
      <3>1. Oversize(over) /\ over \in 1..Len(units) /\ opened[over] = units[over]
        BY <1>1, <1>3, <1>7, <2>1 DEF IInv, Carried
      <3>2. QED
        BY <2>1, <3>1 DEF HoldsData, Oversize, OversizeIn, KindOf, KindIn
    <2>2. CASE over = 0
      BY <1>7, <2>2 DEF HoldsData, KindIn
    <2>3. QED
      BY <2>1, <2>2
  <1> HIDE DEF p
  <1>10. /\ AllPlaced(units') /\ units' \in Seq(UnitRecord) /\ Len(units') = Len(opened) + 1
         /\ \A k \in 1..Len(opened) : units'[k] = opened[k]
         /\ over' \in 0..Len(units') /\ (over' # 0 => Oversize(over)')
    BY <1>2, <1>6, <1>7, <1>8, <1>9, AddData
  <1>11. /\ lines' \in Nat /\ left' \in Nat /\ columns' \in Nat
         /\ form' = form \/ (form' = 0 /\ lines' = 0)
         /\ record' \in {0, r}
    BY <1>3, <1>4, <1>6, CountFacts
  <1>12. /\ units'[form] = units[form] /\ units'[r] = opened[r]
         /\ obj # 0 => units'[obj] = units[obj]
    BY <1>1, <1>3, <1>4, <1>7, <1>10
  <1>13. /\ form' \in 0..Len(units') /\ record' \in 0..Len(units') /\ obj' \in 0..Len(units')
    BY <1>1, <1>3, <1>6, <1>7, <1>10, <1>11
  <1>14. TypeOK'
    BY <1>2, <1>6, <1>10, <1>11, <1>13 DEF TypeOK, UnitRecord
  <1>15. Carried'
    BY <1>3, <1>4, <1>6, <1>7, <1>10, <1>11, <1>12 DEF Carried, IInv
  <1>16. WellPlaced'
    BY <1>10, PlacedAfter
  <1>17. QED
    BY <1>14, <1>15, <1>16 DEF IInv

-----------------------------------------------------------------------------
(* How the grid of a form changes as the list grows.                       *)

\* The records and cells of a list are finitely many.
LEMMA FiniteCells ==
  ASSUME NEW q \in Seq(UnitRecord), NEW f
  PROVE  /\ IsFiniteSet(RecordsIn(q, f)) /\ Cardinality(RecordsIn(q, f)) \in Nat
         /\ IsFiniteSet(CellsIn(q, f)) /\ Cardinality(CellsIn(q, f)) \in Nat
  <1>1. IsFiniteSet(1..Len(q))
    BY FS_Interval
  <1>2. RecordsIn(q, f) \subseteq 1..Len(q) /\ CellsIn(q, f) \subseteq 1..Len(q)
    BY DEF RecordsIn, CellsIn
  <1>3. IsFiniteSet(RecordsIn(q, f)) /\ IsFiniteSet(CellsIn(q, f))
    BY <1>1, <1>2, FS_Subset
  <1>4. QED
    BY <1>3, FS_CardinalityType

\* The larger of two numbers.
LEMMA LargestFacts ==
  ASSUME NEW a \in Nat, NEW b \in Nat
  PROVE  Largest(a, b) \in Nat /\ Largest(a, b) >= a /\ Largest(a, b) >= b
         /\ Largest(a, b) \in {a, b}
  BY DEF Largest

\* A list of units as the proofs below extend it.
Extends(q, t) ==
  /\ q \in Seq(UnitRecord) /\ t \in Seq(UnitRecord)
  /\ Len(q) <= Len(t) /\ \A k \in 1..Len(q) : t[k] = q[k]

\* None of the units behind q is a record of the form f, or in one.
Apart(q, t, f) ==
  \A k \in Len(q) + 1..Len(t) :
    ~(t[k].kind = "record" /\ t[k].parent = f) /\ t[k].parent \notin RecordsIn(q, f)

\* Units apart from a form leave its records and their cells alone.
LEMMA SameCells ==
  ASSUME NEW q, NEW t, NEW f, Extends(q, t), Apart(q, t, f)
  PROVE  /\ RecordsIn(t, f) = RecordsIn(q, f)
         /\ \A r \in RecordsIn(q, f) : CellsIn(t, r) = CellsIn(q, r)
  <1>1. Len(q) \in Nat /\ Len(t) \in Nat /\ Len(q) <= Len(t)
    BY DEF Extends
  <1>2. \A k \in 1..Len(q) : t[k] = q[k] /\ k \in 1..Len(t)
    BY <1>1 DEF Extends
  <1>3. \A k \in 1..Len(t) : k \in 1..Len(q) \/ k \in Len(q) + 1..Len(t)
    BY <1>1
  <1>4. RecordsIn(t, f) = RecordsIn(q, f)
    BY <1>2, <1>3 DEF RecordsIn, Apart
  <1>5. ASSUME NEW r \in RecordsIn(q, f)
        PROVE  CellsIn(t, r) = CellsIn(q, r)
    BY <1>2, <1>3, <1>5 DEF CellsIn, Apart
  <1>6. QED
    BY <1>4, <1>5

\* A form behind which the reader is keeps its grid when units apart from it
\* are read; so does any form when the first of them is a form or an object.
LEMMA GridStays ==
  ASSUME NEW q, NEW t, NEW f \in FormsIn(q), Extends(q, t), Apart(q, t, f),
         f + 2 <= Len(q), Grid(q, f),
         \/ Behind(q, f)
         \/ Len(q) < Len(t) /\ t[Len(q) + 1].kind \in {"form", "object"}
  PROVE  Grid(t, f) /\ Behind(t, f)
  <1>1. /\ RecordsIn(t, f) = RecordsIn(q, f)
        /\ \A r \in RecordsIn(q, f) : CellsIn(t, r) = CellsIn(q, r)
    BY SameCells
  <1>2. /\ Len(q) \in Nat /\ Len(t) \in Nat /\ Len(q) <= Len(t) /\ f \in 1..Len(q)
        /\ \A k \in 1..Len(q) : t[k] = q[k]
    BY DEF Extends, FormsIn
  <1>3. t[f + 1] = q[f + 1] /\ t[f + 2] = q[f + 2]
    BY <1>2
  <1>4. LinesOf(t, f) = LinesOf(q, f) /\ ColumnsOf(t, f) = ColumnsOf(q, f)
    BY <1>3 DEF LinesOf, ColumnsOf
  <1>5. Full(t, f) <=> Full(q, f)
    BY <1>1, <1>4 DEF Full
  <1>6. Behind(t, f)
    <2>1. CASE Full(q, f)
      BY <1>5, <2>1 DEF Behind
    <2>2. CASE ~Full(q, f) /\ Behind(q, f)
      <3>1. PICK j \in f + 1..Len(q) : q[j].kind \in {"form", "object"}
        BY <2>2 DEF Behind
      <3>2. j \in f + 1..Len(t) /\ t[j] = q[j]
        BY <1>2, <3>1
      <3>3. QED
        BY <3>1, <3>2 DEF Behind
    <2>3. CASE ~Behind(q, f)
      <3>1. Len(q) + 1 \in f + 1..Len(t) /\ t[Len(q) + 1].kind \in {"form", "object"}
        BY <1>2, <2>3
      <3>2. QED
        BY <3>1 DEF Behind
    <2>4. QED
      BY <2>1, <2>2, <2>3
  <1>7. ASSUME NEW k \in f + 3..Len(t),
               t[k].kind = "data", t[k].parent \notin RecordsIn(t, f),
               \A j \in f + 1..k : t[j].kind \notin {"form", "object"}
        PROVE  Full(t, f)
    <2>1. CASE k \in 1..Len(q)
      <3>1. k \in f + 3..Len(q) /\ t[k] = q[k]
        BY <1>2, <2>1
      <3>2. \A j \in f + 1..k : q[j].kind \notin {"form", "object"}
        <4>1. \A j \in f + 1..k : j \in 1..Len(q)
          BY <1>2, <2>1
        <4>2. QED
          BY <1>2, <1>7, <4>1
      <3>3. Full(q, f)
        BY <1>1, <1>7, <3>1, <3>2 DEF Grid
      <3>4. QED
        BY <1>5, <3>3
    <2>2. CASE k \notin 1..Len(q)
      <3>1. Len(q) + 1 <= k
        BY <1>2, <2>2
      <3>2. CASE Full(q, f)
        BY <1>5, <3>2
      <3>3. CASE ~Full(q, f) /\ Behind(q, f)
        <4>1. PICK j \in f + 1..Len(q) : q[j].kind \in {"form", "object"}
          BY <3>3 DEF Behind
        <4>2. j \in f + 1..k /\ t[j] = q[j]
          BY <1>2, <3>1, <4>1
        <4>3. QED
          BY <1>7, <4>1, <4>2
      <3>4. CASE ~Behind(q, f)
        <4>1. Len(q) + 1 \in f + 1..k /\ t[Len(q) + 1].kind \in {"form", "object"}
          BY <1>2, <3>1, <3>4
        <4>2. QED
          BY <1>7, <4>1
      <3>5. QED
        BY <3>2, <3>3, <3>4
    <2>3. QED
      BY <2>1, <2>2
  <1>8. QED
    BY <1>1, <1>4, <1>6, <1>7 DEF Grid

\* A form that is being filled is a grid.
LEMMA FillingIsGrid ==
  ASSUME NEW q \in Seq(UnitRecord), NEW f, NEW rec, NEW ln \in Nat, NEW lf, NEW co,
         LinesOf(q, f) \in Nat, Filling(q, f, rec, ln, lf, co)
  PROVE  Grid(q, f)
  <1>1. Cardinality(RecordsIn(q, f)) \in Nat /\ Largest(ln, 1) \in Nat /\ Largest(ln, 1) >= 1
    BY FiniteCells, LargestFacts
  <1>2. Cardinality(RecordsIn(q, f)) <= LinesOf(q, f)
    BY <1>1 DEF Filling
  <1>3. ASSUME NEW r \in RecordsIn(q, f), NEW s \in RecordsIn(q, f), r < s
        PROVE  Cardinality(CellsIn(q, r)) = ColumnsOf(q, f)
    <2>1. r # rec
      <3>1. CASE rec = 0
        BY <3>1 DEF RecordsIn
      <3>2. CASE rec # 0
        <4>1. s <= rec /\ s \in Nat /\ r \in Nat /\ rec \in Nat
          BY <3>2 DEF Filling, RecordsIn
        <4>2. QED
          BY <1>3, <4>1
      <3>3. QED
        BY <3>1, <3>2
    <2>2. QED
      BY <2>1 DEF Filling
  <1>4. \A k \in f + 3..Len(q) : q[k].kind = "data" => q[k].parent \in RecordsIn(q, f)
    BY DEF Filling
  <1>5. QED
    BY <1>2, <1>3, <1>4 DEF Grid

\* The units of a list that is placed hang below earlier ones.
LEMMA ParentsBefore ==
  ASSUME NEW q, AllPlaced(q)
  PROVE  \A k \in 1..Len(q) : q[k].parent < k /\ q[k].parent \in Nat
  <1>1. \A k \in 1..Len(q) : q[k] \in UnitRecord
    BY DEF AllPlaced
  <1>2. \A u \in UnitRecord : u.parent \in Nat
    BY DEF UnitRecord
  <1>3. QED
    BY <1>1, <1>2 DEF AllPlaced

\* The indices of a list and of one with a unit more.
LEMMA OneMoreIndex ==
  ASSUME NEW m \in Nat
  PROVE  /\ m + 1 \notin 1..m /\ 1..m + 1 = 1..m \cup {m + 1}
         /\ m + 1 \in Nat /\ m + 1 # 0
  OBVIOUS

\* One unit behind a list.
LEMMA OneMore ==
  ASSUME NEW q \in Seq(UnitRecord), NEW x \in UnitRecord
  PROVE  Extends(q, Append(q, x))
  BY AppendFacts DEF Extends

\* The next record of a form has no cell yet and is the one to be filled.
LEMMA OpenRecord ==
  ASSUME NEW q, AllPlaced(q), NEW f \in FormsIn(q), f + 2 <= Len(q),
         NEW ln \in Nat, NEW lf \in Nat, NEW co \in Nat, Filling(q, f, 0, ln, lf, co),
         NEW x \in UnitRecord, x.kind = "record", x.parent = f
  PROVE  Filling(Append(q, x), f, Len(q) + 1, ln, lf, co)
  <1> DEFINE t == Append(q, x)
             n == Len(q) + 1
  <1>0. \A k \in 1..Len(q) : q[k].parent < k /\ q[k].parent \in Nat
    BY ParentsBefore
  <1>1. q \in Seq(UnitRecord) /\ Len(q) \in Nat /\ f \in 1..Len(q)
    BY PlacedList DEF FormsIn
  <1>2. /\ t \in Seq(UnitRecord) /\ Len(t) = n /\ t[n] = x
        /\ \A k \in 1..Len(q) : t[k] = q[k]
    BY <1>1, AppendFacts
  <1>3. n \notin 1..Len(q) /\ 1..n = 1..Len(q) \cup {n} /\ n \in Nat /\ n # 0
    BY <1>1, OneMoreIndex
  <1> HIDE DEF t, n
  <1>4. RecordsIn(t, f) = RecordsIn(q, f) \cup {n} /\ n \notin RecordsIn(q, f)
    BY <1>2, <1>3 DEF RecordsIn
  <1>5. Cardinality(RecordsIn(t, f)) = Cardinality(RecordsIn(q, f)) + 1
    BY <1>1, <1>4, FiniteCells, FS_AddElement
  <1>6. \A r \in RecordsIn(q, f) : CellsIn(t, r) = CellsIn(q, r)
    <2>1. \A r \in RecordsIn(q, f) : r # f
      BY <1>1 DEF RecordsIn, FormsIn
    <2>2. QED
      BY <1>2, <1>3, <2>1 DEF CellsIn
  <1>7. Cardinality(CellsIn(t, n)) = 0
    <2>1. \A k \in 1..Len(q) : q[k].parent # n
      BY <1>0, <1>1 DEF n
    <2>2. f # n
      BY <1>1, <1>3
    <2>3. CellsIn(t, n) = {}
      BY <1>2, <1>3, <2>1, <2>2 DEF CellsIn
    <2>4. QED
      BY <2>3, FS_EmptySet
  <1>8. LinesOf(t, f) = LinesOf(q, f) /\ ColumnsOf(t, f) = ColumnsOf(q, f) /\ co = t[f + 2].val[1]
    <2>0. f + 1 \in 1..Len(q) /\ f + 2 \in 1..Len(q)
      BY <1>1
    <2>1. t[f + 1] = q[f + 1] /\ t[f + 2] = q[f + 2]
      BY <1>2, <2>0
    <2>2. QED
      BY <2>1 DEF LinesOf, ColumnsOf, Filling
  <1>9. ASSUME NEW k \in f + 3..Len(t), t[k].kind = "data"
        PROVE  t[k].parent \in RecordsIn(t, f)
    <2>1. k # Len(q) + 1 /\ Len(t) = Len(q) + 1
      BY <1>2, <1>9 DEF n
    <2>2. k \in f + 3..Len(q)
      BY <1>1, <2>1
    <2>3. t[k] = q[k]
      BY <1>1, <1>2, <2>2
    <2>4. QED
      BY <1>4, <1>9, <2>2, <2>3 DEF Filling
  <1>10. ASSUME NEW r \in RecordsIn(t, f), r # n
         PROVE  Cardinality(CellsIn(t, r)) = ColumnsOf(t, f)
    <2>1. r \in RecordsIn(q, f) /\ r # 0
      BY <1>4, <1>10 DEF RecordsIn
    <2>2. QED
      BY <1>6, <1>8, <2>1 DEF Filling
  <1>11. n \in RecordsIn(t, f) /\ \A r \in RecordsIn(t, f) : r <= n
    <2>1. \A r \in RecordsIn(t, f) : r \in 1..n
      BY <1>2 DEF RecordsIn
    <2>2. QED
      BY <1>3, <1>4, <2>1
  <1>12. Cardinality(CellsIn(t, n)) + Largest(lf, 1) = ColumnsOf(t, f)
    <2>1. lf = q[f + 2].val[1]
      BY DEF Filling
    <2>2. ColumnsOf(t, f) = Largest(lf, 1) /\ Largest(lf, 1) \in Nat
      BY <1>8, <2>1, LargestFacts DEF ColumnsOf
    <2>3. QED
      BY <1>7, <2>2
  <1>13. Cardinality(RecordsIn(t, f)) - 1 + Largest(ln, 1) = LinesOf(t, f)
    <2>1. Cardinality(RecordsIn(q, f)) \in Nat /\ Largest(ln, 1) \in Nat
      BY <1>1, FiniteCells, LargestFacts
    <2>2. QED
      BY <1>5, <1>8, <2>1 DEF Filling
  <1>14. QED
    BY <1>3, <1>8, <1>9, <1>10, <1>11, <1>12, <1>13 DEF Filling, t, n

\* One more unit in the record that is filled: what a countdown of n columns and
\* m lines then leaves.
LEMMA AddCell ==
  ASSUME NEW q, AllPlaced(q), NEW f \in FormsIn(q), f + 2 <= Len(q), NEW r, r # 0,
         NEW ln \in Nat, NEW lf \in Nat, NEW co \in Nat, Filling(q, f, r, ln, lf, co),
         NEW x \in UnitRecord, x.kind = "data", x.parent = r
  PROVE  LET t == Append(q, x)
         IN /\ lf > 1 => Filling(t, f, r, ln, lf - 1, co)
            /\ lf <= 1 /\ ln > 1 => Filling(t, f, 0, ln - 1, co, co)
            /\ lf <= 1 /\ ln <= 1 => Grid(t, f) /\ Full(t, f)
  <1> DEFINE t == Append(q, x)
             n == Len(q) + 1
  <1>0. \A k \in 1..Len(q) : q[k].parent < k /\ q[k].parent \in Nat
    BY ParentsBefore
  <1>1. q \in Seq(UnitRecord) /\ Len(q) \in Nat /\ f \in 1..Len(q)
    BY PlacedList DEF FormsIn
  <1>2. /\ t \in Seq(UnitRecord) /\ Len(t) = n /\ t[n] = x
        /\ \A k \in 1..Len(q) : t[k] = q[k]
    BY <1>1, AppendFacts
  <1>3. n \notin 1..Len(q) /\ 1..n = 1..Len(q) \cup {n} /\ n \in Nat /\ n # 0
    BY <1>1, OneMoreIndex
  <1> HIDE DEF t, n
  <1>4. RecordsIn(t, f) = RecordsIn(q, f)
    BY <1>2, <1>3 DEF RecordsIn
  <1>5. \A s \in RecordsIn(q, f) : s # r => CellsIn(t, s) = CellsIn(q, s)
    BY <1>2, <1>3 DEF CellsIn
  <1>6. CellsIn(t, r) = CellsIn(q, r) \cup {n} /\ n \notin CellsIn(q, r)
    BY <1>2, <1>3 DEF CellsIn
  <1>7. Cardinality(CellsIn(t, r)) = Cardinality(CellsIn(q, r)) + 1
    BY <1>1, <1>6, FiniteCells, FS_AddElement
  <1>8. /\ LinesOf(t, f) = LinesOf(q, f) /\ ColumnsOf(t, f) = ColumnsOf(q, f)
        /\ co = t[f + 2].val[1]
    <2>0. f + 1 \in 1..Len(q) /\ f + 2 \in 1..Len(q)
      BY <1>1
    <2>1. t[f + 1] = q[f + 1] /\ t[f + 2] = q[f + 2]
      BY <1>2, <2>0
    <2>2. QED
      BY <2>1 DEF LinesOf, ColumnsOf, Filling
  <1>9. r \in RecordsIn(q, f) /\ \A s \in RecordsIn(q, f) : s <= r
    BY DEF Filling
  <1>10. \A k \in f + 3..Len(t) : t[k].kind = "data" => t[k].parent \in RecordsIn(t, f)
    <2>1. SUFFICES ASSUME NEW k \in f + 3..Len(t), t[k].kind = "data"
                   PROVE  t[k].parent \in RecordsIn(t, f)
      OBVIOUS
    <2>2. CASE k = n
      BY <1>2, <1>4, <1>9, <2>2
    <2>3. CASE k # n
      <3>1. k # Len(q) + 1 /\ Len(t) = Len(q) + 1
        BY <1>2, <2>3 DEF n
      <3>2. k \in f + 3..Len(q)
        BY <1>1, <3>1
      <3>3. t[k] = q[k]
        BY <1>1, <1>2, <3>2
      <3>4. QED
        BY <1>4, <2>1, <3>2, <3>3 DEF Filling
    <2>4. QED
      BY <2>2, <2>3
  <1>11. \A s \in RecordsIn(t, f) : s # r => Cardinality(CellsIn(t, s)) = ColumnsOf(t, f)
    BY <1>4, <1>5, <1>8 DEF Filling
  <1>12. /\ Cardinality(CellsIn(q, r)) \in Nat /\ Cardinality(RecordsIn(q, f)) \in Nat
         /\ Cardinality(CellsIn(q, r)) + Largest(lf, 1) = ColumnsOf(t, f)
         /\ Cardinality(RecordsIn(t, f)) - 1 + Largest(ln, 1) = LinesOf(t, f)
    BY <1>1, <1>4, <1>8, FiniteCells DEF Filling
  <1>13. ASSUME lf > 1
         PROVE  Filling(t, f, r, ln, lf - 1, co)
    <2>1. Largest(lf, 1) = lf /\ Largest(lf - 1, 1) = lf - 1
      BY <1>13 DEF Largest
    <2>2. Cardinality(CellsIn(t, r)) + Largest(lf - 1, 1) = ColumnsOf(t, f)
      BY <1>7, <1>12, <2>1
    <2>3. QED
      BY <1>4, <1>8, <1>9, <1>10, <1>11, <1>12, <2>2 DEF Filling
  <1>14. ASSUME lf <= 1
         PROVE  \A s \in RecordsIn(t, f) : Cardinality(CellsIn(t, s)) = ColumnsOf(t, f)
    <2>1. Largest(lf, 1) = 1
      BY <1>14 DEF Largest
    <2>2. Cardinality(CellsIn(t, r)) = ColumnsOf(t, f)
      BY <1>7, <1>12, <2>1
    <2>3. QED
      BY <1>11, <2>2
  <1>15. ASSUME lf <= 1, ln > 1
         PROVE  Filling(t, f, 0, ln - 1, co, co)
    <2>1. Largest(ln, 1) = ln /\ Largest(ln - 1, 1) = ln - 1
      BY <1>15 DEF Largest
    <2>2. Cardinality(RecordsIn(t, f)) + Largest(ln - 1, 1) = LinesOf(t, f)
      BY <1>4, <1>12, <2>1
    <2>3. QED
      BY <1>8, <1>10, <1>14, <1>15, <2>2 DEF Filling
  <1>16. ASSUME lf <= 1, ln <= 1
         PROVE  Grid(t, f) /\ Full(t, f)
    <2>1. Largest(ln, 1) = 1
      BY <1>16 DEF Largest
    <2>2. Cardinality(RecordsIn(t, f)) = LinesOf(t, f) /\ LinesOf(t, f) \in Nat
      BY <1>4, <1>12, <2>1
    <2>3. Full(t, f)
      BY <1>14, <1>16, <2>2 DEF Full
    <2>4. Grid(t, f)
      BY <1>10, <1>14, <1>16, <2>2 DEF Grid
    <2>5. QED
      BY <2>3, <2>4
  <1>17. QED
    BY <1>13, <1>15, <1>16 DEF t

-----------------------------------------------------------------------------
(* GridInv, step by step.                                                  *)

\* FormIsGrid, in the terms of the lemmas.
LEMMA GridsAreForms ==
  ASSUME GridInv
  PROVE  FormIsGrid
  BY DEF FormIsGrid, GridInv, GridsIn, Grid, Full, FormsIn, RecordsIn, CellsIn, LinesOf,
         ColumnsOf, NoneOversize, OversizeIn, KindIn, Oversize, KindOf, Records, CellsOf

\* The forms of a list and their numbers are those of the list it extends, and
\* those among the units behind that one.
LEMMA FormsKept ==
  ASSUME NEW q, NEW t, Extends(q, t), NEW fm, NEW rec, Shapes(q, fm, rec)
  PROVE  /\ \A f \in FormsIn(q) :
              /\ f \in FormsIn(t) /\ f + 2 <= Len(q) /\ f + 2 <= Len(t)
              /\ t[f + 1].val[1] \in Nat /\ t[f + 2].val[1] \in Nat
              /\ LinesOf(q, f) \in Nat
         /\ \A f \in FormsIn(t) : f \in FormsIn(q) \/ f \in Len(q) + 1..Len(t)
         /\ NoneOversize(t) => NoneOversize(q)
  <1>1. /\ Len(q) \in Nat /\ Len(t) \in Nat /\ Len(q) <= Len(t)
        /\ \A k \in 1..Len(q) : t[k] = q[k] /\ k \in 1..Len(t)
    BY DEF Extends
  <1>2. ASSUME NEW f \in FormsIn(q)
        PROVE  /\ f \in FormsIn(t) /\ f + 2 <= Len(q) /\ f + 2 <= Len(t)
               /\ t[f + 1].val[1] \in Nat /\ t[f + 2].val[1] \in Nat
               /\ LinesOf(q, f) \in Nat
    <2>1. f \in 1..Len(q) /\ q[f].kind = "form" /\ f + 2 <= Len(q)
      BY DEF FormsIn, Shapes
    <2>2. f + 1 \in 1..Len(q) /\ f + 2 \in 1..Len(q) /\ f + 2 <= Len(t)
      BY <1>1, <2>1
    <2>3. q[f + 1].val[1] \in Nat /\ q[f + 2].val[1] \in Nat
      BY DEF Shapes
    <2>4. LinesOf(q, f) \in Nat
      BY <2>3, LargestFacts DEF LinesOf
    <2>5. QED
      BY <1>1, <2>1, <2>2, <2>3, <2>4 DEF FormsIn
  <1>3. \A f \in FormsIn(t) : f \in FormsIn(q) \/ f \in Len(q) + 1..Len(t)
    <2>1. \A k \in 1..Len(t) : k \in 1..Len(q) \/ k \in Len(q) + 1..Len(t)
      BY <1>1
    <2>2. QED
      BY <1>1, <2>1 DEF FormsIn
  <1>4. NoneOversize(t) => NoneOversize(q)
    BY <1>1 DEF NoneOversize, OversizeIn, KindIn
  <1>5. QED
    BY <1>2, <1>3, <1>4

\* What a step finds, when no unit of the greatest length has been read.
LEMMA Found ==
  ASSUME IInv, GridInv
  PROVE  /\ units \in Seq(UnitRecord) /\ AllPlaced(units) /\ Len(units) \in Nat
         /\ Shapes(units, form, record)
         /\ lines \in Nat /\ left \in Nat /\ columns \in Nat
         /\ NoneOversize(units) =>
              over = 0 /\ GridsIn(units, form, record, lines, left, columns)
  <1>1. units \in Seq(UnitRecord) /\ AllPlaced(units) /\ Len(units) \in Nat
    BY PlacedUnits DEF IInv, TypeOK, UnitRecord
  <1>2. over # 0 => over \in 1..Len(units) /\ OversizeIn(units, over)
    BY DEF IInv, TypeOK, Carried, Oversize, OversizeIn, KindOf, KindIn
  <1>3. NoneOversize(units) => over = 0
    BY <1>2 DEF NoneOversize
  <1>4. QED
    BY <1>1, <1>3 DEF IInv, TypeOK, GridInv

\* GridInv of the next state, when the form read last is not filled on.
LEMMA GridsClosed ==
  ASSUME NEW q, NEW t, Extends(q, t), NEW fm, NEW rec, NEW ln \in Nat, NEW lf, NEW co,
         Shapes(q, fm, rec), GridsIn(q, fm, rec, ln, lf, co),
         \A f \in FormsIn(q) : Apart(q, t, f),
         \/ \A f \in FormsIn(q) : Behind(q, f)
         \/ Len(q) < Len(t) /\ t[Len(q) + 1].kind \in {"form", "object"}
  PROVE  \A f \in FormsIn(q) : Grid(t, f) /\ Behind(t, f)
  <1>1. ASSUME NEW f \in FormsIn(q)
        PROVE  Grid(t, f) /\ Behind(t, f)
    <2>1. Grid(q, f) /\ f + 2 <= Len(q) /\ Apart(q, t, f)
      BY DEF GridsIn, Shapes
    <2>2. CASE \A g \in FormsIn(q) : Behind(q, g)
      BY <2>1, <2>2, GridStays
    <2>3. CASE Len(q) < Len(t) /\ t[Len(q) + 1].kind \in {"form", "object"}
      BY <2>1, <2>3, GridStays
    <2>4. QED
      BY <2>2, <2>3
  <1>2. QED
    BY <1>1

LEMMA GridObjectStep ==
  ASSUME IInv, GridInv, ReadObject
  PROVE  GridInv'
  <1> DEFINE x == Unit("object", Content, 0)
  <1>1. /\ units \in Seq(UnitRecord) /\ Len(units) \in Nat
        /\ Shapes(units, form, record) /\ lines \in Nat
        /\ NoneOversize(units) => GridsIn(units, form, record, lines, left, columns)
    BY Found
  <1>2. x \in UnitRecord /\ x.kind = "object" /\ x.parent = 0
    <2>1. Content \in Seq(Nat)
      BY UnitFacts DEF IInv, ReadObject
    <2>2. QED
      BY <2>1, UnitFields DEF Kinds
  <1>3. units' = Append(units, x) /\ form' = 0 /\ record' = 0
    BY DEF ReadObject, OutOfForm
  <1> HIDE DEF x
  <1>4. /\ Extends(units, units') /\ Len(units') = Len(units) + 1
        /\ units'[Len(units) + 1] = x
    BY <1>1, <1>2, <1>3, OneMore, AppendFacts
  <1>5. \A f : Apart(units, units', f)
    BY <1>1, <1>2, <1>4 DEF Apart, RecordsIn
  <1>6. /\ \A f \in FormsIn(units) :
             /\ f \in FormsIn(units') /\ f + 2 <= Len(units')
             /\ units'[f + 1].val[1] \in Nat /\ units'[f + 2].val[1] \in Nat
        /\ \A f \in FormsIn(units') : f \in FormsIn(units) \/ f \in Len(units) + 1..Len(units')
        /\ NoneOversize(units') => NoneOversize(units)
    BY <1>1, <1>4, FormsKept
  <1>7. FormsIn(units') = FormsIn(units)
    BY <1>1, <1>2, <1>4, <1>6 DEF FormsIn
  <1>8. Shapes(units', form', record')
    BY <1>3, <1>6, <1>7 DEF Shapes
  <1>9. ASSUME NoneOversize(units')
        PROVE  GridsIn(units', form', record', lines', left', columns')
    <2>1. GridsIn(units, form, record, lines, left, columns)
      BY <1>1, <1>6, <1>9
    <2>2. Len(units) < Len(units') /\ units'[Len(units) + 1].kind \in {"form", "object"}
      BY <1>1, <1>2, <1>4
    <2>3. \A f \in FormsIn(units) : Grid(units', f) /\ Behind(units', f)
      BY <1>1, <1>4, <1>5, <2>1, <2>2, GridsClosed
    <2>4. \A f \in FormsIn(units) : f # form'
      BY <1>3 DEF FormsIn
    <2>5. QED
      BY <1>7, <2>3, <2>4 DEF GridsIn
  <1>10. QED
    BY <1>8, <1>9 DEF GridInv

LEMMA GridUnitStep ==
  ASSUME IInv, GridInv, ReadUnit
  PROVE  GridInv'
  <1> DEFINE p == IF over # 0 THEN over ELSE obj
             x == Unit("data", Content, p)
  <1>1. /\ units \in Seq(UnitRecord) /\ Len(units) \in Nat
        /\ Shapes(units, form, record) /\ lines \in Nat
        /\ NoneOversize(units) =>
             over = 0 /\ GridsIn(units, form, record, lines, left, columns)
    BY Found
  <1>2. x \in UnitRecord /\ x.kind = "data" /\ x.parent = p
    <2>1. Content \in Seq(Nat)
      BY UnitFacts DEF IInv, ReadUnit, IsData
    <2>2. p \in Nat
      BY DEF IInv, TypeOK
    <2>3. QED
      BY <2>1, <2>2, UnitFields DEF Kinds
  <1>3. units' = Append(units, x) /\ form = 0 /\ form' = 0 /\ record' = 0
    BY DEF ReadUnit, OutOfForm
  <1> HIDE DEF x
  <1>4. /\ Extends(units, units') /\ Len(units') = Len(units) + 1
        /\ units'[Len(units) + 1] = x
    BY <1>1, <1>2, <1>3, OneMore, AppendFacts
  <1>5. /\ \A f \in FormsIn(units) :
             /\ f \in FormsIn(units') /\ f + 2 <= Len(units')
             /\ units'[f + 1].val[1] \in Nat /\ units'[f + 2].val[1] \in Nat
        /\ \A f \in FormsIn(units') : f \in FormsIn(units) \/ f \in Len(units) + 1..Len(units')
        /\ NoneOversize(units') => NoneOversize(units)
    BY <1>1, <1>4, FormsKept
  <1>6. FormsIn(units') = FormsIn(units)
    BY <1>1, <1>2, <1>4, <1>5 DEF FormsIn
  <1>7. Shapes(units', form', record')
    BY <1>3, <1>5, <1>6 DEF Shapes
  <1>8. ASSUME NoneOversize(units')
        PROVE  GridsIn(units', form', record', lines', left', columns')
    <2>1. over = 0 /\ GridsIn(units, form, record, lines, left, columns)
      BY <1>1, <1>5, <1>8
    <2>2. p = obj /\ (obj # 0 => units[obj].kind = "object")
      BY <2>1 DEF IInv, Carried
    <2>3. \A f : Apart(units, units', f)
      BY <1>1, <1>2, <1>4, <2>2 DEF Apart, RecordsIn
    <2>4. \A f \in FormsIn(units) : f # 0
      BY DEF FormsIn
    <2>5. \A f \in FormsIn(units) : Behind(units, f)
      BY <1>3, <2>1, <2>4 DEF GridsIn
    <2>6. \A f \in FormsIn(units) : Grid(units', f) /\ Behind(units', f)
      BY <1>1, <1>4, <2>1, <2>3, <2>5, GridsClosed
    <2>7. QED
      BY <1>3, <1>6, <2>4, <2>6 DEF GridsIn
  <1>9. QED
    BY <1>7, <1>8 DEF GridInv

\* A number of a form as a unit.
LEMMA NumberUnit ==
  ASSUME NEW n \in Nat, NEW k \in Kinds, NEW p \in Nat
  PROVE  /\ Unit(k, <<n>>, p) \in UnitRecord
         /\ Unit(k, <<n>>, p).kind = k /\ Unit(k, <<n>>, p).val = <<n>>
         /\ Unit(k, <<n>>, p).parent = p
  <1> DEFINE v == <<n>>
  <1>1. v \in Seq(Nat)
    OBVIOUS
  <1> HIDE DEF v
  <1>2. /\ Unit(k, v, p) \in UnitRecord
        /\ Unit(k, v, p).kind = k /\ Unit(k, v, p).val = v /\ Unit(k, v, p).parent = p
    BY <1>1, UnitFields
  <1>3. QED
    BY <1>2 DEF v

\* The three units of a form.
LEMMA FormUnits ==
  ASSUME IInv, ReadForm
  PROVE  LET f == Len(units) + 1
         IN /\ Extends(units, units') /\ Len(units') = f + 2
            /\ units'[f].kind = "form" /\ units'[f].parent = obj
            /\ units'[f + 1].kind = "line" /\ units'[f + 1].parent = f
            /\ units'[f + 2].kind = "column" /\ units'[f + 2].parent = f
            /\ units'[f + 1].val = <<msg[After]>> /\ units'[f + 2].val = <<msg[After + 1]>>
  <1> DEFINE f == Len(units) + 1
             x1 == Unit("form", Content, obj)
             x2 == Unit("line", <<msg[After]>>, f)
             x3 == Unit("column", <<msg[After + 1]>>, f)
             q1 == Append(units, x1)
             q2 == Append(q1, x2)
             q3 == Append(q2, x3)
  <1>1. units \in Seq(UnitRecord) /\ Len(units) \in Nat
    BY DEF IInv, TypeOK, UnitRecord
  <1>2. Content \in Seq(Nat) /\ msg[After] \in Nat /\ msg[After + 1] \in Nat
    BY UnitFacts DEF IInv, ReadForm
  <1>3. obj \in Nat /\ f \in Nat /\ "line" \in Kinds /\ "column" \in Kinds
    BY <1>1 DEF IInv, TypeOK, Kinds
  <1>4. x1 \in UnitRecord /\ x1.kind = "form" /\ x1.parent = obj
    BY <1>2, <1>3, UnitFields DEF Kinds
  <1>5. x2 \in UnitRecord /\ x2.kind = "line" /\ x2.parent = f /\ x2.val = <<msg[After]>>
    BY <1>2, <1>3, NumberUnit
  <1>6. /\ x3 \in UnitRecord /\ x3.kind = "column" /\ x3.parent = f
        /\ x3.val = <<msg[After + 1]>>
    BY <1>2, <1>3, NumberUnit
  <1>7. units' = q3
    BY DEF ReadForm
  <1> HIDE DEF x1, x2, x3
  <1>8. /\ q1 \in Seq(UnitRecord) /\ Len(q1) = f /\ q1[f] = x1
        /\ \A k \in 1..Len(units) : q1[k] = units[k]
    BY <1>1, <1>4, AppendFacts
  <1> HIDE DEF q1
  <1>9. /\ q2 \in Seq(UnitRecord) /\ Len(q2) = f + 1 /\ q2[f + 1] = x2
        /\ \A k \in 1..f : q2[k] = q1[k]
    BY <1>5, <1>8, AppendFacts
  <1> HIDE DEF q2
  <1>10. /\ q3 \in Seq(UnitRecord) /\ Len(q3) = f + 2 /\ q3[f + 2] = x3
         /\ \A k \in 1..f + 1 : q3[k] = q2[k]
    BY <1>3, <1>6, <1>9, AppendFacts
  <1> HIDE DEF q3
  <1>11. q3[f] = x1 /\ q3[f + 1] = x2 /\ \A k \in 1..Len(units) : q3[k] = units[k]
    BY <1>1, <1>8, <1>9, <1>10
  <1>12. Extends(units, q3)
    BY <1>1, <1>10, <1>11 DEF Extends
  <1> HIDE DEF f
  <1>13. QED
    BY <1>4, <1>5, <1>6, <1>7, <1>10, <1>11, <1>12 DEF f

LEMMA GridFormStep ==
  ASSUME IInv, GridInv, ReadForm
  PROVE  GridInv'
  <1> DEFINE f == Len(units) + 1
             l == msg[After]
             c == msg[After + 1]
  <1>1. /\ units \in Seq(UnitRecord) /\ AllPlaced(units) /\ Len(units) \in Nat
        /\ Shapes(units, form, record) /\ lines \in Nat
        /\ NoneOversize(units) => GridsIn(units, form, record, lines, left, columns)
    BY Found
  <1>2. l \in Nat /\ c \in Nat
    BY UnitFacts DEF IInv, ReadForm
  <1>3. /\ Extends(units, units') /\ Len(units') = f + 2
        /\ units'[f].kind = "form" /\ units'[f].parent = obj
        /\ units'[f + 1].kind = "line" /\ units'[f + 1].parent = f
        /\ units'[f + 2].kind = "column" /\ units'[f + 2].parent = f
        /\ units'[f + 1].val[1] = l /\ units'[f + 2].val[1] = c
    BY FormUnits
  <1>4. /\ form' = f /\ record' = 0 /\ lines' = l /\ left' = c /\ columns' = c
    BY DEF ReadForm
  <1>5. obj # 0 => units[obj].kind = "object"
    BY DEF IInv, Carried
  <1>6. f = Len(units) + 1 /\ f \in Nat /\ f # 0
    BY <1>1
  <1> HIDE DEF l, c, f
  <1>7. \A k \in Len(units) + 1..Len(units') : k \in {f, f + 1, f + 2}
    BY <1>1, <1>3, <1>6
  <1>8. \A g : g \in 1..Len(units) => Apart(units, units', g)
    <2>1. ASSUME NEW g \in 1..Len(units), NEW k \in {f, f + 1, f + 2}
          PROVE  /\ ~(units'[k].kind = "record" /\ units'[k].parent = g)
                 /\ units'[k].parent \notin RecordsIn(units, g)
      BY <1>1, <1>3, <1>5, <1>6, <2>1 DEF RecordsIn
    <2>2. QED
      BY <1>7, <2>1 DEF Apart
  <1>9. /\ \A g \in FormsIn(units) :
             /\ g \in FormsIn(units') /\ g + 2 <= Len(units')
             /\ units'[g + 1].val[1] \in Nat /\ units'[g + 2].val[1] \in Nat
        /\ \A g \in FormsIn(units') : g \in FormsIn(units) \/ g \in Len(units) + 1..Len(units')
        /\ NoneOversize(units') => NoneOversize(units)
    BY <1>1, <1>3, FormsKept
  <1>10. \A g \in FormsIn(units') : g \in FormsIn(units) \/ g = f
    <2>1. ASSUME NEW g \in FormsIn(units'), g \notin FormsIn(units)
          PROVE  g = f
      <3>1. g \in {f, f + 1, f + 2} /\ units'[g].kind = "form"
        BY <1>7, <1>9, <2>1 DEF FormsIn
      <3>2. QED
        BY <1>3, <3>1
    <2>2. QED
      BY <2>1
  <1>11. f \in FormsIn(units')
    BY <1>3, <1>6 DEF FormsIn
  <1>12. Shapes(units', form', record')
    <2>1. f + 2 <= Len(units') /\ units'[f + 1].val[1] \in Nat /\ units'[f + 2].val[1] \in Nat
      BY <1>2, <1>3, <1>6
    <2>2. QED
      BY <1>4, <1>9, <1>10, <2>1 DEF Shapes
  <1>13. RecordsIn(units', f) = {}
    <2>1. ASSUME NEW k \in 1..Len(units'), units'[k].kind = "record"
          PROVE  units'[k].parent # f
      <3>1. k \notin {f, f + 1, f + 2}
        BY <1>3, <2>1
      <3>2. k \in 1..Len(units)
        BY <1>1, <1>3, <1>6, <3>1
      <3>3. units'[k] = units[k] /\ units[k].parent < k /\ units[k].parent \in Nat
        BY <1>1, <1>3, <3>2, ParentsBefore DEF Extends
      <3>4. QED
        BY <1>1, <1>6, <3>2, <3>3
    <2>2. QED
      BY <2>1 DEF RecordsIn
  <1>14. Filling(units', f, 0, l, c, c)
    <2>1. Cardinality(RecordsIn(units', f)) = 0
      BY <1>13, FS_EmptySet
    <2>2. LinesOf(units', f) = Largest(l, 1) /\ Largest(l, 1) \in Nat
      BY <1>2, <1>3, LargestFacts DEF LinesOf
    <2>3. \A k \in f + 3..Len(units') : FALSE
      BY <1>3, <1>6
    <2>4. QED
      BY <1>3, <1>13, <2>1, <2>2, <2>3 DEF Filling
  <1>15. Grid(units', f)
    <2>1. units' \in Seq(UnitRecord) /\ LinesOf(units', f) \in Nat
      BY <1>2, <1>3, LargestFacts DEF LinesOf, Extends
    <2>2. QED
      BY <1>2, <1>14, <2>1, FillingIsGrid
  <1>16. ASSUME NoneOversize(units')
         PROVE  GridsIn(units', form', record', lines', left', columns')
    <2>1. GridsIn(units, form, record, lines, left, columns)
      BY <1>1, <1>9, <1>16
    <2>2. Len(units) < Len(units') /\ units'[Len(units) + 1].kind \in {"form", "object"}
      BY <1>1, <1>3, <1>6
    <2>3. \A g \in FormsIn(units) : Apart(units, units', g) /\ g # f
      BY <1>1, <1>6, <1>8 DEF FormsIn
    <2>4. \A g \in FormsIn(units) : Grid(units', g) /\ Behind(units', g)
      BY <1>1, <1>3, <2>1, <2>2, <2>3, GridsClosed
    <2>5. QED
      BY <1>4, <1>10, <1>14, <1>15, <2>3, <2>4 DEF GridsIn
  <1>17. QED
    BY <1>12, <1>16 DEF GridInv

\* The record being filled, before and after it is opened.
LEMMA OpenedFills ==
  ASSUME IInv, GridInv, form # 0, NoneOversize(units)
  PROVE  /\ Filling(Opened, form, Current, lines, left, columns)
         /\ form \in FormsIn(Opened) /\ form + 2 <= Len(Opened)
         /\ Current # 0
  <1>1. /\ units \in Seq(UnitRecord) /\ AllPlaced(units) /\ Len(units) \in Nat
        /\ Shapes(units, form, record) /\ lines \in Nat /\ left \in Nat /\ columns \in Nat
        /\ GridsIn(units, form, record, lines, left, columns)
    BY Found
  <1>2. form \in FormsIn(units) /\ form \in Nat
    BY <1>1 DEF IInv, TypeOK, Carried, FormsIn
  <1>3. Filling(units, form, record, lines, left, columns) /\ form + 2 <= Len(units)
    BY <1>1, <1>2 DEF GridsIn, Shapes
  <1>4. CASE record = 0
    <2> DEFINE y == Unit("record", <<>>, form)
    <2>1. y \in UnitRecord /\ y.kind = "record" /\ y.parent = form
      BY <1>2, RecordUnit
    <2>2. Opened = Append(units, y)
      BY <1>4 DEF Opened
    <2> HIDE DEF y
    <2>3. /\ Extends(units, Opened) /\ Len(Opened) = Len(units) + 1
      BY <1>1, <2>1, <2>2, OneMore, AppendFacts
    <2>4. Current = Len(units) + 1
      BY <1>4, <2>3 DEF Current
    <2>5. Filling(Opened, form, Current, lines, left, columns)
      BY <1>1, <1>2, <1>3, <1>4, <2>1, <2>2, <2>4, OpenRecord
    <2>6. form \in FormsIn(Opened) /\ form + 2 <= Len(Opened)
      BY <1>1, <1>2, <1>3, <2>3, FormsKept
    <2>7. QED
      BY <1>1, <2>4, <2>5, <2>6
  <1>5. CASE record # 0
    BY <1>2, <1>3, <1>5 DEF Opened, Current
  <1>6. QED
    BY <1>4, <1>5

\* A cell leaves the other forms and their numbers alone.
LEMMA CellApart ==
  ASSUME IInv, GridInv, ReadCell
  PROVE  /\ Extends(units, units')
         /\ FormsIn(units') = FormsIn(units)
         /\ units'[Current].kind = "record" /\ units'[Current].parent = form
         /\ Current \in 1..Len(units')
         /\ over = 0 => \A f \in FormsIn(units) : f # form => Apart(units, units', f)
  <1> DEFINE p == IF over # 0 THEN over ELSE Current
             x == Unit("data", Content, p)
  <1>1. /\ units \in Seq(UnitRecord) /\ Len(units) \in Nat
        /\ Shapes(units, form, record)
    BY Found
  <1>2. /\ form # 0 /\ form \in 1..Len(units) /\ units[form].kind = "form"
        /\ units' = Append(Opened, x)
    BY CellFacts
  <1>3. /\ AllPlaced(Opened) /\ Len(Opened) \in Nat /\ Len(units) <= Len(Opened)
        /\ \A k \in 1..Len(units) : Opened[k] = units[k]
        /\ Current \in 1..Len(Opened) /\ Opened[Current].kind = "record"
    BY <1>2, OpenedPlaced
  <1>4. x \in UnitRecord /\ x.kind = "data" /\ x.parent = p
    <2>1. Content \in Seq(Nat)
      BY UnitFacts DEF IInv, ReadCell, IsData
    <2>2. p \in Nat
      BY <1>3 DEF IInv, TypeOK
    <2>3. QED
      BY <2>1, <2>2, UnitFields DEF Kinds
  <1> HIDE DEF x
  <1>5. /\ units' \in Seq(UnitRecord) /\ Len(units') = Len(Opened) + 1
        /\ units'[Len(Opened) + 1] = x
        /\ \A k \in 1..Len(Opened) : units'[k] = Opened[k]
    BY <1>2, <1>3, <1>4, PlacedList, AppendFacts
  <1>6. Opened[Current].parent = form
    <2>1. CASE record = 0
      <3> DEFINE y == Unit("record", <<>>, form)
      <3>1. y \in UnitRecord /\ y.parent = form
        BY <1>2, RecordUnit
      <3>2. Opened = Append(units, y)
        BY <2>1 DEF Opened
      <3> HIDE DEF y
      <3>3. Len(Opened) = Len(units) + 1 /\ Opened[Len(units) + 1] = y
        BY <1>1, <3>1, <3>2, AppendFacts
      <3>4. QED
        BY <2>1, <3>1, <3>3 DEF Current
    <2>2. CASE record # 0
      BY <1>1, <2>2 DEF Opened, Current, Shapes, RecordsIn
    <2>3. QED
      BY <2>1, <2>2
  <1>7. Len(Opened) = Len(units) \/ (Len(Opened) = Len(units) + 1 /\ Current = Len(Opened))
    <2>1. CASE record = 0
      <3> DEFINE y == Unit("record", <<>>, form)
      <3>1. y \in UnitRecord
        BY <1>2, RecordUnit
      <3>2. Opened = Append(units, y)
        BY <2>1 DEF Opened
      <3> HIDE DEF y
      <3>3. QED
        BY <1>1, <2>1, <3>1, <3>2, AppendFacts DEF Current
    <2>2. CASE record # 0
      BY <2>2 DEF Opened
    <2>3. QED
      BY <2>1, <2>2
  <1>8. Extends(units, units')
    BY <1>1, <1>3, <1>5 DEF Extends
  <1>9. \A k \in Len(units) + 1..Len(units') :
          units'[k] = x \/ (units'[k] = Opened[Current] /\ k = Current)
    BY <1>1, <1>3, <1>5, <1>7
  <1>10. FormsIn(units') = FormsIn(units)
    <2>1. \A f \in FormsIn(units) : f \in FormsIn(units')
      BY <1>1, <1>8, FormsKept
    <2>2. \A f \in FormsIn(units') : f \in FormsIn(units) \/ f \in Len(units) + 1..Len(units')
      BY <1>1, <1>8, FormsKept
    <2>3. \A k \in Len(units) + 1..Len(units') : units'[k].kind # "form"
      BY <1>3, <1>4, <1>9
    <2>4. QED
      BY <2>1, <2>2, <2>3 DEF FormsIn
  <1>11. ASSUME over = 0, NEW f \in FormsIn(units), f # form
         PROVE  Apart(units, units', f)
    <2>1. p = Current
      BY <1>11
    <2>2. Current \notin RecordsIn(units, f)
      <3>1. CASE Current \in 1..Len(units)
        BY <1>3, <1>6, <1>11, <3>1 DEF RecordsIn
      <3>2. CASE Current \notin 1..Len(units)
        BY <3>2 DEF RecordsIn
      <3>3. QED
        BY <3>1, <3>2
    <2>3. form \notin RecordsIn(units, f)
      BY <1>2 DEF RecordsIn
    <2>4. QED
      BY <1>4, <1>6, <1>9, <1>11, <2>1, <2>2, <2>3 DEF Apart
  <1>12. QED
    BY <1>3, <1>5, <1>6, <1>8, <1>10, <1>11

LEMMA GridCellStep ==
  ASSUME IInv, GridInv, ReadCell
  PROVE  GridInv'
  <1>1. /\ units \in Seq(UnitRecord) /\ AllPlaced(units) /\ Len(units) \in Nat
        /\ Shapes(units, form, record)
        /\ lines \in Nat /\ left \in Nat /\ columns \in Nat
        /\ NoneOversize(units) =>
             over = 0 /\ GridsIn(units, form, record, lines, left, columns)
    BY Found
  <1>2. /\ form # 0 /\ form \in FormsIn(units) /\ NextColumn(Current)
        /\ units' = Append(Opened, Unit("data", Content, IF over # 0 THEN over ELSE Current))
    BY CellFacts DEF FormsIn
  <1>3. /\ Extends(units, units')
        /\ FormsIn(units') = FormsIn(units)
        /\ Current \in RecordsIn(units', form)
        /\ over = 0 => \A f \in FormsIn(units) : f # form => Apart(units, units', f)
    BY CellApart DEF RecordsIn
  <1>4. /\ \A f \in FormsIn(units) :
             /\ f + 2 <= Len(units) /\ f + 2 <= Len(units')
             /\ units'[f + 1].val[1] \in Nat /\ units'[f + 2].val[1] \in Nat
        /\ NoneOversize(units') => NoneOversize(units)
    BY <1>1, <1>3, FormsKept
  <1>5. record' # 0 => form' = form /\ record' = Current
    BY <1>2 DEF NextColumn, OutOfForm
  <1>6. Shapes(units', form', record')
    BY <1>2, <1>3, <1>4, <1>5 DEF Shapes
  <1>7. ASSUME NoneOversize(units')
        PROVE  GridsIn(units', form', record', lines', left', columns')
    <2> DEFINE x == Unit("data", Content, Current)
    <2>1. over = 0 /\ GridsIn(units, form, record, lines, left, columns) /\ NoneOversize(units)
      BY <1>1, <1>4, <1>7
    <2>2. form' \in {form, 0}
      BY <1>2 DEF NextColumn, OutOfForm
    <2>3. ASSUME NEW f \in FormsIn(units), f # form
          PROVE  f # form' /\ Grid(units', f) /\ Behind(units', f)
      <3>1. Grid(units, f) /\ Behind(units, f) /\ Apart(units, units', f)
        BY <1>3, <2>1, <2>3 DEF GridsIn
      <3>2. Grid(units', f) /\ Behind(units', f)
        BY <1>3, <1>4, <3>1, GridStays
      <3>3. QED
        BY <2>2, <2>3, <3>2 DEF FormsIn
    <2>4. /\ Filling(Opened, form, Current, lines, left, columns) /\ AllPlaced(Opened)
          /\ form \in FormsIn(Opened) /\ form + 2 <= Len(Opened) /\ Current # 0
          /\ Current \in Nat
      BY <1>2, <2>1, OpenedFills, OpenedPlaced
    <2>5. x \in UnitRecord /\ x.kind = "data" /\ x.parent = Current
      <3>1. Content \in Seq(Nat)
        BY UnitFacts DEF IInv, ReadCell, IsData
      <3>2. QED
        BY <2>4, <3>1, UnitFields DEF Kinds
    <2>6. units' = Append(Opened, x)
      BY <1>2, <2>1
    <2> HIDE DEF x
    <2>7. /\ left > 1 => Filling(units', form, Current, lines, left - 1, columns)
          /\ left <= 1 /\ lines > 1 => Filling(units', form, 0, lines - 1, columns, columns)
          /\ left <= 1 /\ lines <= 1 => Grid(units', form) /\ Full(units', form)
      BY <1>1, <2>4, <2>5, <2>6, AddCell
    <2>8. units' \in Seq(UnitRecord) /\ LinesOf(units', form) \in Nat
      <3>1. units'[form + 1].val[1] \in Nat
        BY <1>2, <1>4
      <3>2. QED
        BY <1>3, <3>1, LargestFacts DEF LinesOf, Extends
    <2>9. /\ Grid(units', form)
          /\ form = form' => Filling(units', form, record', lines', left', columns')
          /\ form # form' => Behind(units', form)
      <3>1. CASE left > 1
        <4>1. /\ record' = Current /\ left' = left - 1 /\ form' = form /\ lines' = lines
              /\ columns' = columns
          BY <1>2, <3>1, <1>1 DEF NextColumn
        <4>2. QED
          BY <1>1, <2>7, <2>8, <3>1, <4>1, FillingIsGrid
      <3>2. CASE left <= 1 /\ lines > 1
        <4>1. /\ record' = 0 /\ left' = columns /\ form' = form /\ lines' = lines - 1
              /\ columns' = columns
          BY <1>2, <3>2, <1>1 DEF NextColumn
        <4>2. lines - 1 \in Nat
          BY <1>1, <3>2
        <4>3. Filling(units', form, 0, lines - 1, columns, columns)
          BY <2>7, <3>2
        <4>4. Grid(units', form)
          BY <2>8, <4>2, <4>3, FillingIsGrid
        <4>5. QED
          BY <4>1, <4>3, <4>4
      <3>3. CASE left <= 1 /\ lines <= 1
        <4>1. form' = 0
          BY <1>2, <3>3, <1>1 DEF NextColumn, OutOfForm
        <4>2. QED
          BY <1>2, <2>7, <3>3, <4>1 DEF Behind
      <3>4. QED
        BY <1>1, <3>1, <3>2, <3>3
    <2>10. QED
      BY <1>3, <2>3, <2>9 DEF GridsIn
  <1>8. QED
    BY <1>6, <1>7 DEF GridInv

-----------------------------------------------------------------------------
(* What the tree of a list writes.                                         *)

\* Induction comes from the order of the finite sets.
LEMMA LeastIndex ==
  ASSUME NEW S \in SUBSET Nat, S # {}
  PROVE  \E k \in S : \A l \in S : k <= l
  <1> DEFINE T == {1..k : k \in S}
             R == StrictSubsetOrdering(Nat)
  <1>1. IsWellFoundedOn(R, FiniteSubsetsOf(Nat))
    BY FS_StrictSubsetOrderingWellFounded
  <1>2. T \subseteq FiniteSubsetsOf(Nat)
    <2> SUFFICES ASSUME NEW k \in S PROVE 1..k \in FiniteSubsetsOf(Nat)
      OBVIOUS
    <2>1. IsFiniteSet(1..k) /\ 1..k \in SUBSET Nat
      BY FS_Interval
    <2>2. QED
      BY <2>1 DEF FiniteSubsetsOf
  <1>3. T # {}
    OBVIOUS
  <1> HIDE DEF T, R
  <1>4. PICK x \in T : \A y \in T : ~(<<y, x>> \in R)
    BY <1>1, <1>2, <1>3, WFMin
  <1>5. PICK k \in S : x = 1..k
    BY DEF T
  <1>6. ASSUME NEW l \in S, l < k PROVE FALSE
    <2>1. 1..l \in T
      BY DEF T
    <2>2. 1..l \subseteq 1..k /\ k \in 1..k /\ k \notin 1..l
      BY <1>6
    <2>3. <<1..l, 1..k>> \in R
      BY <2>2 DEF R, StrictSubsetOrdering
    <2>4. QED
      BY <1>4, <1>5, <2>1, <2>3
  <1>7. QED
    BY <1>6

\* And a set of numbers with a bound has a greatest.
LEMMA GreatestIndex ==
  ASSUME NEW m \in Nat, NEW S \in SUBSET (0..m), S # {}
  PROVE  \E k \in S : \A l \in S : l <= k
  <1> DEFINE T == {m - k : k \in S}
  <1>1. T \in SUBSET Nat /\ T # {}
    <2>1. \A k \in S : m - k \in Nat
      OBVIOUS
    <2>2. \A t \in T : t \in Nat
      BY <2>1
    <2>3. PICK k \in S : TRUE
      OBVIOUS
    <2>4. m - k \in T
      OBVIOUS
    <2>5. QED
      BY <2>2, <2>4
  <1> HIDE DEF T
  <1>2. PICK t \in T : \A u \in T : t <= u
    BY <1>1, LeastIndex
  <1>3. PICK k \in S : t = m - k
    BY DEF T
  <1>4. ASSUME NEW l \in S PROVE l <= k
    <2>1. m - l \in T
      BY DEF T
    <2>2. t <= m - l /\ l \in Int /\ k \in Int
      BY <1>2, <2>1
    <2>3. QED
      BY <1>3, <2>2
  <1>5. QED
    BY <1>4

\* What a unit writes are bytes.
LEMMA WrittenType ==
  ASSUME NEW u \in UnitRecord
  PROVE  Written(u) \in Seq(Nat)
  <1> DEFINE v == u.val
             one == <<Len(v)>>
  <1>1. v \in Seq(Nat)
    BY DEF UnitRecord
  <1> HIDE DEF v
  <1>2. one \in Seq(Nat)
    BY <1>1
  <1> HIDE DEF one
  <1>3. one \o v \in Seq(Nat)
    BY <1>1, <1>2, ConcatProperties
  <1>4. <<>> \in Seq(Nat)
    OBVIOUS
  <1>5. QED
    BY <1>1, <1>3, <1>4 DEF Written, v, one

\* The equation of WrittenBelow, at one unit.
LEMMA BelowAt ==
  ASSUME NEW q \in Seq(UnitRecord), NEW F, IsBelow(q, F), NEW p \in 0..Len(q)
  PROVE  /\ F[p][0] = <<>>
         /\ \A k \in 1..Len(q) :
              /\ q[k].parent = p => F[p][k] = F[p][k - 1] \o Written(q[k]) \o F[k][Len(q)]
              /\ q[k].parent # p => F[p][k] = F[p][k - 1]
  <1> DEFINE E(a, b) == IF b = 0 THEN <<>>
                        ELSE IF ChildOf(q, a, b)
                             THEN F[a][b - 1] \o Written(q[b]) \o F[b][Len(q)]
                             ELSE F[a][b - 1]
  <1>1. F = [a \in 0..Len(q) |-> [b \in 0..Len(q) |-> E(a, b)]]
    BY DEF IsBelow
  <1> HIDE DEF E
  <1>2. Len(q) \in Nat
    OBVIOUS
  <1>3. \A k \in 0..Len(q) : F[p][k] = E(p, k)
    BY <1>1
  <1>4. F[p][0] = E(p, 0) /\ \A k \in 1..Len(q) : F[p][k] = E(p, k) /\ k # 0
    BY <1>2, <1>3
  <1>5. QED
    BY <1>4 DEF E, ChildOf

\* The equation has one solution.
LEMMA BelowUnique ==
  ASSUME NEW q, AllPlaced(q), NEW F, IsBelow(q, F), NEW G, IsBelow(q, G)
  PROVE  \A p \in 0..Len(q) : \A k \in 0..Len(q) : F[p][k] = G[p][k]
  <1> DEFINE n == Len(q)
             Differ(p) == {k \in 0..n : F[p][k] # G[p][k]}
             S == {p \in 0..n : Differ(p) # {}}
  <1>1. q \in Seq(UnitRecord) /\ n \in Nat
    BY PlacedList
  <1>2. SUFFICES ASSUME S # {} PROVE FALSE
    OBVIOUS
  <1>3. PICK p \in S : \A l \in S : l <= p
    <2>1. S \in SUBSET (0..n)
      OBVIOUS
    <2> HIDE DEF S
    <2>2. QED
      BY <1>1, <1>2, <2>1, GreatestIndex
  <1>4. p \in 0..n /\ Differ(p) # {}
    OBVIOUS
  <1>5. \A c \in 1..n : c > p => \A k \in 0..n : F[c][k] = G[c][k]
    BY <1>1, <1>3, <1>4
  <1> HIDE DEF S
  <1>6. PICK k \in Differ(p) : \A l \in Differ(p) : k <= l
    <2>1. Differ(p) \in SUBSET Nat
      BY <1>1
    <2> HIDE DEF Differ
    <2>2. QED
      BY <1>4, <2>1, LeastIndex
  <1>7. k \in 0..n /\ F[p][k] # G[p][k]
    OBVIOUS
  <1>8. F[p][0] = <<>> /\ G[p][0] = <<>>
    BY <1>1, <1>4, BelowAt
  <1>9. k \in 1..n /\ k - 1 \in 0..n
    BY <1>1, <1>7, <1>8
  <1>10. F[p][k - 1] = G[p][k - 1]
    <2>1. k - 1 \notin Differ(p)
      <3> HIDE DEF Differ
      <3>1. ~(k <= k - 1)
        BY <1>9
      <3>2. QED
        BY <1>6, <3>1
    <2>2. QED
      BY <1>9, <2>1
  <1> HIDE DEF Differ
  <1>11. /\ q[k].parent = p => F[p][k] = F[p][k - 1] \o Written(q[k]) \o F[k][n]
         /\ q[k].parent # p => F[p][k] = F[p][k - 1]
    BY <1>1, <1>4, <1>9, BelowAt
  <1>12. /\ q[k].parent = p => G[p][k] = G[p][k - 1] \o Written(q[k]) \o G[k][n]
         /\ q[k].parent # p => G[p][k] = G[p][k - 1]
    BY <1>1, <1>4, <1>9, BelowAt
  <1>13. q[k].parent = p => F[k][n] = G[k][n]
    <2>1. q[k].parent < k
      BY <1>9, ParentsBefore
    <2>2. q[k].parent = p => k > p /\ n \in 0..n
      BY <1>1, <1>4, <1>9, <2>1
    <2>3. QED
      BY <1>5, <1>9, <2>2
  <1>14. QED
    BY <1>7, <1>10, <1>11, <1>12, <1>13

\* What the tree writes is what the units were shown to write.
LEMMA SerialisedIs ==
  ASSUME NEW b, AllPlaced(units), Writes(units, b)
  PROVE  Serialised = b
  <1>1. PICK F : IsBelow(units, F) /\ F[0][Len(units)] = b
    BY DEF Writes
  <1>2. WrittenBelow(units) = CHOOSE G : IsBelow(units, G)
    BY DEF WrittenBelow, IsBelow
  <1>3. IsBelow(units, WrittenBelow(units))
    BY <1>1, <1>2
  <1>4. Len(units) \in Nat
    BY PlacedList
  <1>5. WrittenBelow(units)[0][Len(units)] = F[0][Len(units)]
    BY <1>1, <1>3, <1>4, BelowUnique
  <1>6. QED
    BY <1>1, <1>5 DEF Serialised

\* Below a unit without children nothing is written.
LEMMA Childless ==
  ASSUME NEW q, AllPlaced(q), NEW F, IsBelow(q, F), NEW s \in 0..Len(q),
         \A k \in 1..Len(q) : q[k].parent # s
  PROVE  \A k \in 0..Len(q) : F[s][k] = <<>>
  <1> DEFINE n == Len(q)
             S == {k \in 0..n : F[s][k] # <<>>}
  <1>1. q \in Seq(UnitRecord) /\ n \in Nat
    BY PlacedList
  <1>2. F[s][0] = <<>> /\ \A k \in 1..n : F[s][k] = F[s][k - 1]
    BY <1>1, BelowAt
  <1>3. SUFFICES ASSUME S # {} PROVE FALSE
    OBVIOUS
  <1>4. PICK k \in S : \A l \in S : k <= l
    <2>1. S \in SUBSET Nat
      BY <1>1
    <2> HIDE DEF S
    <2>2. QED
      BY <1>3, <2>1, LeastIndex
  <1>5. k \in 1..n /\ k - 1 \in 0..n /\ F[s][k] # <<>>
    BY <1>1, <1>2
  <1>6. k - 1 \in S
    BY <1>2, <1>5
  <1> HIDE DEF S
  <1>7. QED
    BY <1>4, <1>5, <1>6

-----------------------------------------------------------------------------
(* How the end of what is written moves as the list grows.                 *)

\* One unit behind a list that is placed.
LEMMA Longer ==
  ASSUME NEW q, AllPlaced(q), NEW x \in UnitRecord
  PROVE  LET r == Append(q, x)
         IN /\ Len(q) \in Nat /\ Len(r) = Len(q) + 1
            /\ r[Len(q) + 1] = x /\ \A k \in 1..Len(q) : r[k] = q[k]
            /\ 1..Len(r) = 1..Len(q) \cup {Len(q) + 1}
            /\ Len(q) + 1 \notin 1..Len(q) /\ Len(q) + 1 # 0
            /\ \A k \in 1..Len(q) : q[k].parent < k /\ q[k].parent \in 0..Len(q)
  <1>1. q \in Seq(UnitRecord) /\ Len(q) \in Nat
    BY PlacedList
  <1>2. \A k \in 1..Len(q) : q[k].parent < k /\ q[k].parent \in Nat
    BY ParentsBefore
  <1>3. \A k \in 1..Len(q) : q[k].parent \in 0..Len(q)
    BY <1>1, <1>2
  <1>4. /\ Len(Append(q, x)) = Len(q) + 1 /\ Append(q, x)[Len(q) + 1] = x
        /\ \A k \in 1..Len(q) : Append(q, x)[k] = q[k]
    BY <1>1, AppendFacts
  <1>5. QED
    BY <1>1, <1>2, <1>3, <1>4, OneMoreIndex

\* What the members of a chain are.
LEMMA ChainFacts ==
  ASSUME NEW q, AllPlaced(q), NEW C, NEW p, Chain(q, C, p)
  PROVE  /\ p \in 0..Len(q) /\ C \subseteq 0..Len(q) /\ C \subseteq 0..p
         /\ \A c \in C \ {0} : c \in 1..Len(q) /\ q[c].parent # p
  <1>1. Len(q) \in Nat /\ C \in SUBSET (0..p) /\ p \in C /\ p <= Len(q)
    BY PlacedList DEF Chain
  <1>2. p \in 0..Len(q)
    BY <1>1
  <1>3. \A c \in C : c \in 0..p /\ c \in 0..Len(q)
    BY <1>1, <1>2
  <1>4. ASSUME NEW c \in C \ {0}
        PROVE  c \in 1..Len(q) /\ q[c].parent # p
    <2>1. c \in 1..Len(q) /\ c <= p
      BY <1>1, <1>2, <1>3
    <2>2. q[c].parent < c /\ q[c].parent \in Nat
      BY <2>1, ParentsBefore
    <2>3. QED
      BY <1>2, <2>1, <2>2
  <1>5. QED
    BY <1>2, <1>3, <1>4

\* A unit behind the list lets the members of a chain trail, unless it is
\* written behind one of them.
LEMMA TrailingKept ==
  ASSUME NEW q, AllPlaced(q), NEW x \in UnitRecord, x.parent \in 0..Len(q),
         NEW c \in 1..Len(q), Trailing(q, c),
         x.kind = "record" \/ q[c].parent # x.parent,
         \/ x.parent = 0
         \/ q[x.parent].kind # "record"
         \/ x.parent <= c
         \/ q[x.parent].parent # q[c].parent
  PROVE  Trailing(Append(q, x), c)
  <1> DEFINE r == Append(q, x)
             n == Len(q)
  <1>1. /\ n \in Nat /\ Len(r) = n + 1 /\ r[n + 1] = x
        /\ \A k \in 1..n : r[k] = q[k]
        /\ 1..Len(r) = 1..n \cup {n + 1} /\ n + 1 \notin 1..n
        /\ \A k \in 1..n : q[k].parent < k /\ q[k].parent \in 0..n
    BY Longer
  <1> HIDE DEF r
  <1>2. SUFFICES ASSUME NEW s \in 1..Len(r), c < s, r[s].parent = r[c].parent
                 PROVE  Quiet(r, s)
    BY DEF Trailing, r
  <1>3. r[c] = q[c]
    BY <1>1
  <1>4. CASE s = n + 1
    <2>1. r[s] = x /\ x.kind = "record"
      BY <1>1, <1>2, <1>3, <1>4
    <2>2. \A k \in 1..n : r[k].parent # n + 1
      BY <1>1
    <2>3. r[n + 1].parent # n + 1
      BY <1>1
    <2>4. \A k \in 1..Len(r) : r[k].parent # s
      BY <1>1, <1>4, <2>2, <2>3
    <2>5. QED
      BY <2>1, <2>4 DEF Quiet
  <1>5. CASE s \in 1..n
    <2>1. r[s] = q[s] /\ q[s].parent = q[c].parent
      BY <1>1, <1>2, <1>3, <1>5
    <2>2. q[s].kind = "record" /\ \A k \in 1..n : q[k].parent # s
      BY <1>2, <1>5, <2>1 DEF Trailing, Quiet
    <2>3. x.parent # s
      BY <1>2, <1>5, <2>1, <2>2
    <2>4. \A k \in 1..Len(r) : r[k].parent # s
      BY <1>1, <2>2, <2>3
    <2>5. QED
      BY <2>1, <2>2, <2>4 DEF Quiet
  <1>6. QED
    BY <1>1, <1>4, <1>5

\* What keeps the end of a chain the end of what is written.
LEMMA ChainKept ==
  ASSUME NEW q, AllPlaced(q), NEW x \in UnitRecord, x.parent \in 0..Len(q),
         NEW C, NEW p, Chain(q, C, p),
         x.kind = "record" \/ \A c \in C \ {0} : q[c].parent # x.parent,
         \/ x.parent = 0
         \/ q[x.parent].kind # "record"
         \/ \A c \in C \ {0} : c = x.parent \/ q[x.parent].parent # q[c].parent
  PROVE  Chain(Append(q, x), C, p)
  <1> DEFINE r == Append(q, x)
  <1>1. /\ Len(q) \in Nat /\ Len(r) = Len(q) + 1
        /\ \A k \in 1..Len(q) : r[k] = q[k]
    BY Longer
  <1>2. /\ p \in 0..Len(q)
        /\ \A c \in C \ {0} : c \in 1..Len(q)
    BY ChainFacts
  <1>3. \A c \in C \ {0} : r[c] = q[c]
    BY <1>1, <1>2
  <1>4. ASSUME NEW c \in C \ {0}
        PROVE  Trailing(r, c)
    <2>1. Trailing(q, c) /\ c \in 1..Len(q)
      BY <1>2 DEF Chain
    <2>2. x.kind = "record" \/ q[c].parent # x.parent
      OBVIOUS
    <2>3. \/ x.parent = 0
          \/ q[x.parent].kind # "record"
          \/ x.parent <= c
          \/ q[x.parent].parent # q[c].parent
      BY <1>1, <2>1
    <2>4. QED
      BY <2>1, <2>2, <2>3, TrailingKept
  <1> HIDE DEF r
  <1>5. p <= Len(r)
    BY <1>1, <1>2
  <1>6. \A c \in C \ {0} : r[c].parent \in C /\ Trailing(r, c)
    BY <1>3, <1>4 DEF Chain
  <1>7. \A c, d \in C \ {0} : r[c].parent = r[d].parent => c = d
    BY <1>3 DEF Chain
  <1>8. \A c \in C \ {p} : \E d \in C \ {0} : r[d].parent = c
    BY <1>3 DEF Chain
  <1>9. QED
    BY <1>5, <1>6, <1>7, <1>8 DEF Chain, r

\* A child of the end of a chain is the end of the longer one.
LEMMA ChainExtends ==
  ASSUME NEW q, AllPlaced(q), NEW x \in UnitRecord,
         NEW C, Chain(q, C, x.parent)
  PROVE  Chain(Append(q, x), C \cup {Len(q) + 1}, Len(q) + 1)
  <1> DEFINE r == Append(q, x)
             n == Len(q)
             p == x.parent
             D == C \cup {n + 1}
  <1>1. /\ n \in Nat /\ Len(r) = n + 1 /\ r[n + 1] = x
        /\ \A k \in 1..n : r[k] = q[k]
        /\ 1..Len(r) = 1..n \cup {n + 1} /\ n + 1 \notin 1..n /\ n + 1 # 0
        /\ \A k \in 1..n : q[k].parent < k /\ q[k].parent \in 0..n
    BY Longer
  <1>2. /\ p \in 0..n /\ C \subseteq 0..n /\ C \subseteq 0..p
        /\ \A c \in C \ {0} : c \in 1..n /\ q[c].parent # p
    BY ChainFacts
  <1>3. /\ 0 \in C /\ p \in C
        /\ \A c \in C \ {0} : q[c].parent \in C /\ Trailing(q, c)
        /\ \A c, d \in C \ {0} : q[c].parent = q[d].parent => c = d
        /\ \A c \in C \ {p} : \E d \in C \ {0} : q[d].parent = c
    BY DEF Chain
  <1>4. \A c \in C \ {0} : r[c] = q[c]
    BY <1>1, <1>2
  <1>5. ASSUME NEW c \in C \ {0}
        PROVE  Trailing(r, c)
    <2>1. Trailing(q, c) /\ c \in 1..n /\ q[c].parent # p
      BY <1>2, <1>3
    <2>2. \/ p = 0 \/ q[p].kind # "record" \/ p <= c \/ q[p].parent # q[c].parent
      BY <1>1, <1>2, <1>3, <2>1
    <2>3. QED
      BY <1>2, <2>1, <2>2, TrailingKept
  <1>6. Trailing(r, n + 1)
    <2> HIDE DEF r
    <2>1. \A s \in 1..Len(r) : ~(n + 1 < s)
      BY <1>1
    <2>2. QED
      BY <2>1 DEF Trailing
  <1> HIDE DEF r
  <1>7. D \in SUBSET (0..n + 1) /\ 0 \in D /\ n + 1 \in D /\ n + 1 <= Len(r)
    <2>1. \A c \in D : c \in 0..n + 1
      BY <1>1, <1>2
    <2>2. n + 1 <= Len(r)
      BY <1>1
    <2>3. QED
      BY <1>3, <2>1, <2>2
  <1>8. D \ {0} = (C \ {0}) \cup {n + 1}
    BY <1>1
  <1>9. \A c \in D \ {0} : r[c].parent \in D /\ Trailing(r, c)
    BY <1>1, <1>3, <1>4, <1>5, <1>6, <1>8
  <1>10. \A c, d \in D \ {0} : r[c].parent = r[d].parent => c = d
    BY <1>1, <1>2, <1>3, <1>4, <1>8
  <1>11. \A c \in D \ {n + 1} : \E d \in D \ {0} : r[d].parent = c
    <2>1. SUFFICES ASSUME NEW c \in C PROVE \E d \in D \ {0} : r[d].parent = c
      OBVIOUS
    <2>2. CASE c = p
      BY <1>1, <1>8, <2>2
    <2>3. CASE c # p
      BY <1>3, <1>4, <1>8, <2>3
    <2>4. QED
      BY <2>2, <2>3
  <1> HIDE DEF D
  <1>12. Chain(r, D, n + 1)
    BY <1>7, <1>9, <1>10, <1>11 DEF Chain
  <1>13. QED
    BY <1>12 DEF D, r

-----------------------------------------------------------------------------
(* What one more unit adds to what is written.                             *)

\* Empty sequences and sequences in a row.
LEMMA Rows ==
  /\ <<>> \in Seq(Nat)
  /\ \A s \in Seq(Nat) : s \o <<>> = s /\ <<>> \o s = s
  /\ \A s, t \in Seq(Nat) : s \o t \in Seq(Nat)
  /\ \A s, t, u \in Seq(Nat) : s \o t \o u = s \o (t \o u)
  <1>1. <<>> \in Seq(Nat)
    OBVIOUS
  <1>2. \A s \in Seq(Nat) : s \o <<>> = s /\ <<>> \o s = s
    BY ConcatEmptySeq
  <1>3. \A s, t \in Seq(Nat) : s \o t \in Seq(Nat)
    BY ConcatProperties
  <1>4. \A s, t, u \in Seq(Nat) : s \o t \o u = s \o (t \o u)
    BY ConcatAssociative
  <1>5. QED
    BY <1>1, <1>2, <1>3, <1>4

\* The units between the root and the new one, seen from the parent c when the
\* first k units are looked at.
Touched(r, D, c, k) == \E d \in D \ {0} : r[d].parent = c /\ d <= k

\* Which steps of WrittenBelow the new unit is written in.
LEMMA TouchedFacts ==
  ASSUME NEW q, AllPlaced(q), NEW x \in UnitRecord, NEW C, Chain(q, C, x.parent)
  PROVE  LET r == Append(q, x)
             n == Len(q)
             D == C \cup {n + 1}
             T(c, k) == Touched(r, D, c, k)
         IN /\ \A c \in 0..n + 1 : ~T(c, 0)
            /\ \A k \in 0..n + 1 : ~T(n + 1, k)
            /\ \A k \in 1..n + 1, c \in 0..n + 1 : r[k].parent # c => (T(c, k) <=> T(c, k - 1))
            /\ ~T(x.parent, n) /\ T(x.parent, n + 1)
            /\ \A k \in 1..n : LET c == q[k].parent
                               IN IF T(c, k - 1) THEN Quiet(q, k) /\ T(c, k) /\ ~T(k, n + 1)
                                  ELSE T(c, k) <=> T(k, n + 1)
            /\ T(0, n + 1)
  <1> DEFINE r == Append(q, x)
             n == Len(q)
             p == x.parent
             D == C \cup {n + 1}
             T(c, k) == Touched(r, D, c, k)
  <1>1. /\ n \in Nat /\ Len(r) = n + 1 /\ r[n + 1] = x
        /\ \A k \in 1..n : r[k] = q[k]
        /\ 1..n + 1 = 1..n \cup {n + 1} /\ n + 1 \notin 1..n /\ n + 1 # 0
        /\ \A k \in 1..n : q[k].parent < k /\ q[k].parent \in 0..n
    BY Longer
  <1>2. /\ p \in 0..n /\ C \subseteq 0..n /\ C \subseteq 0..p
        /\ \A c \in C \ {0} : c \in 1..n /\ q[c].parent # p
    BY ChainFacts
  <1>3. /\ 0 \in C /\ p \in C
        /\ \A c \in C \ {0} : q[c].parent \in C /\ Trailing(q, c)
        /\ \A c, d \in C \ {0} : q[c].parent = q[d].parent => c = d
        /\ \A c \in C \ {p} : \E d \in C \ {0} : q[d].parent = c
    BY DEF Chain
  <1>4. \A c \in C \ {0} : r[c] = q[c]
    BY <1>1, <1>2
  <1>5. D \ {0} = (C \ {0}) \cup {n + 1} /\ \A d \in D \ {0} : d \in 1..n + 1
    BY <1>1, <1>2
  <1> HIDE DEF r, D
  <1>6. \A c \in 0..n + 1 : ~T(c, 0)
    BY <1>1, <1>5 DEF Touched
  <1>7. \A k \in 0..n + 1 : ~T(n + 1, k)
    <2>1. \A d \in 1..n + 1 : r[d].parent # n + 1
      BY <1>1, <1>2
    <2>2. QED
      BY <1>5, <2>1 DEF Touched
  <1>8. ASSUME NEW k \in 1..n + 1, NEW c \in 0..n + 1, r[k].parent # c
        PROVE  T(c, k) <=> T(c, k - 1)
    <2>1. \A d \in D \ {0} : d # k => (d <= k <=> d <= k - 1)
      BY <1>1, <1>5
    <2>2. ~(k <= k - 1)
      BY <1>1
    <2>3. QED
      BY <1>8, <2>1, <2>2 DEF Touched
  <1>9. ~T(p, n) /\ T(p, n + 1)
    <2>1. \A d \in D \ {0} : r[d].parent = p => d = n + 1
      BY <1>2, <1>4, <1>5
    <2>2. ~(n + 1 <= n) /\ n + 1 <= n + 1
      BY <1>1
    <2>3. QED
      BY <1>1, <1>5, <2>1, <2>2 DEF Touched
  <1>10. \A c \in C : T(c, n + 1)
    <2>1. SUFFICES ASSUME NEW c \in C, c # p PROVE T(c, n + 1)
      BY <1>9
    <2>2. PICK d \in C \ {0} : q[d].parent = c
      BY <1>3, <2>1
    <2>3. r[d].parent = c /\ d \in D \ {0} /\ d <= n + 1
      BY <1>1, <1>2, <1>4, <1>5, <2>2
    <2>4. QED
      BY <2>3 DEF Touched
  <1>11. ASSUME NEW k \in 1..n, T(q[k].parent, k - 1)
         PROVE  Quiet(q, k) /\ T(q[k].parent, k) /\ ~T(k, n + 1)
    <2>1. PICK d \in D \ {0} : r[d].parent = q[k].parent /\ d <= k - 1
      BY <1>11 DEF Touched
    <2>2. d \in C \ {0} /\ d < k /\ d <= k /\ q[d].parent = q[k].parent
      BY <1>1, <1>2, <1>4, <1>5, <2>1
    <2>3. Quiet(q, k)
      BY <1>3, <2>2 DEF Trailing
    <2>4. T(q[k].parent, k)
      BY <2>1, <2>2 DEF Touched
    <2>5. k # p
      BY <1>3, <1>11, <2>2
    <2>6. \A e \in D \ {0} : r[e].parent # k
      BY <1>1, <1>2, <1>4, <1>5, <2>3, <2>5 DEF Quiet
    <2>7. QED
      BY <2>3, <2>4, <2>6 DEF Touched
  <1>12. ASSUME NEW k \in 1..n, ~T(q[k].parent, k - 1)
         PROVE  T(q[k].parent, k) <=> T(k, n + 1)
    <2>1. ASSUME T(q[k].parent, k) PROVE T(k, n + 1)
      <3>1. PICK d \in D \ {0} : r[d].parent = q[k].parent /\ d <= k
        BY <2>1 DEF Touched
      <3>2. ~(d <= k - 1)
        BY <1>12, <3>1 DEF Touched
      <3>3. d = k
        BY <1>1, <1>5, <3>1, <3>2
      <3>4. k \in C
        BY <1>1, <1>5, <3>3
      <3>5. QED
        BY <1>10, <3>4
    <2>2. ASSUME T(k, n + 1) PROVE T(q[k].parent, k)
      <3>1. PICK d \in D \ {0} : r[d].parent = k
        BY <2>2 DEF Touched
      <3>2. k \in C
        BY <1>1, <1>3, <1>4, <1>5, <3>1
      <3>3. k \in D \ {0} /\ r[k].parent = q[k].parent /\ k <= k
        BY <1>1, <1>4, <1>5, <3>2
      <3>4. QED
        BY <3>3 DEF Touched
    <2>3. QED
      BY <2>1, <2>2
  <1>13. T(0, n + 1)
    BY <1>3, <1>10
  <1> HIDE DEF T
  <1>14. \A k \in 1..n : LET c == q[k].parent
                         IN IF T(c, k - 1) THEN Quiet(q, k) /\ T(c, k) /\ ~T(k, n + 1)
                            ELSE T(c, k) <=> T(k, n + 1)
    BY <1>11, <1>12
  <1>15. QED
    BY <1>6, <1>7, <1>8, <1>9, <1>13, <1>14 DEF T, r, D

\* The solution for a list that has one more unit, from that of the list.
Grown(F, r, D, n, w, c, k) ==
  (IF c <= n THEN (IF k <= n THEN F[c][k] ELSE F[c][n]) ELSE <<>>)
    \o (IF Touched(r, D, c, k) THEN w ELSE <<>>)

\* It solves the equation at every unit.
LEMMA GrownAt ==
  ASSUME NEW q, AllPlaced(q), NEW x \in UnitRecord, NEW C, Chain(q, C, x.parent),
         NEW F \in [0..Len(q) -> [0..Len(q) -> Seq(Nat)]], IsBelow(q, F)
  PROVE  LET r == Append(q, x)
             n == Len(q)
             G(c, k) == Grown(F, r, C \cup {n + 1}, n, Written(x), c, k)
         IN /\ \A c, k \in 0..n + 1 : G(c, k) \in Seq(Nat)
            /\ \A c \in 0..n + 1 : G(c, 0) = <<>>
            /\ \A c \in 0..n + 1, k \in 1..n + 1 :
                 IF r[k].parent = c THEN G(c, k) = G(c, k - 1) \o Written(r[k]) \o G(k, n + 1)
                 ELSE G(c, k) = G(c, k - 1)
            /\ G(0, n + 1) = F[0][n] \o Written(x)
  <1> DEFINE r == Append(q, x)
             n == Len(q)
             p == x.parent
             w == Written(x)
             T(c, k) == Touched(r, C \cup {n + 1}, c, k)
             G(c, k) == Grown(F, r, C \cup {n + 1}, n, w, c, k)
  <1>1. /\ n \in Nat /\ Len(r) = n + 1 /\ r[n + 1] = x
        /\ \A k \in 1..n : r[k] = q[k]
        /\ 1..n + 1 = 1..n \cup {n + 1} /\ n + 1 \notin 1..n /\ n + 1 # 0
        /\ \A k \in 1..n : q[k].parent < k /\ q[k].parent \in 0..n
    BY Longer
  <1>2. q \in Seq(UnitRecord) /\ p \in 0..n
    BY PlacedList, ChainFacts
  <1>3. w \in Seq(Nat) /\ \A k \in 1..n : Written(q[k]) \in Seq(Nat)
    BY <1>2, WrittenType
  <1>4. \A c, k \in 0..n : F[c][k] \in Seq(Nat)
    OBVIOUS
  <1>5. \A c \in 0..n :
          /\ F[c][0] = <<>>
          /\ \A k \in 1..n :
               /\ q[k].parent = c => F[c][k] = F[c][k - 1] \o Written(q[k]) \o F[k][n]
               /\ q[k].parent # c => F[c][k] = F[c][k - 1]
    BY <1>2, BelowAt
  <1>6. /\ \A c \in 0..n + 1 : ~T(c, 0)
        /\ \A k \in 0..n + 1 : ~T(n + 1, k)
        /\ \A k \in 1..n + 1, c \in 0..n + 1 : r[k].parent # c => (T(c, k) <=> T(c, k - 1))
        /\ ~T(p, n) /\ T(p, n + 1)
        /\ \A k \in 1..n : IF T(q[k].parent, k - 1)
                           THEN Quiet(q, k) /\ T(q[k].parent, k) /\ ~T(k, n + 1)
                           ELSE T(q[k].parent, k) <=> T(k, n + 1)
        /\ T(0, n + 1)
    BY TouchedFacts
  <1>7. \A c, k \in 0..n + 1 :
          G(c, k) = (IF c <= n THEN (IF k <= n THEN F[c][k] ELSE F[c][n]) ELSE <<>>)
                      \o (IF T(c, k) THEN w ELSE <<>>)
    BY DEF Grown
  <1> HIDE DEF r, w, T, G
  <1>8. ASSUME NEW c \in 0..n, NEW k \in 0..n
        PROVE  G(c, k) = IF T(c, k) THEN F[c][k] \o w ELSE F[c][k]
    <2>1. c \in 0..n + 1 /\ k \in 0..n + 1 /\ c <= n /\ k <= n
      BY <1>1
    <2>2. G(c, k) = F[c][k] \o (IF T(c, k) THEN w ELSE <<>>)
      BY <1>7, <2>1
    <2>3. F[c][k] \o <<>> = F[c][k]
      BY <1>4, Rows
    <2>4. QED
      BY <2>2, <2>3
  <1>9. ASSUME NEW c \in 0..n
        PROVE  G(c, n + 1) = IF T(c, n + 1) THEN F[c][n] \o w ELSE F[c][n]
    <2>1. c \in 0..n + 1 /\ n + 1 \in 0..n + 1 /\ c <= n /\ ~(n + 1 <= n) /\ n \in 0..n
      BY <1>1
    <2>2. G(c, n + 1) = F[c][n] \o (IF T(c, n + 1) THEN w ELSE <<>>)
      BY <1>7, <2>1
    <2>3. F[c][n] \o <<>> = F[c][n]
      BY <1>4, <2>1, Rows
    <2>4. QED
      BY <2>2, <2>3
  <1>10. \A k \in 0..n + 1 : G(n + 1, k) = <<>>
    <2>1. ~(n + 1 <= n) /\ n + 1 \in 0..n + 1
      BY <1>1
    <2>2. <<>> \o <<>> = <<>>
      BY Rows
    <2>3. QED
      BY <1>6, <1>7, <2>1, <2>2
  <1>11. 0..n + 1 = 0..n \cup {n + 1} /\ n \in 0..n
    BY <1>1
  <1>12. ASSUME NEW c \in 0..n + 1, NEW k \in 0..n + 1
         PROVE  G(c, k) \in Seq(Nat)
    <2>1. ASSUME NEW d \in 0..n, NEW m \in 0..n
          PROVE  F[d][m] \in Seq(Nat) /\ F[d][m] \o w \in Seq(Nat)
      BY <1>3, <1>4, Rows
    <2>2. CASE c = n + 1
      BY <1>10, <2>2, Rows
    <2>3. CASE c \in 0..n /\ k \in 0..n
      BY <1>8, <2>1, <2>3
    <2>4. CASE c \in 0..n /\ k = n + 1
      BY <1>9, <1>11, <2>1, <2>4
    <2>5. QED
      BY <1>11, <2>2, <2>3, <2>4
  <1>13. \A c \in 0..n + 1 : G(c, 0) = <<>>
    <2>1. 0 \in 0..n /\ 0 \in 0..n + 1
      BY <1>1
    <2>2. QED
      BY <1>5, <1>6, <1>8, <1>10, <1>11, <2>1
  <1>14. ASSUME NEW k \in 1..n, NEW c \in 0..n + 1, q[k].parent # c
         PROVE  G(c, k) = G(c, k - 1)
    <2>1. k \in 0..n /\ k - 1 \in 0..n /\ k \in 0..n + 1 /\ k - 1 \in 0..n + 1
      BY <1>1
    <2>2. T(c, k) <=> T(c, k - 1)
      BY <1>1, <1>6, <1>14
    <2>3. CASE c = n + 1
      BY <1>10, <2>1, <2>3
    <2>4. CASE c \in 0..n
      <3>1. F[c][k] = F[c][k - 1]
        BY <1>5, <1>14, <2>4
      <3>2. /\ G(c, k) = IF T(c, k) THEN F[c][k] \o w ELSE F[c][k]
            /\ G(c, k - 1) = IF T(c, k - 1) THEN F[c][k - 1] \o w ELSE F[c][k - 1]
        BY <1>8, <2>1, <2>4
      <3>3. QED
        BY <2>2, <3>1, <3>2
    <2>5. QED
      BY <1>11, <2>3, <2>4
  <1>15. ASSUME NEW k \in 1..n
         PROVE  LET c == q[k].parent
                IN G(c, k) = G(c, k - 1) \o Written(q[k]) \o G(k, n + 1)
    <2> DEFINE c == q[k].parent
               v == Written(q[k])
    <2>1. c \in 0..n /\ k \in 0..n /\ k - 1 \in 0..n
      BY <1>1
    <2>2. F[c][k - 1] \in Seq(Nat) /\ F[c][k] \in Seq(Nat) /\ F[k][n] \in Seq(Nat) /\ v \in Seq(Nat)
      BY <1>3, <1>4, <1>11, <2>1
    <2>3. F[c][k] = F[c][k - 1] \o v \o F[k][n]
      BY <1>5, <2>1
    <2>4. CASE T(c, k - 1)
      <3>1. Quiet(q, k) /\ T(c, k) /\ ~T(k, n + 1)
        BY <1>6, <2>4
      <3>2. v = <<>>
        BY <3>1 DEF Quiet, Written
      <3>3. F[k][n] = <<>>
        <4>1. \A j \in 1..Len(q) : q[j].parent # k
          BY <3>1 DEF Quiet
        <4>2. \A m \in 0..Len(q) : F[k][m] = <<>>
          BY <2>1, <4>1, Childless
        <4>3. QED
          BY <1>11, <4>2
      <3> HIDE DEF c, v
      <3>4. F[c][k] = F[c][k - 1]
        BY <2>2, <2>3, <3>2, <3>3, Rows
      <3>5. G(k, n + 1) = <<>> /\ G(c, k) = F[c][k] \o w /\ G(c, k - 1) = F[c][k - 1] \o w
        BY <1>8, <1>9, <2>1, <2>4, <3>1, <3>3
      <3>6. F[c][k - 1] \o w \in Seq(Nat)
        BY <1>3, <2>2, Rows
      <3>7. G(c, k) = G(c, k - 1) \o v \o G(k, n + 1)
        BY <3>2, <3>4, <3>5, <3>6, Rows
      <3>8. QED
        BY <3>7 DEF c, v
    <2>5. CASE ~T(c, k - 1) /\ T(c, k)
      <3>1. T(k, n + 1)
        BY <1>6, <2>5
      <3> HIDE DEF c, v
      <3>2. /\ G(k, n + 1) = F[k][n] \o w /\ G(c, k) = F[c][k] \o w
            /\ G(c, k - 1) = F[c][k - 1]
        BY <1>8, <1>9, <2>1, <2>5, <3>1
      <3>3. F[c][k - 1] \o v \in Seq(Nat)
        BY <2>2, Rows
      <3>4. F[c][k - 1] \o v \o F[k][n] \o w = F[c][k - 1] \o v \o (F[k][n] \o w)
        <4> DEFINE s == F[c][k - 1] \o v
                   t == F[k][n]
        <4>1. s \in Seq(Nat) /\ t \in Seq(Nat)
          BY <2>2, <3>3
        <4> HIDE DEF s, t
        <4>2. s \o t \o w = s \o (t \o w)
          <5>1. \A a, b, d \in Seq(Nat) : a \o b \o d = a \o (b \o d)
            BY Rows
          <5>2. QED
            BY <1>3, <4>1, <5>1
        <4>3. QED
          BY <4>2 DEF s, t
      <3>5. G(c, k) = G(c, k - 1) \o v \o G(k, n + 1)
        BY <2>3, <3>2, <3>4
      <3>6. QED
        BY <3>5 DEF c, v
    <2>6. CASE ~T(c, k - 1) /\ ~T(c, k)
      <3>1. ~T(k, n + 1)
        BY <1>6, <2>6
      <3> HIDE DEF c, v
      <3>2. G(k, n + 1) = F[k][n] /\ G(c, k) = F[c][k] /\ G(c, k - 1) = F[c][k - 1]
        BY <1>8, <1>9, <2>1, <2>6, <3>1
      <3>3. G(c, k) = G(c, k - 1) \o v \o G(k, n + 1)
        BY <2>3, <3>2
      <3>4. QED
        BY <3>3 DEF c, v
    <2>7. QED
      BY <2>4, <2>5, <2>6
  <1>16. ASSUME NEW c \in 0..n + 1, c # p
         PROVE  G(c, n + 1) = G(c, n)
    <2>1. T(c, n + 1) <=> T(c, n)
      <3>1. n + 1 \in 1..n + 1 /\ n + 1 - 1 = n /\ r[n + 1].parent # c
        BY <1>1, <1>16
      <3>2. \A k \in 1..n + 1 : r[k].parent # c /\ k - 1 = n => (T(c, k) <=> T(c, n))
        <4>1. \A k \in 1..n + 1 : r[k].parent # c => (T(c, k) <=> T(c, k - 1))
          BY <1>6, <1>16
        <4>2. QED
          BY <4>1
      <3>3. QED
        BY <3>1, <3>2
    <2>2. CASE c = n + 1
      BY <1>10, <1>11, <2>2
    <2>3. CASE c \in 0..n
      BY <1>8, <1>9, <1>11, <2>1, <2>3
    <2>4. QED
      BY <1>11, <2>2, <2>3
  <1>17. G(p, n + 1) = G(p, n) \o w \o G(n + 1, n + 1)
    <2>1. G(p, n) = F[p][n] /\ G(p, n + 1) = F[p][n] \o w /\ G(n + 1, n + 1) = <<>>
      BY <1>2, <1>6, <1>8, <1>9, <1>10, <1>11
    <2>2. F[p][n] \in Seq(Nat) /\ F[p][n] \o w \in Seq(Nat)
      BY <1>2, <1>3, <1>4, <1>11, Rows
    <2>3. QED
      BY <2>1, <2>2, Rows
  <1>18. ASSUME NEW c \in 0..n + 1, NEW k \in 1..n + 1
         PROVE  IF r[k].parent = c THEN G(c, k) = G(c, k - 1) \o Written(r[k]) \o G(k, n + 1)
                ELSE G(c, k) = G(c, k - 1)
    <2>1. CASE k \in 1..n
      <3>1. r[k] = q[k]
        BY <1>1, <2>1
      <3>2. QED
        BY <1>14, <1>15, <2>1, <3>1
    <2>2. CASE k = n + 1
      <3>1. r[k] = x /\ k - 1 = n
        BY <1>1, <2>2
      <3>2. QED
        BY <1>16, <1>17, <2>2, <3>1 DEF w
    <2>3. QED
      BY <1>1, <2>1, <2>2
  <1>19. G(0, n + 1) = F[0][n] \o w
    <2>1. 0 \in 0..n
      BY <1>1
    <2>2. QED
      BY <1>6, <1>9, <2>1
  <1>20. QED
    BY <1>12, <1>13, <1>18, <1>19 DEF G, r, w

\* A unit behind everything that is written adds what it writes itself.
LEMMA WritesMore ==
  ASSUME NEW q, AllPlaced(q), NEW x \in UnitRecord, NEW C, Chain(q, C, x.parent),
         NEW b, Writes(q, b)
  PROVE  Writes(Append(q, x), b \o Written(x))
  <1> DEFINE r == Append(q, x)
             n == Len(q)
             w == Written(x)
  <1>1. n \in Nat /\ Len(r) = n + 1
    BY Longer
  <1>2. PICK F \in [0..n -> [0..n -> Seq(Nat)]] : IsBelow(q, F) /\ F[0][n] = b
    BY DEF Writes
  <1> DEFINE G(c, k) == Grown(F, r, C \cup {n + 1}, n, w, c, k)
             H == [c \in 0..n + 1 |-> [k \in 0..n + 1 |-> G(c, k)]]
             E(a, k) == IF k = 0 THEN <<>>
                        ELSE IF ChildOf(r, a, k)
                             THEN H[a][k - 1] \o Written(r[k]) \o H[k][n + 1]
                             ELSE H[a][k - 1]
  <1>3. /\ \A c, k \in 0..n + 1 : G(c, k) \in Seq(Nat)
        /\ \A c \in 0..n + 1 : G(c, 0) = <<>>
        /\ \A c \in 0..n + 1, k \in 1..n + 1 :
             IF r[k].parent = c THEN G(c, k) = G(c, k - 1) \o Written(r[k]) \o G(k, n + 1)
             ELSE G(c, k) = G(c, k - 1)
        /\ G(0, n + 1) = F[0][n] \o w
    BY <1>2, GrownAt
  <1> HIDE DEF r, w, G
  <1>4. \A c, k \in 0..n + 1 : H[c][k] = G(c, k)
    OBVIOUS
  <1>5. H \in [0..n + 1 -> [0..n + 1 -> Seq(Nat)]]
    BY <1>3
  <1> HIDE DEF H
  <1>6. ASSUME NEW c \in 0..n + 1, NEW k \in 0..n + 1
        PROVE  G(c, k) = E(c, k)
    <2>1. CASE k = 0
      BY <1>3, <2>1
    <2>2. CASE k # 0
      <3>1. k \in 1..n + 1 /\ k - 1 \in 0..n + 1 /\ n + 1 \in 0..n + 1
        BY <1>1, <2>2
      <3>2. H[c][k - 1] = G(c, k - 1) /\ H[k][n + 1] = G(k, n + 1)
        BY <1>4, <3>1
      <3>3. IF r[k].parent = c THEN G(c, k) = G(c, k - 1) \o Written(r[k]) \o G(k, n + 1)
            ELSE G(c, k) = G(c, k - 1)
        BY <1>3, <3>1
      <3>4. QED
        BY <2>2, <3>2, <3>3 DEF ChildOf
    <2>3. QED
      BY <2>1, <2>2
  <1>7. H = [c \in 0..n + 1 |-> [k \in 0..n + 1 |-> E(c, k)]]
    <2> HIDE DEF E
    <2>1. \A c \in 0..n + 1 : [k \in 0..n + 1 |-> G(c, k)] = [k \in 0..n + 1 |-> E(c, k)]
      BY <1>6
    <2>2. QED
      BY <2>1 DEF H
  <1>8. IsBelow(r, H)
    BY <1>1, <1>7 DEF IsBelow
  <1>9. H[0][n + 1] = b \o w
    <2>1. 0 \in 0..n + 1 /\ n + 1 \in 0..n + 1
      BY <1>1
    <2>2. QED
      BY <1>2, <1>3, <1>4, <2>1
  <1>10. Writes(r, b \o w)
    BY <1>1, <1>5, <1>8, <1>9 DEF Writes
  <1>11. QED
    BY <1>10 DEF r, w

-----------------------------------------------------------------------------
(* The ends of what is written, call by call.                              *)

\* The root is the end of an empty path.
LEMMA RootChain ==
  ASSUME NEW q, AllPlaced(q)
  PROVE  Chain(q, {0}, 0)
  <1>1. Len(q) \in Nat
    BY PlacedList
  <1>2. QED
    BY <1>1 DEF Chain

\* A child of the end of a path, or of a later unit below it, leaves it the end.
LEMMA ChainAbove ==
  ASSUME NEW q, AllPlaced(q), NEW x \in UnitRecord, NEW C, NEW p, Chain(q, C, p),
         \/ x.parent = p
         \/ x.parent \in p + 1..Len(q) /\ q[x.parent].parent >= p
  PROVE  Chain(Append(q, x), C, p)
  <1>1. Len(q) \in Nat /\ \A k \in 1..Len(q) : q[k].parent < k /\ q[k].parent \in 0..Len(q)
    BY Longer
  <1>2. /\ p \in 0..Len(q) /\ C \subseteq 0..p
        /\ \A c \in C \ {0} : c \in 1..Len(q) /\ q[c].parent # p
    BY ChainFacts
  <1>3. x.parent \in 0..Len(q)
    BY <1>1, <1>2
  <1>4. \A c \in C \ {0} : q[c].parent < p /\ q[c].parent \in 0..Len(q)
    BY <1>1, <1>2
  <1>5. \A c \in C \ {0} : q[c].parent # x.parent
    BY <1>1, <1>2, <1>4
  <1>6. x.parent = 0 \/ \A c \in C \ {0} : c = x.parent \/ q[x.parent].parent # q[c].parent
    <2>1. CASE x.parent = p
      BY <2>1 DEF Chain
    <2>2. CASE x.parent \in p + 1..Len(q) /\ q[x.parent].parent >= p
      BY <1>1, <1>2, <1>4, <2>2
    <2>3. QED
      BY <2>1, <2>2
  <1>7. QED
    BY <1>3, <1>5, <1>6, ChainKept

\* The kinds of the units the reader carries along.
KindsCarried(q, ob, fm, rec, ov) ==
  /\ ob # 0 => q[ob].kind = "object"
  /\ fm # 0 => q[fm].kind = "form"
  /\ rec # 0 => q[rec].kind = "record"
  /\ ov # 0 => q[ov].kind = "data"

\* The order of the units the reader carries along.
LEMMA ChainedFacts ==
  ASSUME NEW q, AllPlaced(q), NEW ob, NEW fm, NEW rec, NEW ov,
         Chained(q, ob, fm, rec, ov)
  PROVE  /\ Len(q) \in Nat /\ ob \in 0..Len(q)
         /\ ob # 0 => q[ob].parent = 0
         /\ fm # 0 => fm \in ob + 1..Len(q) /\ fm \in 1..Len(q) /\ q[fm].parent = ob
         /\ rec # 0 => /\ rec \in 1..Len(q) /\ rec \in fm + 1..Len(q) /\ rec \in ob + 1..Len(q)
                       /\ q[rec].parent = fm /\ fm # 0
         /\ ov # 0 => ov \in 1..Len(q)
  <1>1. Len(q) \in Nat /\ \A k \in 1..Len(q) : q[k].parent < k /\ q[k].parent \in 0..Len(q)
    <2>1. /\ Len(q) \in Nat
          /\ \A k \in 1..Len(q) : q[k].parent < k /\ q[k].parent \in Nat
      BY PlacedList, ParentsBefore
    <2>2. QED
      BY <2>1
  <1>2. ob \in 0..Len(q)
    BY ChainFacts DEF Chained
  <1>3. ASSUME ob # 0 PROVE q[ob].parent = 0
    <2>1. q[ob].parent \in {0, ob}
      BY <1>3 DEF Chained, Chain
    <2>2. ob \in 1..Len(q)
      BY <1>1, <1>2, <1>3
    <2>3. QED
      BY <1>1, <2>1, <2>2
  <1>4. ASSUME fm # 0
        PROVE  fm \in ob + 1..Len(q) /\ fm \in 1..Len(q) /\ q[fm].parent = ob
    <2>1. Chain(q, {0, ob, fm}, fm) /\ q[fm].parent = ob
      BY <1>4 DEF Chained
    <2>2. fm \in 0..Len(q)
      BY <2>1, ChainFacts
    <2>3. fm \in 1..Len(q)
      BY <1>1, <1>4, <2>2
    <2>4. ob < fm
      BY <1>1, <2>1, <2>3
    <2>5. QED
      BY <1>1, <1>2, <2>1, <2>3, <2>4
  <1>5. ASSUME rec # 0
        PROVE  /\ rec \in 1..Len(q) /\ rec \in fm + 1..Len(q) /\ rec \in ob + 1..Len(q)
               /\ q[rec].parent = fm /\ fm # 0
    <2>1. Chain(q, {0, ob, fm, rec}, rec) /\ q[rec].parent = fm /\ fm # 0
      BY <1>5 DEF Chained
    <2>2. rec \in 0..Len(q)
      BY <2>1, ChainFacts
    <2>3. rec \in 1..Len(q)
      BY <1>1, <1>5, <2>2
    <2>4. fm < rec
      BY <1>1, <2>1, <2>3
    <2>5. QED
      BY <1>1, <1>2, <1>4, <2>1, <2>3, <2>4
  <1>6. ASSUME ov # 0 PROVE ov \in 1..Len(q)
    <2>1. PICK C : Chain(q, C, ov)
      BY <1>6 DEF Chained
    <2>2. ov \in 0..Len(q)
      BY <2>1, ChainFacts
    <2>3. QED
      BY <1>1, <1>6, <2>2
  <1>7. QED
    BY <1>1, <1>2, <1>3, <1>4, <1>5, <1>6

\* An object is read behind everything that is written.
LEMMA ChainedObject ==
  ASSUME NEW q, AllPlaced(q), NEW x \in UnitRecord, x.parent = 0
  PROVE  Chained(Append(q, x), Len(q) + 1, 0, 0, 0)
  <1>1. Chain(q, {0}, x.parent)
    BY RootChain
  <1>2. Chain(Append(q, x), {0} \cup {Len(q) + 1}, Len(q) + 1)
    BY <1>1, ChainExtends
  <1>3. {0} \cup {Len(q) + 1} = {0, Len(q) + 1}
    OBVIOUS
  <1>4. QED
    BY <1>2, <1>3 DEF Chained

\* A form is read behind everything else in its object.
LEMMA ChainedForm ==
  ASSUME NEW q, AllPlaced(q), NEW x \in UnitRecord,
         NEW fm, NEW rec, NEW ov, Chained(q, x.parent, fm, rec, ov)
  PROVE  Chained(Append(q, x), x.parent, Len(q) + 1, 0, 0)
  <1> DEFINE ob == x.parent
             f == Len(q) + 1
             r == Append(q, x)
  <1>1. Chain(q, {0, ob}, ob)
    BY DEF Chained
  <1>2. Chain(r, {0, ob}, ob)
    BY <1>1, ChainAbove
  <1>3. Chain(r, {0, ob} \cup {f}, f)
    BY <1>1, ChainExtends
  <1>4. {0, ob} \cup {f} = {0, ob, f}
    OBVIOUS
  <1>5. r[f].parent = ob
    BY Longer
  <1> HIDE DEF r, f, ob
  <1>6. Chained(r, ob, f, 0, 0)
    BY <1>2, <1>3, <1>4, <1>5 DEF Chained
  <1>7. QED
    BY <1>6 DEF r, f, ob

\* The numbers of a form are read behind it.
LEMMA ChainedNumber ==
  ASSUME NEW q, AllPlaced(q), NEW x \in UnitRecord, x.parent # 0,
         NEW ob, Chained(q, ob, x.parent, 0, 0)
  PROVE  Chained(Append(q, x), ob, x.parent, 0, 0)
  <1> DEFINE f == x.parent
             r == Append(q, x)
  <1>1. Chain(q, {0, ob}, ob) /\ Chain(q, {0, ob, f}, f) /\ q[f].parent = ob
    BY DEF Chained
  <1>2. f \in ob + 1..Len(q) /\ f \in 1..Len(q) /\ ob \in 0..Len(q)
    BY ChainedFacts
  <1>3. Chain(r, {0, ob, f}, f)
    BY <1>1, ChainAbove
  <1>4. Chain(r, {0, ob}, ob)
    <2>1. q[f].parent >= ob
      BY <1>1, <1>2
    <2>2. QED
      BY <1>1, <1>2, <2>1, ChainAbove
  <1>5. r[f] = q[f]
    BY <1>2, Longer
  <1> HIDE DEF r, f
  <1>6. Chained(r, ob, f, 0, 0)
    BY <1>1, <1>3, <1>4, <1>5 DEF Chained
  <1>7. QED
    BY <1>6 DEF r, f

\* A record that is opened changes no path, and is the end of its own.
LEMMA ChainedRecord ==
  ASSUME NEW q, AllPlaced(q), NEW x \in UnitRecord, x.kind = "record", x.parent # 0,
         NEW ob, NEW ov, Chained(q, ob, x.parent, 0, ov), KindsCarried(q, ob, x.parent, 0, ov)
  PROVE  Chained(Append(q, x), ob, x.parent, Len(q) + 1, ov)
  <1> DEFINE f == x.parent
             n == Len(q)
             r == Append(q, x)
  <1>1. Chain(q, {0, ob}, ob) /\ Chain(q, {0, ob, f}, f) /\ q[f].parent = ob
    BY DEF Chained
  <1>2. f \in 1..n /\ f \in 0..n /\ q[f].kind = "form"
    BY ChainedFacts DEF KindsCarried
  <1>3. \A C, p : Chain(q, C, p) => Chain(r, C, p)
    BY <1>2, ChainKept
  <1>4. Chain(r, {0, ob, f} \cup {n + 1}, n + 1)
    BY <1>1, ChainExtends
  <1>5. {0, ob, f} \cup {n + 1} = {0, ob, f, n + 1}
    OBVIOUS
  <1>6. r[f] = q[f] /\ r[n + 1] = x
    BY <1>2, Longer
  <1>7. ov # 0 => \E C \in SUBSET (0..ov) : Chain(r, C, ov)
    BY <1>3 DEF Chained
  <1> HIDE DEF r, n
  <1>8. Chained(r, ob, f, n + 1, ov)
    BY <1>1, <1>3, <1>4, <1>5, <1>6, <1>7 DEF Chained
  <1>9. QED
    BY <1>8 DEF r, n, f

\* A data unit is read behind everything else in the unit it hangs below, and
\* that is where it is written.
LEMMA ChainedData ==
  ASSUME NEW q, AllPlaced(q), NEW x \in UnitRecord, NEW ob, NEW fm, NEW rec, NEW ov,
         Chained(q, ob, fm, rec, ov), KindsCarried(q, ob, fm, rec, ov),
         x.parent = IF ov # 0 THEN ov ELSE IF rec # 0 THEN rec ELSE ob,
         rec = 0 => fm = 0
  PROVE  /\ Chained(Append(q, x), ob, fm, rec, 0)
         /\ \E C \in SUBSET (0..Len(q) + 1) : Chain(Append(q, x), C, Len(q) + 1)
         /\ \E C : Chain(q, C, x.parent)
  <1> DEFINE p == x.parent
             n == Len(q)
             r == Append(q, x)
  <1>1. /\ n \in Nat /\ ob \in 0..n
        /\ ob # 0 => q[ob].parent = 0
        /\ fm # 0 => fm \in ob + 1..n /\ fm \in 1..n /\ q[fm].parent = ob
        /\ rec # 0 => /\ rec \in 1..n /\ rec \in fm + 1..n /\ rec \in ob + 1..n
                      /\ q[rec].parent = fm /\ fm # 0
        /\ ov # 0 => ov \in 1..n
    BY ChainedFacts
  <1>2. /\ Chain(q, {0, ob}, ob)
        /\ fm # 0 => Chain(q, {0, ob, fm}, fm)
        /\ rec # 0 => Chain(q, {0, ob, fm, rec}, rec)
        /\ ov # 0 => \E C : Chain(q, C, ov)
    BY DEF Chained
  <1>3. /\ ob # 0 => q[ob].kind = "object"
        /\ fm # 0 => q[fm].kind = "form"
        /\ ov # 0 => q[ov].kind = "data"
    BY DEF KindsCarried
  <1>4. PICK C : Chain(q, C, p)
    BY <1>2
  <1>5. /\ Chain(r, {0, ob}, ob)
        /\ fm # 0 => Chain(r, {0, ob, fm}, fm)
        /\ rec # 0 => Chain(r, {0, ob, fm, rec}, rec)
    <2>1. CASE ov # 0
      <3>1. p = ov /\ p \in 0..n /\ q[p].kind = "data"
        BY <1>1, <1>3, <2>1
      <3>2. /\ \A c \in {0, ob} \ {0} : q[c].parent # p
            /\ fm # 0 => \A c \in {0, ob, fm} \ {0} : q[c].parent # p
            /\ rec # 0 => \A c \in {0, ob, fm, rec} \ {0} : q[c].parent # p
        BY <1>1, <1>3, <2>1, <3>1
      <3>3. QED
        BY <1>2, <3>1, <3>2, ChainKept
    <2>2. CASE ov = 0 /\ rec # 0
      <3>1. p = rec /\ q[rec].parent = fm /\ fm # 0
        BY <1>1, <2>2
      <3>2. rec \in ob + 1..n /\ rec \in fm + 1..n /\ fm >= ob /\ fm >= fm
        BY <1>1, <2>2, <3>1
      <3>3. Chain(r, {0, ob}, ob)
        BY <1>2, <3>1, <3>2, ChainAbove
      <3>4. Chain(r, {0, ob, fm}, fm)
        BY <1>2, <3>1, <3>2, ChainAbove
      <3>5. Chain(r, {0, ob, fm, rec}, rec)
        BY <1>2, <2>2, <3>1, ChainAbove
      <3>6. QED
        BY <3>3, <3>4, <3>5
    <2>3. CASE ov = 0 /\ rec = 0
      <3>1. p = ob /\ fm = 0
        BY <2>3
      <3>2. Chain(r, {0, ob}, ob)
        BY <1>2, <3>1, ChainAbove
      <3>3. QED
        BY <2>3, <3>1, <3>2
    <2>4. QED
      BY <2>1, <2>2, <2>3
  <1>6. /\ fm # 0 => r[fm] = q[fm]
        /\ rec # 0 => r[rec] = q[rec]
    BY <1>1, Longer
  <1>7. Chain(r, C \cup {n + 1}, n + 1)
    BY <1>4, ChainExtends
  <1>8. C \cup {n + 1} \in SUBSET (0..n + 1)
    BY <1>7 DEF Chain
  <1> HIDE DEF r
  <1>9. Chained(r, ob, fm, rec, 0)
    BY <1>1, <1>5, <1>6 DEF Chained
  <1>10. QED
    BY <1>4, <1>7, <1>8, <1>9 DEF r

\* The kinds that Carried states.
LEMMA KindsFromCarried ==
  ASSUME IInv
  PROVE  KindsCarried(units, obj, form, record, over)
  BY DEF IInv, Carried, Oversize, KindOf, KindsCarried

-----------------------------------------------------------------------------
(* What is written, call by call.                                          *)

\* A unit that is not continued writes the bytes it was read from.
LEMMA UnitBytes ==
  ASSUME TypeOK, HasUnit, Fits, msg[pos] # LongMark,
         NEW k \in {"form", "object", "data"}, NEW p
  PROVE  SubSeq(msg, 1, pos - 1) \o Written(Unit(k, Content, p)) = SubSeq(msg, 1, After - 1)
  <1>1. msg \in Seq(Nat) /\ Len(msg) \in Nat /\ pos \in 1..Len(msg) + 1
    BY DEF TypeOK
  <1>2. pos \in 1..Len(msg)
    BY <1>1 DEF HasUnit, Rest
  <1>3. Size = msg[pos] /\ Size \in Nat /\ Len(Content) = Size
    BY UnitFacts DEF Size
  <1>4. pos + Size \in pos..Len(msg) /\ After - 1 = pos + Size
    <2>1. Size \in Nat /\ pos \in Nat /\ Size + 1 <= Len(msg) - pos + 1
      BY <1>2, <1>3 DEF Fits, Rest
    <2>2. After = pos + 1 + Size
      BY DEF After
    <2>3. QED
      BY <1>1, <2>1, <2>2
  <1>5. Written(Unit(k, Content, p)) = <<msg[pos]>> \o Content
    BY <1>3 DEF Written, Unit
  <1>6. SubSeq(msg, pos, pos + Size) = <<msg[pos]>> \o Content
    BY <1>1, <1>2, <1>4, SubSeqRecursiveFirst DEF Content
  <1>7. SubSeq(msg, 1, pos - 1) \o SubSeq(msg, pos - 1 + 1, pos + Size) = SubSeq(msg, 1, pos + Size)
    <2>1. /\ 1 \in 1..Len(msg) + 1 /\ pos - 1 \in 1 - 1..Len(msg)
          /\ pos + Size \in pos - 1..Len(msg)
      BY <1>1, <1>2, <1>3, <1>4
    <2>2. QED
      BY <1>1, <2>1, ConcatAdjacentSubSeq
  <1>8. pos - 1 + 1 = pos
    BY <1>2
  <1>9. QED
    BY <1>4, <1>5, <1>6, <1>7, <1>8

\* The path a list of units is written behind, and what one more writes.
LEMMA WritesUnit ==
  ASSUME NEW q, AllPlaced(q), NEW x \in UnitRecord, NEW C, Chain(q, C, x.parent),
         NEW b \in Seq(Nat), Writes(q, b)
  PROVE  b \o Written(x) \in Seq(Nat) /\ Writes(Append(q, x), b \o Written(x))
  BY WritesMore, WrittenType, Rows

\* Steps that read no unit.
LEMMA WrittenStop ==
  ASSUME ChainInv, WrittenInv, Finish \/ Throw \/ UNCHANGED vars
  PROVE  ChainInv' /\ WrittenInv'
  <1>1. /\ units' = units /\ form' = form /\ record' = record /\ over' = over
        /\ obj' = obj /\ msg' = msg /\ pos' = pos
    BY DEF Finish, Throw, Plain, vars
  <1>2. ChainInv'
    BY <1>1 DEF ChainInv
  <1>3. WrittenInv'
    BY <1>1 DEF WrittenInv
  <1>4. QED
    BY <1>2, <1>3

LEMMA WrittenObject ==
  ASSUME IInv, WrittenInv, ReadObject
  PROVE  ChainInv' /\ WrittenInv'
  <1> DEFINE x == Unit("object", Content, 0)
             n == Len(units)
  <1>1. AllPlaced(units) /\ TypeOK
    BY PlacedUnits DEF IInv, TypeOK, UnitRecord
  <1>2. /\ units' = Append(units, x) /\ obj' = n + 1
        /\ form' = 0 /\ record' = 0 /\ over' = 0 /\ msg' = msg /\ pos' = After
        /\ HasUnit /\ Fits
    BY DEF ReadObject, OutOfForm
  <1>3. x \in UnitRecord /\ x.parent = 0
    <2>1. "object" \in Kinds /\ Content \in Seq(Nat)
      BY <1>1, <1>2, UnitFacts DEF Kinds
    <2>2. QED
      BY <2>1, UnitFields
  <1>4. PICK b \in Seq(Nat) :
          /\ Writes(units, b)
          /\ (\A k \in 1..Len(msg) : msg[k] # LongMark) => b = SubSeq(msg, 1, pos - 1)
    BY DEF WrittenInv
  <1>5. msg[pos] # LongMark => SubSeq(msg, 1, pos - 1) \o Written(x) = SubSeq(msg, 1, After - 1)
    BY <1>1, <1>2, UnitBytes
  <1>6. pos \in 1..Len(msg)
    BY <1>1, <1>2 DEF TypeOK, HasUnit, Rest
  <1> HIDE DEF x
  <1>7. b \o Written(x) \in Seq(Nat) /\ Writes(units', b \o Written(x))
    <2>1. Chain(units, {0}, x.parent)
      BY <1>1, <1>3, RootChain
    <2>2. QED
      BY <1>1, <1>2, <1>3, <1>4, <2>1, WritesUnit
  <1>8. (\A k \in 1..Len(msg) : msg[k] # LongMark) => b \o Written(x) = SubSeq(msg, 1, After - 1)
    BY <1>4, <1>5, <1>6
  <1>9. WrittenInv'
    BY <1>2, <1>7, <1>8 DEF WrittenInv
  <1>10. Chained(units', n + 1, 0, 0, 0)
    BY <1>1, <1>2, <1>3, ChainedObject
  <1>11. ChainInv'
    BY <1>2, <1>10 DEF ChainInv
  <1>12. QED
    BY <1>9, <1>11

\* A byte of the message behind those before it.
LEMMA NextByte ==
  ASSUME TypeOK, NEW i \in 1..Len(msg), NEW k \in {"line", "column"}, NEW p
  PROVE  SubSeq(msg, 1, i - 1) \o Written(Unit(k, <<msg[i]>>, p)) = SubSeq(msg, 1, i)
  <1>1. msg \in Seq(Nat) /\ Len(msg) \in Nat
    BY DEF TypeOK
  <1>2. Written(Unit(k, <<msg[i]>>, p)) = <<msg[i]>>
    BY DEF Written, Unit
  <1>3. 1 \in 1..Len(msg) /\ i \in 1..Len(msg)
    BY <1>1
  <1>4. QED
    BY <1>1, <1>2, <1>3, SubSeqRecursiveSecond

LEMMA WrittenForm ==
  ASSUME IInv, ChainInv, WrittenInv, ReadForm
  PROVE  ChainInv' /\ WrittenInv'
  <1> DEFINE f == Len(units) + 1
             x1 == Unit("form", Content, obj)
             x2 == Unit("line", <<msg[After]>>, f)
             x3 == Unit("column", <<msg[After + 1]>>, f)
             q1 == Append(units, x1)
             q2 == Append(q1, x2)
  <1>1. AllPlaced(units) /\ TypeOK /\ Len(units) \in Nat /\ obj \in 0..Len(units)
    BY PlacedUnits DEF IInv, TypeOK, UnitRecord
  <1>2. /\ units' = Append(q2, x3)
        /\ obj' = obj /\ form' = f /\ record' = 0 /\ over' = 0 /\ msg' = msg /\ pos' = After + 2
        /\ HasUnit /\ Fits /\ Size + 3 <= Rest
    BY DEF ReadForm
  <1>3. /\ Content \in Seq(Nat) /\ msg[After] \in Nat /\ msg[After + 1] \in Nat
        /\ After \in 1..Len(msg) + 1 /\ After + 2 \in 1..Len(msg) + 1 /\ Len(msg) \in Nat
    BY <1>1, <1>2, UnitFacts
  <1>4. "form" \in Kinds /\ "line" \in Kinds /\ "column" \in Kinds /\ f \in Nat /\ obj \in Nat
    BY <1>1 DEF Kinds
  <1>5. x1 \in UnitRecord /\ x1.kind = "form" /\ x1.parent = obj
    BY <1>3, <1>4, UnitFields
  <1>6. x2 \in UnitRecord /\ x2.kind = "line" /\ x2.parent = f
    BY <1>3, <1>4, NumberUnit
  <1>7. x3 \in UnitRecord /\ x3.kind = "column" /\ x3.parent = f
    BY <1>3, <1>4, NumberUnit
  <1>8. PICK b \in Seq(Nat) :
          /\ Writes(units, b)
          /\ (\A k \in 1..Len(msg) : msg[k] # LongMark) => b = SubSeq(msg, 1, pos - 1)
    BY DEF WrittenInv
  <1>9. msg[pos] # LongMark => SubSeq(msg, 1, pos - 1) \o Written(x1) = SubSeq(msg, 1, After - 1)
    BY <1>1, <1>2, UnitBytes
  <1>10. SubSeq(msg, 1, After - 1) \o Written(x2) = SubSeq(msg, 1, After)
    <2>1. After \in 1..Len(msg)
      BY <1>3
    <2>2. QED
      BY <1>1, <2>1, NextByte
  <1>11. SubSeq(msg, 1, After) \o Written(x3) = SubSeq(msg, 1, After + 1)
    <2> DEFINE j == After + 1
    <2>1. j \in 1..Len(msg) /\ j - 1 = After
      BY <1>3
    <2> HIDE DEF j
    <2>2. SubSeq(msg, 1, j - 1) \o Written(Unit("column", <<msg[j]>>, f)) = SubSeq(msg, 1, j)
      BY <1>1, <2>1, NextByte
    <2>3. QED
      BY <2>1, <2>2 DEF j
  <1>12. pos \in 1..Len(msg)
    BY <1>1, <1>2 DEF TypeOK, HasUnit, Rest
  <1> HIDE DEF x1, x2, x3
  <1>13. AllPlaced(q1) /\ Len(q1) = f /\ q1[f] = x1
    <2>1. KindIn(units, obj) \in {"business data", "object"}
      BY DEF IInv, Carried, KindIn
    <2>2. MayHang(units, x1, x1.parent) /\ x1.parent \in 0..Len(units)
      BY <1>1, <1>5, <2>1 DEF MayHang
    <2>3. QED
      BY <1>1, <1>5, <2>2, AddUnit
  <1>14. Chained(q1, obj, f, 0, 0)
    <2>1. Chained(units, obj, form, record, over)
      BY DEF ChainInv
    <2>2. QED
      BY <1>1, <1>5, <2>1, ChainedForm
  <1>15. b \o Written(x1) \in Seq(Nat) /\ Writes(q1, b \o Written(x1))
    <2>1. Chain(units, {0, obj}, x1.parent)
      BY <1>5 DEF ChainInv, Chained
    <2>2. QED
      BY <1>1, <1>5, <1>8, <2>1, WritesUnit
  <1> HIDE DEF q1
  <1>16. f # 0 /\ f \in 0..f /\ f + 1 # f
    BY <1>1
  <1>17. AllPlaced(q2) /\ Len(q2) = f + 1 /\ q2[f] = x1
    <2>1. MayHang(q1, x2, x2.parent) /\ x2.parent \in 0..Len(q1)
      BY <1>5, <1>6, <1>13, <1>16 DEF MayHang, KindIn
    <2>2. f \in 1..Len(q1)
      BY <1>1, <1>13
    <2>3. QED
      BY <1>6, <1>13, <2>1, <2>2, AddUnit
  <1>18. Chained(q2, obj, f, 0, 0)
    BY <1>6, <1>13, <1>14, <1>16, ChainedNumber
  <1> DEFINE b2 == b \o Written(x1) \o Written(x2)
  <1>19. b2 \in Seq(Nat) /\ Writes(q2, b2)
    <2>1. Chain(q1, {0, obj, f}, x2.parent)
      BY <1>6, <1>14, <1>16 DEF Chained
    <2>2. QED
      BY <1>6, <1>13, <1>15, <2>1, WritesUnit
  <1> HIDE DEF q2
  <1>20. Chained(units', obj, f, 0, 0)
    BY <1>2, <1>7, <1>16, <1>17, <1>18, ChainedNumber
  <1>21. ChainInv'
    BY <1>2, <1>20 DEF ChainInv
  <1>22. (\A k \in 1..Len(msg) : msg[k] # LongMark) => b2 \o Written(x3) = SubSeq(msg, 1, After + 1)
    BY <1>8, <1>9, <1>10, <1>11, <1>12
  <1> HIDE DEF b2
  <1>23. b2 \o Written(x3) \in Seq(Nat) /\ Writes(units', b2 \o Written(x3))
    <2>1. Chain(q2, {0, obj, f}, x3.parent)
      BY <1>7, <1>16, <1>18 DEF Chained
    <2>2. QED
      BY <1>2, <1>7, <1>17, <1>19, <2>1, WritesUnit
  <1>24. WrittenInv'
    <2>1. pos' - 1 = After + 1
      BY <1>2, <1>3
    <2>2. (\A k \in 1..Len(msg) : msg[k] # LongMark) => b2 \o Written(x3) = SubSeq(msg', 1, pos' - 1)
      BY <1>2, <1>22, <2>1
    <2>3. QED
      BY <1>2, <1>23, <2>2 DEF WrittenInv
  <1>25. QED
    BY <1>21, <1>24

\* The list in which a data unit is read, and the path it is written behind.
LEMMA WrittenData ==
  ASSUME NEW q, AllPlaced(q), NEW fm, NEW rec,
         Chained(q, obj, fm, rec, over), KindsCarried(q, obj, fm, rec, over),
         rec = 0 => fm = 0,
         TypeOK, HasUnit, Fits,
         NEW p \in Nat, p = IF over # 0 THEN over ELSE IF rec # 0 THEN rec ELSE obj,
         units' = Append(q, Unit("data", Content, p)),
         over' = NextOver(Len(q) + 1), obj' = obj, msg' = msg, pos' = After,
         form' \in {0, fm}, record' \in {0, rec}, form' = 0 => record' = 0,
         NEW b \in Seq(Nat), Writes(q, b),
         (\A k \in 1..Len(msg) : msg[k] # LongMark) => b = SubSeq(msg, 1, pos - 1)
  PROVE  ChainInv' /\ WrittenInv'
  <1> DEFINE x == Unit("data", Content, p)
             n == Len(q)
  <1>1. x \in UnitRecord /\ x.parent = p
    <2>1. "data" \in Kinds /\ Content \in Seq(Nat)
      BY UnitFacts DEF Kinds
    <2>2. QED
      BY <2>1, UnitFields
  <1>2. msg[pos] # LongMark => SubSeq(msg, 1, pos - 1) \o Written(x) = SubSeq(msg, 1, After - 1)
    BY UnitBytes
  <1>3. pos \in 1..Len(msg)
    BY DEF TypeOK, HasUnit, Rest
  <1>4. n \in Nat /\ n + 1 # 0
    BY PlacedList
  <1> HIDE DEF x
  <1>5. /\ Chained(units', obj, fm, rec, 0)
        /\ \E C \in SUBSET (0..n + 1) : Chain(units', C, n + 1)
        /\ \E C : Chain(q, C, x.parent)
    <2>1. units' = Append(q, x)
      BY DEF x
    <2>2. QED
      BY <1>1, <2>1, ChainedData
  <1>6. b \o Written(x) \in Seq(Nat) /\ Writes(units', b \o Written(x))
    BY <1>1, <1>5, WritesUnit DEF x
  <1>7. (\A k \in 1..Len(msg) : msg[k] # LongMark) => b \o Written(x) = SubSeq(msg, 1, After - 1)
    BY <1>2, <1>3
  <1>8. WrittenInv'
    BY <1>6, <1>7 DEF WrittenInv
  <1>9. over' = 0 \/ over' = n + 1
    BY DEF NextOver
  <1>10. Chained(units', obj, form', record', over')
    BY <1>5, <1>9 DEF Chained
  <1>11. ChainInv'
    BY <1>10 DEF ChainInv
  <1>12. QED
    BY <1>8, <1>11

LEMMA WrittenUnit ==
  ASSUME IInv, ChainInv, WrittenInv, ReadUnit
  PROVE  ChainInv' /\ WrittenInv'
  <1>1. AllPlaced(units) /\ TypeOK /\ over \in Nat /\ obj \in Nat
    BY PlacedUnits DEF IInv, TypeOK, UnitRecord
  <1>2. /\ units' = Append(units, Unit("data", Content, IF over # 0 THEN over ELSE obj))
        /\ over' = NextOver(Len(units) + 1) /\ obj' = obj /\ msg' = msg /\ pos' = After
        /\ form' = 0 /\ record' = 0 /\ form = 0 /\ HasUnit /\ Fits
    BY DEF ReadUnit, OutOfForm, IsData
  <1>3. Chained(units, obj, 0, 0, over)
    BY <1>2 DEF ChainInv, Chained
  <1>4. KindsCarried(units, obj, 0, 0, over)
    BY KindsFromCarried DEF KindsCarried
  <1>5. PICK b \in Seq(Nat) :
          /\ Writes(units, b)
          /\ (\A k \in 1..Len(msg) : msg[k] # LongMark) => b = SubSeq(msg, 1, pos - 1)
    BY DEF WrittenInv
  <1> DEFINE p == IF over # 0 THEN over ELSE obj
  <1>6. p \in Nat /\ p = IF over # 0 THEN over ELSE IF 0 # 0 THEN 0 ELSE obj
    BY <1>1
  <1>7. units' = Append(units, Unit("data", Content, p))
    BY <1>2
  <1> HIDE DEF p
  <1>8. QED
    BY <1>1, <1>2, <1>3, <1>4, <1>5, <1>6, <1>7, WrittenData

\* The record of the next cell writes nothing.
LEMMA WrittenOpened ==
  ASSUME IInv, ChainInv, form # 0, NEW b \in Seq(Nat), Writes(units, b)
  PROVE  /\ Writes(Opened, b) /\ Current # 0
         /\ Chained(Opened, obj, form, Current, over)
         /\ KindsCarried(Opened, obj, form, Current, over)
  <1> DEFINE y == Unit("record", <<>>, form)
             n == Len(units)
  <1>1. AllPlaced(units) /\ n \in Nat /\ form \in Nat
    BY PlacedUnits, PlacedList DEF IInv, TypeOK, UnitRecord
  <1>2. Chained(units, obj, form, record, over) /\ KindsCarried(units, obj, form, record, over)
    BY KindsFromCarried DEF ChainInv
  <1>3. CASE record # 0
    BY <1>2, <1>3 DEF Opened, Current
  <1>4. CASE record = 0
    <2>1. y \in UnitRecord /\ y.kind = "record" /\ y.parent = form
      BY <1>1, RecordUnit
    <2>2. Written(y) = <<>>
      BY <2>1 DEF Written
    <2> HIDE DEF y
    <2>3. Opened = Append(units, y) /\ Len(Append(units, y)) = n + 1
      BY <1>1, <1>4, <2>1, Longer DEF Opened, y
    <2>4. Current = n + 1 /\ Current # 0
      BY <1>1, <1>4, <2>3 DEF Current
    <2>5. Chained(Opened, obj, form, Current, over)
      BY <1>1, <1>2, <1>4, <2>1, <2>3, <2>4, ChainedRecord
    <2>6. Writes(Opened, b)
      <3>1. Chain(units, {0, obj, form}, y.parent)
        BY <1>2, <2>1 DEF Chained
      <3>2. Writes(Append(units, y), b \o Written(y))
        BY <1>1, <2>1, <3>1, WritesUnit
      <3>3. b \o Written(y) = b
        BY <2>2, Rows
      <3>4. QED
        BY <2>3, <3>2, <3>3
    <2>7. KindsCarried(Opened, obj, form, Current, over)
      <3>1. /\ obj \in 0..n /\ form \in 1..n
            /\ over # 0 => over \in 1..n
        BY <1>1, <1>2, ChainedFacts
      <3>2. /\ \A k \in 1..n : Opened[k] = units[k]
            /\ Opened[Current] = y
        BY <1>1, <2>1, <2>3, <2>4, Longer
      <3>3. obj # 0 => obj \in 1..n
        BY <3>1
      <3>4. QED
        BY <1>2, <2>1, <3>1, <3>2, <3>3 DEF KindsCarried
    <2>8. QED
      BY <2>4, <2>5, <2>6, <2>7
  <1>5. QED
    BY <1>3, <1>4

LEMMA WrittenCell ==
  ASSUME IInv, ChainInv, WrittenInv, ReadCell
  PROVE  ChainInv' /\ WrittenInv'
  <1>1. /\ form # 0 /\ TypeOK /\ HasUnit /\ Fits
        /\ units' = Append(Opened, Unit("data", Content, IF over # 0 THEN over ELSE Current))
        /\ over' = NextOver(Len(Opened) + 1) /\ NextColumn(Current)
        /\ obj' = obj /\ pos' = After /\ msg' = msg
    BY CellFacts DEF ReadCell, IsData, IInv
  <1>2. PICK b \in Seq(Nat) :
          /\ Writes(units, b)
          /\ (\A k \in 1..Len(msg) : msg[k] # LongMark) => b = SubSeq(msg, 1, pos - 1)
    BY DEF WrittenInv
  <1>3. /\ Writes(Opened, b) /\ Current # 0
        /\ Chained(Opened, obj, form, Current, over)
        /\ KindsCarried(Opened, obj, form, Current, over)
    BY <1>1, <1>2, WrittenOpened
  <1>4. AllPlaced(Opened) /\ Len(Opened) \in Nat /\ Current \in 1..Len(Opened)
    BY <1>1, OpenedPlaced
  <1>5. form' \in {0, form} /\ record' \in {0, Current} /\ (form' = 0 => record' = 0)
    BY <1>1 DEF NextColumn, OutOfForm
  <1> DEFINE p == IF over # 0 THEN over ELSE Current
  <1>6. p \in Nat /\ p = IF over # 0 THEN over ELSE IF Current # 0 THEN Current ELSE obj
    BY <1>1, <1>3, <1>4 DEF TypeOK
  <1>7. units' = Append(Opened, Unit("data", Content, p))
    BY <1>1
  <1> HIDE DEF p
  <1>8. QED
    BY <1>1, <1>2, <1>3, <1>4, <1>5, <1>6, <1>7, WrittenData

LEMMA WrittenInit == Init => ChainInv /\ WrittenInv
  <1> SUFFICES ASSUME Init PROVE ChainInv /\ WrittenInv
    OBVIOUS
  <1>1. /\ units = <<>> /\ Len(units) = 0
        /\ form = 0 /\ record = 0 /\ over = 0 /\ obj = 0 /\ pos = 1
    BY DEF Init
  <1>2. AllPlaced(units)
    BY InitStep, PlacedUnits DEF IInv, TypeOK, UnitRecord
  <1>3. ChainInv
    <2>1. Chain(units, {0}, 0) /\ {0, 0} = {0}
      BY <1>2, RootChain
    <2>2. QED
      BY <1>1, <2>1 DEF ChainInv, Chained
  <1> DEFINE F == [p \in 0..0 |-> [k \in 0..0 |-> <<>>]]
             E(p, k) == IF k = 0 THEN <<>>
                        ELSE IF ChildOf(units, p, k)
                             THEN F[p][k - 1] \o Written(units[k]) \o F[k][0]
                             ELSE F[p][k - 1]
  <1>4. F \in [0..0 -> [0..0 -> Seq(Nat)]] /\ F[0][0] = <<>>
    BY Rows
  <1>5. \A p, k \in 0..0 : E(p, k) = <<>>
    OBVIOUS
  <1>6. F = [p \in 0..0 |-> [k \in 0..0 |-> E(p, k)]]
    <2> HIDE DEF E
    <2>1. \A p \in 0..0 : [k \in 0..0 |-> E(p, k)] = [k \in 0..0 |-> <<>>]
      BY <1>5
    <2>2. QED
      BY <2>1
  <1> HIDE DEF F
  <1>7. IsBelow(units, F)
    BY <1>1, <1>6 DEF IsBelow
  <1>8. Writes(units, <<>>)
    BY <1>1, <1>4, <1>7 DEF Writes
  <1>9. SubSeq(msg, 1, pos - 1) = <<>>
    <2>1. pos - 1 \in Int /\ 1 \in Int /\ pos - 1 < 1
      BY <1>1
    <2>2. QED
      BY <2>1, SubSeqEmpty
  <1>10. WrittenInv
    BY <1>8, <1>9, Rows DEF WrittenInv
  <1>11. QED
    BY <1>3, <1>10

-----------------------------------------------------------------------------
(* Theorems.                                                               *)

\* IInv is inductive: one case per kind of call.
LEMMA Inductive == Spec => []IInv
  <1>1. Init => IInv
    BY InitStep
  <1>2. IInv /\ [Next]_vars => IInv'
    <2>1. SUFFICES ASSUME IInv, [Next]_vars
                   PROVE  IInv'
      OBVIOUS
    <2>2. CASE Finish \/ Throw
      BY <2>1, <2>2, StopStep
    <2>3. CASE ReadForm
      BY <2>1, <2>3, ReadFormStep
    <2>4. CASE ReadObject
      BY <2>1, <2>4, ReadObjectStep
    <2>5. CASE ReadCell
      BY <2>1, <2>5, ReadCellStep
    <2>6. CASE ReadUnit
      BY <2>1, <2>6, ReadUnitStep
    <2>7. CASE UNCHANGED vars
      BY <2>1, <2>7 DEF IInv, TypeOK, Carried, WellPlaced, KindOf, Oversize, vars
    <2>8. QED
      BY <2>1, <2>2, <2>3, <2>4, <2>5, <2>6, <2>7 DEF Next
  <1>3. QED
    BY <1>1, <1>2, PTL DEF Spec

\* GridInv is inductive, given IInv.
LEMMA GridInductive == Spec => []GridInv
  <1>1. Init => GridInv
    <2>1. Init => units = <<>> /\ record = 0 /\ FormsIn(units) = {}
      BY DEF Init, FormsIn
    <2>2. QED
      BY <2>1 DEF GridInv, Shapes, GridsIn
  <1>2. IInv /\ GridInv /\ [Next]_vars => GridInv'
    <2>1. SUFFICES ASSUME IInv, GridInv, [Next]_vars
                   PROVE  GridInv'
      OBVIOUS
    <2>2. CASE Finish \/ Throw \/ UNCHANGED vars
      <3>1. /\ units' = units /\ form' = form /\ record' = record
            /\ lines' = lines /\ left' = left /\ columns' = columns
        BY <2>2 DEF Finish, Throw, Plain, vars
      <3>2. QED
        BY <2>1, <3>1 DEF GridInv
    <2>3. CASE ReadForm
      BY <2>1, <2>3, GridFormStep
    <2>4. CASE ReadObject
      BY <2>1, <2>4, GridObjectStep
    <2>5. CASE ReadCell
      BY <2>1, <2>5, GridCellStep
    <2>6. CASE ReadUnit
      BY <2>1, <2>6, GridUnitStep
    <2>7. QED
      BY <2>1, <2>2, <2>3, <2>4, <2>5, <2>6 DEF Next
  <1>3. QED
    BY <1>1, <1>2, Inductive, PTL DEF Spec

\* ChainInv and WrittenInv are inductive, given IInv.
LEMMA WrittenInductive == Spec => [](ChainInv /\ WrittenInv)
  <1>1. Init => ChainInv /\ WrittenInv
    BY WrittenInit
  <1>2. IInv /\ ChainInv /\ WrittenInv /\ [Next]_vars => ChainInv' /\ WrittenInv'
    <2>1. SUFFICES ASSUME IInv, ChainInv, WrittenInv, [Next]_vars
                   PROVE  ChainInv' /\ WrittenInv'
      OBVIOUS
    <2>2. CASE Finish \/ Throw \/ UNCHANGED vars
      BY <2>1, <2>2, WrittenStop
    <2>3. CASE ReadForm
      BY <2>1, <2>3, WrittenForm
    <2>4. CASE ReadObject
      BY <2>1, <2>4, WrittenObject
    <2>5. CASE ReadCell
      BY <2>1, <2>5, WrittenCell
    <2>6. CASE ReadUnit
      BY <2>1, <2>6, WrittenUnit
    <2>7. QED
      BY <2>1, <2>2, <2>3, <2>4, <2>5, <2>6 DEF Next
  <1>3. QED
    BY <1>1, <1>2, Inductive, PTL DEF Spec

\* The reader stays inside the message, and the countdown of a form's records
\* and columns never goes below zero (SopUtil.getBussinessData).
THEOREM TypeCorrect == Spec => []TypeOK
  <1>1. IInv => TypeOK
    BY DEF IInv
  <1>2. QED
    BY <1>1, Inductive, PTL

\* Every unit read from any message hangs below an earlier unit that may hold
\* it, so that the tree made of the list loses none (SopUtil.getBussinessData,
\* MakeTreeData2List.listBussinessData2TreeList).
THEOREM WellPlacedHolds == Spec => []WellPlaced
  <1>1. IInv => WellPlaced
    BY DEF IInv
  <1>2. QED
    BY <1>1, Inductive, PTL

\* Whatever the numbers of a form and the units behind it, a form is filled as a
\* grid: a record for every line, a cell for every column, and nothing is put
\* behind a form that is not full (the countdowns formLine and formColumn2Sub of
\* SopUtil.getBussinessData).
THEOREM FormIsGridHolds == Spec => []FormIsGrid
  <1>1. GridInv => FormIsGrid
    BY GridsAreForms
  <1>2. QED
    BY <1>1, GridInductive, PTL

\* Whatever the message, if no unit of it is marked as continued, writing the
\* tree gives back, byte for byte, what was read (SopUtil.getBussinessData and
\* forBussiDataChildren, MakeTreeData2List.listBussinessData2TreeList): the list
\* of units and the parents chosen by the reader are in agreement with the order
\* in which the tree is written.
THEOREM SerialisedInOrderHolds == Spec => []SerialisedInOrder
  <1>1. IInv /\ WrittenInv => SerialisedInOrder
    <2>1. SUFFICES ASSUME IInv, WrittenInv, \A k \in 1..Len(msg) : msg[k] # LongMark
                   PROVE  Serialised = SubSeq(msg, 1, pos - 1)
      BY DEF SerialisedInOrder
    <2>2. AllPlaced(units)
      BY <2>1, PlacedUnits DEF IInv, TypeOK, UnitRecord
    <2>3. PICK b : Writes(units, b) /\ b = SubSeq(msg, 1, pos - 1)
      BY <2>1 DEF WrittenInv
    <2>4. QED
      BY <2>2, <2>3, SerialisedIs
  <1>2. QED
    BY <1>1, Inductive, WrittenInductive, PTL
=============================================================================
