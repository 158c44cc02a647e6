----------------------------- MODULE SopUnits ------------------------------
(***************************************************************************)
(* The business data of a SOP message, read into a tree and written back.  *)
(*                                                                         *)
(* SopUtil.getBussinessData calls itself once per unit: a length byte and  *)
(* that many bytes of content.  A content that begins with "F" opens a     *)
(* form and is followed by its numbers of lines and columns, one that      *)
(* begins with "O" opens an object, any other is data.  The data that      *)
(* follows a form fills it record by record; a unit of the greatest length *)
(* is continued by the next one, which becomes its child.  The calls are   *)
(* tail calls: their parameters are the variables below and one call is    *)
(* one step.                                                               *)
(*                                                                         *)
(* The units stand in the list in the order in which they are read; a unit *)
(* is known by its index there, which stands for its random UUID, and 0 is *)
(* the node of the business data itself (and "null" for an id parameter).  *)
(* Contents are bytes: decoding and encoding them is left out.             *)
(***************************************************************************)
EXTENDS Integers, Sequences, FiniteSets

CONSTANTS Messages,      \* the business data read, sequences of bytes
          FByte, OByte,  \* "F" and "O"
          LongMark,      \* the length byte of a unit that is continued (255)
          Chunk          \* the number of bytes it stands for (250)

ASSUME UnitAssumption ==
  /\ Messages \subseteq Seq(Nat)
  /\ FByte \in Nat /\ OByte \in Nat /\ FByte # OByte
  /\ LongMark \in Nat /\ Chunk \in Nat /\ 0 < Chunk /\ Chunk < LongMark

VARIABLES
  msg,      \* str, from the first call on
  pos,      \* where the str of this call begins in msg
  units,    \* list
  form,     \* FormUnitId
  record,   \* recordId
  lines,    \* formLine: records of the form still to come
  left,     \* formColumn2Sub: units of the record still to come
  columns,  \* formColumn
  over,     \* dataOversizeId
  obj,      \* objId
  pc

vars == <<msg, pos, units, form, record, lines, left, columns, over, obj, pc>>

Init ==
  /\ msg \in Messages
  /\ pos = 1 /\ units = <<>>
  /\ form = 0 /\ record = 0 /\ lines = 0 /\ left = 0 /\ columns = 0
  /\ over = 0 /\ obj = 0
  /\ pc = "reading"

-----------------------------------------------------------------------------
(* The unit at pos.                                                        *)

Rest == Len(msg) - pos + 1

\* getDataLength is not -1: two bytes are left, or a zero byte.
HasUnit == Rest >= 2 \/ (Rest = 1 /\ msg[pos] = 0)

Size == IF msg[pos] = LongMark THEN Chunk ELSE msg[pos]

Fits == Size + 1 <= Rest

Content == SubSeq(msg, pos + 1, pos + Size)

After == pos + 1 + Size

StartsWith(b) == Size > 0 /\ msg[pos + 1] = b

Unit(k, v, p) == [kind |-> k, val |-> v, parent |-> p]

\* The id of the unit that continues to the next one.
NextOverAlways(id) == id
NextOver(id) == IF Size = Chunk THEN id ELSE 0

Plain == UNCHANGED <<form, record, lines, left, columns>>

OutOfForm == form' = 0 /\ record' = 0 /\ lines' = 0 /\ left' = 0 /\ columns' = 0

-----------------------------------------------------------------------------
(* One call of getBussinessData.                                           *)

Finish ==
  /\ pc = "reading" /\ ~HasUnit
  /\ pc' = "done"
  /\ UNCHANGED <<msg, pos, units, over, obj>> /\ Plain

\* The content, or the two numbers of a form, are longer than the message.
Throw ==
  /\ pc = "reading" /\ HasUnit
  /\ ~Fits \/ (StartsWith(FByte) /\ Size + 3 > Rest)
  /\ pc' = "error"
  /\ UNCHANGED <<msg, pos, units, over, obj>> /\ Plain

ReadFormColumnFirst ==
  LET f == Len(units) + 1
      l == msg[After]
      c == msg[After + 1]
  IN /\ pc = "reading" /\ HasUnit /\ Fits /\ StartsWith(FByte) /\ Size + 3 <= Rest
     /\ units' = Append(Append(Append(units, Unit("form", Content, obj)),
                               Unit("column", <<c>>, f)), Unit("line", <<l>>, f))
     /\ pos' = After + 2
     /\ form' = f /\ record' = 0 /\ lines' = l /\ left' = c /\ columns' = c
     /\ over' = 0
     /\ UNCHANGED <<msg, obj, pc>>
ReadForm ==
  LET f == Len(units) + 1
      l == msg[After]
      c == msg[After + 1]
  IN /\ pc = "reading" /\ HasUnit /\ Fits /\ StartsWith(FByte) /\ Size + 3 <= Rest
     /\ units' = Append(Append(Append(units, Unit("form", Content, obj)),
                               Unit("line", <<l>>, f)), Unit("column", <<c>>, f))
     /\ pos' = After + 2
     /\ form' = f /\ record' = 0 /\ lines' = l /\ left' = c /\ columns' = c
     /\ over' = 0
     /\ UNCHANGED <<msg, obj, pc>>

ReadObject ==
  /\ pc = "reading" /\ HasUnit /\ Fits /\ StartsWith(OByte)
  /\ units' = Append(units, Unit("object", Content, 0))
  /\ pos' = After
  /\ obj' = Len(units) + 1
  /\ over' = 0 /\ OutOfForm
  /\ UNCHANGED <<msg, pc>>

IsData == HasUnit /\ Fits /\ ~StartsWith(FByte) /\ ~StartsWith(OByte)

\* The column countdown decides whether the next unit is in the same record,
\* opens a record, or is behind the form.
NextColumnForgetsReset(r) ==
  \/ left > 1 /\ record' = r /\ left' = left - 1 /\ UNCHANGED <<form, lines, columns>>
  \/ /\ left <= 1 /\ lines > 1
     /\ record' = 0 /\ lines' = lines - 1
     /\ UNCHANGED <<form, columns, left>>
  \/ left <= 1 /\ lines <= 1 /\ OutOfForm
NextColumn(r) ==
  \/ left > 1 /\ record' = r /\ left' = left - 1 /\ UNCHANGED <<form, lines, columns>>
  \/ /\ left <= 1 /\ lines > 1
     /\ record' = 0 /\ lines' = lines - 1 /\ left' = columns
     /\ UNCHANGED <<form, columns>>
  \/ left <= 1 /\ lines <= 1 /\ OutOfForm

\* A data unit of a form; the first of a record creates the record.
ReadCell ==
  LET opened == IF record = 0 THEN Append(units, Unit("record", <<>>, form)) ELSE units
      r == IF record = 0 THEN Len(opened) ELSE record
  IN /\ pc = "reading" /\ IsData /\ (form # 0 \/ lines > 0)
     /\ units' = Append(opened, Unit("data", Content, IF over # 0 THEN over ELSE r))
     /\ over' = NextOver(Len(opened) + 1)
     /\ pos' = After
     /\ NextColumn(r)
     /\ UNCHANGED <<msg, obj, pc>>

\* A data unit outside any form, in the current object if there is one.
ReadUnit ==
  /\ pc = "reading" /\ IsData /\ form = 0 /\ lines <= 0
  /\ units' = Append(units, Unit("data", Content, IF over # 0 THEN over ELSE obj))
  /\ over' = NextOver(Len(units) + 1)
  /\ pos' = After
  /\ OutOfForm
  /\ UNCHANGED <<msg, obj, pc>>

Next == Finish \/ Throw \/ ReadForm \/ ReadObject \/ ReadCell \/ ReadUnit

Spec == Init /\ [][Next]_vars

-----------------------------------------------------------------------------
(* The tree that MakeTreeData2List.listBussinessData2TreeList builds, and  *)
(* what forBussiDataChildren writes for it: a node, then its children in   *)
(* the order of the list; a record is no unit of the message.              *)

ChildOf(list, p, k) == list[k].parent = p

Written(u) ==
  IF u.kind = "record" THEN <<>>
  ELSE IF u.kind \in {"line", "column"} THEN u.val
  ELSE <<Len(u.val)>> \o u.val

\* WrittenBelow(list)[p][k] is what the children of p among the first k units
\* write, each with all that is below it.
WrittenBelow(list) ==
  LET n == Len(list)
      below[p \in 0..n] ==
        [k \in 0..n |->
          IF k = 0 THEN <<>>
          ELSE IF ChildOf(list, p, k)
               THEN below[p][k - 1] \o Written(list[k]) \o below[k][n]
               ELSE below[p][k - 1]]
  IN below

Serialised == WrittenBelow(units)[0][Len(units)]

-----------------------------------------------------------------------------
(* Properties                                                              *)

Kinds == {"form", "line", "column", "record", "object", "data"}

TypeOK ==
  /\ msg \in Seq(Nat)
  /\ pos \in 1..Len(msg) + 1
  /\ units \in Seq([kind : Kinds, val : Seq(Nat), parent : Nat])
  /\ form \in 0..Len(units) /\ record \in 0..Len(units)
  /\ over \in 0..Len(units) /\ obj \in 0..Len(units)
  /\ lines \in Nat /\ left \in Nat /\ columns \in Nat
  /\ pc \in {"reading", "done", "error"}

KindOf(k) == IF k = 0 THEN "business data" ELSE units[k].kind

Oversize(k) == k > 0 /\ KindOf(k) = "data" /\ Len(units[k].val) = Chunk

\* Every unit hangs below one that was read before it and may hold it, so that
\* the tree built by parent ids loses no unit and has no cycle: the parts of a
\* form below a form, objects below the root, data below the root, an object, a
\* record, or a unit of the greatest length.
WellPlaced ==
  \A k \in 1..Len(units) :
    LET p == units[k].parent
    IN /\ p < k
       /\ units[k].kind \in {"line", "column", "record"} => KindOf(p) = "form"
       /\ units[k].kind = "object" => p = 0
       /\ units[k].kind = "form" => KindOf(p) \in {"business data", "object"}
       /\ units[k].kind = "data" =>
            KindOf(p) \in {"business data", "object", "record"} \/ Oversize(p)

\* Writing the tree gives back, byte for byte, what has been read so far: a
\* message that is uploaded and sent unedited is not changed by the tree it
\* went through.  (A unit marked as continued is written with its length.)
SerialisedInOrder ==
  (\A k \in 1..Len(msg) : msg[k] # LongMark) => Serialised = SubSeq(msg, 1, pos - 1)

Records(f) == {r \in 1..Len(units) : units[r].kind = "record" /\ units[r].parent = f}

CellsOf(r) == {k \in 1..Len(units) : units[k].parent = r}

Largest(a, b) == IF a >= b THEN a ELSE b

\* Without units of the greatest length a form is a grid: no more records than
\* lines, every record but the last with one unit per column, and no data
\* behind the form until the grid is full.  A form of no lines, or of no
\* columns, takes one.
FormIsGrid ==
  (\A k \in 1..Len(units) : ~Oversize(k)) =>
    \A f \in {k \in 1..Len(units) : units[k].kind = "form"} :
      LET l == Largest(units[f + 1].val[1], 1)
          c == Largest(units[f + 2].val[1], 1)
      IN /\ Cardinality(Records(f)) <= l
         /\ \A r, s \in Records(f) : r < s => Cardinality(CellsOf(r)) = c
         /\ \A k \in f + 3..Len(units) :
              /\ units[k].kind = "data" /\ units[k].parent \notin Records(f)
              /\ \A j \in f + 1..k : units[j].kind \notin {"form", "object"}
              => /\ Cardinality(Records(f)) = l
                 /\ \A r \in Records(f) : Cardinality(CellsOf(r)) = c
=============================================================================
