---------------------------- MODULE SopMessage -----------------------------
(***************************************************************************)
(* A SOP tree written as a message and read back, as every save of a case  *)
(* does (CaseService.modifyTreeOfCaseByCaseId, addCase).                   *)
(*                                                                         *)
(* SopFormat.parseTree2Message appends the heads and the business data of  *)
(* the tree's deals, then writes the length of each deal, which it has     *)
(* computed, over four digits of the message.  parseMessage2Tree cuts a    *)
(* combined message into deals by those lengths.                           *)
(*                                                                         *)
(* Places and lengths are those of the code, in hexadecimal digits, two to *)
(* a byte, the total length in front of the message not counted.  Of the   *)
(* business data only the length matters here (SopUnits has the rest); of  *)
(* the heads only the length field of a deal.  What a tree held there      *)
(* before is arbitrary.                                                    *)
(***************************************************************************)
EXTENDS Integers, Sequences

CONSTANTS Trees,     \* the trees saved
          Garbage    \* what four digits that are no length field may mean

\* 系统信息头 without the total length, 交易公共信息头, 交易返回公共信息头
SystemHead == 210
PublicHead == 42
ReturnHead == 82

\* 交易数据头, and where 本交易包长度 stands in it
DealHead == 128
LengthAt == 22
FieldDigits == 4

\* Where the first deal of an input message begins: res.substring(0,252+...).
FirstDeal == 252

\* A deal: the bytes of its business data, and the length the tree holds.
Deals == [biz : Nat, old : Nat]

\* No deal is so long that its length needs five digits.
ASSUME MessageAssumption ==
  /\ Trees \subseteq [out : BOOLEAN, combined : BOOLEAN, deals : Seq(Deals)]
  /\ \A t \in Trees :
       /\ Len(t.deals) > 0
       /\ t.out => Len(t.deals) = 1
       /\ \A k \in 1..Len(t.deals) : t.deals[k].biz + 64 < 65536
  /\ Garbage \subseteq Nat

VARIABLES
  tree,        \* treeData
  pc,          \* where the save is
  digits,      \* length of res
  starts,      \* where the deals begin in res
  packageLen,  \* packageDealLen
  i, j,        \* the loops over packageDealLen, from 0
  before,      \* beforeDealPackageLen
  patches,     \* the lengths written into res, with their places
  at,          \* where the rest of the message begins that getBuss is to read
  parsed       \* the business data read back, from digit to digit

vars == <<tree, pc, digits, starts, packageLen, i, j, before, patches, at, parsed>>

Init ==
  /\ tree \in Trees
  /\ pc = "append"
  /\ digits = SystemHead + (IF tree.out THEN ReturnHead ELSE PublicHead)
  /\ starts = <<>> /\ packageLen = <<>>
  /\ i = 0 /\ j = 0 /\ before = 0 /\ patches = <<>>
  /\ at = 0 /\ parsed = <<>>

-----------------------------------------------------------------------------
(* parseTree2Message: the sections of the tree, then the lengths.          *)

\* getPackageDealLength
PackageLength(biz) == (2 * biz + DealHead) \div 2

HeadOf(t) == IF t.out THEN 0 ELSE DealHead

\* 交易数据头, which an output message has not, and 业务数据 of the next deal.
AppendDeal ==
  LET d == tree.deals[Len(starts) + 1]
  IN /\ pc = "append" /\ Len(starts) < Len(tree.deals)
     /\ starts' = Append(starts, digits)
     /\ digits' = digits + HeadOf(tree) + 2 * d.biz
     /\ packageLen' = Append(packageLen, PackageLength(d.biz))
     /\ UNCHANGED <<tree, pc, i, j, before, patches, at, parsed>>

Appended ==
  /\ pc = "append" /\ Len(starts) = Len(tree.deals)
  /\ pc' = "seek"
  /\ UNCHANGED <<tree, digits, starts, packageLen, i, j, before, patches, at, parsed>>

\* The inner loop, for (int j = 0; j < i; j++).
SeekUnscaled ==
  /\ pc = "seek" /\ i < Len(packageLen) /\ j < i
  /\ before' = before + packageLen[j + 1]
  /\ j' = j + 1
  /\ UNCHANGED <<tree, pc, digits, starts, packageLen, i, patches, at, parsed>>
Seek ==
  /\ pc = "seek" /\ i < Len(packageLen) /\ j < i
  /\ before' = (before + packageLen[j + 1]) * 2
  /\ j' = j + 1
  /\ UNCHANGED <<tree, pc, digits, starts, packageLen, i, patches, at, parsed>>

Place == FirstDeal + before + LengthAt

\* pre + replace + after, or an exception when the message ends before the place.
Patch ==
  /\ pc = "seek" /\ j = i /\ i < Len(packageLen)
  /\ IF Place + FieldDigits <= digits
     THEN /\ patches' = Append(patches, [at |-> Place, value |-> packageLen[i + 1]])
          /\ i' = i + 1 /\ j' = 0 /\ before' = 0
          /\ UNCHANGED pc
     ELSE pc' = "error" /\ UNCHANGED <<patches, i, j, before>>
  /\ UNCHANGED <<tree, digits, starts, packageLen, at, parsed>>

\* parseMessage2Tree: the heads have fixed lengths (256 or 296 with the total).
Reread ==
  /\ pc = "seek" /\ i = Len(packageLen)
  /\ pc' = "read"
  /\ at' = IF tree.out THEN SystemHead + ReturnHead ELSE SystemHead + PublicHead
  /\ UNCHANGED <<tree, digits, starts, packageLen, i, j, before, patches, parsed>>

-----------------------------------------------------------------------------
(* getBuss: one call reads one deal.                                       *)

Overlap(p, q) == p < q + FieldDigits /\ q < p + FieldDigits

\* The number in the four digits at p is the last length written there; digits
\* that a length was written over in part, or that are no length field, are
\* arbitrary.
ValuesAt(p) ==
  LET hits == {n \in DOMAIN patches : Overlap(patches[n].at, p)}
      whole == {n \in hits : patches[n].at = p /\ \A m \in hits : m <= n}
      fields == {n \in DOMAIN starts : starts[n] + LengthAt = p}
  IN IF whole # {} THEN {patches[n].value : n \in whole}
     ELSE IF hits # {} \/ tree.out \/ fields = {} THEN Garbage
     ELSE {tree.deals[n].old : n \in fields}

Slice(s, e) == [from |-> s, to |-> e]

\* An output message is one piece of business data.
ReadOut ==
  /\ pc = "read" /\ tree.out
  /\ parsed' = Append(parsed, Slice(at, digits))
  /\ pc' = "saved"
  /\ UNCHANGED <<tree, digits, starts, packageLen, i, j, before, patches, at>>

\* The digits of a deal whose length field holds v, or of all that is left.
ThisLengthHalved(v) == IF v > 64 THEN v ELSE digits - at
ThisLength(v) == IF v > 64 THEN 2 * v ELSE digits - at

\* A deal of an input message; too short a rest for its head is an exception.
ReadDeal ==
  /\ pc = "read" /\ ~tree.out /\ at + DealHead <= digits
  /\ \E v \in ValuesAt(at + LengthAt) :
       IF tree.combined /\ ThisLength(v) < digits - at
       THEN /\ parsed' = Append(parsed, Slice(at + DealHead, at + ThisLength(v)))
            /\ at' = at + ThisLength(v)
            /\ UNCHANGED pc
       ELSE /\ parsed' = Append(parsed, Slice(at + DealHead, digits))
            /\ pc' = "saved"
            /\ UNCHANGED at
  /\ UNCHANGED <<tree, digits, starts, packageLen, i, j, before, patches>>

NoHead ==
  /\ pc = "read" /\ ~tree.out /\ at + DealHead > digits
  /\ pc' = "error"
  /\ UNCHANGED <<tree, digits, starts, packageLen, i, j, before, patches, at, parsed>>

Next ==
  AppendDeal \/ Appended \/ Seek \/ Patch \/ Reread \/ ReadOut \/ ReadDeal \/ NoHead

Spec == Init /\ [][Next]_vars

-----------------------------------------------------------------------------
(* Properties                                                              *)

TypeOK ==
  /\ tree \in Trees
  /\ pc \in {"append", "seek", "read", "saved", "error"}
  /\ digits \in Nat
  /\ starts \in Seq(Nat) /\ packageLen \in Seq(Nat)
  /\ Len(starts) = Len(packageLen) /\ Len(starts) <= Len(tree.deals)
  /\ i \in 0..Len(packageLen) /\ j \in 0..i /\ before \in Nat
  /\ patches \in Seq([at : Nat, value : Nat])
  /\ at \in 0..digits
  /\ parsed \in Seq([from : Nat, to : Nat])

\* Each computed length is written over the length field of its own deal, as
\* the comments around the patch say, and nothing else of the message changes.
PatchesHitLengthFields ==
  \A n \in 1..Len(patches) : ~tree.out /\ patches[n].at = starts[n] + LengthAt

\* That much is true of input messages of one deal or two.
UpToTwoDealsPatched ==
  ~tree.out /\ Len(tree.deals) <= 2 => PatchesHitLengthFields

\* The business data of the tree, as it stands in the message.
WrittenDeals ==
  [n \in 1..Len(starts) |->
     Slice(starts[n] + HeadOf(tree), starts[n] + HeadOf(tree) + 2 * tree.deals[n].biz)]

\* Two deals or one come back from a save as they were, whatever lengths the
\* tree held before, if each deal but the last has business data (a deal
\* without any has the length 64, which getBuss takes for none); one deal also when
\* the message is not marked as combined.
SavingKeepsDeals ==
  /\ pc \in {"saved", "error"} /\ ~tree.out
  /\ Len(tree.deals) = 1 \/ (tree.combined /\ Len(tree.deals) = 2 /\ tree.deals[1].biz > 0)
  => pc = "saved" /\ parsed = WrittenDeals
=============================================================================
