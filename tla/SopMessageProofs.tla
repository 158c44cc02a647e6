------------------------- MODULE SopMessageProofs --------------------------
(***************************************************************************)
(* Theorems about SopMessage, for all trees with any number of deals of    *)
(* any length that the length field can hold.                              *)
(***************************************************************************)
EXTENDS SopMessage, TLAPS

PatchRecord == [at : Nat, value : Nat]

SliceRecord == [from : Nat, to : Nat]

Heads == SystemHead + (IF tree.out THEN ReturnHead ELSE PublicHead)

\* The computed length of a deal is half the digits it takes.
Sized == \A n \in 1..Len(packageLen) : packageLen[n] = tree.deals[n].biz + 64

\* The first two deals of an input message follow each other.
Placed ==
  /\ digits >= Heads
  /\ ~tree.out =>
       /\ Len(starts) = 0 => digits = FirstDeal
       /\ Len(starts) >= 1 => starts[1] = FirstDeal
       /\ Len(starts) = 1 => digits = FirstDeal + 2 * packageLen[1]
       /\ Len(starts) >= 2 => starts[2] = FirstDeal + 2 * packageLen[1]

\* The running sum over one deal is the length of that deal.
Sought ==
  /\ j = 0 => before = 0
  /\ j = 1 => before = 2 * packageLen[1]

\* The lengths written so far are those of the first deals, in their order; the
\* first two stand where they belong.
Patched ==
  /\ pc = "append" => patches = <<>> /\ i = 0 /\ j = 0
  /\ Len(patches) = i
  /\ ~tree.out => \A n \in 1..Len(patches) :
                    n <= 2 => patches[n].at = starts[n] + LengthAt

IInv == TypeOK /\ Sized /\ Placed /\ Sought /\ Patched

-----------------------------------------------------------------------------
(* Lemmas                                                                  *)

\* What Append does to a list.
LEMMA AppendFacts ==
  ASSUME NEW R, NEW q \in Seq(R), NEW x \in R
  PROVE  /\ Append(q, x) \in Seq(R)
         /\ Len(Append(q, x)) = Len(q) + 1
         /\ Len(q) \in Nat
         /\ \A n \in 1..Len(q) : Append(q, x)[n] = q[n]
         /\ Append(q, x)[Len(q) + 1] = x
  OBVIOUS

\* What a tree holds.
LEMMA TreeFacts ==
  ASSUME tree \in Trees
  PROVE  /\ tree.out \in BOOLEAN /\ tree.deals \in Seq(Deals)
         /\ Len(tree.deals) \in Nat
         /\ \A n \in 1..Len(tree.deals) :
              tree.deals[n].biz \in Nat /\ tree.deals[n].old \in Nat
         /\ tree.out => Len(tree.deals) = 1
  <1>1. tree \in [out : BOOLEAN, combined : BOOLEAN, deals : Seq(Deals)]
    BY MessageAssumption
  <1>2. tree.out \in BOOLEAN /\ tree.deals \in Seq(Deals)
    BY <1>1
  <1>3. \A n \in 1..Len(tree.deals) : tree.deals[n] \in Deals
    BY <1>2
  <1>4. \A d \in Deals : d.biz \in Nat /\ d.old \in Nat
    BY DEF Deals
  <1>5. Len(tree.deals) \in Nat
    BY <1>2
  <1>6. tree.out => Len(tree.deals) = 1
    BY MessageAssumption
  <1>7. QED
    BY <1>2, <1>3, <1>4, <1>5, <1>6

\* A length read is a number.
LEMMA ValueFacts ==
  ASSUME TypeOK, NEW p, NEW v \in ValuesAt(p)
  PROVE  v \in Nat
  <1> DEFINE hits == {n \in DOMAIN patches : Overlap(patches[n].at, p)}
             whole == {n \in hits : patches[n].at = p /\ \A m \in hits : m <= n}
             fields == {n \in DOMAIN starts : starts[n] + LengthAt = p}
  <1>1. \A n \in whole : patches[n].value \in Nat
    <2>1. patches \in Seq(PatchRecord)
      BY DEF TypeOK, PatchRecord
    <2>2. \A n \in DOMAIN patches : patches[n] \in PatchRecord
      BY <2>1
    <2>3. QED
      BY <2>2 DEF PatchRecord
  <1>2. \A n \in fields : tree.deals[n].old \in Nat
    <2>1. /\ starts \in Seq(Nat) /\ Len(starts) <= Len(tree.deals) /\ tree \in Trees
          /\ Len(starts) = Len(packageLen) /\ Len(tree.deals) \in Nat
      BY TreeFacts DEF TypeOK
    <2>2. DOMAIN starts = 1..Len(starts) /\ Len(starts) \in Nat
      BY <2>1
    <2>3. \A n \in fields : n \in 1..Len(tree.deals)
      BY <2>1, <2>2
    <2>4. \A n \in 1..Len(tree.deals) : tree.deals[n].old \in Nat
      BY <2>1, TreeFacts
    <2> HIDE DEF fields
    <2>5. QED
      BY <2>3, <2>4
  <1> HIDE DEF hits
  <1>3. \/ v \in {patches[n].value : n \in whole}
        \/ v \in Garbage
        \/ v \in {tree.deals[n].old : n \in fields}
    BY DEF ValuesAt, hits
  <1>4. Garbage \subseteq Nat
    BY MessageAssumption
  <1> HIDE DEF whole, fields
  <1>5. QED
    BY <1>1, <1>2, <1>3, <1>4

-----------------------------------------------------------------------------
(* The initial state and the steps.                                        *)

LEMMA InitStep == Init => IInv
  BY DEF Init, IInv, TypeOK, Sized, Placed, Sought, Patched, Heads, SystemHead,
         ReturnHead, PublicHead, FirstDeal

LEMMA AppendDealStep ==
  ASSUME IInv, AppendDeal
  PROVE  IInv'
  <1> DEFINE n == Len(starts) + 1
             b == tree.deals[n].biz
  <1>1. /\ Len(starts) \in Nat /\ Len(packageLen) = Len(starts) /\ digits \in Nat
        /\ starts \in Seq(Nat) /\ packageLen \in Seq(Nat) /\ n \in 1..Len(tree.deals)
    BY TreeFacts DEF IInv, TypeOK, AppendDeal
  <1>2. b \in Nat /\ PackageLength(b) = b + 64 /\ PackageLength(b) \in Nat
    <2>1. b \in Nat
      BY <1>1, TreeFacts DEF IInv, TypeOK
    <2> HIDE DEF b
    <2>2. QED
      BY <2>1 DEF PackageLength, DealHead
  <1>3. /\ starts' \in Seq(Nat) /\ Len(starts') = n /\ starts'[n] = digits
        /\ \A k \in 1..Len(starts) : starts'[k] = starts[k]
    BY <1>1, AppendFacts DEF AppendDeal
  <1>4. /\ packageLen' \in Seq(Nat) /\ Len(packageLen') = n /\ packageLen'[n] = b + 64
        /\ \A k \in 1..Len(packageLen) : packageLen'[k] = packageLen[k]
    BY <1>1, <1>2, AppendFacts DEF AppendDeal
  <1>5. /\ UNCHANGED <<tree, pc, i, j, before, patches, at, parsed>>
        /\ digits' = digits + HeadOf(tree) + 2 * b /\ pc = "append"
        /\ HeadOf(tree) \in {0, 128} /\ (~tree.out => HeadOf(tree) = 128)
    BY DEF AppendDeal, HeadOf, DealHead
  <1> HIDE DEF n, b
  <1>6. TypeOK'
    BY <1>1, <1>2, <1>3, <1>4, <1>5 DEF IInv, TypeOK, Patched
  <1>7. Sized'
    <2>1. ASSUME NEW k \in 1..n
          PROVE  packageLen'[k] = tree.deals[k].biz + 64
      <3>1. CASE k = n
        BY <1>4, <3>1 DEF b
      <3>2. CASE k # n
        <4>1. k \in 1..Len(packageLen)
          BY <1>1, <3>2 DEF n
        <4>2. packageLen[k] = tree.deals[k].biz + 64
          BY <4>1 DEF IInv, Sized
        <4>3. QED
          BY <1>4, <4>1, <4>2
      <3>3. QED
        BY <3>1, <3>2
    <2>2. QED
      BY <1>4, <1>5, <2>1 DEF Sized
  <1>8. Placed'
    <2>1. digits' >= Heads'
      BY <1>1, <1>2, <1>5 DEF IInv, Placed, Heads, SystemHead, ReturnHead, PublicHead
    <2>2. ASSUME ~tree.out
          PROVE  /\ Len(starts') >= 1 => starts'[1] = FirstDeal
                 /\ Len(starts') = 1 => digits' = FirstDeal + 2 * packageLen'[1]
                 /\ Len(starts') >= 2 => starts'[2] = FirstDeal + 2 * packageLen'[1]
      <3>1. CASE Len(starts) = 0
        BY <1>2, <1>3, <1>4, <1>5, <2>2, <3>1 DEF IInv, Placed, n, FirstDeal
      <3>2. CASE Len(starts) = 1
        BY <1>1, <1>2, <1>3, <1>4, <1>5, <2>2, <3>2 DEF IInv, Placed, n, FirstDeal
      <3>3. CASE Len(starts) >= 2
        <4>1. starts'[1] = starts[1] /\ starts'[2] = starts[2] /\ packageLen'[1] = packageLen[1]
          <5>1. 1 \in 1..Len(starts) /\ 2 \in 1..Len(starts) /\ 1 \in 1..Len(packageLen)
            BY <1>1, <3>3
          <5>2. QED
            BY <1>3, <1>4, <5>1
        <4>2. QED
          BY <1>1, <1>3, <2>2, <3>3, <4>1 DEF IInv, Placed, n
      <3>4. QED
        BY <1>1, <3>1, <3>2, <3>3
    <2>3. Len(starts') # 0
      BY <1>1, <1>3 DEF n
    <2>4. QED
      BY <1>5, <2>1, <2>2, <2>3 DEF Placed
  <1>9. Sought' /\ Patched'
    BY <1>5 DEF IInv, Sought, Patched
  <1>10. QED
    BY <1>6, <1>7, <1>8, <1>9 DEF IInv

LEMMA SeekStep ==
  ASSUME IInv, Seek
  PROVE  IInv'
  <1>1. /\ i \in 0..Len(packageLen) /\ j \in 0..i /\ i < Len(packageLen) /\ j < i
        /\ Len(packageLen) \in Nat /\ packageLen \in Seq(Nat) /\ before \in Nat
    BY DEF IInv, TypeOK, Seek
  <1>2. j + 1 \in 1..Len(packageLen) /\ packageLen[j + 1] \in Nat
    BY <1>1
  <1>3. /\ before' = (before + packageLen[j + 1]) * 2 /\ j' = j + 1
        /\ UNCHANGED <<tree, pc, digits, starts, packageLen, i, patches, at, parsed>>
        /\ pc = "seek"
    BY DEF Seek
  <1>4. TypeOK'
    <2>1. before' \in Nat /\ j' \in 0..i
      BY <1>1, <1>2, <1>3
    <2>2. QED
      BY <1>3, <2>1 DEF IInv, TypeOK
  <1>5. Sought'
    BY <1>1, <1>2, <1>3 DEF IInv, Sought
  <1>6. Sized' /\ Placed' /\ Patched'
    BY <1>3 DEF IInv, Sized, Placed, Patched, Heads
  <1>7. QED
    BY <1>4, <1>5, <1>6 DEF IInv

LEMMA PatchStep ==
  ASSUME IInv, Patch
  PROVE  IInv'
  <1> DEFINE x == [at |-> Place, value |-> packageLen[i + 1]]
  <1>1. /\ i \in 0..Len(packageLen) /\ i < Len(packageLen) /\ j = i
        /\ Len(packageLen) \in Nat /\ packageLen \in Seq(Nat) /\ before \in Nat
        /\ Len(starts) = Len(packageLen) /\ pc = "seek" /\ Len(patches) = i
        /\ patches \in Seq(PatchRecord)
        /\ UNCHANGED <<tree, digits, starts, packageLen, at, parsed>>
    BY DEF IInv, TypeOK, Patch, Patched, PatchRecord
  <1>2. packageLen[i + 1] \in Nat /\ Place \in Nat /\ Place = 252 + before + 22
    BY <1>1 DEF Place, FirstDeal, LengthAt
  <1>3. x \in PatchRecord
    BY <1>2 DEF PatchRecord
  <1>4. CASE Place + FieldDigits <= digits
    <2>1. patches' = Append(patches, x) /\ i' = i + 1 /\ j' = 0 /\ before' = 0 /\ pc' = pc
      BY <1>4 DEF Patch
    <2>2. /\ patches' \in Seq(PatchRecord) /\ Len(patches') = i + 1
          /\ \A n \in 1..i : patches'[n] = patches[n]
          /\ patches'[i + 1] = x
      BY <1>1, <1>3, <2>1, AppendFacts
    <2>3. TypeOK'
      <3>1. i' \in 0..Len(packageLen') /\ j' \in 0..i' /\ before' \in Nat
        BY <1>1, <2>1
      <3>2. patches' \in Seq([at : Nat, value : Nat])
        BY <2>2 DEF PatchRecord
      <3>3. QED
        BY <1>1, <2>1, <3>1, <3>2 DEF IInv, TypeOK
    <2>4. Sized' /\ Placed' /\ Sought'
      BY <1>1, <2>1 DEF IInv, Sized, Placed, Sought, Heads
    <2>5. ASSUME ~tree.out, i + 1 <= 2
          PROVE  Place = starts[i + 1] + LengthAt
      <3>1. CASE i = 0
        BY <1>1, <1>2, <2>5, <3>1 DEF IInv, Placed, Sought, FirstDeal, LengthAt
      <3>2. CASE i = 1
        BY <1>1, <1>2, <2>5, <3>2 DEF IInv, Placed, Sought, FirstDeal, LengthAt
      <3>3. QED
        BY <1>1, <2>5, <3>1, <3>2
    <2>6. Patched'
      <3>1. x.at = Place
        OBVIOUS
      <3>2. ASSUME ~tree.out, NEW n \in 1..i + 1, n <= 2
            PROVE  (patches'[n]).at = starts[n] + LengthAt
        <4>1. CASE n = i + 1
          <5>1. (patches'[n]).at = Place
            BY <2>2, <3>1, <4>1
          <5>2. QED
            BY <1>1, <2>5, <3>2, <4>1, <5>1
        <4>2. CASE n # i + 1
          <5>1. n \in 1..Len(patches) /\ patches'[n] = patches[n]
            BY <1>1, <2>2, <3>2, <4>2
          <5>2. patches[n].at = starts[n] + LengthAt
            BY <3>2, <5>1 DEF IInv, Patched
          <5>3. QED
            BY <5>1, <5>2
        <4>3. QED
          BY <4>1, <4>2
      <3>3. QED
        BY <1>1, <2>1, <2>2, <3>2 DEF Patched
    <2>7. QED
      BY <2>3, <2>4, <2>6 DEF IInv
  <1>5. CASE ~(Place + FieldDigits <= digits)
    <2>1. pc' = "error" /\ UNCHANGED <<patches, i, j, before>>
      BY <1>5 DEF Patch
    <2>2. QED
      BY <1>1, <2>1 DEF IInv, TypeOK, Sized, Placed, Sought, Patched, Heads
  <1>6. QED
    BY <1>4, <1>5

\* Steps after the lengths are written, and the end of the appending.
LEMMA OtherSteps ==
  ASSUME IInv, Appended \/ Reread \/ ReadOut \/ NoHead
  PROVE  IInv'
  <1>1. /\ UNCHANGED <<tree, digits, starts, packageLen, i, j, before, patches>>
        /\ pc' # "append"
    BY DEF Appended, Reread, ReadOut, NoHead
  <1>2. TypeOK'
    <2>1. CASE Appended \/ NoHead
      BY <2>1 DEF IInv, TypeOK, Appended, NoHead
    <2>2. CASE Reread
      BY <2>2, TreeFacts DEF IInv, TypeOK, Reread, Placed, Heads, SystemHead, ReturnHead, PublicHead
    <2>3. CASE ReadOut
      <3>1. Slice(at, digits) \in SliceRecord /\ parsed \in Seq(SliceRecord)
        BY DEF IInv, TypeOK, Slice, SliceRecord
      <3>2. parsed' \in Seq(SliceRecord)
        <4>1. parsed' = Append(parsed, Slice(at, digits))
          BY <2>3 DEF ReadOut
        <4>2. QED
          BY <3>1, <4>1, AppendFacts
      <3>3. QED
        BY <1>1, <2>3, <3>2 DEF IInv, TypeOK, ReadOut, SliceRecord
    <2>4. QED
      BY <2>1, <2>2, <2>3
  <1>3. Sized' /\ Placed' /\ Sought' /\ Patched'
    BY <1>1 DEF IInv, Sized, Placed, Sought, Patched, Heads
  <1>4. QED
    BY <1>2, <1>3 DEF IInv

LEMMA ReadDealStep ==
  ASSUME IInv, ReadDeal
  PROVE  IInv'
  <1>1. PICK v \in ValuesAt(at + LengthAt) :
          IF tree.combined /\ ThisLength(v) < digits - at
          THEN /\ parsed' = Append(parsed, Slice(at + DealHead, at + ThisLength(v)))
               /\ at' = at + ThisLength(v)
               /\ UNCHANGED pc
          ELSE /\ parsed' = Append(parsed, Slice(at + DealHead, digits))
               /\ pc' = "saved"
               /\ UNCHANGED at
    BY DEF ReadDeal
  <1>2. v \in Nat
    BY ValueFacts DEF IInv
  <1>3. /\ UNCHANGED <<tree, digits, starts, packageLen, i, j, before, patches>>
        /\ pc = "read" /\ pc' \in {"read", "saved"}
    BY <1>1 DEF ReadDeal
  <1>4. digits \in Nat /\ at \in 0..digits /\ parsed \in Seq(SliceRecord)
    BY DEF IInv, TypeOK, SliceRecord
  <1>5. ThisLength(v) \in Nat
    BY <1>2, <1>4 DEF ThisLength
  <1>6. /\ Slice(at + DealHead, at + ThisLength(v)) \in SliceRecord
        /\ Slice(at + DealHead, digits) \in SliceRecord
    BY <1>4, <1>5 DEF Slice, DealHead, SliceRecord
  <1>7. parsed' \in Seq(SliceRecord)
    <2>1. \/ parsed' = Append(parsed, Slice(at + DealHead, at + ThisLength(v)))
          \/ parsed' = Append(parsed, Slice(at + DealHead, digits))
      BY <1>1
    <2>2. QED
      BY <1>4, <1>6, <2>1, AppendFacts
  <1>8. at' \in 0..digits
    BY <1>1, <1>4, <1>5
  <1>9. TypeOK'
    BY <1>3, <1>7, <1>8 DEF IInv, TypeOK, SliceRecord
  <1>10. Sized' /\ Placed' /\ Sought' /\ Patched'
    BY <1>3 DEF IInv, Sized, Placed, Sought, Patched, Heads
  <1>11. QED
    BY <1>9, <1>10 DEF IInv

-----------------------------------------------------------------------------
(* Theorems.                                                               *)

\* IInv is inductive.
LEMMA Inductive == Spec => []IInv
  <1>1. Init => IInv
    BY InitStep
  <1>2. IInv /\ [Next]_vars => IInv'
    <2>1. SUFFICES ASSUME IInv, [Next]_vars
                   PROVE  IInv'
      OBVIOUS
    <2>2. CASE AppendDeal
      BY <2>1, <2>2, AppendDealStep
    <2>3. CASE Seek
      BY <2>1, <2>3, SeekStep
    <2>4. CASE Patch
      BY <2>1, <2>4, PatchStep
    <2>5. CASE Appended \/ Reread \/ ReadOut \/ NoHead
      BY <2>1, <2>5, OtherSteps
    <2>6. CASE ReadDeal
      BY <2>1, <2>6, ReadDealStep
    <2>7. CASE UNCHANGED vars
      BY <2>1, <2>7 DEF IInv, TypeOK, Sized, Placed, Sought, Patched, Heads, vars
    <2>8. QED
      BY <2>1, <2>2, <2>3, <2>4, <2>5, <2>6, <2>7 DEF Next
  <1>3. QED
    BY <1>1, <1>2, PTL DEF Spec

\* Type correctness: the loops over the deals stay inside their list and the
\* reading inside the message (SopFormat.parseTree2Message, SopUtil.getBuss).
THEOREM TypeCorrect == Spec => []TypeOK
  <1>1. IInv => TypeOK
    BY DEF IInv
  <1>2. QED
    BY <1>1, Inductive, PTL

\* In an input message of up to two deals every length is written over the
\* length field of its own deal, however long the deals are
\* (SopFormat.parseTree2Message).
THEOREM UpToTwoDealsPatchedHolds == Spec => []UpToTwoDealsPatched
  <1>1. IInv => UpToTwoDealsPatched
    <2>1. SUFFICES ASSUME IInv, ~tree.out, Len(tree.deals) <= 2
                   PROVE  PatchesHitLengthFields
      BY DEF UpToTwoDealsPatched
    <2>2. Len(patches) \in Nat /\ Len(patches) <= 2
      BY <2>1, TreeFacts DEF IInv, TypeOK, Patched
    <2>3. QED
      BY <2>1, <2>2 DEF PatchesHitLengthFields, IInv, Patched
  <1>2. QED
    BY <1>1, Inductive, PTL

-----------------------------------------------------------------------------
(* What a save reads back.                                                 *)

\* The trees that SavingKeepsDeals is about.
Keepable ==
  /\ ~tree.out
  /\ Len(tree.deals) = 1 \/ (tree.combined /\ Len(tree.deals) = 2 /\ tree.deals[1].biz > 0)

DealRead(n) == Slice(starts[n] + DealHead, starts[n] + DealHead + 2 * tree.deals[n].biz)

\* The message ends behind its last deal.
Ended ==
  /\ Len(starts) = 1 => digits = starts[1] + 2 * packageLen[1]
  /\ Len(starts) = 2 => digits = starts[2] + 2 * packageLen[2]

\* Each length written is that of its deal.
Valued == \A n \in 1..Len(patches) : patches[n].value = packageLen[n]

\* getBuss stands in front of a deal, and has read those before it.
Reading ==
  \/ parsed = <<>> /\ at = starts[1]
  \/ Len(tree.deals) = 2 /\ parsed = <<DealRead(1)>> /\ at = starts[2]

\* Nothing throws, all deals are appended before a length is written, all
\* lengths are written before one is read.
Keeps ==
  /\ pc # "error"
  /\ Ended /\ Valued
  /\ pc # "append" => Len(starts) = Len(tree.deals)
  /\ pc \in {"append", "seek"} => parsed = <<>>
  /\ pc = "read" => Len(patches) = Len(tree.deals) /\ Reading
  /\ pc = "saved" => parsed = WrittenDeals

KInv == Keepable => Keeps

\* A deal with b bytes of business data takes 128 digits for its head and two for
\* each byte, which is twice its length.
LEMMA DealDigits ==
  ASSUME NEW s \in Nat, NEW b \in Nat, NEW p, p = b + 64
  PROVE  /\ p \in Nat /\ p >= 64 /\ s + 2 * p = s + 128 + 2 * b
         /\ s + 2 * p \in Nat /\ s + 128 <= s + 2 * p
         /\ (b > 0 => p > 64) /\ (s + 2 * p) - s = 2 * p
  OBVIOUS

\* The lengths of the deals that have been appended.
LEMMA DealLengths ==
  ASSUME IInv
  PROVE  /\ Len(starts) \in Nat /\ Len(packageLen) = Len(starts)
         /\ Len(tree.deals) \in Nat /\ Len(starts) <= Len(tree.deals)
         /\ \A n \in 1..Len(tree.deals) : tree.deals[n].biz \in Nat
         /\ \A n \in 1..Len(starts) :
              /\ tree.deals[n].biz \in Nat /\ starts[n] \in Nat
              /\ packageLen[n] = tree.deals[n].biz + 64
              /\ packageLen[n] \in Nat /\ packageLen[n] >= 64
  <1>1. tree \in Trees /\ starts \in Seq(Nat) /\ packageLen \in Seq(Nat)
        /\ Len(starts) = Len(packageLen) /\ Len(starts) <= Len(tree.deals)
    BY DEF IInv, TypeOK
  <1>2. Len(tree.deals) \in Nat /\ \A n \in 1..Len(tree.deals) : tree.deals[n].biz \in Nat
    BY <1>1, TreeFacts
  <1>3. Len(starts) \in Nat
    BY <1>1
  <1>4. ASSUME NEW n \in 1..Len(starts)
        PROVE  /\ tree.deals[n].biz \in Nat /\ starts[n] \in Nat
               /\ packageLen[n] = tree.deals[n].biz + 64
               /\ packageLen[n] \in Nat /\ packageLen[n] >= 64
    <2>1. n \in 1..Len(tree.deals)
      BY <1>1, <1>2, <1>3
    <2>2. tree.deals[n].biz \in Nat
      BY <1>2, <2>1
    <2>3. starts[n] \in Nat
      BY <1>1
    <2>4. packageLen[n] = tree.deals[n].biz + 64
      BY <1>1 DEF IInv, Sized
    <2>5. packageLen[n] \in Nat /\ packageLen[n] >= 64
      <3> DEFINE b == tree.deals[n].biz
      <3>1. b \in Nat /\ packageLen[n] = b + 64
        BY <2>2, <2>4
      <3> HIDE DEF b
      <3>2. QED
        BY <3>1
    <2>6. QED
      BY <2>2, <2>3, <2>4, <2>5
  <1>5. QED
    BY <1>1, <1>2, <1>3, <1>4

\* What Append does to a list of one.
LEMMA AppendTwo ==
  ASSUME NEW x, NEW y
  PROVE  Append(<<x>>, y) = <<x, y>>
  <1> DEFINE S == {x, y}
             q == <<x>>
             r == <<x, y>>
             a == Append(q, y)
  <1>1. q \in Seq(S) /\ Len(q) = 1 /\ q[1] = x /\ y \in S
    OBVIOUS
  <1>2. r \in Seq(S) /\ Len(r) = 2 /\ r[1] = x /\ r[2] = y
    OBVIOUS
  <1> HIDE DEF S, q, r
  <1>3. /\ a \in Seq(S) /\ Len(a) = Len(q) + 1 /\ a[Len(q) + 1] = y
        /\ \A n \in 1..Len(q) : a[n] = q[n]
    BY <1>1
  <1>4. Len(a) = 2 /\ a[1] = x /\ a[2] = y
    BY <1>1, <1>3
  <1> HIDE DEF a
  <1>5. a \in [1..Len(a) -> S]
    BY <1>3
  <1>6. a \in [1..2 -> S]
    BY <1>4, <1>5
  <1>7. a = [n \in 1..2 |-> a[n]]
    BY <1>6
  <1>8. r = [n \in 1..2 |-> r[n]]
    BY <1>2
  <1>9. ASSUME NEW n \in 1..2 PROVE a[n] = r[n]
    <2>1. n = 1 \/ n = 2
      OBVIOUS
    <2>2. QED
      BY <2>1, <1>2, <1>4
  <1>10. a = r
    BY <1>7, <1>8, <1>9
  <1>11. QED
    BY <1>10 DEF a, q, r

LEMMA InitKeeps == Init => KInv
  BY DEF Init, KInv, Keeps, Ended, Valued

LEMMA KeepsAppendDeal ==
  ASSUME IInv, IInv', KInv, Keepable, AppendDeal
  PROVE  Keeps'
  <1>1. Keeps /\ pc = "append" /\ parsed = <<>> /\ patches = <<>> /\ pc' = pc
        /\ parsed' = parsed /\ patches' = patches
    BY DEF KInv, Keeps, AppendDeal, IInv, Patched
  <1>2. Len(starts) \in Nat /\ Len(packageLen) = Len(starts) /\ Len(starts) < Len(tree.deals)
        /\ digits \in Nat /\ starts \in Seq(Nat) /\ packageLen \in Seq(Nat)
    BY DEF IInv, TypeOK, AppendDeal
  <1> DEFINE n == Len(starts) + 1
             b == tree.deals[n].biz
  <1>3. b \in Nat /\ PackageLength(b) = b + 64 /\ PackageLength(b) \in Nat
    <2>1. n \in 1..Len(tree.deals)
      BY <1>2, DealLengths
    <2>2. b \in Nat
      BY <2>1, DealLengths
    <2> HIDE DEF b
    <2>3. QED
      BY <2>2 DEF PackageLength, DealHead
  <1>4. /\ Len(starts') = n /\ starts'[n] = digits
        /\ packageLen'[n] = b + 64 /\ digits' = digits + 128 + 2 * b
    <2>1. starts' = Append(starts, digits) /\ packageLen' = Append(packageLen, PackageLength(b))
          /\ digits' = digits + HeadOf(tree) + 2 * b
      BY DEF AppendDeal
    <2>2. HeadOf(tree) = 128
      BY DEF Keepable, HeadOf, DealHead
    <2> HIDE DEF b
    <2>3. starts'[Len(starts) + 1] = digits /\ Len(starts') = Len(starts) + 1
      BY <1>2, <2>1, AppendFacts
    <2>4. packageLen'[Len(packageLen) + 1] = PackageLength(b)
      BY <1>2, <1>3, <2>1, AppendFacts
    <2>5. QED
      BY <1>2, <1>3, <2>1, <2>2, <2>3, <2>4
  <1> HIDE DEF b
  <1>5. Ended'
    BY <1>2, <1>3, <1>4 DEF Ended
  <1>6. Valued'
    BY <1>1 DEF Valued
  <1>7. QED
    BY <1>1, <1>5, <1>6 DEF Keeps

\* Each place that is sought lies in the message.
LEMMA KeepsPatch ==
  ASSUME IInv, IInv', KInv, Keepable, Patch
  PROVE  Keeps'
  <1>1. Keeps /\ pc = "seek" /\ parsed = <<>> /\ parsed' = parsed /\ Len(starts) = Len(tree.deals)
        /\ UNCHANGED <<tree, digits, starts, packageLen>>
    BY DEF KInv, Keeps, Patch
  <1>2. i \in Nat /\ j = i /\ i < Len(packageLen) /\ Len(packageLen) = Len(starts)
        /\ (Len(starts) = 1 \/ Len(starts) = 2) /\ Len(patches) = i /\ packageLen \in Seq(Nat)
        /\ patches \in Seq(PatchRecord) /\ before \in Nat /\ digits \in Nat
    BY <1>1 DEF Patch, IInv, TypeOK, Keepable, Patched, PatchRecord
  <1>3. Place + FieldDigits <= digits
    <2>1. \A n \in 1..Len(starts) : packageLen[n] \in Nat /\ packageLen[n] >= 64
      BY DealLengths
    <2>2. CASE Len(starts) = 1
      <3>1. packageLen[1] \in Nat /\ packageLen[1] >= 64
        BY <2>1, <2>2
      <3>2. i = 0 /\ before = 0
        BY <1>2, <2>2 DEF IInv, Sought
      <3>3. starts[1] = 252 /\ digits = 252 + 2 * packageLen[1]
        BY <1>1, <2>2 DEF Keeps, Ended, IInv, Placed, Keepable, FirstDeal
      <3>4. QED
        BY <3>1, <3>2, <3>3 DEF Place, FieldDigits, FirstDeal, LengthAt
    <2>3. CASE Len(starts) = 2
      <3>1. packageLen[1] \in Nat /\ packageLen[1] >= 64 /\ packageLen[2] \in Nat
            /\ packageLen[2] >= 64
        BY <2>1, <2>3
      <3>2. (i = 0 /\ before = 0) \/ (i = 1 /\ before = 2 * packageLen[1])
        BY <1>2, <2>3 DEF IInv, Sought
      <3>3. starts[2] = 252 + 2 * packageLen[1] /\ digits = starts[2] + 2 * packageLen[2]
        BY <1>1, <2>3 DEF Keeps, Ended, IInv, Placed, Keepable, FirstDeal
      <3>4. QED
        BY <3>1, <3>2, <3>3 DEF Place, FieldDigits, FirstDeal, LengthAt
    <2>4. QED
      BY <1>2, <2>2, <2>3
  <1> DEFINE x == [at |-> Place, value |-> packageLen[i + 1]]
  <1>4. patches' = Append(patches, x) /\ pc' = "seek"
    BY <1>1, <1>3 DEF Patch
  <1>5. x \in PatchRecord /\ x.value = packageLen[i + 1]
    BY <1>2 DEF Place, FirstDeal, LengthAt, PatchRecord
  <1> HIDE DEF x
  <1>6. /\ Len(patches') = i + 1 /\ patches'[i + 1] = x
        /\ \A n \in 1..i : patches'[n] = patches[n]
    BY <1>2, <1>4, <1>5, AppendFacts
  <1>7. ASSUME NEW n \in 1..i + 1 PROVE patches'[n].value = packageLen[n]
    <2>1. CASE n = i + 1
      BY <1>5, <1>6, <2>1
    <2>2. CASE n # i + 1
      <3>1. n \in 1..i /\ n \in 1..Len(patches)
        BY <1>2, <2>2
      <3>2. patches[n].value = packageLen[n]
        BY <1>1, <3>1 DEF Keeps, Valued
      <3>3. QED
        BY <1>6, <3>1, <3>2
    <2>3. QED
      BY <2>1, <2>2
  <1>8. Valued' /\ Ended'
    BY <1>1, <1>6, <1>7 DEF Valued, Ended, Keeps
  <1>9. QED
    BY <1>1, <1>4, <1>8 DEF Keeps

\* In the length field of a deal stands the length of that deal, and nothing that
\* was written elsewhere reaches into it.
LEMMA LengthRead ==
  ASSUME IInv, Keepable, Keeps, pc = "read", NEW n \in 1..Len(tree.deals)
  PROVE  /\ ValuesAt(starts[n] + LengthAt) = {packageLen[n]}
         /\ packageLen[n] = tree.deals[n].biz + 64 /\ tree.deals[n].biz \in Nat
         /\ starts[n] \in Nat
  <1>1. /\ Len(starts) = Len(tree.deals) /\ Len(packageLen) = Len(starts)
        /\ Len(patches) = Len(tree.deals) /\ (Len(tree.deals) = 1 \/ Len(tree.deals) = 2)
        /\ starts \in Seq(Nat) /\ packageLen \in Seq(Nat)
        /\ patches \in Seq(PatchRecord)
    BY DEF Keeps, IInv, TypeOK, Keepable, PatchRecord
  <1>2. DOMAIN patches = 1..Len(tree.deals)
    BY <1>1
  <1>3. \A k \in 1..Len(tree.deals) :
          /\ patches[k].at = starts[k] + 22 /\ patches[k].value = packageLen[k]
          /\ starts[k] \in Nat /\ packageLen[k] = tree.deals[k].biz + 64
          /\ tree.deals[k].biz \in Nat
    <2>1. TAKE k \in 1..Len(tree.deals)
    <2> DEFINE L == Len(tree.deals)
    <2>1a. L = 1 \/ L = 2
      BY <1>1
    <2>1b. k \in 1..L /\ Len(starts) = L /\ Len(patches) = L
      BY <1>1
    <2> HIDE DEF L
    <2>2a. k <= 2 /\ k \in 1..Len(starts) /\ k \in 1..Len(patches)
      BY <2>1a, <2>1b
    <2>3. patches[k].at = starts[k] + 22 /\ patches[k].value = packageLen[k]
      BY <2>2a DEF IInv, Patched, Keepable, Keeps, Valued, LengthAt
    <2>4. starts[k] \in Nat /\ packageLen[k] = tree.deals[k].biz + 64 /\ tree.deals[k].biz \in Nat
      BY <2>2a, DealLengths
    <2>5. QED
      BY <2>3, <2>4
  <1>4. Len(tree.deals) = 2 => starts[1] + 128 <= starts[2]
    <2>1. SUFFICES ASSUME Len(tree.deals) = 2 PROVE starts[1] + 128 <= starts[2]
      OBVIOUS
    <2>2. starts[1] \in Nat /\ packageLen[1] = tree.deals[1].biz + 64 /\ tree.deals[1].biz \in Nat
      BY <1>3, <2>1
    <2>3. starts[1] + 128 <= starts[1] + 2 * packageLen[1]
      BY <2>2, DealDigits
    <2>4. starts[2] = starts[1] + 2 * packageLen[1]
      BY <1>1, <2>1 DEF IInv, Placed, Keepable
    <2>5. QED
      BY <2>3, <2>4
  <1>5. \A k \in 1..Len(tree.deals) : Overlap(patches[k].at, starts[n] + LengthAt) <=> k = n
    <2>1. CASE Len(tree.deals) = 1
      BY <1>3, <2>1 DEF Overlap, FieldDigits, LengthAt
    <2>2. CASE Len(tree.deals) = 2
      BY <1>3, <1>4, <2>2 DEF Overlap, FieldDigits, LengthAt
    <2>3. QED
      BY <1>1, <2>1, <2>2
  <1> DEFINE p == starts[n] + LengthAt
             hits == {k \in DOMAIN patches : Overlap(patches[k].at, p)}
             whole == {k \in hits : patches[k].at = p /\ \A m \in hits : m <= k}
  <1>6. hits = {n}
    BY <1>2, <1>5
  <1>7. whole = {n}
    <2>1. patches[n].at = p /\ n <= n
      BY <1>1, <1>3 DEF LengthAt
    <2> HIDE DEF hits
    <2>2. QED
      BY <1>6, <2>1
  <1> HIDE DEF hits
  <1>8. ValuesAt(p) = {patches[k].value : k \in whole}
    <2> HIDE DEF whole
    <2>1. whole # {}
      BY <1>7
    <2>2. QED
      BY <2>1 DEF ValuesAt, whole, hits
  <1>9. ValuesAt(p) = {packageLen[n]}
    <2> HIDE DEF whole
    <2>1. QED
      BY <1>3, <1>7, <1>8
  <1>10. QED
    BY <1>3, <1>9

LEMMA KeepsReadDeal ==
  ASSUME IInv, IInv', KInv, Keepable, ReadDeal
  PROVE  Keeps'
  <1>1. Keeps /\ pc = "read" /\ Reading /\ Len(starts) = Len(tree.deals)
        /\ (Len(tree.deals) = 1 \/ Len(tree.deals) = 2) /\ Len(packageLen) = Len(tree.deals)
        /\ UNCHANGED <<tree, digits, starts, packageLen, patches>>
    BY DEF KInv, Keeps, ReadDeal, Keepable, IInv, TypeOK
  <1>2. \A n \in 1..Len(tree.deals) :
          /\ ValuesAt(starts[n] + LengthAt) = {packageLen[n]}
          /\ packageLen[n] = tree.deals[n].biz + 64 /\ tree.deals[n].biz \in Nat
          /\ starts[n] \in Nat
    BY <1>1, LengthRead
  <1>3. Ended' /\ Valued'
    BY <1>1 DEF Ended, Valued, Keeps
  <1>4. PICK v \in ValuesAt(at + LengthAt) :
          IF tree.combined /\ ThisLength(v) < digits - at
          THEN /\ parsed' = Append(parsed, Slice(at + DealHead, at + ThisLength(v)))
               /\ at' = at + ThisLength(v)
               /\ UNCHANGED pc
          ELSE /\ parsed' = Append(parsed, Slice(at + DealHead, digits))
               /\ pc' = "saved"
               /\ UNCHANGED at
    BY DEF ReadDeal
  <1>5. CASE Len(tree.deals) = 1
    <2>1. parsed = <<>> /\ at = starts[1] /\ v = packageLen[1] /\ digits = at + 2 * packageLen[1]
      BY <1>1, <1>2, <1>4, <1>5 DEF Reading, Keeps, Ended
    <2>2. packageLen[1] = tree.deals[1].biz + 64 /\ tree.deals[1].biz \in Nat /\ at \in Nat
      BY <1>2, <1>5, <2>1
    <2>3. ThisLength(v) = digits - at
      BY <2>1, <2>2 DEF ThisLength
    <2>4. parsed' = <<Slice(at + DealHead, digits)>> /\ pc' = "saved"
      <3>1. ~(ThisLength(v) < digits - at)
        BY <2>1, <2>2, <2>3
      <3>2. QED
        BY <1>4, <2>1, <3>1
    <2>5. digits = starts[1] + 128 + 2 * tree.deals[1].biz
      <3> DEFINE b == tree.deals[1].biz
      <3>1. b \in Nat /\ at \in Nat /\ packageLen[1] = b + 64
        BY <2>2
      <3> HIDE DEF b
      <3>2. at + 2 * packageLen[1] = at + 128 + 2 * b
        BY <3>1, DealDigits
      <3>3. QED
        BY <2>1, <3>2 DEF b
    <2>6. WrittenDeals' = <<Slice(starts[1] + 128, digits)>>
      <3>1. HeadOf(tree) = 128 /\ Len(starts) = 1
        BY <1>1, <1>5 DEF HeadOf, Keepable, DealHead
      <3>2. WrittenDeals = [n \in 1..1 |-> Slice(starts[1] + 128, digits)]
        BY <2>5, <3>1 DEF WrittenDeals
      <3>3. WrittenDeals' = WrittenDeals
        BY <1>1 DEF WrittenDeals, HeadOf
      <3>4. QED
        BY <3>2, <3>3
    <2>7. QED
      BY <1>1, <1>3, <2>1, <2>4, <2>6 DEF Keeps, DealHead
  <1>6. CASE Len(tree.deals) = 2
    <2>1. /\ packageLen[1] = tree.deals[1].biz + 64 /\ tree.deals[1].biz \in Nat
          /\ packageLen[2] = tree.deals[2].biz + 64 /\ tree.deals[2].biz \in Nat
          /\ starts[1] \in Nat /\ starts[2] \in Nat
          /\ ValuesAt(starts[1] + LengthAt) = {packageLen[1]}
          /\ ValuesAt(starts[2] + LengthAt) = {packageLen[2]}
      BY <1>2, <1>6
    <2>2. starts[2] = starts[1] + 2 * packageLen[1] /\ digits = starts[2] + 2 * packageLen[2]
      BY <1>1, <1>6 DEF Keeps, Ended, IInv, Placed, Keepable
    <2>3. tree.combined /\ tree.deals[1].biz > 0
      BY <1>6 DEF Keepable
    <2>4. CASE parsed = <<>> /\ at = starts[1]
      <3>1. v = packageLen[1]
        BY <1>4, <2>1, <2>4
      <3>2. ThisLength(v) = 2 * packageLen[1]
        <4> DEFINE b == tree.deals[1].biz
        <4>1. b \in Nat /\ b > 0 /\ packageLen[1] = b + 64
          BY <2>1, <2>3
        <4> HIDE DEF b
        <4>2. packageLen[1] > 64
          BY <4>1
        <4>3. QED
          BY <3>1, <4>2 DEF ThisLength
      <3>3. ThisLength(v) < digits - at
        <4> DEFINE p1 == packageLen[1]
                   p2 == packageLen[2]
        <4>1. p1 \in Nat /\ p2 \in Nat /\ p2 >= 64
          BY <2>1, DealDigits
        <4>2. at \in Nat /\ digits = at + 2 * p1 + 2 * p2 /\ ThisLength(v) = 2 * p1
          BY <2>1, <2>2, <2>4, <3>2
        <4> HIDE DEF p1, p2
        <4>3. QED
          BY <4>1, <4>2
      <3>4. parsed' = <<Slice(at + DealHead, at + ThisLength(v))>>
            /\ at' = at + ThisLength(v) /\ pc' = pc
        BY <1>4, <2>3, <2>4, <3>3
      <3>5. at' = starts[2]
        BY <2>1, <2>2, <2>4, <3>2, <3>4
      <3>6. at + ThisLength(v) = starts[1] + DealHead + 2 * tree.deals[1].biz
        <4>1. starts[1] + 2 * packageLen[1] = starts[1] + 128 + 2 * tree.deals[1].biz
          BY <2>1, DealDigits
        <4>2. QED
          BY <2>4, <3>2, <4>1 DEF DealHead
      <3>7. parsed' = <<DealRead(1)>>
        BY <2>4, <3>4, <3>6 DEF DealRead
      <3>8. Reading'
        BY <1>1, <1>6, <3>5, <3>7 DEF Reading, DealRead
      <3>9. QED
        BY <1>1, <1>3, <3>4, <3>8 DEF Keeps
    <2>5. CASE parsed = <<DealRead(1)>> /\ at = starts[2]
      <3>1. v = packageLen[2]
        BY <1>4, <2>1, <2>5
      <3>2. ThisLength(v) = digits - at
        BY <2>1, <2>2, <2>5, <3>1 DEF ThisLength
      <3>3. ~(ThisLength(v) < digits - at)
        BY <2>1, <2>2, <2>5, <3>2
      <3>4. parsed' = Append(<<DealRead(1)>>, Slice(at + DealHead, digits)) /\ pc' = "saved"
        BY <1>4, <2>5, <3>3
      <3>5. digits = starts[2] + DealHead + 2 * tree.deals[2].biz
        BY <2>1, <2>2 DEF DealHead
      <3>6. parsed' = <<DealRead(1), DealRead(2)>>
        <4>1. Slice(at + DealHead, digits) = DealRead(2)
          BY <2>5, <3>5 DEF DealRead
        <4>2. QED
          BY <3>4, <4>1, AppendTwo
      <3>7. WrittenDeals' = <<DealRead(1), DealRead(2)>>
        <4>1. HeadOf(tree) = DealHead /\ Len(starts) = 2
          BY <1>1, <1>6 DEF HeadOf, Keepable
        <4>2. WrittenDeals = [n \in 1..2 |-> DealRead(n)]
          BY <4>1 DEF WrittenDeals, DealRead
        <4>3. WrittenDeals' = WrittenDeals
          BY <1>1 DEF WrittenDeals, HeadOf
        <4>4. [n \in 1..2 |-> DealRead(n)] = <<DealRead(1), DealRead(2)>>
          OBVIOUS
        <4>5. QED
          BY <4>2, <4>3, <4>4
      <3>8. QED
        BY <1>1, <1>3, <3>4, <3>6, <3>7 DEF Keeps
    <2>6. QED
      BY <1>1, <2>4, <2>5 DEF Reading
  <1>7. QED
    BY <1>1, <1>5, <1>6

LEMMA KeepsOthers ==
  ASSUME IInv, IInv', KInv, Keepable, Seek \/ Appended \/ Reread \/ ReadOut \/ NoHead
  PROVE  Keeps'
  <1>1. Keeps /\ UNCHANGED <<tree, digits, starts, packageLen, patches>>
    BY DEF KInv, Seek, Appended, Reread, ReadOut, NoHead
  <1>2. Ended' /\ Valued'
    BY <1>1 DEF Keeps, Ended, Valued
  <1>3. CASE Seek \/ Appended
    BY <1>1, <1>2, <1>3 DEF Seek, Appended, Keeps
  <1>4. CASE Reread
    <2>1. Len(starts) = Len(tree.deals) /\ Len(patches) = Len(tree.deals) /\ parsed = <<>>
      BY <1>1, <1>4 DEF Keeps, Reread, IInv, TypeOK, Patched
    <2>2. Len(starts) >= 1
      <3> DEFINE L == Len(tree.deals)
      <3>1. L = 1 \/ L = 2
        BY DEF Keepable
      <3>2. Len(starts) = L
        BY <2>1
      <3> HIDE DEF L
      <3>3. QED
        BY <3>1, <3>2
    <2>3. at' = starts[1]
      BY <1>4, <2>2 DEF Reread, Keepable, IInv, Placed, FirstDeal, SystemHead, PublicHead
    <2>4. QED
      BY <1>1, <1>2, <1>4, <2>1, <2>3 DEF Reread, Keeps, Reading
  <1>5. ~ReadOut
    BY DEF ReadOut, Keepable
  <1>6. ~NoHead
    <2>1. SUFFICES ASSUME pc = "read" PROVE at + DealHead <= digits
      BY DEF NoHead, IInv, TypeOK, DealHead
    <2>2. /\ Reading /\ Len(starts) = Len(tree.deals) /\ (Len(tree.deals) = 1 \/ Len(tree.deals) = 2)
          /\ digits \in Nat
      BY <1>1, <2>1 DEF Keeps, Keepable, IInv, TypeOK
    <2>3. \A n \in 1..Len(tree.deals) :
            packageLen[n] = tree.deals[n].biz + 64 /\ tree.deals[n].biz \in Nat /\ starts[n] \in Nat
      BY <1>1, <2>1, LengthRead
    <2>4. CASE Len(tree.deals) = 1
      BY <1>1, <2>2, <2>3, <2>4 DEF Keeps, Ended, Reading, DealHead
    <2>5. CASE Len(tree.deals) = 2
      <3>1. starts[2] = starts[1] + 2 * packageLen[1] /\ digits = starts[2] + 2 * packageLen[2]
        BY <1>1, <2>2, <2>5 DEF Keeps, Ended, IInv, Placed, Keepable
      <3>2. at = starts[1] \/ at = starts[2]
        BY <2>2 DEF Reading
      <3>3. QED
        BY <2>3, <2>5, <3>1, <3>2 DEF DealHead
    <2>6. QED
      BY <2>2, <2>4, <2>5
  <1>7. QED
    BY <1>3, <1>4, <1>5, <1>6

LEMMA KeepsInductive == Spec => []KInv
  <1>1. Init => KInv
    BY InitKeeps
  <1>2. IInv /\ IInv' /\ KInv /\ [Next]_vars => KInv'
    <2>1. SUFFICES ASSUME IInv, IInv', KInv, [Next]_vars, Keepable'
                   PROVE  Keeps'
      BY DEF KInv
    <2>2. tree' = tree
      BY <2>1 DEF Next, vars, AppendDeal, Appended, Seek, Patch, Reread, ReadOut, ReadDeal, NoHead
    <2>3. Keepable
      BY <2>1, <2>2 DEF Keepable
    <2>4. CASE AppendDeal
      BY <2>1, <2>3, <2>4, KeepsAppendDeal
    <2>5. CASE Patch
      BY <2>1, <2>3, <2>5, KeepsPatch
    <2>6. CASE ReadDeal
      BY <2>1, <2>3, <2>6, KeepsReadDeal
    <2>7. CASE Seek \/ Appended \/ Reread \/ ReadOut \/ NoHead
      BY <2>1, <2>3, <2>7, KeepsOthers
    <2>8. CASE UNCHANGED vars
      BY <2>1, <2>3, <2>8 DEF vars, KInv, Keeps, Ended, Valued, Reading, DealRead, WrittenDeals, HeadOf
    <2>9. QED
      BY <2>1, <2>4, <2>5, <2>6, <2>7, <2>8 DEF Next
  <1>3. QED
    BY <1>1, <1>2, Inductive, PTL DEF Spec

\* One deal or two are read back from the message they were written to as they
\* were, for deals of any length, whatever lengths the tree held before
\* (CaseService.modifyTreeOfCaseByCaseId).
THEOREM SavingKeepsDealsHolds == Spec => []SavingKeepsDeals
  <1>1. KInv => SavingKeepsDeals
    BY DEF KInv, Keepable, Keeps, SavingKeepsDeals
  <1>2. QED
    BY <1>1, KeepsInductive, PTL
=============================================================================
