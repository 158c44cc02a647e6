-------------------------- MODULE AttClientProofs --------------------------
(* Theorems about AttClient, for any replies, any buffer and any chunking. *)
EXTENDS AttClient, TLAPS

-----------------------------------------------------------------------------
(* The inductive invariant.                                                *)

\* The buffer is a window of at most BufferSize bytes that ends where the reads
\* have got to; between two reads without loss it is used up.
Window ==
  /\ lim = taken
  /\ lim - at <= BufferSize
  /\ pc \in {"start", "select"} /\ ~lost => at = lim

\* Without loss the cursor is at a frame start, or just behind the header that
\* is kept in head and bodylen.
Aligned ==
  ~lost => IF bodylen < 0 THEN at \in reply
           ELSE at = headAt + HeadLen /\ IsFrame(reply, headAt, at + bodylen)

\* The end of the last frame the parser is through with.
Past == IF bodylen < 0 THEN at ELSE headAt

\* Without loss the list holds frames of the reply, in order, none beyond Past.
InOrder ==
  ~lost => /\ DeliveredAreSent
           /\ \A j, k \in DOMAIN list : j < k => list[j].to <= list[k].head
           /\ \A k \in DOMAIN list : list[k].to <= Past

\* Without loss every frame with a body up to Past is in the list.
Complete ==
  ~lost => \A s, e \in reply :
             IsFrame(reply, s, e) /\ s + HeadLen < e /\ e <= Past
             => \E k \in DOMAIN list : list[k].head = s

IInv == TypeOK /\ Window /\ Aligned /\ InOrder /\ Complete

-----------------------------------------------------------------------------
(* Facts about replies and lists.                                          *)

\* A reply starts at 0, consists of positions, and its frames hold a header.
LEMMA ReplyFacts ==
  ASSUME NEW r \in Replies
  PROVE  /\ r \subseteq Nat /\ 0 \in r /\ EndOf(r) \in Nat
         /\ \A s, e \in r : s < e => s + HeadLen <= e
  <1>1. \E m \in r : \A n \in r : n <= m
    BY ClientAssumption
  <1>2. EndOf(r) \in r
    BY <1>1 DEF EndOf
  <1>3. QED
    BY <1>2, ClientAssumption

\* The constants are numbers.
LEMMA ConstantFacts ==
  /\ RequestLen \in Nat /\ BufferSize \in Nat /\ MaxHead \in Nat /\ HeadLen = 2
  BY ClientAssumption DEF HeadLen

\* Two frames of a reply are the same or apart.
LEMMA FramesApart ==
  ASSUME NEW r \in Replies, NEW s \in r, NEW e \in r, NEW t \in r, NEW f \in r,
         IsFrame(r, s, e), IsFrame(r, t, f)
  PROVE  (s = t /\ e = f) \/ e <= t \/ f <= s
  BY ReplyFacts DEF IsFrame

\* What Append does to a list.
LEMMA AppendFacts ==
  ASSUME NEW R, NEW q \in Seq(R), NEW x \in R
  PROVE  /\ Append(q, x) \in Seq(R)
         /\ DOMAIN Append(q, x) = 1..Len(q) + 1 /\ DOMAIN q = 1..Len(q) /\ Len(q) \in Nat
         /\ \A k \in DOMAIN q : Append(q, x)[k] = q[k]
         /\ Append(q, x)[Len(q) + 1] = x
  OBVIOUS

\* An element of a sequence of frames is a frame of positions.
LEMMA ElementFacts ==
  ASSUME NEW q \in Seq([head : Nat, from : Nat, to : Nat]), NEW k \in DOMAIN q
  PROVE  /\ q[k] \in [head : Nat, from : Nat, to : Nat]
         /\ q[k].head \in Nat /\ q[k].from \in Nat /\ q[k].to \in Nat
  <1>1. \A R : q \in Seq(R) => q[k] \in R
    OBVIOUS
  <1>2. q[k] \in [head : Nat, from : Nat, to : Nat]
    BY <1>1
  <1>3. QED
    BY <1>2

-----------------------------------------------------------------------------

LEMMA InitIInv == Init => IInv
  <1> SUFFICES ASSUME Init PROVE IInv
    OBVIOUS
  <1> USE ConstantFacts, ReplyFacts
  <1>1. TypeOK
    <2>1. <<>> \in Seq([head : Nat, from : Nat, to : Nat])
      OBVIOUS
    <2>2. lost \in BOOLEAN
      BY DEF Init
    <2>3. QED
      BY <2>1, <2>2 DEF Init, TypeOK, Formats
  <1>2. Window /\ Aligned
    BY DEF Init, Window, Aligned
  <1>3. InOrder /\ Complete
    BY DEF Init, InOrder, Complete, DeliveredAreSent, Past, IsFrame
  <1>4. QED
    BY <1>1, <1>2, <1>3 DEF IInv

\* A step that leaves the buffer, the list and the loop alone.
LEMMA OutsideStep ==
  ASSUME IInv, TypeOK', UNCHANGED <<reply, buffer>>,
         pc' \in {"start", "select"} => pc \in {"start", "select"}
  PROVE  IInv'
  BY DEF IInv, Window, Aligned, InOrder, Complete, buffer, Past,
         DeliveredAreSent, IsSent, IsFrame

\* The steps of the agent and the network.
LEMMA EnvironmentStep ==
  ASSUME IInv, LinkResolved \/ Arrive \/ Ends
  PROVE  IInv'
  <1> USE ConstantFacts, ReplyFacts
  <1>1. TypeOK'
    BY DEF IInv, TypeOK, LinkResolved, Arrive, Ends, buffer
  <1>2. QED
    BY <1>1, OutsideStep DEF LinkResolved, Arrive, Ends

\* The steps of sendData other than a read.
LEMMA SendDataStep ==
  ASSUME IInv, Start \/ FinishConnect \/ LinkFails
  PROVE  IInv'
  <1> USE ConstantFacts
  <1>1. TypeOK'
    BY DEF IInv, TypeOK, Start, FinishConnect, LinkFails, Return, buffer, net
  <1>2. QED
    BY <1>1, OutsideStep DEF Start, FinishConnect, LinkFails, Return, net

LEMMA ReadStep ==
  ASSUME IInv, Read
  PROVE  IInv'
  <1> USE ConstantFacts, ReplyFacts
  <1>a. /\ at' = taken /\ lim' = Least(arrived, taken + BufferSize) /\ taken' = lim'
        /\ pc' \in {"parse", "returned"}
        /\ notice' \in {"none", "notSent", "noConnection", "undeveloped"}
        /\ UNCHANGED <<format, reply, link, ended, arrived, interest, sent, bodylen, headAt,
                       list, lost>>
    BY DEF Read, Return, net, IInv, TypeOK
  <1>b. ~lost => at' = at
    BY <1>a DEF IInv, Window, Read
  <1>c. lim' \in Nat /\ at' <= lim' /\ lim' <= arrived /\ lim' - at' <= BufferSize
    BY <1>a DEF Least, IInv, TypeOK
  <1>1. TypeOK'
    BY <1>a, <1>c DEF IInv, TypeOK
  <1>2. Window'
    BY <1>a, <1>c DEF IInv, Window
  <1>3. Aligned' /\ InOrder' /\ Complete'
    BY <1>a, <1>b DEF IInv, Aligned, InOrder, Complete, Past, DeliveredAreSent, IsSent, IsFrame
  <1>4. QED
    BY <1>1, <1>2, <1>3 DEF IInv

LEMMA TakeHeadStep ==
  ASSUME IInv, TakeHead
  PROVE  IInv'
  <1> USE ConstantFacts, ReplyFacts
  <1>a. /\ pc = "parse" /\ bodylen < 0 /\ lim - at >= HeadLen /\ bodylen' \in Int
        /\ headAt' = at /\ at' = at + HeadLen
        /\ UNCHANGED <<format, reply, link, ended, arrived, pc, interest, sent, taken, lim,
                       list, notice, lost>>
    BY DEF TakeHead, Remaining, net, IInv, TypeOK
  <1>b. at \in reply => bodylen' >= 0 /\ IsFrame(reply, at, at + HeadLen + bodylen')
    <2>1. SUFFICES ASSUME at \in reply
                   PROVE  bodylen' >= 0 /\ IsFrame(reply, at, at + HeadLen + bodylen')
      OBVIOUS
    <2>2. PICK e \in reply : IsFrame(reply, at, e) /\ bodylen' = e - at - HeadLen
      BY <2>1 DEF TakeHead
    <2>3. e \in Nat /\ at + HeadLen <= e /\ at + HeadLen + bodylen' = e
      BY <2>2 DEF IsFrame, IInv, TypeOK
    <2>4. QED
      BY <2>2, <2>3 DEF IInv, TypeOK
  <1>1. TypeOK'
    BY <1>a DEF IInv, TypeOK
  <1>2. Window'
    BY <1>a DEF IInv, TypeOK, Window
  <1>3. Aligned'
    BY <1>a, <1>b DEF IInv, Aligned, IsFrame
  <1>4. ~lost => Past' = Past /\ at \in reply
    BY <1>a, <1>b DEF IInv, Aligned, Past
  <1>5. InOrder' /\ Complete'
    BY <1>a, <1>4 DEF IInv, InOrder, Complete, DeliveredAreSent, IsSent, IsFrame
  <1>6. QED
    BY <1>1, <1>2, <1>3, <1>5 DEF IInv

LEMMA TakeBodyStep ==
  ASSUME IInv, TakeBody
  PROVE  IInv'
  <1> DEFINE x == [head |-> headAt, from |-> at, to |-> at + bodylen]
             n == Len(list) + 1
  <1> USE ConstantFacts, ReplyFacts
  <1>a. /\ pc = "parse" /\ bodylen > 0 /\ lim - at >= bodylen /\ bodylen' = -1
        /\ at' = at + bodylen /\ list' = Append(list, x)
        /\ UNCHANGED <<format, reply, link, ended, arrived, pc, interest, sent, taken, lim,
                       headAt, notice, lost>>
    BY DEF TakeBody, Remaining, net
  <1>b. /\ x \in [head : Nat, from : Nat, to : Nat] /\ at' \in Nat /\ at' <= lim
        /\ list \in Seq([head : Nat, from : Nat, to : Nat])
    BY <1>a DEF IInv, TypeOK
  <1>c. /\ list' \in Seq([head : Nat, from : Nat, to : Nat])
        /\ DOMAIN list' = 1..n /\ DOMAIN list = 1..Len(list) /\ Len(list) \in Nat
        /\ \A k \in DOMAIN list : list'[k] = list[k]
        /\ list'[n] = x
    BY <1>a, <1>b, AppendFacts
  <1>d. \A k \in DOMAIN list' : k = n \/ k \in DOMAIN list
    BY <1>c
  <1>e. n \in DOMAIN list' /\ list'[n].head = headAt
    <2>1. n \in DOMAIN list'
      BY <1>c, SMT
    <2>2. list'[n] = x /\ x.head = headAt
      BY <1>c
    <2>3. QED
      BY <2>1, <2>2
  <1>1. TypeOK'
    BY <1>a, <1>b, <1>c DEF IInv, TypeOK
  <1>2. Window'
    BY <1>a DEF IInv, TypeOK, Window
  <1>4. ASSUME ~lost
        PROVE  /\ at = headAt + HeadLen /\ IsFrame(reply, headAt, at + bodylen)
               /\ Past = headAt /\ Past' = at + bodylen
    BY <1>4, <1>a DEF IInv, TypeOK, Aligned, Past
  <1>5. Aligned'
    BY <1>a, <1>4 DEF Aligned, IsFrame
  <1>6. InOrder'
    <2>1. SUFFICES ASSUME ~lost
                   PROVE  /\ DeliveredAreSent'
                          /\ \A j, k \in DOMAIN list' : j < k => list'[j].to <= list'[k].head
                          /\ \A k \in DOMAIN list' : list'[k].to <= Past'
      BY <1>a DEF InOrder
    <2>2. DeliveredAreSent'
      BY <1>a, <1>c, <1>d, <1>4, <2>1 DEF IInv, InOrder, DeliveredAreSent, IsSent, IsFrame
    <2>3. \A k \in DOMAIN list : list[k].to <= headAt
      BY <1>4, <2>1 DEF IInv, InOrder
    <2>4. ASSUME NEW j \in DOMAIN list', NEW k \in DOMAIN list', j < k
          PROVE  list'[j].to <= list'[k].head
      <3>1. j \in DOMAIN list
        BY <1>c, <2>4
      <3>2. CASE k = n
        BY <1>c, <2>3, <3>1, <3>2
      <3>3. CASE k \in DOMAIN list
        BY <1>c, <2>1, <2>4, <3>1, <3>3 DEF IInv, InOrder
      <3>4. QED
        BY <1>d, <3>2, <3>3
    <2>5. \A k \in DOMAIN list : list[k].to \in Nat
      BY <1>b, ElementFacts
    <2>6. \A k \in DOMAIN list' : list'[k].to <= Past'
      <3>1. /\ at \in Nat /\ bodylen \in Int /\ headAt \in Nat
            /\ at = headAt + HeadLen /\ bodylen > 0 /\ Past' = at + bodylen
        BY <1>a, <1>4, <2>1 DEF IInv, TypeOK
      <3>2. ASSUME NEW k \in DOMAIN list PROVE list'[k].to <= Past'
        <4>1. list[k].to \in Nat /\ list[k].to <= headAt /\ list'[k] = list[k]
          BY <1>c, <2>3, <2>5
        <4>2. QED
          BY <3>1, <4>1
      <3>3. list'[n].to = at + bodylen
        BY <1>c
      <3>4. QED
        BY <1>d, <3>1, <3>2, <3>3
    <2>7. QED
      BY <2>2, <2>4, <2>6
  <1>7. Complete'
    <2>1. SUFFICES ASSUME ~lost, NEW s \in reply, NEW e \in reply,
                          IsFrame(reply, s, e), s + HeadLen < e, e <= at + bodylen
                   PROVE  \E k \in DOMAIN list' : list'[k].head = s
      BY <1>a, <1>4 DEF Complete, IsFrame
    <2>2. CASE e <= headAt
      <3>1. PICK k \in DOMAIN list : list[k].head = s
        BY <1>4, <2>1, <2>2 DEF IInv, Complete
      <3>2. k \in DOMAIN list' /\ list'[k].head = s
        BY <1>c, <3>1
      <3>3. QED
        BY <3>2
    <2>3. CASE ~(e <= headAt)
      <3>1. /\ headAt \in reply /\ at + bodylen \in reply /\ reply \in Replies
            /\ IsFrame(reply, headAt, at + bodylen)
        BY <1>4, <2>1 DEF IsFrame, IInv, TypeOK
      <3>2. s = headAt \/ e <= headAt \/ at + bodylen <= s
        BY <2>1, <3>1, FramesApart
      <3>3. s \in Nat /\ e \in Nat /\ s < e /\ at + bodylen \in Nat
        BY <2>1, <3>1 DEF IsFrame
      <3>4. s = headAt
        BY <2>1, <2>3, <3>2, <3>3
      <3>5. QED
        BY <1>e, <3>4
    <2>4. QED
      BY <2>2, <2>3
  <1>8. QED
    BY <1>1, <1>2, <1>5, <1>6, <1>7 DEF IInv

LEMMA SkipBodilessStep ==
  ASSUME IInv, SkipBodiless
  PROVE  IInv'
  <1> USE ConstantFacts, ReplyFacts
  <1>a. /\ pc = "parse" /\ bodylen = 0 /\ bodylen' = -1
        /\ UNCHANGED <<format, reply, link, ended, arrived, pc, interest, sent, taken, at, lim,
                       headAt, list, notice, lost>>
    BY DEF SkipBodiless, net
  <1>1. TypeOK' /\ Window'
    BY <1>a DEF IInv, TypeOK, Window
  <1>2. ~lost => at = headAt + HeadLen /\ IsFrame(reply, headAt, at) /\ Past = headAt /\ Past' = at
    BY <1>a DEF IInv, Aligned, Past, TypeOK
  <1>3. Aligned'
    BY <1>a, <1>2 DEF Aligned, IsFrame
  <1>4. InOrder'
    <2>1. \A k \in DOMAIN list : list[k].to \in Nat
      BY ElementFacts DEF IInv, TypeOK
    <2>2. QED
      BY <1>a, <1>2, <2>1 DEF IInv, TypeOK, InOrder, DeliveredAreSent, IsSent, IsFrame
  <1>5. Complete'
    <2>1. SUFFICES ASSUME ~lost, NEW s \in reply, NEW e \in reply,
                          IsFrame(reply, s, e), s + HeadLen < e, e <= at
                   PROVE  \E k \in DOMAIN list : list[k].head = s
      BY <1>a, <1>2 DEF Complete, IsFrame
    <2>2. e <= headAt
      BY <1>2, <2>1, FramesApart DEF IsFrame, IInv, TypeOK
    <2>3. QED
      BY <1>2, <2>1, <2>2 DEF IInv, Complete
  <1>6. QED
    BY <1>1, <1>3, <1>4, <1>5 DEF IInv

LEMMA ReadDoneStep ==
  ASSUME IInv, ReadDone
  PROVE  IInv'
  <1> USE ConstantFacts, ReplyFacts
  <1>a. /\ pc = "parse" /\ pc' \in {"select", "returned"}
        /\ lost' = (lost \/ lim - at > 0)
        /\ notice' \in {"none", "notSent", "noConnection", "undeveloped"}
        /\ UNCHANGED <<format, reply, link, ended, arrived, interest, sent, taken, at, lim,
                       bodylen, headAt, list>>
    BY DEF ReadDone, Return, Remaining, net, IInv, TypeOK
  <1>b. ~lost' => ~lost /\ at = lim
    <2>1. ~lost' => ~lost /\ ~(lim - at > 0)
      BY <1>a
    <2>2. at \in Nat /\ lim \in Nat /\ at <= lim
      BY DEF IInv, TypeOK
    <2>3. ~(lim - at > 0) => at = lim
      BY <2>2
    <2>4. QED
      BY <2>1, <2>3
  <1>1. TypeOK'
    BY <1>a DEF IInv, TypeOK
  <1>2. Window'
    BY <1>a, <1>b DEF IInv, Window
  <1>3. Aligned' /\ InOrder' /\ Complete'
    BY <1>a, <1>b DEF IInv, Aligned, InOrder, Complete, Past, DeliveredAreSent, IsSent, IsFrame
  <1>4. QED
    BY <1>1, <1>2, <1>3 DEF IInv

LEMMA NextIInv == IInv /\ [Next]_vars => IInv'
  <1> SUFFICES ASSUME IInv, [Next]_vars PROVE IInv'
    OBVIOUS
  <1>1. CASE UNCHANGED vars
    <2>1. TypeOK'
      BY <1>1 DEF vars, IInv, TypeOK
    <2>2. QED
      BY <1>1, <2>1, OutsideStep DEF vars, buffer
  <1>2. QED
    BY <1>1, EnvironmentStep, SendDataStep, ReadStep, TakeHeadStep, TakeBodyStep,
       SkipBodilessStep, ReadDoneStep DEF Next, Client

\* The inductive invariant holds in every reachable state.
THEOREM Invariance == Spec => []IInv
  BY InitIInv, NextIInv, PTL DEF Spec

-----------------------------------------------------------------------------
(* The safety properties.                                                  *)

\* Type correctness of the exchange.
THEOREM TypeCorrect == Spec => []TypeOK
  <1>1. IInv => TypeOK
    BY DEF IInv
  <1>2. QED
    BY <1>1, Invariance, PTL

\* Unless a read drops bytes, what is delivered are frames of the reply, in order.
THEOREM AlignedDeliveryHolds == Spec => []AlignedDelivery
  <1>1. IInv => AlignedDelivery
    BY DEF IInv, InOrder, AlignedDelivery
  <1>2. QED
    BY <1>1, Invariance, PTL

\* Unless a read drops bytes, no frame with a body is passed over.
THEOREM NoFrameSkippedHolds == Spec => []NoFrameSkipped
  <1>1. ASSUME IInv PROVE NoFrameSkipped
    <2>1. SUFFICES ASSUME ~lost, NEW s \in reply, NEW e \in reply,
                          IsFrame(reply, s, e), s + HeadLen < e, e <= at
                   PROVE  \E k \in DOMAIN list : list[k].head = s
      BY DEF NoFrameSkipped
    <2>2. e <= Past
      <3>1. CASE bodylen < 0
        BY <3>1, <2>1 DEF Past
      <3>2. CASE ~(bodylen < 0)
        <4>1. at = headAt + HeadLen /\ IsFrame(reply, headAt, at + bodylen)
          BY <1>1, <3>2, <2>1 DEF IInv, Aligned
        <4>2. s = headAt \/ e <= headAt \/ at + bodylen <= s
          BY <1>1, <2>1, <4>1, FramesApart DEF IsFrame, IInv, TypeOK
        <4>3. e <= headAt
          BY <1>1, <2>1, <3>2, <4>1, <4>2, FramesApart, ReplyFacts, ConstantFacts
          DEF IsFrame, IInv, TypeOK
        <4>4. QED
          BY <3>2, <4>3 DEF Past
      <3>3. QED
        BY <3>1, <3>2
    <2>3. QED
      BY <1>1, <2>1, <2>2 DEF IInv, Complete
  <1>2. QED
    BY <1>1, Invariance, PTL
=============================================================================
