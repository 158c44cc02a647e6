----------------------------- MODULE AttClient -----------------------------
(***************************************************************************)
(* One exchange of web/client/ATTClient: sendData connects to the          *)
(* intermediate agent, writes the request and runs a selector loop until   *)
(* a read has produced something to return.                                *)
(*                                                                         *)
(* The reply is a TCP byte stream cut into frames.  A frame begins with a  *)
(* two-byte header that holds the length of the whole frame, header        *)
(* included.  Bytes are known by their position in the stream: a reply is  *)
(* the set of the positions at which its frames start, closed by the       *)
(* position just after its last byte.  What two bytes taken elsewhere than *)
(* at a frame start mean as a header is arbitrary.                         *)
(*                                                                         *)
(* The agent and the network are the environment: they may refuse or lose  *)
(* the connection, take part of the request only, and deliver the reply in *)
(* pieces of any size at any time.                                         *)
(***************************************************************************)
EXTENDS Integers, Sequences

CONSTANTS Replies,      \* the replies the agent may send
          RequestLen,   \* bytes of the request
          BufferSize,   \* capacity of the ByteBuffer of read (1024)
          MaxHead       \* bound on the header values read off a frame start

\* MESSAGE_LENGTH_HEAD
HeadLen == 2

\* The bytes s..e-1 are a frame of the reply r.
IsFrame(r, s, e) == s \in r /\ e \in r /\ s < e /\ \A m \in r : m <= s \/ e <= m

ASSUME ClientAssumption ==
  /\ RequestLen \in Nat \ {0}
  /\ BufferSize \in Nat /\ BufferSize >= HeadLen
  /\ MaxHead \in Nat
  /\ \A r \in Replies :
       /\ r \subseteq Nat /\ 0 \in r
       /\ \A m \in r : (\A n \in r : n <= m) \/ \E e \in r : IsFrame(r, m, e)
       /\ \A s, e \in r : s < e => s + HeadLen <= e
       /\ \E m \in r : \A n \in r : n <= m

VARIABLES
  format,    \* dataFormat of the case
  reply,     \* the frame starts of the agent's reply
  pc,        \* where sendData is
  link,      \* the connection as the operating system reports it
  ended,     \* whether the agent has ended the connection
  interest,  \* interestOps of the selection key
  sent,      \* bytes of the request that channel.write has taken
  arrived,   \* bytes of the reply that have reached this host
  taken,     \* bytes that socket.read has taken so far
  at, lim,   \* position and limit of the buffer of read, as stream positions
  bodylen,   \* the field bodylen
  headAt,    \* where the two bytes in the field head come from
  list,      \* the frames read has put in its list
  notice,    \* the text returned instead of frames
  lost       \* history only: some read left bytes of its buffer unread

vars == <<format, reply, pc, link, ended, interest, sent, arrived, taken, at, lim,
          bodylen, headAt, list, notice, lost>>

net == <<reply, link, ended, arrived>>
buffer == <<taken, at, lim, bodylen, headAt, list, lost>>

Formats == {"insop", "outsop", "xml", "json"}

EndOf(r) == CHOOSE m \in r : \A n \in r : n <= m

Init ==
  /\ format \in Formats
  /\ reply \in Replies
  /\ pc = "start"
  /\ link = "none" /\ ended = "open" /\ interest = "connect"
  /\ sent = 0 /\ arrived = 0 /\ taken = 0
  /\ at = 0 /\ lim = 0
  /\ bodylen = -1 /\ headAt = 0
  /\ list = <<>> /\ notice = "none"
  /\ lost = FALSE

-----------------------------------------------------------------------------
(* The agent and the network.                                              *)

LinkResolved ==
  /\ link = "pending"
  /\ link' \in {"up", "refused", "unreachable"}
  /\ UNCHANGED <<format, reply, pc, ended, interest, sent, arrived, buffer, notice>>

\* The agent answers a request it has received whole.
Arrive ==
  /\ link = "up" /\ ended = "open" /\ sent = RequestLen
  /\ arrived' \in arrived + 1 .. EndOf(reply)
  /\ UNCHANGED <<format, reply, pc, link, ended, interest, sent, buffer, notice>>

Ends ==
  /\ link = "up" /\ ended = "open"
  /\ ended' \in {"closed", "reset"}
  /\ UNCHANGED <<format, reply, pc, link, interest, sent, arrived, buffer, notice>>

-----------------------------------------------------------------------------
(* sendData                                                                *)

Return(n) == pc' = "returned" /\ notice' = n

\* An output message is not sent; any other opens a channel, which may fail.
Start ==
  /\ pc = "start"
  /\ \/ format = "outsop" /\ Return("notSent") /\ UNCHANGED link
     \/ format # "outsop" /\ Return("none") /\ UNCHANGED link
     \/ format # "outsop" /\ pc' = "select" /\ link' = "pending" /\ UNCHANGED notice
  /\ UNCHANGED <<format, reply, ended, interest, sent, arrived, buffer>>

\* key.isConnectable().  A ConnectException is noted and closes the channel, so
\* that configureBlocking ends the method; any other IOException ends it with
\* an empty list.  The number of bytes write has taken is not looked at.
FinishConnectStays ==
  /\ pc = "select" /\ interest = "connect"
  /\ \/ /\ link = "up"
        /\ sent' \in 0..RequestLen
        /\ interest' = "read"
        /\ UNCHANGED <<pc, notice>>
     \/ link = "refused" /\ notice' = "noConnection" /\ UNCHANGED <<pc, sent, interest>>
     \/ link = "unreachable" /\ Return("none") /\ UNCHANGED <<sent, interest>>
  /\ UNCHANGED <<format, net, buffer>>
FinishConnect ==
  /\ pc = "select" /\ interest = "connect"
  /\ \/ /\ link = "up"
        /\ sent' \in 0..RequestLen
        /\ interest' = "read"
        /\ UNCHANGED <<pc, notice>>
     \/ link = "refused" /\ Return("noConnection") /\ UNCHANGED <<sent, interest>>
     \/ link = "unreachable" /\ Return("none") /\ UNCHANGED <<sent, interest>>
  /\ UNCHANGED <<format, net, buffer>>

\* Writing to, or reading from, a connection the agent has reset.
LinkFails ==
  /\ pc = "select" /\ link = "up" /\ ended = "reset"
  /\ Return("none")
  /\ UNCHANGED <<format, net, interest, sent, buffer>>

Readable == arrived > taken \/ ended = "closed"

Least(a, b) == IF a <= b THEN a ELSE b

ReadHoldsFrame ==
  /\ pc = "select" /\ interest = "read" /\ Readable
  /\ at' = taken
  /\ lim' = Least(arrived, taken + BufferSize - HeadLen)
  /\ taken' = lim'
  /\ IF format = "insop"
     THEN pc' = "parse" /\ UNCHANGED notice
     ELSE Return("undeveloped")
  /\ UNCHANGED <<format, net, interest, sent, bodylen, headAt, list, lost>>

ReadForgetsHead ==
  /\ pc = "select" /\ interest = "read" /\ Readable
  /\ at' = taken
  /\ lim' = Least(arrived, taken + BufferSize)
  /\ taken' = lim'
  /\ bodylen' = -1
  /\ IF format = "insop"
     THEN pc' = "parse" /\ UNCHANGED notice
     ELSE Return("undeveloped")
  /\ UNCHANGED <<format, net, interest, sent, headAt, list, lost>>

\* key.isReadable(): read allocates a new buffer and fills it with what has
\* arrived; nothing at all after the agent has closed.
Read ==
  /\ pc = "select" /\ interest = "read" /\ Readable
  /\ at' = taken
  /\ lim' = Least(arrived, taken + BufferSize)
  /\ taken' = lim'
  /\ IF format = "insop"
     THEN pc' = "parse" /\ UNCHANGED notice
     ELSE Return("undeveloped")
  /\ UNCHANGED <<format, net, interest, sent, bodylen, headAt, list, lost>>

-----------------------------------------------------------------------------
(* The loop of read over one buffer, for insop.                            *)

Remaining == lim - at

\* input.get(head, 0, 2): the header of a frame is its length.
TakeHeadWithoutOwnLength ==
  /\ pc = "parse" /\ bodylen < 0 /\ Remaining >= HeadLen
  /\ headAt' = at
  /\ at' = at + HeadLen
  /\ \/ \E e \in reply : IsFrame(reply, at, e) /\ bodylen' = e - at
     \/ /\ at \notin reply
        /\ \E h \in 0..MaxHead : bodylen' = h
  /\ UNCHANGED <<format, net, pc, interest, sent, taken, lim, list, notice, lost>>
TakeHead ==
  /\ pc = "parse" /\ bodylen < 0 /\ Remaining >= HeadLen
  /\ headAt' = at
  /\ at' = at + HeadLen
  /\ \/ \E e \in reply : IsFrame(reply, at, e) /\ bodylen' = e - at - HeadLen
     \/ /\ at \notin reply
        /\ \E h \in 0..MaxHead : bodylen' = h - HeadLen
  /\ UNCHANGED <<format, net, pc, interest, sent, taken, lim, list, notice, lost>>

TakeBodyKeepsLen ==
  /\ pc = "parse" /\ bodylen > 0 /\ Remaining >= bodylen
  /\ at' = at + bodylen
  /\ list' = Append(list, [head |-> headAt, from |-> at, to |-> at + bodylen])
  /\ UNCHANGED <<format, net, pc, interest, sent, taken, lim, bodylen, headAt, notice, lost>>
TakeBody ==
  /\ pc = "parse" /\ bodylen > 0 /\ Remaining >= bodylen
  /\ at' = at + bodylen
  /\ list' = Append(list, [head |-> headAt, from |-> at, to |-> at + bodylen])
  /\ bodylen' = -1
  /\ UNCHANGED <<format, net, pc, interest, sent, taken, lim, headAt, notice, lost>>

\* A frame of a header only: nothing is put in the list.  The loop comes here
\* only while the buffer holds more bytes.
SkipBodiless ==
  /\ pc = "parse" /\ bodylen = 0 /\ Remaining > 0
  /\ bodylen' = -1
  /\ UNCHANGED <<format, net, pc, interest, sent, taken, at, lim, headAt, list, notice, lost>>

\* The loop ends or breaks: too few bytes are left for a header or for the
\* body.  What is left in the buffer goes with it.  sendData returns the list
\* unless it is empty.
ReadDone ==
  /\ pc = "parse"
  /\ \/ Remaining = 0
     \/ bodylen < 0 /\ Remaining < HeadLen
     \/ bodylen > 0 /\ Remaining < bodylen
  /\ lost' = (lost \/ Remaining > 0)
  /\ IF list # <<>> THEN Return("none") ELSE pc' = "select" /\ UNCHANGED notice
  /\ UNCHANGED <<format, net, interest, sent, taken, at, lim, bodylen, headAt, list>>

Client ==
  \/ Start \/ FinishConnect \/ LinkFails \/ Read
  \/ TakeHead \/ TakeBody \/ SkipBodiless \/ ReadDone

Next == Client \/ LinkResolved \/ Arrive \/ Ends

Spec == Init /\ [][Next]_vars

\* The request thread keeps running; nothing is assumed of the agent.
FairSpec == Spec /\ WF_vars(Client)

-----------------------------------------------------------------------------
(* Properties                                                              *)

TypeOK ==
  /\ format \in Formats /\ reply \in Replies
  /\ pc \in {"start", "select", "parse", "returned"}
  /\ link \in {"none", "pending", "up", "refused", "unreachable"}
  /\ ended \in {"open", "closed", "reset"}
  /\ interest \in {"connect", "read"}
  /\ sent \in 0..RequestLen
  /\ arrived \in Nat /\ taken \in 0..arrived
  /\ at \in Nat /\ lim \in Nat /\ at <= lim /\ lim <= taken
  /\ bodylen \in Int /\ headAt \in Nat
  /\ list \in Seq([head : Nat, from : Nat, to : Nat])
  /\ notice \in {"none", "notSent", "noConnection", "undeveloped"}
  /\ lost \in BOOLEAN

IsSent(f) == f.from = f.head + HeadLen /\ IsFrame(reply, f.head, f.to)

\* What read puts in the list is a frame of the reply, header and body: the
\* rule stated above its loop.
DeliveredAreSent == \A k \in DOMAIN list : IsSent(list[k])

\* As long as no read has left bytes behind in its buffer, the rule holds:
\* everything delivered is a frame of the reply, in the order of the reply.
AlignedDelivery ==
  ~lost => /\ DeliveredAreSent
           /\ \A j, k \in DOMAIN list : j < k => list[j].to <= list[k].head

\* As long as no read has left bytes behind, no frame with a body that the
\* client has gone past is missing from what it delivers, over all its reads.
NoFrameSkipped ==
  ~lost => \A s, e \in reply :
             IsFrame(reply, s, e) /\ s + HeadLen < e /\ e <= at
             => \E k \in DOMAIN list : list[k].head = s

\* A connection that is refused, impossible or reset ends the exchange.
FailedLinkReturns ==
  link \in {"refused", "unreachable"} \/ ended = "reset" ~> pc = "returned"

\* A reply that has arrived whole before the first read, and whose first frame
\* with a body fits the buffer, is returned.
ReplyInOneReadReturns ==
  (/\ format = "insop" /\ pc = "select" /\ interest = "read" /\ taken = 0
   /\ arrived = EndOf(reply)
   /\ \E s, e \in reply : IsFrame(reply, s, e) /\ s + HeadLen < e /\ e <= BufferSize)
  ~> (pc = "returned" /\ (list # <<>> \/ ended = "reset"))

\* The case the comment above the loop of read is written for: a header has
\* been taken by one read, its body comes with the next.  A body that is there
\* whole is then returned, up to the longest that can be, one of exactly the
\* buffer's size; a longer one's length would wait in bodylen for ever.
BodyInNextReadReturns ==
  (/\ pc = "select" /\ interest = "read" /\ ~lost
   /\ bodylen \in 1..BufferSize /\ arrived >= taken + bodylen)
  ~> (pc = "returned" /\ (list # <<>> \/ ended = "reset"))
=============================================================================
