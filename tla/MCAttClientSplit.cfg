\* The rule of the comment above the loop of read.
SPECIFICATION Spec
CONSTANTS
  Replies <- MCReplies
  MaxReply = 8
  RequestLen = 2
  BufferSize = 5
  MaxHead = 4
INVARIANT DeliveredAreSent
CHECK_DEADLOCK FALSE
