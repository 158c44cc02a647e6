\* Replies of up to 8 bytes, in every cutting, through a buffer of 5 bytes.
SPECIFICATION FairSpec
CONSTANTS
  Replies <- MCReplies
  MaxReply = 8
  RequestLen = 2
  BufferSize = 5
  MaxHead = 4
INVARIANTS AlignedDelivery NoFrameSkipped
PROPERTIES FailedLinkReturns ReplyInOneReadReturns BodyInNextReadReturns
\* The exchange ends, and an agent that never answers leaves the client waiting.
CHECK_DEADLOCK FALSE
