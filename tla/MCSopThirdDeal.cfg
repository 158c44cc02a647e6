\* Combined input messages of up to three deals.
SPECIFICATION Spec
CONSTANTS
  Trees <- MCInTrees
  Garbage = {0, 65, 80}
  MaxDeals = 3
  Outs = {FALSE}
  Combineds = {TRUE}
INVARIANT PatchesHitLengthFields
\* A save ends.
CHECK_DEADLOCK FALSE
