\* Input messages of up to three deals, output messages of one.
SPECIFICATION Spec
CONSTANTS
  Trees <- MCInTrees
  Garbage = {0, 65, 80}
  MaxDeals = 3
  Outs = {TRUE, FALSE}
  Combineds = {TRUE, FALSE}
INVARIANTS UpToTwoDealsPatched SavingKeepsDeals
\* A save ends.
CHECK_DEADLOCK FALSE
