\* Three uploads, two request threads; every small document on its own.
SPECIFICATION Spec
CONSTANTS
  q1 = q1
  q2 = q2
  q3 = q3
  Parses = {q1, q2, q3}
  Documents <- Family
  MaxLen = 4
  MaxActive = 2
  Malformed = Malformed
  Null = Null
  None = None
CONSTRAINT SmallRaces
SYMMETRY ParseSymmetry
INVARIANTS AloneIsRight Healed
\* Every parse ends.
CHECK_DEADLOCK FALSE
