\* Two request threads, three requests over a small tree, with the fairness of the
\* request threads; no symmetry, because a liveness property is checked.
SPECIFICATION FairSpec
CONSTANTS
  w1 = w1
  w2 = w2
  c1 = c1
  b1 = b1
  b2 = b2
  g1 = g1
  g2 = g2
  k1 = k1
  k2 = k2
  Workers = {w1, w2}
  Colls = {c1}
  Buses = {b1, b2}
  CaseColls = {g1, g2}
  Cases = {k1, k2}
  Root = Root
  Absent = Absent
  Clean = Clean
  None = None
  Start <- MCStart
  MaxRequests = 3
INVARIANTS AnswersAreTrue RemovesOnlyBelowTarget
PROPERTIES NoResurrection ImplementsCatalog QuietRemoveTakesSubtree OrphansWereRaced RequestsEnd
\* The bound on requests stops the run.
CHECK_DEADLOCK FALSE
