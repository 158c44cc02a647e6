\* Two groups, two businesses, a user of five acts and one change by others.
SPECIFICATION Spec
CONSTANTS
  Groups = {g1, g2}
  Businesses = {b1, b2}
  Root = Root
  None = None
  Tabs <- MCItems
  Hidden = Hidden
  NoTab = NoTab
  MaxActs = 5
  MaxOthers = 1
  MaxCalls = 2
SYMMETRY Interchangeable
INVARIANTS OneBranchOpen SelectionMarked PopupInStep PaintedInStep BarShowsView TreeConsistent
PROPERTIES VanishesOnly
\* The user may do nothing more, and the page may have gone astray.
CHECK_DEADLOCK FALSE
