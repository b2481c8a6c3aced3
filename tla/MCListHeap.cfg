CONSTANTS
  l1 = l1
  l2 = l2
  e1 = e1
  e2 = e2
  e3 = e3
  Lists = {l1, l2}
  Entries = {e1, e2, e3}
  Key <- MCKey
  NextPoison = NextPoison
  PrevPoison = PrevPoison
SPECIFICATION Spec
SYMMETRY Symmetry
INVARIANTS
  Rings
  QueriesAgree
PROPERTY ImplementsOrderedLists
