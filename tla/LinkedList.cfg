SPECIFICATION Spec
CONSTANTS
  Heads = {h1, h2}
  Entries = {e1, e2, e3, e4}
  Poison = Poison
SYMMETRY Symmetry
INVARIANTS Ring VisitsPlan
PROPERTIES ImplementsLists
